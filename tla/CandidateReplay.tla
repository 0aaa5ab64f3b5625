-------------------------- MODULE CandidateReplay --------------------------
(***************************************************************************)
(* The parallel part of `select_payload_plan_impl` (payload/decrypt/        *)
(* replay.rs): every prefix-viable chain of an AES context, a decoder and a *)
(* byte transform is replayed over all payload blocks.  The candidates are  *)
(* dealt round robin to lanes that rayon runs concurrently; each lane owns  *)
(* one scratch image that it reuses, resetting the destinations of the      *)
(* blocks before every candidate but its first.  The results are joined,    *)
(* and exactly one candidate must have authenticated; its replay is then    *)
(* repeated on a fresh image.                                              *)
(*                                                                         *)
(* A coded block is decoded with the bytes before its destination as        *)
(* history, so a replay depends on what the image holds there.  An image    *)
(* is abstracted to who wrote each cell last; with the history of a replay  *)
(* from the mapped image a block's decoding succeeds or not as `fate` says, *)
(* with any other history either may happen.                               *)
(***************************************************************************)
EXTENDS Integers, Sequences

CONSTANTS
  NumCandidates,   \* the prefix-viable chains
  NumThreads,      \* rayon::current_num_threads
  NumCells,        \* the cells of the mapped image
  Layouts          \* the block tables a run may have

Candidates == 1..NumCandidates
Cells      == 0..(NumCells - 1)

\* PayloadBlock: the destination, and whether the block is coded or merely copied.
Block == [at : Cells, len : Nat, coded : BOOLEAN]

ASSUME CountsArePositive ==
  /\ NumCandidates \in Nat \ {0} /\ NumThreads \in Nat \ {0} /\ NumCells \in Nat \ {0}
ASSUME LayoutsAreTyped ==
  /\ Layouts \subseteq Seq(Block)
  /\ \A l \in Layouts : \A i \in DOMAIN l : l[i].at + l[i].len <= NumCells

Mapped == 0    \* the writer of a cell no replay has written

VARIABLES
  blocks,     \* the payload-block table
  fate,       \* the block each candidate is rejected at on a clean image, or 0
  workers,    \* the lanes with a scratch, or 0 before they are allocated
  candidate,  \* the candidate each lane is at
  block,      \* the block each lane is at
  dirty,      \* whether a lane's scratch was written
  image,      \* a lane's scratch image: the last writer of each cell
  lane,       \* a lane's place
  verdict,    \* the CandidateReplayResult of each candidate
  cancelled,  \* CancellationToken
  outcome     \* what the selection returned

vars == <<blocks, fate, workers, candidate, block, dirty, image, lane, verdict,
          cancelled, outcome>>

Lanes == 1..workers

Verdicts == {"none", "Rejected", "Authenticated", "Cancelled"}

Pending     == [status |-> "pending",  candidate |-> 0]
Ended(why)  == [status |-> why,        candidate |-> 0]
Chosen(c)   == [status |-> "chosen",   candidate |-> c]
Selected(c) == [status |-> "selected", candidate |-> c]

OutcomeType ==
  [status : {"pending", "chosen", "selected", "NoChain", "Ambiguous", "Cancelled", "Failed"},
   candidate : Candidates \cup {0}]

Coded(table) == {i \in DOMAIN table : table[i].coded}
CleanImage == [x \in Cells |-> Mapped]

TypeOK ==
  /\ blocks \in Layouts
  /\ fate \in [Candidates -> Coded(blocks) \cup {0}]
  /\ workers \in 0..NumCandidates
  /\ candidate \in [Lanes -> 1..(2 * NumCandidates)]
  /\ block \in [Lanes -> 1..(Len(blocks) + 1)]
  /\ dirty \in [Lanes -> BOOLEAN]
  /\ image \in [Lanes -> [Cells -> Candidates \cup {Mapped}]]
  /\ lane \in [Lanes -> {"next", "replay", "ended"}]
  /\ verdict \in [Candidates -> Verdicts]
  /\ cancelled \in BOOLEAN
  /\ outcome \in OutcomeType

Init ==
  /\ blocks \in Layouts
  /\ fate \in [Candidates -> Coded(blocks) \cup {0}]
  /\ workers = 0
  /\ candidate = <<>> /\ block = <<>> /\ dirty = <<>> /\ image = <<>> /\ lane = <<>>
  /\ verdict = [c \in Candidates |-> "none"]
  /\ cancelled = FALSE
  /\ outcome = Pending

-----------------------------------------------------------------------------
(***************************************************************************)
(* Destinations, and the history a coded block is decoded with.            *)
(***************************************************************************)
Destination(b) == b.at..(b.at + b.len - 1)

\* Mutated ResetCells: copied blocks, which are not decoded, are not reset.
ResetCellsOfCoded == UNION {Destination(blocks[i]) : i \in Coded(blocks)}

\* merged_payload_block_destination_ranges.
ResetCells == UNION {Destination(blocks[i]) : i \in DOMAIN blocks}

History(img, b) == IF b.at = 0 THEN Mapped ELSE img[b.at - 1]

\* The history of block i when candidate c replays on the mapped image.
CleanHistory(c, i) ==
  IF \E j \in 1..(i - 1) : blocks[i].at - 1 \in Destination(blocks[j]) THEN c ELSE Mapped

\* The results the decoder can give for block i: does it decode?
Decodes(c, i, img) ==
  IF ~blocks[i].coded THEN {TRUE}
  ELSE IF History(img, blocks[i]) = CleanHistory(c, i) THEN {fate[c] # i}
  ELSE BOOLEAN

\* What candidate c leaves of block i: all of it, or a prefix when the decoder gives up.
Write(img, c, i, len) ==
  [x \in Cells |-> IF x \in blocks[i].at..(blocks[i].at + len - 1) THEN c ELSE img[x]]

WrittenLengths(i, decodes) == IF decodes THEN {blocks[i].len} ELSE 0..blocks[i].len

-----------------------------------------------------------------------------
(***************************************************************************)
(* candidate_replay_worker_count and the allocation of the scratches: any   *)
(* number up to the candidates and the threads, as memory allows; none at   *)
(* all is an error.                                                        *)
(***************************************************************************)
\* Mutated WorkerCounts: not limited by the number of candidates.
WorkerCountsByThreads == 1..NumThreads

WorkerCounts == {n \in 1..NumThreads : n <= NumCandidates}

AllocateScratches ==
  /\ outcome = Pending /\ workers = 0
  /\ \/ /\ \E n \in WorkerCounts :
             /\ workers' = n
             /\ candidate' = [w \in 1..n |-> w]
             /\ block' = [w \in 1..n |-> 1]
             /\ dirty' = [w \in 1..n |-> FALSE]
             /\ image' = [w \in 1..n |-> CleanImage]
             /\ lane' = [w \in 1..n |-> "next"]
        /\ UNCHANGED outcome
     \/ /\ outcome' = Ended("Failed")
        /\ UNCHANGED <<workers, candidate, block, dirty, image, lane>>
  /\ UNCHANGED <<blocks, fate, verdict, cancelled>>

\* A lane takes its next candidate, and resets its scratch if it is dirty.
BeginCandidate(w) ==
  /\ lane[w] = "next" /\ candidate[w] <= NumCandidates
  /\ image' = [image EXCEPT ![w] = [x \in Cells |->
                 IF dirty[w] /\ x \in ResetCells THEN Mapped ELSE @[x]]]
  /\ dirty' = [dirty EXCEPT ![w] = TRUE]
  /\ block' = [block EXCEPT ![w] = 1]
  /\ lane' = [lane EXCEPT ![w] = "replay"]
  /\ UNCHANGED <<blocks, fate, workers, candidate, verdict, cancelled, outcome>>

\* The candidate's result; the lane goes on to its next candidate, `workers` further.
FinishCandidate(w, result) ==
  /\ verdict' = [verdict EXCEPT ![candidate[w]] = result]
  /\ candidate' = [candidate EXCEPT ![w] = @ + workers]
  /\ lane' = [lane EXCEPT ![w] = "next"]

\* chain_replays: one block, after a look at the token.
ReplayBlock(w) ==
  /\ lane[w] = "replay" /\ block[w] <= Len(blocks)
  /\ ~cancelled
  /\ \E decodes \in Decodes(candidate[w], block[w], image[w]) :
       /\ \E len \in WrittenLengths(block[w], decodes) :
            image' = [image EXCEPT ![w] = Write(@, candidate[w], block[w], len)]
       /\ \/ /\ decodes
             /\ block' = [block EXCEPT ![w] = @ + 1]
             /\ UNCHANGED <<verdict, candidate, lane>>
          \/ /\ ~decodes
             /\ FinishCandidate(w, "Rejected")
             /\ UNCHANGED block
  /\ UNCHANGED <<blocks, fate, workers, dirty, cancelled, outcome>>

AuthenticateCandidate(w) ==
  /\ lane[w] = "replay" /\ block[w] = Len(blocks) + 1
  /\ FinishCandidate(w, "Authenticated")
  /\ UNCHANGED <<blocks, fate, workers, block, dirty, image, cancelled, outcome>>

\* An error, which only the token can cause, ends the lane.
CancelLane(w) ==
  /\ lane[w] = "replay" /\ block[w] <= Len(blocks)
  /\ cancelled
  /\ verdict' = [verdict EXCEPT ![candidate[w]] = "Cancelled"]
  /\ lane' = [lane EXCEPT ![w] = "ended"]
  /\ UNCHANGED <<blocks, fate, workers, candidate, block, dirty, image, cancelled, outcome>>

EndLane(w) ==
  /\ lane[w] = "next" /\ candidate[w] > NumCandidates
  /\ lane' = [lane EXCEPT ![w] = "ended"]
  /\ UNCHANGED <<blocks, fate, workers, candidate, block, dirty, image, verdict,
                 cancelled, outcome>>

LaneStep(w) ==
  BeginCandidate(w) \/ ReplayBlock(w) \/ AuthenticateCandidate(w)
    \/ CancelLane(w) \/ EndLane(w)

-----------------------------------------------------------------------------
(***************************************************************************)
(* The join: a checkpoint, then the results in ordinal order.              *)
(***************************************************************************)
\* Mutated AllLanesEnded: waits for every candidate instead of every lane.
AllCandidatesReplayed == \A c \in Candidates : verdict[c] # "none"

AllLanesEnded == \A w \in Lanes : lane[w] = "ended"

Authenticated == {c \in Candidates : verdict[c] = "Authenticated"}

\* Mutated Choose: the first to authenticate is taken, the others are not counted.
ChooseFirst ==
  IF Authenticated = {} THEN Ended("NoChain")
  ELSE Chosen(CHOOSE c \in Authenticated : \A d \in Authenticated : c <= d)

Choose ==
  IF Authenticated = {} THEN Ended("NoChain")
  ELSE IF \E c, d \in Authenticated : c # d THEN Ended("Ambiguous")
  ELSE Chosen(CHOOSE c \in Authenticated : TRUE)

Join ==
  /\ outcome = Pending /\ workers > 0
  /\ AllLanesEnded
  /\ outcome' = IF cancelled THEN Ended("Cancelled") ELSE Choose
  /\ UNCHANGED <<blocks, fate, workers, candidate, block, dirty, image, lane, verdict, cancelled>>

(***************************************************************************)
(* The chosen chain replayed once more, on a fresh image: it can only be    *)
(* cancelled, or fail to allocate, as its history is always the clean one.  *)
(***************************************************************************)
MaterializeSelected ==
  /\ outcome.status = "chosen"
  /\ \/ outcome' = IF fate[outcome.candidate] = 0
                    THEN Selected(outcome.candidate) ELSE Ended("Failed")
     \/ cancelled /\ outcome' = Ended("Cancelled")
     \/ outcome' = Ended("Failed")
  /\ UNCHANGED <<blocks, fate, workers, candidate, block, dirty, image, lane, verdict, cancelled>>

Returned == outcome.status \notin {"pending", "chosen"}

Cancel ==
  /\ ~cancelled /\ ~Returned
  /\ cancelled' = TRUE
  /\ UNCHANGED <<blocks, fate, workers, candidate, block, dirty, image, lane, verdict, outcome>>

Stopped == Returned /\ UNCHANGED vars

Caller == AllocateScratches \/ Join \/ MaterializeSelected

Next == Caller \/ (\E w \in Lanes : LaneStep(w)) \/ Cancel \/ Stopped

(***************************************************************************)
(* Fairness: rayon runs every lane it was given, and the caller waits only  *)
(* for them.                                                               *)
(***************************************************************************)
Spec ==
  /\ Init /\ [][Next]_vars
  /\ WF_vars(Caller)
  /\ \A w \in Candidates : WF_vars(w \in Lanes /\ LaneStep(w))

-----------------------------------------------------------------------------
(***************************************************************************)
(* Properties.                                                             *)
(***************************************************************************)

(***************************************************************************)
(* A candidate's result is the one it has alone on a fresh image: no lane's *)
(* earlier candidate leaks into it through the reused scratch               *)
(* (CandidateScratch::reset, chain_replays).                               *)
(***************************************************************************)
VerdictIsItsOwn ==
  \A c \in Candidates :
    /\ verdict[c] = "Authenticated" => fate[c] = 0
    /\ verdict[c] = "Rejected" => fate[c] # 0

(***************************************************************************)
(* However many lanes there were and however they interleaved, the result   *)
(* is that of replaying every candidate alone, in order: no candidate that  *)
(* was not replayed is taken for a rejected one, and what is not so decided *)
(* was cancelled or ran out of memory (select_payload_plan_impl).           *)
(***************************************************************************)
Viable == {c \in Candidates : fate[c] = 0}

SelectionIsSequential ==
  /\ outcome.status \in {"chosen", "selected"} => Viable = {outcome.candidate}
  /\ outcome.status = "Ambiguous" => \E c, d \in Viable : c # d
  /\ outcome.status = "NoChain" => Viable = {}
  /\ outcome.status = "Cancelled" => cancelled

(***************************************************************************)
(* The selection ends: the join waits for no lane that gave up.             *)
(***************************************************************************)
SelectionEnds == <>Returned
=============================================================================
