----------------------- MODULE CandidateReplayProofs -----------------------
(***************************************************************************)
(* Proofs about CandidateReplay, for every number of candidates, threads    *)
(* and cells and every set of block tables: the types, that a candidate's   *)
(* verdict is the one it has alone although its lane reuses a scratch, and  *)
(* that the selection is the sequential one although the lanes interleave.  *)
(***************************************************************************)
EXTENDS CandidateReplay, TLAPS

(***************************************************************************)
(* The inductive invariant.                                                *)
(***************************************************************************)
\* The cells the first n blocks write.
Written(n) == UNION {Destination(blocks[j]) : j \in 1..n}

\* What a lane's scratch holds: within a replay exactly what the candidate
\* wrote, and between two of them nothing a reset would leave behind.
ScratchInv(w) ==
  /\ lane[w] = "replay" =>
       /\ dirty[w] /\ candidate[w] \in Candidates
       /\ fate[candidate[w]] \notin 1..(block[w] - 1)
       /\ \A x \in Cells : image[w][x] = IF x \in Written(block[w] - 1) THEN candidate[w] ELSE Mapped
  /\ \A x \in Cells \ ResetCells : image[w][x] = Mapped
  /\ ~dirty[w] => \A x \in Cells : image[w][x] = Mapped

\* The candidates a lane still has before it: every workers-th.
Ahead(w) == {c \in Candidates : \E k \in Nat : c = candidate[w] + k * workers}

\* Without a cancellation, every candidate is decided or lies ahead of a lane.
DealtInv ==
  workers > 0 /\ ~cancelled =>
    \A c \in Candidates :
      \/ verdict[c] \in {"Rejected", "Authenticated"}
      \/ \E w \in Lanes : lane[w] # "ended" /\ c \in Ahead(w)

IInv ==
  /\ TypeOK
  /\ \A w \in Lanes : ScratchInv(w)
  /\ VerdictIsItsOwn
  /\ DealtInv
  /\ SelectionIsSequential

-----------------------------------------------------------------------------
\* Dealing round robin reaches every candidate.
LEMMA EveryCandidateIsDealt ==
  ASSUME NEW n \in Nat \ {0}, NEW c \in Nat \ {0}
  PROVE  \E w \in 1..n : \E k \in Nat : c = w + k * n
<1>. DEFINE w == ((c - 1) % n) + 1
            k == (c - 1) \div n
<1>1. (c - 1) % n \in 0..(n - 1) /\ (c - 1) \div n \in Nat
  OBVIOUS
<1>2. c - 1 = n * ((c - 1) \div n) + ((c - 1) % n)
  OBVIOUS
<1>3. w \in 1..n /\ k \in Nat /\ c = w + k * n
  BY <1>1, <1>2
<1>. QED
  BY <1>3

\* The block table is a sequence of blocks inside the image, and a fate is a block or 0.
LEMMA BlocksAreBlocks ==
  ASSUME TypeOK
  PROVE  /\ Len(blocks) \in Nat /\ DOMAIN blocks = 1..Len(blocks)
         /\ \A i \in 1..Len(blocks) :
              /\ blocks[i] \in Block /\ blocks[i].at \in 0..(NumCells - 1)
              /\ blocks[i].len \in Nat /\ blocks[i].coded \in BOOLEAN
              /\ blocks[i].at + blocks[i].len <= NumCells
              /\ Destination(blocks[i]) \subseteq ResetCells
         /\ \A c \in Candidates : fate[c] \in 0..Len(blocks)
<1>1. blocks \in Seq(Block)
  BY LayoutsAreTyped DEF TypeOK
<1>2. Len(blocks) \in Nat /\ DOMAIN blocks = 1..Len(blocks)
  BY <1>1
<1>3. \A i \in 1..Len(blocks) : blocks[i] \in Block
  BY <1>1
<1>4. \A i \in 1..Len(blocks) : Destination(blocks[i]) \subseteq ResetCells
  BY <1>2 DEF ResetCells
<1>5. \A c \in Candidates : fate[c] \in 0..Len(blocks)
  BY <1>2 DEF TypeOK, Coded
<1>6. \A i \in 1..Len(blocks) : blocks[i].at + blocks[i].len <= NumCells
  BY <1>2, LayoutsAreTyped DEF TypeOK
<1>. QED
  BY <1>2, <1>3, <1>4, <1>5, <1>6 DEF Block, Cells

\* On the scratch of a candidate that is being replayed the history is the clean one.
LEMMA HistoryIsClean ==
  ASSUME TypeOK, NEW w \in Lanes, ScratchInv(w), lane[w] = "replay",
         block[w] \in 1..Len(blocks)
  PROVE  History(image[w], blocks[block[w]]) = CleanHistory(candidate[w], block[w])
<1>. DEFINE i == block[w]
            at == blocks[i].at
<1>1. i \in 1..Len(blocks) /\ at \in 0..(NumCells - 1) /\ NumCells \in Nat
  BY BlocksAreBlocks, CountsArePositive
<1>2. CASE at = 0
  <2>1. \A j \in 1..(i - 1) : at - 1 \notin Destination(blocks[j])
    <3>1. ASSUME NEW j \in 1..(i - 1) PROVE at - 1 \notin Destination(blocks[j])
      <4>1. j \in 1..Len(blocks)
        BY <1>1, BlocksAreBlocks
      <4>2. blocks[j].at \in 0..(NumCells - 1)
        BY <4>1, BlocksAreBlocks
      <4>. QED
        BY <1>2, <4>2 DEF Destination
    <3>. QED
      BY <3>1
  <2>. QED
    BY <1>2, <2>1 DEF History, CleanHistory
<1>3. CASE at # 0
  <2>1. at - 1 \in Cells
    BY <1>1, <1>3 DEF Cells
  <2>2. image[w][at - 1] = IF at - 1 \in Written(i - 1) THEN candidate[w] ELSE Mapped
    BY <2>1 DEF ScratchInv
  <2>3. at - 1 \in Written(i - 1) <=> \E j \in 1..(i - 1) : at - 1 \in Destination(blocks[j])
    BY DEF Written
  <2>. QED
    BY <1>3, <2>2, <2>3 DEF History, CleanHistory
<1>. QED
  BY <1>2, <1>3

LEMMA InitEstablishes == Init => IInv
<1>. SUFFICES ASSUME Init PROVE IInv
  OBVIOUS
<1>. USE DEF Init
<1>1. Lanes = {}
  BY DEF Lanes
<1>2. TypeOK
  <2>1. \A S : <<>> \in [Lanes -> S]
    BY <1>1
  <2>2. workers \in 0..NumCandidates
    BY CountsArePositive
  <2>3. verdict \in [Candidates -> Verdicts] /\ outcome \in OutcomeType
    BY DEF Verdicts, Pending, OutcomeType
  <2>. QED
    BY <2>1, <2>2, <2>3 DEF TypeOK
<1>. QED
  BY <1>1, <1>2 DEF IInv, VerdictIsItsOwn, DealtInv, SelectionIsSequential, Pending

-----------------------------------------------------------------------------
(***************************************************************************)
(* What a step of one lane leaves of the others, and of the table.         *)
(***************************************************************************)
LEMMA OtherLanesKeep ==
  ASSUME NEW w \in Lanes, NEW v \in Lanes, v # w, TypeOK, ScratchInv(v),
         UNCHANGED <<blocks, fate>>,
         lane'[v] = lane[v], candidate'[v] = candidate[v], block'[v] = block[v],
         image'[v] = image[v], dirty'[v] = dirty[v]
  PROVE  ScratchInv(v)'
BY DEF ScratchInv, Written, ResetCells

\* A lane between two candidates, or ended: only what a reset leaves behind counts.
LEMMA RestingLaneKeeps ==
  ASSUME NEW w \in Lanes, lane'[w] # "replay", UNCHANGED <<blocks, fate>>,
         \A x \in Cells \ ResetCells : image'[w][x] = Mapped,
         dirty'[w] \/ \A x \in Cells : image'[w][x] = Mapped
  PROVE  ScratchInv(w)'
BY DEF ScratchInv, ResetCells

LEMMA TypesOfLane ==
  ASSUME TypeOK, NEW w \in Lanes
  PROVE  /\ workers \in 1..NumCandidates /\ NumCandidates \in Nat
         /\ candidate[w] \in 1..(2 * NumCandidates) /\ Candidates = 1..NumCandidates
         /\ block[w] \in 1..(Len(blocks) + 1) /\ Len(blocks) \in Nat
         /\ dirty[w] \in BOOLEAN /\ lane[w] \in {"next", "replay", "ended"}
         /\ image[w] \in [Cells -> Candidates \cup {Mapped}]
<1>1. workers \in 1..NumCandidates /\ NumCandidates \in Nat
  BY CountsArePositive DEF TypeOK, Lanes
<1>. QED
  BY <1>1, BlocksAreBlocks DEF TypeOK, Candidates

LEMMA BeginKeepsScratch ==
  ASSUME IInv, NEW w \in Lanes, BeginCandidate(w), NEW v \in Lanes
  PROVE  ScratchInv(v)'
<1>0. TypeOK /\ ScratchInv(w) /\ ScratchInv(v)
  BY DEF IInv
<1>1. CASE v # w
  BY <1>0, <1>1, OtherLanesKeep DEF BeginCandidate, TypeOK
<1>2. CASE v = w
  <2>1. /\ lane'[w] = "replay" /\ candidate'[w] = candidate[w] /\ block'[w] = 1
        /\ candidate[w] \in Candidates /\ fate' = fate /\ blocks' = blocks /\ dirty'[w] = TRUE
    BY <1>0, TypesOfLane DEF BeginCandidate, TypeOK
  <2>2. \A x \in Cells : image'[w][x] = Mapped
    BY <1>0 DEF BeginCandidate, TypeOK, ScratchInv
  <2>3. Written(block[w] - 1)' = {} /\ 1..(block[w] - 1)' = {}
    BY <2>1 DEF Written
  <2>. QED
    BY <1>2, <2>1, <2>2, <2>3 DEF ScratchInv, ResetCells
<1>. QED
  BY <1>1, <1>2

(***************************************************************************)
(* A block written in full extends what the candidate wrote; a block left   *)
(* half written lies within what the next reset clears.                     *)
(***************************************************************************)
LEMMA ReplayKeepsScratch ==
  ASSUME IInv, NEW w \in Lanes, ReplayBlock(w), NEW v \in Lanes
  PROVE  ScratchInv(v)'
<1>0. TypeOK /\ ScratchInv(w) /\ ScratchInv(v) /\ UNCHANGED <<blocks, fate>>
  BY DEF IInv, ReplayBlock
<1>. DEFINE c == candidate[w]
            i == block[w]
<1>1. PICK decodes \in Decodes(c, i, image[w]) :
        /\ \E len \in WrittenLengths(i, decodes) :
             image' = [image EXCEPT ![w] = Write(@, c, i, len)]
        /\ \/ /\ decodes /\ block' = [block EXCEPT ![w] = @ + 1]
              /\ UNCHANGED <<verdict, candidate, lane>>
           \/ /\ ~decodes /\ FinishCandidate(w, "Rejected")
              /\ UNCHANGED block
  BY DEF ReplayBlock
<1>2. PICK len \in WrittenLengths(i, decodes) :
        image' = [image EXCEPT ![w] = Write(@, c, i, len)]
  BY <1>1
<1>3. CASE v # w
  BY <1>0, <1>1, <1>2, <1>3, OtherLanesKeep DEF ReplayBlock, FinishCandidate, TypeOK
<1>4. CASE v = w
  <2>1. /\ i \in 1..Len(blocks) /\ Len(blocks) \in Nat /\ lane[w] = "replay"
        /\ blocks[i].at \in Nat /\ blocks[i].len \in Nat
        /\ c \in Candidates
    <3>1. lane[w] = "replay"
      BY DEF ReplayBlock
    <3>2. c \in Candidates
      BY <1>0, <3>1 DEF ScratchInv
    <3>3. i \in 1..(Len(blocks) + 1) /\ Len(blocks) \in Nat
      BY <1>0, TypesOfLane
    <3>4. i # Len(blocks) + 1
      BY DEF ReplayBlock
    <3>5. i \in 1..Len(blocks)
      BY <3>3, <3>4
    <3>. QED
      BY <1>0, <3>1, <3>2, <3>3, <3>5, BlocksAreBlocks
  <2>2. len \in Nat /\ len <= blocks[i].len
    BY <2>1 DEF WrittenLengths
  <2>3. \A x \in Cells :
          image'[w][x] = IF x \in blocks[i].at..(blocks[i].at + len - 1) THEN c ELSE image[w][x]
    BY <1>0, <1>2 DEF TypeOK, Write
  <2>4. blocks[i].at..(blocks[i].at + len - 1) \subseteq Destination(blocks[i])
    BY <2>1, <2>2 DEF Destination
  <2>5. \A x \in Cells \ ResetCells : image'[w][x] = Mapped
    BY <1>0, <2>1, <2>3, <2>4, BlocksAreBlocks DEF ScratchInv
  <2>6. dirty'[w]
    BY <1>0, <2>1 DEF ReplayBlock, ScratchInv
  <2>7. CASE decodes
    <3>1. /\ block'[w] = i + 1 /\ candidate'[w] = c /\ lane'[w] = "replay"
      BY <1>0, <1>1, <2>1, <2>7 DEF TypeOK
    <3>2. \A x \in Cells : image'[w][x] = IF x \in Destination(blocks[i]) THEN c ELSE image[w][x]
      BY <2>1, <2>3, <2>7 DEF WrittenLengths, Destination
    <3>3. \A x : x \in Written(i) <=> x \in Written(i - 1) \/ x \in Destination(blocks[i])
      BY <2>1 DEF Written
    <3>4. \A x \in Cells : image'[w][x] = IF x \in Written(i) THEN c ELSE Mapped
      BY <1>0, <2>1, <3>2, <3>3 DEF ScratchInv
    <3>5. Written(block[w] - 1)' = Written(i)
      BY <1>0, <2>1, <3>1 DEF Written
    <3>6. fate[c] # i
      <4>1. CASE blocks[i].coded
        BY <1>0, <1>4, <2>1, <2>7, <4>1, HistoryIsClean DEF Decodes
      <4>2. CASE ~blocks[i].coded
        BY <1>0, <2>1, <4>2 DEF TypeOK, Coded
      <4>. QED
        BY <4>1, <4>2
    <3>. QED
      BY <1>0, <1>4, <2>1, <2>5, <2>6, <3>1, <3>4, <3>5, <3>6 DEF ScratchInv, ResetCells
  <2>8. CASE ~decodes
    <3>1. lane'[w] = "next"
      BY <1>0, <1>1, <2>8 DEF FinishCandidate, TypeOK
    <3>. QED
      BY <1>0, <1>4, <2>5, <2>6, <3>1, RestingLaneKeeps
  <2>. QED
    BY <2>7, <2>8
<1>. QED
  BY <1>3, <1>4

\* The other steps of a lane leave the scratches alone.
LEMMA LeavingKeepsScratch ==
  ASSUME IInv, NEW w \in Lanes, NEW v \in Lanes,
         AuthenticateCandidate(w) \/ CancelLane(w) \/ EndLane(w)
  PROVE  ScratchInv(v)'
<1>0. /\ TypeOK /\ ScratchInv(w) /\ ScratchInv(v)
      /\ UNCHANGED <<blocks, fate, image, dirty, block>>
  BY DEF IInv, AuthenticateCandidate, CancelLane, EndLane
<1>1. CASE v # w
  BY <1>0, <1>1, OtherLanesKeep
     DEF AuthenticateCandidate, CancelLane, EndLane, FinishCandidate, TypeOK
<1>2. CASE v = w
  <2>1. lane'[w] # "replay"
    BY <1>0 DEF AuthenticateCandidate, CancelLane, EndLane, FinishCandidate, TypeOK
  <2>. QED
    BY <1>0, <1>2, <2>1, RestingLaneKeeps DEF ScratchInv
<1>. QED
  BY <1>1, <1>2

-----------------------------------------------------------------------------
\* The types, step by step.
LEMMA LaneStepIsTyped ==
  ASSUME IInv, NEW w \in Lanes, LaneStep(w)
  PROVE  TypeOK'
<1>0. TypeOK /\ ScratchInv(w)
  BY DEF IInv
<1>1. /\ UNCHANGED <<blocks, fate, workers, cancelled, outcome>> /\ Lanes' = Lanes
  BY DEF LaneStep, BeginCandidate, ReplayBlock, AuthenticateCandidate, CancelLane, EndLane,
         Lanes
<1>2. CASE BeginCandidate(w)
  <2>1. image' \in [Lanes -> [Cells -> Candidates \cup {Mapped}]]
    BY <1>0, <1>2 DEF BeginCandidate, TypeOK
  <2>2. block' \in [Lanes -> 1..(Len(blocks) + 1)]
    BY <1>0, <1>2, BlocksAreBlocks DEF BeginCandidate, TypeOK
  <2>. QED
    BY <1>0, <1>1, <1>2, <2>1, <2>2 DEF BeginCandidate, TypeOK
<1>3. ASSUME NEW result \in Verdicts, FinishCandidate(w, result), lane[w] = "replay"
      PROVE  /\ candidate' \in [Lanes -> 1..(2 * NumCandidates)]
             /\ verdict' \in [Candidates -> Verdicts]
             /\ lane' \in [Lanes -> {"next", "replay", "ended"}]
  <2>1. candidate[w] + workers \in 1..(2 * NumCandidates)
    BY <1>0, <1>3, TypesOfLane DEF ScratchInv
  <2>. QED
    BY <1>0, <1>3, <2>1 DEF FinishCandidate, TypeOK
<1>4. CASE ReplayBlock(w)
  <2>1. PICK decodes \in Decodes(candidate[w], block[w], image[w]) :
          /\ \E len \in WrittenLengths(block[w], decodes) :
               image' = [image EXCEPT ![w] = Write(@, candidate[w], block[w], len)]
          /\ \/ /\ decodes /\ block' = [block EXCEPT ![w] = @ + 1]
                /\ UNCHANGED <<verdict, candidate, lane>>
             \/ /\ ~decodes /\ FinishCandidate(w, "Rejected")
                /\ UNCHANGED block
    BY <1>4 DEF ReplayBlock
  <2>2. /\ lane[w] = "replay" /\ candidate[w] \in Candidates
        /\ block[w] + 1 \in 1..(Len(blocks) + 1) /\ dirty' = dirty
    BY <1>0, <1>4, TypesOfLane DEF ReplayBlock, ScratchInv
  <2>3. image' \in [Lanes -> [Cells -> Candidates \cup {Mapped}]]
    BY <1>0, <2>1, <2>2 DEF Write, TypeOK
  <2>4. block' \in [Lanes -> 1..(Len(blocks) + 1)]
    BY <1>0, <2>1, <2>2 DEF TypeOK
  <2>5. /\ candidate' \in [Lanes -> 1..(2 * NumCandidates)]
        /\ verdict' \in [Candidates -> Verdicts]
        /\ lane' \in [Lanes -> {"next", "replay", "ended"}]
    <3>1. CASE UNCHANGED <<verdict, candidate, lane>>
      BY <1>0, <3>1 DEF TypeOK
    <3>2. CASE FinishCandidate(w, "Rejected")
      BY <1>3, <2>2, <3>2 DEF Verdicts
    <3>. QED
      BY <2>1, <3>1, <3>2
  <2>. QED
    BY <1>0, <1>1, <2>2, <2>3, <2>4, <2>5 DEF TypeOK
<1>5. CASE AuthenticateCandidate(w)
  <2>1. /\ candidate' \in [Lanes -> 1..(2 * NumCandidates)]
        /\ verdict' \in [Candidates -> Verdicts]
        /\ lane' \in [Lanes -> {"next", "replay", "ended"}]
    BY <1>3, <1>5 DEF AuthenticateCandidate, Verdicts
  <2>. QED
    BY <1>0, <1>1, <1>5, <2>1 DEF AuthenticateCandidate, TypeOK
<1>6. CASE CancelLane(w)
  BY <1>0, <1>1, <1>6 DEF CancelLane, TypeOK, Verdicts
<1>7. CASE EndLane(w)
  BY <1>0, <1>1, <1>7 DEF EndLane, TypeOK
<1>. QED
  BY <1>2, <1>4, <1>5, <1>6, <1>7 DEF LaneStep

(***************************************************************************)
(* The verdict of a candidate is given when all blocks decoded, or at the   *)
(* block that did not: with the clean history fate alone decides which.     *)
(***************************************************************************)
LEMMA LaneStepKeepsVerdicts ==
  ASSUME IInv, NEW w \in Lanes, LaneStep(w)
  PROVE  VerdictIsItsOwn'
<1>0. TypeOK /\ ScratchInv(w) /\ VerdictIsItsOwn /\ fate' = fate
  BY DEF IInv, LaneStep, BeginCandidate, ReplayBlock, AuthenticateCandidate, CancelLane, EndLane
<1>1. CASE BeginCandidate(w) \/ EndLane(w)
  BY <1>0, <1>1 DEF BeginCandidate, EndLane, VerdictIsItsOwn
<1>2. CASE ReplayBlock(w)
  <2>1. CASE UNCHANGED verdict
    BY <1>0, <2>1 DEF VerdictIsItsOwn
  <2>2. CASE FinishCandidate(w, "Rejected") /\ FALSE \in Decodes(candidate[w], block[w], image[w])
    <3>1. /\ block[w] \in 1..Len(blocks) /\ lane[w] = "replay" /\ candidate[w] \in Candidates
      BY <1>0, <1>2, TypesOfLane DEF ReplayBlock, ScratchInv
    <3>2. History(image[w], blocks[block[w]]) = CleanHistory(candidate[w], block[w])
      BY <1>0, <3>1, HistoryIsClean
    <3>3. blocks[block[w]].coded /\ ~(fate[candidate[w]] # block[w])
      BY <1>0, <2>2, <3>1, <3>2, BlocksAreBlocks DEF Decodes
    <3>4. fate[candidate[w]] # 0
      BY <3>1, <3>3
    <3>. QED
      BY <1>0, <2>2, <3>4 DEF VerdictIsItsOwn, FinishCandidate, TypeOK
  <2>3. PICK decodes \in Decodes(candidate[w], block[w], image[w]) :
          UNCHANGED verdict \/ (~decodes /\ FinishCandidate(w, "Rejected"))
    BY <1>2 DEF ReplayBlock
  <2>4. decodes \in BOOLEAN
    BY <2>3 DEF Decodes
  <2>. QED
    BY <2>1, <2>2, <2>3, <2>4
<1>3. CASE AuthenticateCandidate(w)
  <2>1. candidate[w] \in Candidates /\ fate[candidate[w]] \notin 1..Len(blocks)
    BY <1>0, <1>3, TypesOfLane DEF AuthenticateCandidate, ScratchInv
  <2>2. fate[candidate[w]] = 0
    BY <1>0, <2>1, BlocksAreBlocks
  <2>. QED
    BY <1>0, <1>3, <2>2 DEF AuthenticateCandidate, VerdictIsItsOwn, FinishCandidate, TypeOK
<1>4. CASE CancelLane(w)
  BY <1>0, <1>4 DEF CancelLane, VerdictIsItsOwn, TypeOK
<1>. QED
  BY <1>1, <1>2, <1>3, <1>4 DEF LaneStep

-----------------------------------------------------------------------------
\* What is ahead of a lane is what it is at, and what is ahead once it went on.
LEMMA AheadAfterFinishing ==
  ASSUME TypeOK, NEW w \in Lanes, NEW d \in Nat, d = candidate[w] + workers,
         NEW c \in Candidates, c \in Ahead(w)
  PROVE  c = candidate[w] \/ \E k \in Nat : c = d + k * workers
<1>1. PICK k \in Nat : c = candidate[w] + k * workers
  BY DEF Ahead
<1>2. workers \in Nat /\ candidate[w] \in Nat
  BY TypesOfLane
<1>3. CASE k = 0
  BY <1>1, <1>2, <1>3
<1>4. CASE k # 0
  <2>1. k - 1 \in Nat /\ c = d + (k - 1) * workers
    BY <1>1, <1>2, <1>4
  <2>. QED
    BY <2>1
<1>. QED
  BY <1>3, <1>4

LEMMA LaneStepKeepsDealt ==
  ASSUME IInv, NEW w \in Lanes, LaneStep(w)
  PROVE  DealtInv'
<1>0. /\ TypeOK /\ ScratchInv(w) /\ DealtInv
      /\ UNCHANGED <<workers, cancelled>> /\ Lanes' = Lanes
  BY DEF IInv, LaneStep, BeginCandidate, ReplayBlock, AuthenticateCandidate, CancelLane,
         EndLane, Lanes
<1>. SUFFICES ASSUME workers > 0, ~cancelled, NEW c \in Candidates
     PROVE  \/ verdict'[c] \in {"Rejected", "Authenticated"}
            \/ \E v \in Lanes : lane'[v] # "ended" /\ c \in Ahead(v)'
  BY <1>0 DEF DealtInv
<1>1. CASE UNCHANGED <<verdict, candidate>> /\ lane'[w] # "ended"
               /\ \A v \in Lanes : v # w => lane'[v] = lane[v]
  BY <1>0, <1>1 DEF DealtInv, Ahead
<1>2. ASSUME NEW result \in {"Rejected", "Authenticated"}, FinishCandidate(w, result)
      PROVE  \/ verdict'[c] \in {"Rejected", "Authenticated"}
             \/ \E v \in Lanes : lane'[v] # "ended" /\ c \in Ahead(v)'
  <2>1. CASE verdict[c] \in {"Rejected", "Authenticated"}
    BY <1>0, <1>2, <2>1 DEF FinishCandidate, TypeOK
  <2>2. CASE \E v \in Lanes : v # w /\ lane[v] # "ended" /\ c \in Ahead(v)
    BY <1>0, <1>2, <2>2 DEF FinishCandidate, TypeOK, Ahead
  <2>3. CASE c \in Ahead(w)
    <3>1. PICK d \in Nat : d = candidate[w] + workers
      BY <1>0, TypesOfLane
    <3>2. /\ lane'[w] = "next" /\ candidate'[w] = d
      BY <1>0, <1>2, <3>1 DEF FinishCandidate, TypeOK
    <3>3. CASE c = candidate[w]
      BY <1>0, <1>2, <3>3 DEF FinishCandidate, TypeOK
    <3>4. CASE \E k \in Nat : c = d + k * workers
      <4>1. c \in Ahead(w)'
        BY <1>0, <3>2, <3>4 DEF Ahead
      <4>. QED
        BY <3>2, <4>1
    <3>. QED
      BY <1>0, <2>3, <3>1, <3>3, <3>4, AheadAfterFinishing
  <2>. QED
    BY <1>0, <2>1, <2>2, <2>3 DEF DealtInv
<1>3. CASE BeginCandidate(w)
  BY <1>0, <1>1, <1>3 DEF BeginCandidate, TypeOK
<1>4. CASE ReplayBlock(w)
  <2>1. CASE UNCHANGED <<verdict, candidate, lane>>
    BY <1>0, <1>1, <1>4, <2>1 DEF ReplayBlock
  <2>2. CASE FinishCandidate(w, "Rejected")
    BY <1>2, <2>2
  <2>. QED
    BY <1>4, <2>1, <2>2 DEF ReplayBlock
<1>5. CASE AuthenticateCandidate(w)
  BY <1>2, <1>5 DEF AuthenticateCandidate
<1>6. CASE CancelLane(w)
  BY <1>6 DEF CancelLane
<1>7. CASE EndLane(w)
  <2>1. Ahead(w) = {}
    <3>1. ASSUME NEW e \in Candidates, NEW k \in Nat, e = candidate[w] + k * workers
          PROVE  FALSE
      <4>1. k * workers \in Nat /\ candidate[w] > NumCandidates /\ e <= NumCandidates
        BY <1>0, <1>7, TypesOfLane DEF EndLane
      <4>. QED
        BY <1>0, <3>1, <4>1, TypesOfLane
    <3>. QED
      BY <3>1 DEF Ahead
  <2>2. \A v \in Lanes : v # w => lane'[v] = lane[v]
    BY <1>0, <1>7 DEF EndLane, TypeOK
  <2>. QED
    BY <1>0, <1>7, <2>1, <2>2 DEF DealtInv, EndLane, Ahead
<1>. QED
  BY <1>3, <1>4, <1>5, <1>6, <1>7 DEF LaneStep

-----------------------------------------------------------------------------
(***************************************************************************)
(* The caller's steps and the cancellation.                                *)
(***************************************************************************)
LEMMA AllocateKeeps == IInv /\ AllocateScratches => IInv'
<1>. SUFFICES ASSUME IInv, AllocateScratches PROVE IInv'
  OBVIOUS
<1>0. TypeOK /\ workers = 0 /\ outcome = Pending /\ UNCHANGED <<blocks, fate, verdict, cancelled>>
  BY DEF IInv, AllocateScratches
<1>1. CASE UNCHANGED <<workers, candidate, block, dirty, image, lane>> /\ outcome' = Ended("Failed")
  <2>1. TypeOK'
    <3>1. outcome' \in OutcomeType
      BY <1>1 DEF Ended, OutcomeType
    <3>. QED
      BY <1>0, <1>1, <3>1 DEF TypeOK, Lanes
  <2>2. Lanes' = {}
    BY <1>0, <1>1 DEF Lanes
  <2>3. VerdictIsItsOwn' /\ DealtInv' /\ SelectionIsSequential'
    BY <1>0, <1>1 DEF IInv, VerdictIsItsOwn, DealtInv, SelectionIsSequential, Ended
  <2>. QED
    BY <2>1, <2>2, <2>3 DEF IInv
<1>2. ASSUME NEW n \in WorkerCounts, UNCHANGED outcome,
             workers' = n, candidate' = [w \in 1..n |-> w], block' = [w \in 1..n |-> 1],
             dirty' = [w \in 1..n |-> FALSE], image' = [w \in 1..n |-> CleanImage],
             lane' = [w \in 1..n |-> "next"]
      PROVE  IInv'
  <2>0. n \in 1..NumCandidates /\ NumCandidates \in Nat /\ Lanes' = 1..n
    BY <1>2, CountsArePositive DEF WorkerCounts, Lanes
  <2>1. TypeOK'
    <3>1. CleanImage \in [Cells -> Candidates \cup {Mapped}]
      BY DEF CleanImage
    <3>2. 1 \in 1..(Len(blocks) + 1)
      BY <1>0, BlocksAreBlocks
    <3>3. candidate' \in [Lanes' -> 1..(2 * NumCandidates)]
      BY <1>2, <2>0
    <3>. QED
      BY <1>0, <1>2, <2>0, <3>1, <3>2, <3>3 DEF TypeOK
  <2>2. \A w \in Lanes' : ScratchInv(w)'
    BY <1>2, <2>0 DEF ScratchInv, CleanImage
  <2>3. VerdictIsItsOwn' /\ SelectionIsSequential'
    BY <1>0, <1>2 DEF IInv, VerdictIsItsOwn, SelectionIsSequential, Viable
  <2>4. DealtInv'
    <3>1. ASSUME NEW c \in Candidates
          PROVE  \E w \in 1..n : lane'[w] # "ended" /\ c \in Ahead(w)'
      <4>0. n \in Nat \ {0} /\ c \in Nat \ {0}
        BY <2>0 DEF Candidates
      <4>1. PICK w \in 1..n : \E k \in Nat : c = w + k * n
        BY <4>0, EveryCandidateIsDealt
      <4>. QED
        BY <1>2, <4>1 DEF Ahead
    <3>. QED
      BY <2>0, <3>1 DEF DealtInv
  <2>. QED
    BY <2>1, <2>2, <2>3, <2>4 DEF IInv
<1>. QED
  BY <1>1, <1>2 DEF AllocateScratches

\* A step that only changes the outcome, or sets the token.
LEMMA ReturningKeeps ==
  ASSUME IInv, cancelled' \in BOOLEAN, cancelled => cancelled', outcome' \in OutcomeType,
         SelectionIsSequential',
         UNCHANGED <<blocks, fate, workers, candidate, block, dirty, image, lane, verdict>>
  PROVE  IInv'
<1>1. TypeOK'
  BY DEF IInv, TypeOK, Lanes
<1>2. \A w \in Lanes' : ScratchInv(w)'
  BY DEF IInv, Lanes, ScratchInv, Written, ResetCells
<1>3. VerdictIsItsOwn' /\ DealtInv'
  BY DEF IInv, VerdictIsItsOwn, DealtInv, Lanes, Ahead
<1>. QED
  BY <1>1, <1>2, <1>3 DEF IInv

(***************************************************************************)
(* When every lane has ended and the token was never set, every candidate   *)
(* is decided, so that those that authenticated are the viable ones.        *)
(***************************************************************************)
LEMMA JoinKeeps == IInv /\ Join => IInv'
<1>. SUFFICES ASSUME IInv, Join PROVE IInv'
  OBVIOUS
<1>1. CASE cancelled
  BY <1>1, ReturningKeeps DEF Join, Ended, OutcomeType, IInv, TypeOK, SelectionIsSequential
<1>2. CASE ~cancelled
  <2>1. \A c \in Candidates : verdict[c] \in {"Rejected", "Authenticated"}
    BY <1>2 DEF Join, AllLanesEnded, IInv, DealtInv
  <2>2. Authenticated = Viable
    BY <2>1 DEF IInv, VerdictIsItsOwn, Authenticated, Viable
  <2>3. Viable' = Viable /\ Viable \subseteq Candidates
    BY DEF Join, Viable
  <2>4. outcome' = Choose
    BY <1>2 DEF Join
  <2>5. outcome' \in OutcomeType /\ SelectionIsSequential'
    <3>1. CASE Viable = {}
      BY <2>2, <2>3, <2>4, <3>1 DEF Choose, Ended, OutcomeType, SelectionIsSequential
    <3>2. CASE \E c, d \in Viable : c # d
      BY <2>2, <2>3, <2>4, <3>2 DEF Choose, Ended, OutcomeType, SelectionIsSequential
    <3>3. ASSUME NEW c \in Viable, Viable = {c}
          PROVE  outcome' \in OutcomeType /\ SelectionIsSequential'
      <4>1. (CHOOSE d \in Viable : TRUE) = c
        BY <3>3
      <4>2. outcome' = Chosen(c)
        BY <2>2, <2>4, <3>3, <4>1 DEF Choose
      <4>. QED
        BY <2>3, <3>3, <4>2 DEF Chosen, OutcomeType, SelectionIsSequential
    <3>4. Viable = {} \/ (\E c, d \in Viable : c # d) \/ \E c \in Viable : Viable = {c}
      OBVIOUS
    <3>5. CASE \E c \in Viable : Viable = {c}
      BY <3>3, <3>5, Zenon
    <3>. QED
      BY <3>1, <3>2, <3>4, <3>5, Zenon
  <2>6. cancelled' = cancelled /\ cancelled' \in BOOLEAN
    BY DEF Join, IInv, TypeOK
  <2>. QED
    BY <2>5, <2>6, ReturningKeeps DEF Join
<1>. QED
  BY <1>1, <1>2 DEF IInv, TypeOK

LEMMA MaterializeKeeps == IInv /\ MaterializeSelected => IInv'
<1>. SUFFICES ASSUME IInv, MaterializeSelected PROVE IInv'
  OBVIOUS
<1>1. outcome \in OutcomeType /\ cancelled \in BOOLEAN /\ Viable' = Viable
  BY DEF IInv, TypeOK, MaterializeSelected, Viable
<1>2. outcome.candidate \in Candidates \cup {0} /\ Viable = {outcome.candidate}
  BY <1>1 DEF IInv, OutcomeType, MaterializeSelected, SelectionIsSequential
<1>3. \/ outcome' = Selected(outcome.candidate)
      \/ outcome' = Ended("Failed")
      \/ cancelled /\ outcome' = Ended("Cancelled")
  BY DEF MaterializeSelected
<1>4. outcome' \in OutcomeType
  BY <1>2, <1>3 DEF Selected, Ended, OutcomeType
<1>5. SelectionIsSequential'
  BY <1>1, <1>2, <1>3 DEF Selected, Ended, SelectionIsSequential, MaterializeSelected
<1>. QED
  BY <1>1, <1>4, <1>5, ReturningKeeps DEF MaterializeSelected

LEMMA CancelKeeps == IInv /\ Cancel => IInv'
<1>. SUFFICES ASSUME IInv, Cancel PROVE IInv'
  OBVIOUS
<1>1. SelectionIsSequential' /\ outcome' \in OutcomeType
  BY DEF IInv, TypeOK, Cancel, SelectionIsSequential, Viable
<1>. QED
  BY <1>1, ReturningKeeps DEF Cancel

LEMMA NextKeeps == IInv /\ [Next]_vars => IInv'
<1>. SUFFICES ASSUME IInv, [Next]_vars PROVE IInv'
  OBVIOUS
<1>1. CASE Caller
  BY <1>1, AllocateKeeps, JoinKeeps, MaterializeKeeps DEF Caller
<1>2. ASSUME NEW w \in Lanes, LaneStep(w) PROVE IInv'
  <2>1. TypeOK' /\ VerdictIsItsOwn' /\ DealtInv'
    BY <1>2, LaneStepIsTyped, LaneStepKeepsVerdicts, LaneStepKeepsDealt
  <2>2. Lanes' = Lanes /\ UNCHANGED <<fate, cancelled, outcome>>
    BY <1>2 DEF LaneStep, BeginCandidate, ReplayBlock, AuthenticateCandidate, CancelLane,
                EndLane, Lanes
  <2>3. \A v \in Lanes : ScratchInv(v)'
    BY <1>2, BeginKeepsScratch, ReplayKeepsScratch, LeavingKeepsScratch DEF LaneStep
  <2>4. SelectionIsSequential'
    BY <2>2 DEF IInv, SelectionIsSequential, Viable
  <2>. QED
    BY <2>1, <2>2, <2>3, <2>4 DEF IInv
<1>3. CASE Cancel
  BY <1>3, CancelKeeps
<1>4. CASE UNCHANGED vars
  <2>1. SelectionIsSequential' /\ outcome' \in OutcomeType /\ cancelled' \in BOOLEAN
    BY <1>4 DEF vars, IInv, TypeOK, SelectionIsSequential, Viable
  <2>. QED
    BY <1>4, <2>1, ReturningKeeps DEF vars
<1>. QED
  BY <1>1, <1>2, <1>3, <1>4 DEF Next, Stopped

-----------------------------------------------------------------------------
LEMMA Invariance == Spec => []IInv
<1>1. Init => IInv
  BY InitEstablishes
<1>2. IInv /\ [Next]_vars => IInv'
  BY NextKeeps
<1>. QED
  BY <1>1, <1>2, PTL DEF Spec

(***************************************************************************)
(* The variables stay in their types: no lane leaves its blocks, its        *)
(* candidates or its image.                                                *)
(***************************************************************************)
THEOREM TypeCorrect == Spec => []TypeOK
<1>1. IInv => TypeOK
  BY DEF IInv
<1>. QED
  BY <1>1, Invariance, PTL

(***************************************************************************)
(* A candidate's result is the one it has alone on a fresh image, however   *)
(* many candidates its lane replayed before on the same scratch             *)
(* (CandidateScratch::reset, chain_replays).                               *)
(***************************************************************************)
THEOREM VerdictsDoNotLeak == Spec => []VerdictIsItsOwn
<1>1. IInv => VerdictIsItsOwn
  BY DEF IInv
<1>. QED
  BY <1>1, Invariance, PTL

(***************************************************************************)
(* However many lanes there are and however they interleave, the selection  *)
(* is that of replaying every candidate alone, in order                     *)
(* (select_payload_plan_impl).                                             *)
(***************************************************************************)
THEOREM ParallelSelectionIsSequential == Spec => []SelectionIsSequential
<1>1. IInv => SelectionIsSequential
  BY DEF IInv
<1>. QED
  BY <1>1, Invariance, PTL
=============================================================================
