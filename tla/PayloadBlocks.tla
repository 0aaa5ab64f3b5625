---------------------------- MODULE PayloadBlocks ----------------------------
(***************************************************************************)
(* `discover_payload_block_table_impl` (payload/decrypt/records.rs): the    *)
(* table of payload blocks has no address.  Every aligned offset of the     *)
(* bootstrap source is decoded under every phase of the record cipher; the  *)
(* record that follows one at (index, phase) is at the next index with the  *)
(* phase moved by the record's size.  A table is a run of records closed by *)
(* a terminal.  One backward pass with one row of memoised lengths finds    *)
(* the longest run, which is then rebuilt, and a second pass makes sure     *)
(* that every other run is a suffix of it.                                  *)
(*                                                                         *)
(* What the bytes decode to is arbitrary and fixed; a record is reduced to  *)
(* its kind, as offset and phase determine the record.                     *)
(***************************************************************************)
EXTENDS Integers

CONSTANTS
  MaxStarts,    \* the largest number of record offsets in the bootstrap source
  Phases,       \* PAYLOAD_BLOCK_PHASES (256)
  Stride,       \* PAYLOAD_BLOCK_DESCRIPTOR_SIZE (16)
  MaxChecks,    \* MAX_PAYLOAD_BLOCK_CHECKS
  CheckEvery    \* the token is looked at in every CheckEvery-th row (256)

ASSUME BoundsArePositive ==
  /\ MaxStarts \in Nat \ {0} /\ Phases \in Nat \ {0} /\ CheckEvery \in Nat \ {0}
  /\ Stride \in Nat /\ MaxChecks \in Nat

Kinds == {"Invalid", "Terminal", "Record"}
PhaseSet == 0..(Phases - 1)

\* The phase n records further on.
PhaseAfter(p, n) == (p + n * Stride) % Phases

None == -1    \* no run starts here
NoRow == [p \in PhaseSet |-> None]

\* PayloadBlockTableState.
State(i, p, n) == [start |-> i, phase |-> p, length |-> n]
NoState == State(0, 0, 0)

VARIABLES
  starts,       \* the record offsets of this source
  kind,         \* what decode_payload_block_state finds at each index and phase
  pc,           \* which pass is running
  index, phase, \* the state the pass is at
  lengths,      \* the run lengths of the current row
  nextLengths,  \* the run lengths of the row after it
  longest,      \* the longest run so far
  ambiguous,    \* longest_is_ambiguous
  independent,  \* has_independent_shorter_run
  built,        \* the records rebuilt so far
  checks,       \* record_checks
  cancelled,    \* CancellationToken
  outcome       \* what the discovery returned

vars == <<starts, kind, pc, index, phase, lengths, nextLengths, longest,
          ambiguous, independent, built, checks, cancelled, outcome>>

input == <<starts, kind>>

Outcomes == {"pending", "Refused", "NoRun", "Ambiguous", "Diverges",
             "Independent", "Cancelled", "Selected"}

TypeOK ==
  /\ starts \in 1..MaxStarts
  /\ kind \in [(0..(starts - 1)) \X PhaseSet -> Kinds]
  /\ pc \in {"start", "survey", "choose", "rebuild", "rescan", "conclude", "returned"}
  /\ index \in 0..(starts - 1)
  /\ phase \in PhaseSet
  /\ lengths \in [PhaseSet -> None..(starts - 1)]
  /\ nextLengths \in [PhaseSet -> None..(starts - 1)]
  /\ longest \in [start : 0..(starts - 1), phase : PhaseSet, length : 0..(starts - 1)]
  /\ ambiguous \in BOOLEAN
  /\ independent \in BOOLEAN
  /\ built \in 0..(starts - 1)
  /\ checks \in Nat
  /\ cancelled \in BOOLEAN
  /\ outcome \in Outcomes

Init ==
  /\ starts \in 1..MaxStarts
  /\ kind \in [(0..(starts - 1)) \X PhaseSet -> Kinds]
  /\ pc = "start"
  /\ index = 0 /\ phase = 0
  /\ lengths = NoRow /\ nextLengths = NoRow
  /\ longest = NoState
  /\ ambiguous = FALSE /\ independent = FALSE
  /\ built = 0 /\ checks = 0
  /\ cancelled = FALSE
  /\ outcome = "pending"

Return(result) == outcome' = result /\ pc' = "returned"

-----------------------------------------------------------------------------
(***************************************************************************)
(* One pass of visit_payload_block_tables, one index and phase at a time.   *)
(***************************************************************************)
\* Mutated BeginPass: starts one row past the last.
BeginPassPastTheEnd(pass) ==
  /\ pc' = pass
  /\ index' = starts
  /\ phase' = 0
  /\ lengths' = NoRow
  /\ nextLengths' = NoRow

\* visit_payload_block_tables starts at the last row.
BeginPass(pass) ==
  /\ pc' = pass
  /\ index' = starts - 1
  /\ phase' = 0
  /\ lengths' = NoRow
  /\ nextLengths' = NoRow

\* The length of the run at this index and phase: a record needs a run behind it.
RunLength ==
  CASE kind[<<index, phase>>] = "Invalid"  -> None
    [] kind[<<index, phase>>] = "Terminal" -> 0
    [] OTHER -> IF nextLengths[PhaseAfter(phase, 1)] = None THEN None
                ELSE 1 + nextLengths[PhaseAfter(phase, 1)]

Here == State(index, phase, RunLength)

\* The checkpoint at the head of a row.
AtCheckpoint == phase = 0 /\ index % CheckEvery = 0

GoOn(next) ==
  IF phase < Phases - 1 THEN
    /\ phase' = phase + 1
    /\ lengths' = [lengths EXCEPT ![phase] = RunLength]
    /\ UNCHANGED <<pc, index, nextLengths>>
  ELSE IF index > 0 THEN
    /\ index' = index - 1
    /\ phase' = 0
    /\ lengths' = NoRow
    /\ nextLengths' = [lengths EXCEPT ![phase] = RunLength]
    /\ UNCHANGED pc
  ELSE
    /\ pc' = next
    /\ UNCHANGED <<index, phase, lengths, nextLengths>>

-----------------------------------------------------------------------------
\* Mutated ValidationWork: the checks of the rebuild and of the suffixes are forgotten.
ValidationWorkOfPasses == 2 * starts * Phases

(***************************************************************************)
(* The work is bounded before it starts: two passes, a rebuild and one      *)
(* check of a suffix per row.  So the check in decode_payload_block_state   *)
(* is never the one to refuse, which WorkIsBounded states.                  *)
(***************************************************************************)
ValidationWork == 2 * starts * Phases + 2 * starts

Admit ==
  /\ pc = "start"
  /\ IF ValidationWork > MaxChecks
     THEN /\ Return("Refused")
          /\ UNCHANGED <<index, phase, lengths, nextLengths>>
     ELSE BeginPass("survey") /\ UNCHANGED outcome
  /\ UNCHANGED <<input, longest, ambiguous, independent, built, checks, cancelled>>

Consider(run) ==
  /\ longest' = IF run.length > longest.length THEN run ELSE longest
  /\ ambiguous' = IF run.length > longest.length THEN FALSE
                  ELSE ambiguous \/ (run.length > 0 /\ run.length = longest.length)

Survey ==
  /\ pc = "survey"
  /\ ~(AtCheckpoint /\ cancelled)
  /\ checks' = checks + 1
  /\ Consider(Here)
  /\ GoOn("choose")
  /\ UNCHANGED <<input, independent, built, cancelled, outcome>>

Choose ==
  /\ pc = "choose"
  /\ \/ longest.length = 0 /\ Return("NoRun")
     \/ longest.length > 0 /\ ambiguous /\ Return("Ambiguous")
     \/ longest.length > 0 /\ ~ambiguous /\ pc' = "rebuild" /\ UNCHANGED outcome
  /\ UNCHANGED <<input, index, phase, lengths, nextLengths, longest, ambiguous,
                 independent, built, checks, cancelled>>

(***************************************************************************)
(* reconstruct_payload_block_table: the records of the run, then its        *)
(* terminal.  The memoised length is not trusted.                          *)
(***************************************************************************)
RebuildAt == <<longest.start + built, PhaseAfter(longest.phase, built)>>

Rebuild ==
  /\ pc = "rebuild"
  /\ checks' = checks + 1
  /\ IF built < longest.length
     THEN /\ ~cancelled
          /\ IF kind[RebuildAt] = "Record"
             THEN built' = built + 1 /\ UNCHANGED <<pc, outcome>>
             ELSE Return("Diverges") /\ UNCHANGED built
          /\ UNCHANGED <<index, phase, lengths, nextLengths>>
     ELSE /\ IF kind[RebuildAt] = "Terminal"
             THEN BeginPass("rescan") /\ UNCHANGED outcome
             ELSE Return("Diverges") /\ UNCHANGED <<index, phase, lengths, nextLengths>>
          /\ UNCHANGED built
  /\ UNCHANGED <<input, longest, ambiguous, independent, cancelled>>

(***************************************************************************)
(* The second pass: payload_block_table_is_exact_suffix for every shorter   *)
(* run; only one in the right place is decoded once more.                   *)
(***************************************************************************)
\* Mutated InPlace: the phase of the shorter run is not compared.
InPlaceAtAnyPhase(run) ==
  /\ run.start >= longest.start
  /\ run.start - longest.start <= longest.length
  /\ run.length = longest.length - (run.start - longest.start)

InPlace(run) ==
  /\ run.start >= longest.start
  /\ run.start - longest.start <= longest.length
  /\ run.phase = PhaseAfter(longest.phase, run.start - longest.start)
  /\ run.length = longest.length - (run.start - longest.start)

IsShorter(run) == run.length > 0 /\ run.length < longest.length

Rescan ==
  /\ pc = "rescan"
  /\ ~(AtCheckpoint /\ cancelled)
  /\ checks' = checks + (IF IsShorter(Here) /\ InPlace(Here) THEN 2 ELSE 1)
  /\ independent' = (independent \/ (IsShorter(Here) /\ ~InPlace(Here)))
  /\ GoOn("conclude")
  /\ UNCHANGED <<input, longest, ambiguous, built, cancelled, outcome>>

Conclude ==
  /\ pc = "conclude"
  /\ Return(IF independent THEN "Independent" ELSE "Selected")
  /\ UNCHANGED <<input, index, phase, lengths, nextLengths, longest, ambiguous,
                 independent, built, checks, cancelled>>

\* The checkpoints: at some rows of either pass, and at every rebuilt record.
StopAtCheckpoint ==
  /\ cancelled
  /\ \/ pc \in {"survey", "rescan"} /\ AtCheckpoint
     \/ pc = "rebuild" /\ built < longest.length
  /\ Return("Cancelled")
  /\ UNCHANGED <<input, index, phase, lengths, nextLengths, longest, ambiguous,
                 independent, built, checks, cancelled>>

Cancel ==
  /\ ~cancelled /\ pc # "returned"
  /\ cancelled' = TRUE
  /\ UNCHANGED <<input, pc, index, phase, lengths, nextLengths, longest, ambiguous,
                 independent, built, checks, outcome>>

Advance ==
  \/ Admit \/ Survey \/ Choose \/ Rebuild \/ Rescan \/ Conclude \/ StopAtCheckpoint

Stopped == pc = "returned" /\ UNCHANGED vars

Next == Advance \/ Cancel \/ Stopped

Spec == Init /\ [][Next]_vars

-----------------------------------------------------------------------------
(***************************************************************************)
(* Properties.                                                             *)
(***************************************************************************)

\* What a run is, without passes or memory: records up to a terminal.
IsRun(r) ==
  /\ r.length > 0 /\ r.start + r.length < starts
  /\ \A j \in 0..(r.length - 1) :
       kind[<<r.start + j, PhaseAfter(r.phase, j)>>] = "Record"
  /\ kind[<<r.start + r.length, PhaseAfter(r.phase, r.length)>>] = "Terminal"

Runs == {r \in [start : 0..(starts - 1), phase : PhaseSet, length : 1..(starts - 1)] : IsRun(r)}

IsSuffix(q, r) ==
  \E j \in 0..(r.length - 1) :
    q = State(r.start + j, PhaseAfter(r.phase, j), r.length - j)

\* The runs that contain every other.
Dominant == {r \in Runs : \A q \in Runs : IsSuffix(q, r)}

(***************************************************************************)
(* A table is selected exactly when one run of the source contains all      *)
(* others as suffixes, and it is that run; without a run, and only then,    *)
(* there is none; and rebuilding it never contradicts the memoised lengths  *)
(* (discover_payload_block_table_impl).                                    *)
(***************************************************************************)
SelectionIsDominant ==
  /\ outcome = "Selected" => Dominant = {longest} /\ built = longest.length
  /\ outcome \in {"Ambiguous", "Independent"} => Runs # {} /\ Dominant = {}
  /\ outcome = "NoRun" => Runs = {}
  /\ outcome # "Diverges"

(***************************************************************************)
(* An admitted discovery never decodes more records than the bound it was   *)
(* admitted under, so it is never refused half way (the precheck of         *)
(* validation_work against the counter of decode_payload_block_state).      *)
(***************************************************************************)
WorkIsBounded == checks <= MaxChecks
=============================================================================
