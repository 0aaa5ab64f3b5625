--------------------------- MODULE UnpackContract ---------------------------
(***************************************************************************)
(* What a run of the unpacker promises about the output file, whatever the *)
(* stages are and wherever it fails.  The file is written at most once,    *)
(* in two visible steps; success needs the complete file, or none at all   *)
(* on a dry run; a failure or a death leaves the file as it is; and every  *)
(* run ends.  The file is not replaced atomically: fs::write truncates it. *)
(***************************************************************************)
VARIABLES dryRun, phase, output

vars == <<dryRun, phase, output>>

Init ==
  /\ dryRun \in BOOLEAN
  /\ phase = "working"
  /\ output = "untouched"

BeginWrite ==
  /\ phase = "working" /\ ~dryRun
  /\ output = "untouched"
  /\ output' = "partial"
  /\ UNCHANGED <<dryRun, phase>>

FinishWrite ==
  /\ phase = "working" /\ output = "partial"
  /\ output' = "complete"
  /\ UNCHANGED <<dryRun, phase>>

Succeed ==
  /\ phase = "working"
  /\ output = IF dryRun THEN "untouched" ELSE "complete"
  /\ phase' = "succeeded"
  /\ UNCHANGED <<dryRun, output>>

Fail ==
  /\ phase = "working"
  /\ phase' = "failed"
  /\ UNCHANGED <<dryRun, output>>

Die ==
  /\ phase # "dead"
  /\ phase' = "dead"
  /\ UNCHANGED <<dryRun, output>>

Next == BeginWrite \/ FinishWrite \/ Succeed \/ Fail \/ Die

Spec == Init /\ [][Next]_vars /\ <>(phase # "working")
=============================================================================
