--------------------------- MODULE UnpackPipeline ---------------------------
(***************************************************************************)
(* One run of `Pipeline::run` (src/pipeline/mod.rs): nine stages, executed  *)
(* in order by `run_stage`, each bracketed by lifecycle events that go to a *)
(* fallible observer and by two looks at the cancellation token.  The token *)
(* is set by the Ctrl-C thread at any moment, any call of the observer and  *)
(* any file operation can fail, and the process can die between two steps.  *)
(*                                                                         *)
(* What a stage computes is left out; what is kept is every way its work    *)
(* can end, what the failure is classified as, what the partial summary    *)
(* says, and what the file system holds afterwards.                        *)
(***************************************************************************)
EXTENDS Integers, Sequences

CONSTANTS
  Requests    \* the requests a run can be started with

(***************************************************************************)
(* Stage::ordinal.  Each stage has exactly one Operation, so an event      *)
(* carries the stage only.                                                 *)
(***************************************************************************)
ReadInput          == 1
InputValidation    == 2
ProtectorDetection == 3
PayloadRecovery    == 4
ImageValidation    == 5
StartupRecovery    == 6
ImportRecovery     == 7
OutputRebuild      == 8
WriteOutput        == 9
Stages == 1..9
NoStage == 0

(***************************************************************************)
(* PipelineRequest, and what the output path denotes before the run: a     *)
(* file of its own (absent, or left by an earlier run), the same canonical *)
(* path as the input, or a hard link to the input.                         *)
(***************************************************************************)
RequestType ==
  [dryRun : BOOLEAN, target : {"absent", "earlier", "samePath", "hardLink"}]

ASSUME RequestsAreTyped == Requests \subseteq RequestType

FailureReason ==
  {"InvalidInput", "Unsupported", "Ambiguous", "Io", "Cancelled", "Internal"}

EventKinds ==
  {"run_started", "stage_started", "operation_started", "progress",
   "operation_completed", "stage_completed", "run_completed", "run_failed"}

\* An `observe` call: its event and whether the observer returned Ok.
Event(kind, s, ok) == [kind |-> kind, stage |-> s, ok |-> ok]
EventType == [kind : EventKinds, stage : Stages \cup {NoStage}, ok : BOOLEAN]

\* What a path holds.  A truncated or half-written file is "partial".
Contents == {"absent", "packed", "earlier", "partial", "image"}

Places ==
  {"start", "enter", "clrCheck", "stageStarted", "operationStarted", "work",
   "scan", "open", "write", "progress", "settle", "operationCompleted",
   "stageCompleted", "runCompleted", "returned", "exited", "crashed"}

VARIABLES
  pc,         \* where the pipeline thread is
  stage,      \* the stage it is in
  request,    \* the PipelineRequest
  cancelled,  \* CancellationToken
  entry,      \* OutputEntry::Managed or a native one, once selected
  events,     \* the observe calls so far, in order
  summary,    \* the stages whose timing and whose evidence RunSummary holds
  files,      \* the contents of the input path and of the output path
  result,     \* what run returned
  exitCode,   \* what the process returned
  cancelSeen  \* history: where the thread was when the token was set

vars == <<pc, stage, request, cancelled, entry, events, summary, files,
          result, exitCode, cancelSeen>>

Running   == [status |-> "running"]
Completed == [status |-> "completed"]

\* PipelineFailure::new: every failure says that the output was preserved.
PipelineFailure(reason, s) ==
  [status |-> "failed", reason |-> reason, stage |-> s, outputPreserved |-> TRUE]

ResultType ==
  {Running, Completed} \cup
  [status : {"failed"}, reason : FailureReason, stage : Stages \cup {NoStage},
   outputPreserved : {TRUE}]

NotSeen == [at |-> "start", stage |-> NoStage]

TypeOK ==
  /\ pc \in Places
  /\ stage \in Stages
  /\ request \in Requests
  /\ cancelled \in BOOLEAN
  /\ entry \in {"unknown", "native", "managed"}
  /\ events \in Seq(EventType)
  /\ summary \in [timings : SUBSET Stages, evidence : SUBSET Stages]
  /\ files \in [{"input", "output"} -> Contents]
  /\ result \in ResultType
  /\ exitCode \in {-1, 0, 1, 2, 130}
  /\ cancelSeen \in [at : Places, stage : Stages \cup {NoStage}]

Init ==
  /\ pc = "start"
  /\ stage = ReadInput
  /\ request \in Requests
  /\ cancelled = FALSE
  /\ entry = "unknown"
  /\ events = <<>>
  /\ summary = [timings |-> {}, evidence |-> {}]
  /\ files = [input |-> "packed",
              output |-> IF request.target \in {"samePath", "hardLink"}
                         THEN "packed" ELSE request.target]
  /\ result = Running
  /\ exitCode = -1
  /\ cancelSeen = NotSeen

-----------------------------------------------------------------------------
(***************************************************************************)
(* Failing.                                                                *)
(***************************************************************************)

(***************************************************************************)
(* The causes a stage's work can fail with, by the type the pipeline can   *)
(* still find behind the context messages.  "Ambiguity" is a plain error   *)
(* whose own message says so; "Other" is any other plain error.            *)
(***************************************************************************)
Causes ==
  {"Cancelled", "RouteCancelled", "KonnNone", "KonnMany", "IoError",
   "RouteUnsupported", "RouteAmbiguous", "RouteInternal", "Ambiguity", "Other"}

\* Only import discovery hands its own message to the pipeline: the other
\* stages wrap it in a fixed context, and the outermost message is the one read.
MessageReachesPipeline(s) == s = ImportRecovery

ClassifyFailure(s, cause) ==
  IF      cause = "Cancelled"                            THEN "Cancelled"
  ELSE IF cause = "KonnNone"                             THEN "Unsupported"
  ELSE IF cause = "KonnMany"                             THEN "Ambiguous"
  ELSE IF s = InputValidation                            THEN "InvalidInput"
  ELSE IF s \in {ReadInput, WriteOutput} \/ cause = "IoError" THEN "Io"
  ELSE CASE cause = "RouteUnsupported"                   -> "Unsupported"
         [] cause = "RouteAmbiguous"                     -> "Ambiguous"
         [] cause = "RouteInternal"                      -> "Internal"
         [] cause = "RouteCancelled"                     -> "Cancelled"
         [] cause = "Ambiguity" /\ MessageReachesPipeline(s) -> "Ambiguous"
         [] OTHER                                        -> "Unsupported"

\* A route error carries its decryption details into the partial summary.
RouteCauses == {"RouteUnsupported", "RouteAmbiguous", "RouteInternal", "RouteCancelled"}

WorkCauses(s) ==
  CASE s = ReadInput          -> {"IoError", "Other"}
    [] s = ProtectorDetection -> {"KonnNone", "Other"}
    [] s = PayloadRecovery    -> (RouteCauses \ {"RouteCancelled"}) \cup {"Other"}
    [] s = StartupRecovery    -> {"Ambiguity", "Other"}
    [] s = ImportRecovery     -> {"Ambiguity", "Other"}
    [] s = OutputRebuild      -> {"Ambiguity", "Other"}
    [] OTHER                  -> {"Other"}

\* Mutated MakeFailure: the observer is not told.
MakeFailureUnreported(cause) ==
  /\ summary' = summary
  /\ result' = PipelineFailure(ClassifyFailure(stage, cause), stage)
  /\ events' = events
  /\ pc' = "returned"

(***************************************************************************)
(* make_failure: classify, then tell the observer, whose answer is ignored.*)
(***************************************************************************)
MakeFailure(cause) ==
  /\ summary' = IF cause \in RouteCauses
                THEN [summary EXCEPT !.evidence = @ \cup {PayloadRecovery}]
                ELSE summary
  /\ result' = PipelineFailure(ClassifyFailure(stage, cause), stage)
  /\ \E ok \in BOOLEAN : events' = Append(events, Event("run_failed", stage, ok))
  /\ pc' = "returned"

(***************************************************************************)
(* observe(...)?  outside a stage's work: a refused event ends the run as  *)
(* an I/O failure, without a further event.                                *)
(***************************************************************************)
Observe(kind, s, next) ==
  \/ /\ events' = Append(events, Event(kind, s, TRUE))
     /\ pc' = next
     /\ result' = result
  \/ /\ events' = Append(events, Event(kind, s, FALSE))
     /\ result' = PipelineFailure("Io", s)
     /\ pc' = "returned"

-----------------------------------------------------------------------------
(***************************************************************************)
(* The pipeline thread.                                                    *)
(***************************************************************************)
StartRun ==
  /\ pc = "start"
  /\ Observe("run_started", NoStage, "enter")
  /\ UNCHANGED <<stage, request, cancelled, entry, summary, files, exitCode, cancelSeen>>

(***************************************************************************)
(* Before ImportRecovery's run_stage, a managed image with a CLR directory *)
(* has that directory validated; the token is not looked at.               *)
(***************************************************************************)
ValidateClrDirectory ==
  /\ pc = "clrCheck"
  /\ \/ /\ pc' = "enter"
        /\ UNCHANGED <<summary, result, events>>
     \/ MakeFailure("Other")
  /\ UNCHANGED <<stage, request, cancelled, entry, files, exitCode, cancelSeen>>

\* run_stage: the checkpoint before a stage.
EnterStage ==
  /\ pc = "enter"
  /\ \/ /\ ~cancelled
        /\ pc' = "stageStarted"
        /\ UNCHANGED <<summary, result, events>>
     \/ /\ cancelled
        /\ MakeFailure("Cancelled")
  /\ UNCHANGED <<stage, request, cancelled, entry, files, exitCode, cancelSeen>>

ObserveStageStarted ==
  /\ pc = "stageStarted"
  /\ Observe("stage_started", stage, "operationStarted")
  /\ UNCHANGED <<stage, request, cancelled, entry, summary, files, exitCode, cancelSeen>>

ObserveOperationStarted ==
  /\ pc = "operationStarted"
  /\ Observe("operation_started", stage, "work")
  /\ UNCHANGED <<stage, request, cancelled, entry, summary, files, exitCode, cancelSeen>>

\* The stages whose work itself looks at the token, now and then.
LooksAtToken == {ProtectorDetection, PayloadRecovery}

(***************************************************************************)
(* The work of stages 1 to 8 up to its progress event.  Startup recovery   *)
(* decides whether the image is a managed one.                             *)
(***************************************************************************)
WorkSucceeds ==
  /\ pc = "work" /\ stage # WriteOutput
  /\ pc' = "progress"
  /\ IF stage = StartupRecovery THEN entry' \in {"native", "managed"}
                                ELSE UNCHANGED entry
  /\ UNCHANGED <<stage, request, cancelled, summary, events, files, result,
                 exitCode, cancelSeen>>

WorkFails ==
  /\ pc = "work" /\ stage # WriteOutput
  /\ \E cause \in WorkCauses(stage) : MakeFailure(cause)
  /\ UNCHANGED <<stage, request, cancelled, entry, files, exitCode, cancelSeen>>

WorkIsCancelled ==
  /\ pc = "work" /\ stage \in LooksAtToken
  /\ cancelled
  /\ \/ MakeFailure("Cancelled")
     \/ stage = PayloadRecovery /\ MakeFailure("RouteCancelled")
  /\ UNCHANGED <<stage, request, cancelled, entry, files, exitCode, cancelSeen>>

(***************************************************************************)
(* WriteOutput's work: choose the path and refuse the input's own, then    *)
(* fs::write, which truncates the file before it writes the bytes.         *)
(***************************************************************************)
WrittenPaths == IF request.target = "hardLink" THEN {"input", "output"} ELSE {"output"}

Store(content) ==
  files' = [p \in DOMAIN files |-> IF p \in WrittenPaths THEN content ELSE files[p]]

\* Mutated MayWrite: ensure_distinct_paths, or the dry-run branch, is missing.
MayWriteOverInput == ~request.dryRun
MayWriteOnDryRun  == request.target # "samePath"

\* ensure_distinct_paths compares canonical paths, which hard links do not share.
MayWrite == ~request.dryRun /\ request.target # "samePath"

ChooseOutputPath ==
  /\ pc = "work" /\ stage = WriteOutput
  /\ \/ /\ request.dryRun
        /\ pc' = "progress"
        /\ UNCHANGED <<summary, result, events>>
     \/ /\ MayWrite
        /\ pc' = "open"
        /\ UNCHANGED <<summary, result, events>>
     \/ /\ ~request.dryRun
        /\ MakeFailure("Other")
  /\ UNCHANGED <<stage, request, cancelled, entry, files, exitCode, cancelSeen>>

OpenOutput ==
  /\ pc = "open"
  /\ \/ /\ Store("partial")
        /\ pc' = "write"
        /\ UNCHANGED <<summary, result, events>>
     \/ /\ MakeFailure("IoError")
        /\ UNCHANGED files
  /\ UNCHANGED <<stage, request, cancelled, entry, exitCode, cancelSeen>>

WriteImage ==
  /\ pc = "write"
  /\ \/ /\ Store("image")
        /\ pc' = "progress"
        /\ UNCHANGED <<summary, result, events>>
     \/ /\ MakeFailure("IoError")
        /\ UNCHANGED files
  /\ UNCHANGED <<stage, request, cancelled, entry, exitCode, cancelSeen>>

(***************************************************************************)
(* The progress event inside the work (one stands for the up to 21 of the  *)
(* descriptor scan): a refusal is an error of the work.  The descriptor    *)
(* scan goes on after it.                                                  *)
(***************************************************************************)
ObserveProgress ==
  /\ pc = "progress"
  /\ \/ /\ events' = Append(events, Event("progress", stage, TRUE))
        /\ pc' = IF stage = ProtectorDetection THEN "scan" ELSE "settle"
        /\ UNCHANGED <<summary, result>>
     \/ /\ result' = PipelineFailure(ClassifyFailure(stage, "IoError"), stage)
        /\ \E ok \in BOOLEAN :
             events' = events \o <<Event("progress", stage, FALSE),
                                   Event("run_failed", stage, ok)>>
        /\ pc' = "returned"
        /\ UNCHANGED summary
  /\ UNCHANGED <<stage, request, cancelled, entry, files, exitCode, cancelSeen>>

\* The rest of the scan, the count of its matches, and then the sidecar is read.
FinishDetection ==
  /\ pc = "scan"
  /\ \/ /\ pc' = "settle"
        /\ UNCHANGED <<summary, result, events>>
     \/ \E cause \in {"KonnNone", "KonnMany", "IoError", "Other"} : MakeFailure(cause)
     \/ cancelled /\ MakeFailure("Cancelled")
  /\ UNCHANGED <<stage, request, cancelled, entry, files, exitCode, cancelSeen>>

\* Mutated SettleStage: no checkpoint after the work.
SettleStageUnchecked ==
  /\ pc = "settle"
  /\ pc' = "operationCompleted"
  /\ UNCHANGED <<stage, request, cancelled, entry, summary, events, files,
                 result, exitCode, cancelSeen>>

\* run_stage: the checkpoint after the work.
SettleStage ==
  /\ pc = "settle"
  /\ \/ /\ ~cancelled
        /\ pc' = "operationCompleted"
        /\ UNCHANGED <<summary, result, events>>
     \/ /\ cancelled
        /\ MakeFailure("Cancelled")
  /\ UNCHANGED <<stage, request, cancelled, entry, files, exitCode, cancelSeen>>

ObserveOperationCompleted ==
  /\ pc = "operationCompleted"
  /\ Observe("operation_completed", stage, "stageCompleted")
  /\ UNCHANGED <<stage, request, cancelled, entry, summary, files, exitCode, cancelSeen>>

(***************************************************************************)
(* The last event of a stage; then run records its timing and evidence and *)
(* goes on to the next stage.                                              *)
(***************************************************************************)
AfterStage ==
  CASE stage = WriteOutput -> "runCompleted"
    [] stage = StartupRecovery /\ entry = "managed" -> "clrCheck"
    [] OTHER -> "enter"

\* Mutated ObserveStageCompleted: recorded before the observer accepted it.
ObserveStageCompletedLate ==
  /\ pc = "stageCompleted"
  /\ Observe("stage_completed", stage, AfterStage)
  /\ summary' = [timings |-> summary.timings \cup {stage},
                 evidence |-> summary.evidence \cup ({stage} \ {ImageValidation})]
  /\ stage' = IF stage = WriteOutput THEN stage ELSE stage + 1
  /\ UNCHANGED <<request, cancelled, entry, files, exitCode, cancelSeen>>

ObserveStageCompleted ==
  /\ pc = "stageCompleted"
  /\ Observe("stage_completed", stage, AfterStage)
  /\ \/ /\ result' = Running
        /\ summary' = [timings |-> summary.timings \cup {stage},
                       evidence |-> summary.evidence \cup ({stage} \ {ImageValidation})]
        /\ stage' = IF stage = WriteOutput THEN stage ELSE stage + 1
     \/ /\ result' # Running
        /\ UNCHANGED <<summary, stage>>
  /\ UNCHANGED <<request, cancelled, entry, files, exitCode, cancelSeen>>

ObserveRunCompleted ==
  /\ pc = "runCompleted"
  /\ \/ /\ events' = Append(events, Event("run_completed", NoStage, TRUE))
        /\ result' = Completed
     \/ /\ events' = Append(events, Event("run_completed", NoStage, FALSE))
        /\ result' = PipelineFailure("Io", NoStage)
  /\ pc' = "returned"
  /\ UNCHANGED <<stage, request, cancelled, entry, summary, files, exitCode, cancelSeen>>

\* Mutated ResultExitCode: a cancelled run ends with the signal's number.
ResultExitCodeOfSignal(r) ==
  IF r.status = "completed" THEN 0 ELSE IF r.reason = "Cancelled" THEN 3 ELSE 1

\* result_exit_code in src/cli/run.rs.
ResultExitCode(r) ==
  IF r.status = "completed" THEN 0
  ELSE CASE r.reason = "Cancelled"      -> 130
         [] r.reason = "InvalidInput"   -> 2
         [] OTHER                       -> 1

Exit ==
  /\ pc = "returned"
  /\ exitCode' = ResultExitCode(result)
  /\ pc' = "exited"
  /\ UNCHANGED <<stage, request, cancelled, entry, events, summary, files,
                 result, cancelSeen>>

-----------------------------------------------------------------------------
(***************************************************************************)
(* The environment: the Ctrl-C thread and the death of the process.        *)
(***************************************************************************)
Cancel ==
  /\ ~cancelled /\ pc \notin {"returned", "exited", "crashed"}
  /\ cancelled' = TRUE
  /\ cancelSeen' = [at |-> pc, stage |-> stage]
  /\ UNCHANGED <<pc, stage, request, entry, events, summary, files, result, exitCode>>

Crash ==
  /\ pc \notin {"exited", "crashed"}
  /\ pc' = "crashed"
  /\ UNCHANGED <<stage, request, cancelled, entry, events, summary, files,
                 result, exitCode, cancelSeen>>

Advance ==
  \/ StartRun \/ ValidateClrDirectory \/ EnterStage
  \/ ObserveStageStarted \/ ObserveOperationStarted
  \/ WorkSucceeds \/ WorkFails \/ WorkIsCancelled
  \/ ChooseOutputPath \/ OpenOutput \/ WriteImage
  \/ ObserveProgress \/ FinishDetection \/ SettleStage
  \/ ObserveOperationCompleted \/ ObserveStageCompleted
  \/ ObserveRunCompleted \/ Exit

Stopped == pc \in {"exited", "crashed"} /\ UNCHANGED vars

Next == Advance \/ Cancel \/ Crash \/ Stopped

(***************************************************************************)
(* Fairness: the pipeline is one thread that never waits for another, so it*)
(* keeps taking steps as long as file operations return.                   *)
(***************************************************************************)
Spec == Init /\ [][Next]_vars /\ WF_vars(Advance)

-----------------------------------------------------------------------------
(***************************************************************************)
(* Properties.                                                             *)
(***************************************************************************)
Last(seq) == seq[Len(seq)]

InitialContent(p) ==
  IF p = "input" \/ request.target \in {"samePath", "hardLink"}
  THEN "packed" ELSE request.target

Untouched == \A p \in DOMAIN files : files[p] = InitialContent(p)

Delivered(kind, s) ==
  \E i \in DOMAIN events : events[i] = Event(kind, s, TRUE)

(***************************************************************************)
(* The caller, the observer and the exit code agree: a run that completed  *)
(* ends with run_completed delivered and exits 0; a failed one ends with   *)
(* run_failed for the failing stage, or with the very event the observer   *)
(* refused; nothing follows either; 130 is returned only after a           *)
(* cancellation (run, run_stage, make_failure, result_exit_code).          *)
(***************************************************************************)
RunIsReported ==
  /\ \A i \in DOMAIN events :
       \/ i = Len(events)
       \/ events[i].ok /\ events[i].kind \notin {"run_completed", "run_failed"}
       \/ /\ events[i].kind = "progress"
          /\ i + 1 = Len(events) /\ Last(events).kind = "run_failed"
  /\ result = Completed <=> Delivered("run_completed", NoStage)
  /\ result.status = "failed" =>
       \/ Last(events).kind = "run_failed" /\ Last(events).stage = result.stage
       \/ ~Last(events).ok
  /\ exitCode = 0 => result = Completed
  /\ exitCode = 130 => cancelled /\ result # Completed

(***************************************************************************)
(* The partial summary a failure carries holds the timing of exactly the   *)
(* stages whose completion was delivered, these stages are a prefix of the *)
(* nine, and evidence of a later stage appears only when a payload route   *)
(* failed and left its trace (run, run_stage, make_failure).               *)
(***************************************************************************)
SummaryMatchesEvents ==
  /\ pc # "stageCompleted" =>
       summary.timings = {s \in Stages : Delivered("stage_completed", s)}
  /\ \A s \in summary.timings : \A t \in 1..s : t \in summary.timings
  /\ \A s \in summary.evidence \ summary.timings :
       /\ s = PayloadRecovery
       /\ result.status = "failed" /\ result.stage = PayloadRecovery
       /\ result.reason \in {"Unsupported", "Ambiguous", "Internal", "Cancelled"}
  /\ result = Completed => summary.timings = Stages

(***************************************************************************)
(* Once Ctrl-C set the token no further stage starts, and the run can      *)
(* still complete only if the token was set after WriteOutput's last       *)
(* checkpoint (the two checkpoints of run_stage and those of the work).    *)
(***************************************************************************)
CancelStopsTheRun ==
  cancelled =>
    /\ \A i \in DOMAIN events :
         events[i].kind = "stage_started" => events[i].stage <= cancelSeen.stage
    /\ result = Completed =>
         /\ cancelSeen.stage = WriteOutput
         /\ cancelSeen.at \in {"operationCompleted", "stageCompleted", "runCompleted"}

(***************************************************************************)
(* The run fails closed: neither file changes before the output is opened  *)
(* in the last stage, on a dry run, or when the output path is the input's *)
(* (write.rs and the WriteOutput closure of run).                          *)
(***************************************************************************)
FailsClosed ==
  \/ Untouched
  \/ /\ ~request.dryRun /\ request.target # "samePath"
     /\ 1..OutputRebuild \subseteq summary.timings
     /\ result.status = "failed" => result.stage \in {WriteOutput, NoStage}

(***************************************************************************)
(* The abstract contract of a run: see UnpackContract.                     *)
(***************************************************************************)
ContractOutput ==
  CASE files["output"] = "partial" -> "partial"
    [] files["output"] = "image"   -> "complete"
    [] OTHER                       -> "untouched"

ContractPhase ==
  IF pc = "crashed" THEN "dead"
  ELSE CASE result.status = "completed" -> "succeeded"
         [] result.status = "failed"    -> "failed"
         [] OTHER                       -> "working"

Contract == INSTANCE UnpackContract WITH
  dryRun <- request.dryRun, phase <- ContractPhase, output <- ContractOutput

(***************************************************************************)
(* Every behaviour of the pipeline is one the contract allows, and it ends.*)
(***************************************************************************)
ImplementsContract == Contract!Spec

(***************************************************************************)
(* "verifies that result before an atomic write" (README.md): at no moment *)
(* does the output path hold part of an image.                             *)
(***************************************************************************)
OutputIsAtomic == files["output"] # "partial"

(***************************************************************************)
(* "Output preserved: true" (failure_summary, failure_data): a failure     *)
(* that says so left the output file as it was.                            *)
(***************************************************************************)
OutputPreservedIsTrue ==
  result.status = "failed" /\ result.outputPreserved => Untouched

(***************************************************************************)
(* "input alias must be rejected" (write.rs): whatever the output path is, *)
(* the packed input file is never overwritten.                             *)
(***************************************************************************)
InputIsNeverOverwritten == files["input"] = "packed"
=============================================================================
