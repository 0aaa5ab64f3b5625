------------------------ MODULE UnpackPipelineProofs ------------------------
(***************************************************************************)
(* Proofs about UnpackPipeline, for every set of requests: the types, the   *)
(* agreement of result, events, summary and exit code, what a cancellation  *)
(* and a failure leave behind, and that every step is one of UnpackContract *)
(* or a stutter.                                                           *)
(***************************************************************************)
EXTENDS UnpackPipeline, TLAPS

(***************************************************************************)
(* The inductive invariant, in parts.                                      *)
(***************************************************************************)
Settled == {"operationCompleted", "stageCompleted", "runCompleted"}
Over    == {"returned", "exited", "crashed"}

\* Where the thread is tells the stage, and whether there is a result.
PlaceInv ==
  /\ pc \in {"start", "scan", "clrCheck", "open", "write", "runCompleted"} =>
       stage = CASE pc = "start"    -> ReadInput
                 [] pc = "scan"     -> ProtectorDetection
                 [] pc = "clrCheck" -> ImportRecovery
                 [] OTHER           -> WriteOutput
  /\ pc \notin Over => result = Running
  /\ pc \in {"returned", "exited"} => result # Running
  /\ pc # "exited" => exitCode = -1
  /\ pc = "exited" => exitCode = ResultExitCode(result)
  /\ result.status = "failed" =>
       /\ result.stage \in {stage, NoStage}
       /\ result.reason = "Cancelled" => cancelled

\* The stages before the current one are timed, and all nine once the last is over.
SummaryInv ==
  /\ summary.timings = 1..(stage - 1) \/ (stage = WriteOutput /\ summary.timings = Stages)
  /\ pc \notin Over => summary.timings = IF pc = "runCompleted" THEN Stages ELSE 1..(stage - 1)
  /\ result = Completed => summary.timings = Stages
  /\ \A s \in summary.evidence \ summary.timings :
       /\ s = PayloadRecovery
       /\ result.status = "failed" /\ result.stage = PayloadRecovery
       /\ result.reason \in {"Unsupported", "Ambiguous", "Internal", "Cancelled"}

\* While the run goes on every event was accepted and none is the last one.
EventsInv ==
  /\ pc \notin Over =>
       \A i \in DOMAIN events :
         events[i].ok /\ events[i].kind \notin {"run_completed", "run_failed"}
  /\ pc = "start" => events = <<>>
  /\ \A i \in DOMAIN events : events[i].kind = "stage_started" => events[i].stage <= stage

\* How the events end, and what they say of result and summary.
ReportInv ==
  /\ \A i \in DOMAIN events :
       \/ i = Len(events)
       \/ events[i].ok /\ events[i].kind \notin {"run_completed", "run_failed"}
       \/ /\ events[i].kind = "progress"
          /\ i + 1 = Len(events) /\ Last(events).kind = "run_failed"
  /\ result = Completed <=> Delivered("run_completed", NoStage)
  /\ result.status = "failed" =>
       \/ Last(events).kind = "run_failed" /\ Last(events).stage = result.stage
       \/ ~Last(events).ok
  /\ summary.timings = {s \in Stages : Delivered("stage_completed", s)}

\* A set token lets the thread finish the stage it was in, but start no other.
CancelInv ==
  cancelled =>
    /\ cancelSeen.stage \in Stages
    /\ \A i \in DOMAIN events :
         events[i].kind = "stage_started" => events[i].stage <= cancelSeen.stage
    /\ \/ stage = cancelSeen.stage
       \/ stage = cancelSeen.stage + 1 /\ pc \in {"enter", "clrCheck"} \cup Over
    /\ pc \in Settled => cancelSeen.stage = stage /\ cancelSeen.at \in Settled
    /\ result = Completed => cancelSeen.stage = WriteOutput /\ cancelSeen.at \in Settled

\* What the output path holds, by where the thread is.
FilesInv ==
  /\ Untouched \/ (MayWrite /\ stage = WriteOutput)
  /\ pc \in {"open", "write"} => MayWrite
  /\ pc = "write" <=> pc \notin Over /\ files["output"] = "partial"
  /\ pc \notin Over /\ stage = WriteOutput /\ pc \in {"progress", "settle"} \cup Settled =>
       IF request.dryRun THEN Untouched ELSE files["output"] = "image"
  /\ pc \notin Over /\ ~(stage = WriteOutput /\ pc \in {"write", "progress", "settle"} \cup Settled)
       => Untouched
  /\ result = Completed =>
       IF request.dryRun THEN Untouched ELSE files["output"] = "image"

CoreInv == TypeOK /\ PlaceInv /\ SummaryInv /\ EventsInv /\ ReportInv /\ CancelInv

IInv == CoreInv /\ FilesInv

-----------------------------------------------------------------------------
(***************************************************************************)
(* What one more event changes, and what a result can be.                  *)
(***************************************************************************)
LEMMA AppendedEvent ==
  ASSUME events \in Seq(EventType), NEW e \in EventType,
         events' = Append(events, e)
  PROVE  /\ events' \in Seq(EventType)
         /\ Len(events) \in Nat /\ Len(events') = Len(events) + 1
         /\ DOMAIN events = 1..Len(events) /\ DOMAIN events' = 1..(Len(events) + 1)
         /\ \A i \in DOMAIN events : events'[i] = events[i]
         /\ events'[Len(events')] = e /\ Last(events)' = e
BY DEF Last

\* A refused progress event is followed by the report of the failure.
LEMMA AppendedPair ==
  ASSUME events \in Seq(EventType), NEW e \in EventType, NEW f \in EventType,
         events' = events \o <<e, f>>
  PROVE  /\ events' \in Seq(EventType)
         /\ Len(events) \in Nat /\ Len(events') = Len(events) + 2
         /\ DOMAIN events = 1..Len(events) /\ DOMAIN events' = 1..(Len(events) + 2)
         /\ \A i \in DOMAIN events : events'[i] = events[i]
         /\ events'[Len(events) + 1] = e
         /\ events'[Len(events')] = f /\ Last(events)' = f
BY DEF Last

LEMMA EventIsTyped ==
  ASSUME NEW kind \in EventKinds, NEW s \in Stages \cup {NoStage}, NEW ok \in BOOLEAN
  PROVE  /\ Event(kind, s, ok) \in EventType
         /\ Event(kind, s, ok).kind = kind
         /\ Event(kind, s, ok).stage = s
         /\ Event(kind, s, ok).ok = ok
BY DEF Event, EventType

\* An accepted event delivers itself, and what was delivered before stays so.
LEMMA DeliveredByOneMore ==
  ASSUME events \in Seq(EventType),
         NEW kind \in EventKinds, NEW s \in Stages \cup {NoStage}, NEW ok \in BOOLEAN,
         events' = Append(events, Event(kind, s, ok)),
         NEW k, NEW t
  PROVE  Delivered(k, t)' <=> Delivered(k, t) \/ (ok /\ k = kind /\ t = s)
<1>1. PICK n \in Nat : n = Len(events)
  BY AppendedEvent, EventIsTyped
<1>2. /\ DOMAIN events = 1..n /\ DOMAIN events' = 1..(n + 1)
      /\ \A i \in 1..n : events'[i] = events[i]
      /\ events'[n + 1] = Event(kind, s, ok)
  BY <1>1, AppendedEvent, EventIsTyped
<1>3. Event(kind, s, ok) = Event(k, t, TRUE) <=> ok /\ k = kind /\ t = s
  BY DEF Event
<1>4. Delivered(k, t)' <=> \E i \in 1..(n + 1) : events'[i] = Event(k, t, TRUE)
  BY <1>2 DEF Delivered, Event
<1>5. Delivered(k, t) <=> \E i \in 1..n : events[i] = Event(k, t, TRUE)
  BY <1>2 DEF Delivered
<1>6. /\ \A i \in 1..n : i \in 1..(n + 1)
      /\ n + 1 \in 1..(n + 1)
      /\ \A i \in 1..(n + 1) : i \in 1..n \/ i = n + 1
  OBVIOUS
<1>. QED
  BY <1>2, <1>3, <1>4, <1>5, <1>6

LEMMA DeliveredByPair ==
  ASSUME events \in Seq(EventType), NEW s \in Stages, NEW ok \in BOOLEAN,
         events' = events \o <<Event("progress", s, FALSE), Event("run_failed", s, ok)>>,
         NEW k, NEW t, k # "run_failed"
  PROVE  Delivered(k, t)' <=> Delivered(k, t)
<1>0. /\ Event("progress", s, FALSE) \in EventType
      /\ Event("run_failed", s, ok) \in EventType
  BY DEF Event, EventType, EventKinds
<1>1. PICK n \in Nat : n = Len(events)
  BY <1>0, AppendedPair
<1>2. /\ DOMAIN events = 1..n /\ DOMAIN events' = 1..(n + 2)
      /\ \A i \in 1..n : events'[i] = events[i]
      /\ events'[n + 1] = Event("progress", s, FALSE)
      /\ events'[n + 2] = Event("run_failed", s, ok)
  BY <1>0, <1>1, AppendedPair
<1>3. /\ Event("progress", s, FALSE) # Event(k, t, TRUE)
      /\ Event("run_failed", s, ok) # Event(k, t, TRUE)
  BY DEF Event
<1>4. Delivered(k, t)' <=> \E i \in 1..(n + 2) : events'[i] = Event(k, t, TRUE)
  BY <1>2 DEF Delivered, Event
<1>5. Delivered(k, t) <=> \E i \in 1..n : events[i] = Event(k, t, TRUE)
  BY <1>2 DEF Delivered
<1>6. /\ \A i \in 1..n : i \in 1..(n + 2)
      /\ \A i \in 1..(n + 2) : i \in 1..n \/ i = n + 1 \/ i = n + 2
  OBVIOUS
<1>. QED
  BY <1>2, <1>3, <1>4, <1>5, <1>6

LEMMA FailureIsTyped ==
  ASSUME NEW reason \in FailureReason, NEW s \in Stages \cup {NoStage}
  PROVE  /\ PipelineFailure(reason, s) \in ResultType
         /\ PipelineFailure(reason, s).status = "failed"
         /\ PipelineFailure(reason, s).stage = s
         /\ PipelineFailure(reason, s).reason = reason
         /\ PipelineFailure(reason, s) # Completed
         /\ PipelineFailure(reason, s) # Running
BY DEF PipelineFailure, ResultType, Running, Completed

LEMMA ResultIsOneOfThree ==
  ASSUME NEW r \in ResultType
  PROVE  /\ r = Running \/ r = Completed \/ r.status = "failed"
         /\ r = Running <=> r.status = "running"
         /\ r = Completed <=> r.status = "completed"
<1>1. Running.status = "running" /\ Completed.status = "completed"
  BY DEF Running, Completed
<1>2. r \in {Running, Completed} \/ r.status = "failed"
  BY DEF ResultType
<1>. QED
  BY <1>1, <1>2

LEMMA FailureIsClassified ==
  ASSUME NEW s \in Stages, NEW cause \in Causes
  PROVE  /\ ClassifyFailure(s, cause) \in FailureReason
         /\ ClassifyFailure(s, cause) = "Cancelled" => cause \in {"Cancelled", "RouteCancelled"}
         /\ cause \in RouteCauses /\ s = PayloadRecovery =>
              ClassifyFailure(s, cause) \in {"Unsupported", "Ambiguous", "Internal", "Cancelled"}
BY DEF ClassifyFailure, FailureReason, Causes, RouteCauses, MessageReachesPipeline,
       PayloadRecovery, InputValidation, ReadInput, WriteOutput, ImportRecovery

-----------------------------------------------------------------------------
(***************************************************************************)
(* The kinds of step.  GoesOn: the thread moves within a stage, possibly    *)
(* after an accepted event.                                                *)
(***************************************************************************)
FilesAreTyped == files \in [{"input", "output"} -> Contents]

GoesOn ==
  /\ pc \notin Over \cup {"runCompleted"}
  /\ pc' \in Places \ (Over \cup {"start", "runCompleted"})
  /\ pc' = "scan" => stage = ProtectorDetection
  /\ pc' = "clrCheck" => stage = ImportRecovery
  /\ pc' \in {"open", "write"} => stage = WriteOutput
  /\ pc = "enter" => ~cancelled
  /\ pc = "clrCheck" => pc' = "enter"
  /\ pc' \in Settled => ~cancelled \/ pc \in Settled
  /\ entry' \in {"unknown", "native", "managed"}
  /\ FilesAreTyped'
  /\ UNCHANGED <<stage, request, cancelled, summary, result, exitCode, cancelSeen>>

LEMMA MovingKeeps ==
  ASSUME CoreInv, GoesOn, UNCHANGED events
  PROVE  CoreInv'
<1>. USE DEF GoesOn
<1>1. TypeOK'
  BY DEF CoreInv, TypeOK, FilesAreTyped
<1>2. PlaceInv'
  BY DEF CoreInv, PlaceInv, Over
<1>3. SummaryInv'
  BY DEF CoreInv, SummaryInv, Over
<1>4. EventsInv'
  BY DEF CoreInv, EventsInv, Over
<1>5. ReportInv'
  BY DEF CoreInv, ReportInv, Delivered, Last
<1>6. CancelInv'
  BY DEF CoreInv, CancelInv, Settled, Over
<1>. QED
  BY <1>1, <1>2, <1>3, <1>4, <1>5, <1>6 DEF CoreInv

LEMMA AcceptingKeeps ==
  ASSUME CoreInv, GoesOn,
         NEW kind \in EventKinds, NEW s \in Stages \cup {NoStage},
         kind \notin {"run_completed", "run_failed", "stage_completed"},
         kind = "stage_started" => pc = "stageStarted" /\ s = stage,
         events' = Append(events, Event(kind, s, TRUE))
  PROVE  CoreInv'
<1>0. events \in Seq(EventType) /\ stage \in Stages /\ stage <= stage
  BY DEF CoreInv, TypeOK, Stages
<1>e. /\ Event(kind, s, TRUE) \in EventType
      /\ Event(kind, s, TRUE).kind = kind
      /\ Event(kind, s, TRUE).stage = s
      /\ Event(kind, s, TRUE).ok = TRUE
  BY <1>0, EventIsTyped
<1>1. PICK n \in Nat :
        /\ n = Len(events) /\ Len(events') = n + 1 /\ events' \in Seq(EventType)
        /\ DOMAIN events = 1..n /\ DOMAIN events' = 1..(n + 1)
        /\ \A i \in 1..n : events'[i] = events[i]
        /\ events'[n + 1] = Event(kind, s, TRUE)
  <2>1. /\ events' \in Seq(EventType)
        /\ Len(events) \in Nat /\ Len(events') = Len(events) + 1
        /\ DOMAIN events = 1..Len(events) /\ DOMAIN events' = 1..(Len(events) + 1)
        /\ \A i \in DOMAIN events : events'[i] = events[i]
        /\ events'[Len(events')] = Event(kind, s, TRUE)
    BY <1>0, <1>e, AppendedEvent
  <2>. QED
    BY <2>1
<1>2. TypeOK'
  BY <1>1 DEF GoesOn, CoreInv, TypeOK, FilesAreTyped
<1>3. PlaceInv'
  BY DEF GoesOn, CoreInv, PlaceInv, Over
<1>4. SummaryInv'
  BY DEF GoesOn, CoreInv, SummaryInv, Over
<1>5. /\ events'[n + 1].ok /\ events'[n + 1].kind \notin {"run_completed", "run_failed"}
      /\ events'[n + 1].kind = "stage_started" =>
           pc = "stageStarted" /\ events'[n + 1].stage = stage
  BY <1>1, <1>e, Zenon
<1>6. \A i \in 1..n :
          /\ events'[i].ok /\ events'[i].kind \notin {"run_completed", "run_failed"}
          /\ events'[i].kind = "stage_started" => events'[i].stage <= stage
  BY <1>1 DEF GoesOn, CoreInv, EventsInv
<1>7. \A i \in 1..(n + 1) : i \in 1..n \/ i = n + 1
  OBVIOUS
<1>8. EventsInv'
  <2>1. events'[n + 1].kind = "stage_started" => events'[n + 1].stage <= stage
    BY <1>0, <1>5, Zenon
  <2>2. pc' # "start" /\ stage' = stage
    BY DEF GoesOn
  <2>. QED
    BY <1>1, <1>5, <1>6, <1>7, <2>1, <2>2 DEF EventsInv
<1>9. ReportInv'
  <2>1. \A k, t : k # kind => (Delivered(k, t)' <=> Delivered(k, t))
    BY <1>0, DeliveredByOneMore
  <2>2. result' = Running /\ result'.status # "failed" /\ result' # Completed
    BY DEF GoesOn, CoreInv, PlaceInv, Running, Completed
  <2>3. /\ ~Delivered("run_completed", NoStage)'
        /\ summary'.timings = {t \in Stages : Delivered("stage_completed", t)'}
    BY <2>1, <2>2 DEF GoesOn, CoreInv, ReportInv
  <2>4. \A i \in DOMAIN events' :
          events'[i].ok /\ events'[i].kind \notin {"run_completed", "run_failed"}
    BY <1>1, <1>5, <1>6, <1>7
  <2>. QED
    BY <2>2, <2>3, <2>4, Zenon DEF ReportInv
<1>10. CancelInv'
  <2>. SUFFICES ASSUME cancelled PROVE CancelInv'
    BY DEF GoesOn, CancelInv
  <2>1. \A i \in 1..n : events'[i].kind = "stage_started" => events'[i].stage <= cancelSeen.stage
    BY <1>1 DEF CoreInv, CancelInv
  <2>2. pc = "stageStarted" => stage <= cancelSeen.stage
    BY <1>0 DEF CoreInv, CancelInv, Over
  <2>3. events'[n + 1].kind = "stage_started" => events'[n + 1].stage <= cancelSeen.stage
    BY <1>5, <2>2, Zenon
  <2>4. \A i \in 1..(n + 1) :
          events'[i].kind = "stage_started" => events'[i].stage <= cancelSeen.stage
    BY <1>7, <2>1, <2>3, Zenon
  <2>. QED
    BY <1>1, <2>4 DEF GoesOn, CoreInv, CancelInv, Settled, Over
<1>. QED
  BY <1>2, <1>3, <1>4, <1>8, <1>9, <1>10 DEF CoreInv

(***************************************************************************)
(* A failure of the stage, told to the observer: MakeFailure.              *)
(***************************************************************************)
LEMMA FailingKeeps ==
  ASSUME CoreInv, pc \notin Over, NEW cause \in Causes, MakeFailure(cause),
         cause \in {"Cancelled", "RouteCancelled"} => cancelled,
         cause \in RouteCauses => stage = PayloadRecovery,
         UNCHANGED <<stage, request, cancelled, entry, files, exitCode, cancelSeen>>
  PROVE  CoreInv'
<1>0. events \in Seq(EventType) /\ stage \in Stages /\ result = Running
  BY DEF CoreInv, TypeOK, PlaceInv
<1>1. PICK ok \in BOOLEAN : events' = Append(events, Event("run_failed", stage, ok))
  BY DEF MakeFailure
<1>2. PICK n \in Nat :
        /\ n = Len(events) /\ Len(events') = n + 1 /\ events' \in Seq(EventType)
        /\ DOMAIN events = 1..n /\ DOMAIN events' = 1..(n + 1)
        /\ \A i \in 1..n : events'[i] = events[i]
        /\ events'[n + 1] = Event("run_failed", stage, ok)
        /\ Last(events)' = Event("run_failed", stage, ok)
  BY <1>0, <1>1, AppendedEvent, EventIsTyped DEF EventKinds
<1>3. /\ events'[n + 1].kind = "run_failed"
      /\ Last(events)'.kind = "run_failed" /\ Last(events)'.stage = stage
  BY <1>2 DEF Event
<1>4. \A i \in 1..n : events'[i].ok /\ events'[i].kind \notin {"run_completed", "run_failed"}
  BY <1>2 DEF CoreInv, EventsInv
<1>5. /\ result' \in ResultType /\ result'.status = "failed" /\ result' # Completed
      /\ result' # Running /\ result'.stage = stage
      /\ result'.reason = ClassifyFailure(stage, cause)
      /\ result'.reason = "Cancelled" => cancelled
  BY <1>0, FailureIsTyped, FailureIsClassified DEF MakeFailure
<1>6. TypeOK'
  <2>1. summary' \in [timings : SUBSET Stages, evidence : SUBSET Stages]
    <3>1. summary \in [timings : SUBSET Stages, evidence : SUBSET Stages]
      BY DEF CoreInv, TypeOK
    <3>2. PayloadRecovery \in Stages
      BY DEF PayloadRecovery, Stages
    <3>. QED
      BY <3>1, <3>2 DEF MakeFailure
  <2>. QED
    <3>1. pc' \in Places
      BY DEF MakeFailure, Places
    <3>. QED
      BY <1>2, <1>5, <2>1, <3>1 DEF CoreInv, TypeOK
<1>7. PlaceInv'
  BY <1>5 DEF CoreInv, PlaceInv, Over, MakeFailure
<1>8. SummaryInv'
  <2>1. summary'.timings = summary.timings
    BY DEF MakeFailure, CoreInv, TypeOK
  <2>2. summary.evidence \subseteq summary.timings
    BY <1>0 DEF CoreInv, SummaryInv, Running
  <2>3. \A s \in summary'.evidence \ summary'.timings : s = PayloadRecovery /\ cause \in RouteCauses
    BY <2>1, <2>2 DEF MakeFailure, CoreInv, TypeOK
  <2>4. cause \in RouteCauses =>
          result'.reason \in {"Unsupported", "Ambiguous", "Internal", "Cancelled"}
    BY <1>0, <1>5, FailureIsClassified
  <2>5. pc' \in Over
    BY DEF MakeFailure, Over
  <2>. QED
    BY <1>5, <2>1, <2>3, <2>4, <2>5 DEF CoreInv, SummaryInv
<1>9. EventsInv'
  BY <1>2, <1>3 DEF CoreInv, EventsInv, MakeFailure, Over
<1>10. ReportInv'
  <2>1. /\ ~Delivered("run_completed", NoStage)'
        /\ \A t \in Stages : Delivered("stage_completed", t)' <=> Delivered("stage_completed", t)
    <3>1. ~Delivered("run_completed", NoStage)
      BY <1>0 DEF CoreInv, ReportInv, Running, Completed
    <3>. QED
      BY <1>0, <1>1, <3>1, DeliveredByOneMore DEF EventKinds
  <2>2. summary'.timings = summary.timings
    BY DEF MakeFailure, CoreInv, TypeOK
  <2>. QED
    BY <1>2, <1>3, <1>4, <1>5, <2>1, <2>2 DEF CoreInv, ReportInv
<1>11. CancelInv'
  BY <1>2, <1>3, <1>5 DEF CoreInv, CancelInv, MakeFailure, Over, Settled
<1>. QED
  BY <1>6, <1>7, <1>8, <1>9, <1>10, <1>11 DEF CoreInv

\* An event the observer refused outside a stage's work: Observe.
LEMMA RefusingKeeps ==
  ASSUME CoreInv, pc \notin Over,
         NEW kind \in EventKinds, NEW s \in Stages \cup {NoStage},
         s = stage \/ s = NoStage,
         kind = "stage_started" => pc = "stageStarted" /\ s = stage,
         events' = Append(events, Event(kind, s, FALSE)),
         result' = PipelineFailure("Io", s), pc' = "returned",
         UNCHANGED <<stage, request, cancelled, entry, summary, files, exitCode, cancelSeen>>
  PROVE  CoreInv'
<1>0. /\ events \in Seq(EventType) /\ stage \in Stages /\ stage <= stage
      /\ result = Running
  BY DEF CoreInv, TypeOK, PlaceInv, Stages
<1>e. /\ Event(kind, s, FALSE) \in EventType
      /\ Event(kind, s, FALSE).kind = kind
      /\ Event(kind, s, FALSE).stage = s
      /\ Event(kind, s, FALSE).ok = FALSE
  BY <1>0, EventIsTyped
<1>1. PICK n \in Nat :
        /\ n = Len(events) /\ Len(events') = n + 1 /\ events' \in Seq(EventType)
        /\ DOMAIN events = 1..n /\ DOMAIN events' = 1..(n + 1)
        /\ \A i \in 1..n : events'[i] = events[i]
        /\ events'[n + 1] = Event(kind, s, FALSE)
        /\ Last(events)' = Event(kind, s, FALSE)
  BY <1>0, <1>e, AppendedEvent
<1>2. /\ result' \in ResultType /\ result'.status = "failed" /\ result' # Completed
      /\ result' # Running /\ result'.stage = s /\ result'.reason = "Io"
  <2>1. "Io" \in FailureReason
    BY DEF FailureReason
  <2>2. LET f == PipelineFailure("Io", s)
        IN  /\ f \in ResultType /\ f.status = "failed" /\ f # Completed
            /\ f # Running /\ f.stage = s /\ f.reason = "Io"
    BY <2>1, FailureIsTyped
  <2>. QED
    BY <2>2
<1>3. TypeOK'
  <2>1. pc' \in Places /\ result' \in ResultType /\ events' \in Seq(EventType)
    BY <1>1, <1>2 DEF Places
  <2>. QED
    BY <2>1 DEF CoreInv, TypeOK
<1>4. PlaceInv'
  BY <1>2 DEF CoreInv, PlaceInv, Over
<1>5. SummaryInv'
  BY <1>0, <1>2 DEF CoreInv, SummaryInv, Over, Running
<1>6. \A i \in 1..(n + 1) : i \in 1..n \/ i = n + 1
  OBVIOUS
<1>7. \A i \in 1..n :
        /\ events'[i].ok /\ events'[i].kind \notin {"run_completed", "run_failed"}
        /\ events'[i].kind = "stage_started" => events'[i].stage <= stage
  BY <1>1 DEF CoreInv, EventsInv
<1>8. events'[n + 1].kind = "stage_started" => pc = "stageStarted" /\ events'[n + 1].stage = stage
  BY <1>1, <1>e, Zenon
<1>9. EventsInv'
  <2>1. events'[n + 1].kind = "stage_started" => events'[n + 1].stage <= stage
    BY <1>0, <1>8, Zenon
  <2>2. \A i \in DOMAIN events' : events'[i].kind = "stage_started" => events'[i].stage <= stage
    BY <1>1, <1>6, <1>7, <2>1
  <2>. QED
    BY <2>2 DEF EventsInv, Over
<1>10. ReportInv'
  <2>1. \A k, t : Delivered(k, t)' <=> Delivered(k, t)
    BY <1>0, DeliveredByOneMore
  <2>2. /\ ~Delivered("run_completed", NoStage)'
        /\ summary'.timings = {t \in Stages : Delivered("stage_completed", t)'}
    BY <1>0, <2>1 DEF CoreInv, ReportInv, Running, Completed
  <2>3. \A i \in DOMAIN events' :
          \/ i = Len(events')
          \/ events'[i].ok /\ events'[i].kind \notin {"run_completed", "run_failed"}
    BY <1>1, <1>6, <1>7
  <2>4. ~Last(events)'.ok
    BY <1>1, <1>e
  <2>. QED
    BY <1>2, <2>2, <2>3, <2>4, Zenon DEF ReportInv
<1>11. CancelInv'
  <2>. SUFFICES ASSUME cancelled PROVE CancelInv'
    BY DEF CancelInv
  <2>1. \A i \in 1..n : events'[i].kind = "stage_started" => events'[i].stage <= cancelSeen.stage
    BY <1>1 DEF CoreInv, CancelInv
  <2>2. pc = "stageStarted" => stage <= cancelSeen.stage
    BY <1>0 DEF CoreInv, CancelInv, Over
  <2>3. events'[n + 1].kind = "stage_started" => events'[n + 1].stage <= cancelSeen.stage
    BY <1>8, <2>2, Zenon
  <2>4. \A i \in 1..(n + 1) :
          events'[i].kind = "stage_started" => events'[i].stage <= cancelSeen.stage
    BY <1>6, <2>1, <2>3, Zenon
  <2>. QED
    BY <1>1, <1>2, <2>4 DEF CoreInv, CancelInv, Settled, Over
<1>. QED
  BY <1>3, <1>4, <1>5, <1>9, <1>10, <1>11 DEF CoreInv

\* A progress event the observer refused inside a stage's work.
LEMMA RefusingProgressKeeps ==
  ASSUME CoreInv, pc = "progress", NEW ok \in BOOLEAN,
         result' = PipelineFailure(ClassifyFailure(stage, "IoError"), stage),
         events' = events \o <<Event("progress", stage, FALSE), Event("run_failed", stage, ok)>>,
         pc' = "returned",
         UNCHANGED <<stage, request, cancelled, entry, summary, files, exitCode, cancelSeen>>
  PROVE  CoreInv'
<1>0. events \in Seq(EventType) /\ stage \in Stages /\ result = Running /\ pc \notin Over
  BY DEF CoreInv, TypeOK, PlaceInv, Over
<1>e. /\ Event("progress", stage, FALSE) \in EventType
      /\ Event("run_failed", stage, ok) \in EventType
      /\ Event("progress", stage, FALSE).kind = "progress"
      /\ Event("run_failed", stage, ok).kind = "run_failed"
      /\ Event("run_failed", stage, ok).stage = stage
  BY <1>0 DEF Event, EventType, EventKinds
<1>1. PICK n \in Nat :
        /\ n = Len(events) /\ Len(events') = n + 2 /\ events' \in Seq(EventType)
        /\ DOMAIN events = 1..n /\ DOMAIN events' = 1..(n + 2)
        /\ \A i \in 1..n : events'[i] = events[i]
        /\ events'[n + 1] = Event("progress", stage, FALSE)
        /\ events'[n + 2] = Event("run_failed", stage, ok)
        /\ Last(events)' = Event("run_failed", stage, ok)
  <2>1. /\ events' \in Seq(EventType)
        /\ Len(events) \in Nat /\ Len(events') = Len(events) + 2
        /\ DOMAIN events = 1..Len(events) /\ DOMAIN events' = 1..(Len(events) + 2)
        /\ \A i \in DOMAIN events : events'[i] = events[i]
        /\ events'[Len(events) + 1] = Event("progress", stage, FALSE)
        /\ events'[Len(events')] = Event("run_failed", stage, ok)
        /\ Last(events)' = Event("run_failed", stage, ok)
    BY <1>0, <1>e, AppendedPair
  <2>. QED
    BY <2>1
<1>2. /\ ClassifyFailure(stage, "IoError") \in FailureReason
      /\ ClassifyFailure(stage, "IoError") # "Cancelled"
  BY <1>0, FailureIsClassified DEF Causes
<1>3. /\ result' \in ResultType /\ result'.status = "failed" /\ result' # Completed
      /\ result' # Running /\ result'.stage = stage
      /\ result'.reason = ClassifyFailure(stage, "IoError")
  <2>1. stage \in Stages \cup {NoStage}
    BY <1>0
  <2>2. LET f == PipelineFailure(ClassifyFailure(stage, "IoError"), stage)
        IN  /\ f \in ResultType /\ f.status = "failed" /\ f # Completed
            /\ f # Running /\ f.stage = stage
            /\ f.reason = ClassifyFailure(stage, "IoError")
    BY <1>2, <2>1, FailureIsTyped
  <2>. QED
    BY <2>2
<1>4. TypeOK'
  <2>1. pc' \in Places /\ result' \in ResultType /\ events' \in Seq(EventType)
    BY <1>1, <1>3 DEF Places
  <2>. QED
    BY <2>1 DEF CoreInv, TypeOK
<1>5. PlaceInv'
  BY <1>2, <1>3 DEF CoreInv, PlaceInv, Over
<1>6. SummaryInv'
  BY <1>0, <1>3 DEF CoreInv, SummaryInv, Over, Running
<1>7. \A i \in 1..(n + 2) : i \in 1..n \/ i = n + 1 \/ i = n + 2
  OBVIOUS
<1>8. \A i \in 1..n :
        /\ events'[i].ok /\ events'[i].kind \notin {"run_completed", "run_failed"}
        /\ events'[i].kind = "stage_started" => events'[i].stage <= stage
  BY <1>0, <1>1 DEF CoreInv, EventsInv
<1>9. events'[n + 1].kind # "stage_started" /\ events'[n + 2].kind # "stage_started"
  BY <1>1, <1>e
<1>10. EventsInv'
  <2>1. \A i \in DOMAIN events' : events'[i].kind = "stage_started" => events'[i].stage <= stage
    BY <1>1, <1>7, <1>8, <1>9
  <2>. QED
    BY <2>1 DEF EventsInv, Over
<1>11. ReportInv'
  <2>1. \A k, t : k # "run_failed" => (Delivered(k, t)' <=> Delivered(k, t))
    BY <1>0, DeliveredByPair
  <2>2. /\ ~Delivered("run_completed", NoStage)'
        /\ summary'.timings = {t \in Stages : Delivered("stage_completed", t)'}
    BY <1>0, <2>1 DEF CoreInv, ReportInv, Running, Completed
  <2>3. Last(events)'.kind = "run_failed" /\ Last(events)'.stage = result'.stage
    BY <1>1, <1>e, <1>3, Zenon
  <2>4. events'[n + 1].kind = "progress" /\ n + 2 = Len(events') /\ (n + 1) + 1 = n + 2
    <3>1. events'[n + 1].kind = "progress"
      BY <1>1, <1>e, Zenon
    <3>2. (n + 1) + 1 = n + 2
      OBVIOUS
    <3>. QED
      BY <1>1, <3>1, <3>2, Zenon
  <2>5. \A i \in DOMAIN events' :
          \/ i = Len(events')
          \/ events'[i].ok /\ events'[i].kind \notin {"run_completed", "run_failed"}
          \/ events'[i].kind = "progress" /\ i + 1 = Len(events')
    BY <1>1, <1>7, <1>8, <2>4
  <2>. QED
    BY <1>3, <2>2, <2>3, <2>5, Zenon DEF ReportInv
<1>12. CancelInv'
  <2>1. cancelled => \A i \in 1..n :
          events'[i].kind = "stage_started" => events'[i].stage <= cancelSeen.stage
    BY <1>1 DEF CoreInv, CancelInv
  <2>2. cancelled => \A i \in DOMAIN events' :
          events'[i].kind = "stage_started" => events'[i].stage <= cancelSeen.stage
    BY <1>1, <1>7, <1>9, <2>1
  <2>. QED
    BY <1>3, <2>2 DEF CoreInv, CancelInv, Settled, Over
<1>. QED
  BY <1>4, <1>5, <1>6, <1>10, <1>11, <1>12 DEF CoreInv

\* The last event of a stage was accepted: ObserveStageCompleted.
LEMMA CompletingKeeps ==
  ASSUME CoreInv, pc = "stageCompleted", pc' = AfterStage, result' = result,
         events' = Append(events, Event("stage_completed", stage, TRUE)),
         summary' = [timings |-> summary.timings \cup {stage},
                     evidence |-> summary.evidence \cup ({stage} \ {ImageValidation})],
         stage' = IF stage = WriteOutput THEN stage ELSE stage + 1,
         UNCHANGED <<request, cancelled, entry, files, exitCode, cancelSeen>>
  PROVE  CoreInv'
<1>0. /\ events \in Seq(EventType) /\ stage \in Stages
      /\ result = Running /\ pc \notin Over
  BY DEF CoreInv, TypeOK, PlaceInv, Over
<1>e. /\ Event("stage_completed", stage, TRUE) \in EventType
      /\ Event("stage_completed", stage, TRUE).kind = "stage_completed"
      /\ Event("stage_completed", stage, TRUE).ok = TRUE
  BY <1>0 DEF Event, EventType, EventKinds
<1>1. PICK n \in Nat :
        /\ n = Len(events) /\ Len(events') = n + 1 /\ events' \in Seq(EventType)
        /\ DOMAIN events = 1..n /\ DOMAIN events' = 1..(n + 1)
        /\ \A i \in 1..n : events'[i] = events[i]
        /\ events'[n + 1] = Event("stage_completed", stage, TRUE)
  BY <1>0, <1>e, AppendedEvent
<1>2. /\ stage' \in Stages /\ stage <= stage'
      /\ stage = WriteOutput => stage' = stage /\ pc' = "runCompleted"
      /\ stage # WriteOutput => stage' = stage + 1 /\ pc' \in {"enter", "clrCheck"}
      /\ pc' = "clrCheck" => stage' = ImportRecovery
  BY <1>0 DEF AfterStage, Stages, WriteOutput, StartupRecovery, ImportRecovery
<1>3. /\ summary.timings = 1..(stage - 1)
      /\ summary.evidence \subseteq summary.timings
  BY <1>0 DEF CoreInv, SummaryInv, Running
<1>4. TypeOK'
  <2>1. summary' \in [timings : SUBSET Stages, evidence : SUBSET Stages]
    BY <1>0 DEF CoreInv, TypeOK
  <2>2. pc' \in Places
    BY <1>2 DEF Places
  <2>. QED
    BY <1>1, <1>2, <2>1, <2>2 DEF CoreInv, TypeOK
<1>5. PlaceInv'
  BY <1>0, <1>2 DEF CoreInv, PlaceInv, Over, Running
<1>6. SummaryInv'
  <2>1. summary'.timings = (1..(stage - 1)) \cup {stage}
    BY <1>3
  <2>2. summary'.timings = 1..stage
    BY <1>0, <2>1 DEF Stages
  <2>3. /\ stage = WriteOutput => summary'.timings = Stages
        /\ stage # WriteOutput => summary'.timings = 1..(stage' - 1)
    BY <1>0, <1>2, <2>2 DEF Stages, WriteOutput
  <2>4. summary'.evidence \subseteq summary'.timings
    BY <1>3
  <2>5. result' # Completed
    BY <1>0 DEF Running, Completed
  <2>. QED
    BY <1>2, <2>3, <2>4, <2>5 DEF SummaryInv
<1>7. \A i \in 1..(n + 1) : i \in 1..n \/ i = n + 1
  OBVIOUS
<1>8. \A i \in 1..n :
        /\ events'[i].ok /\ events'[i].kind \notin {"run_completed", "run_failed"}
        /\ events'[i].kind = "stage_started" => events'[i].stage <= stage
  BY <1>0, <1>1 DEF CoreInv, EventsInv
<1>9. events'[n + 1].ok /\ events'[n + 1].kind = "stage_completed"
  BY <1>1, <1>e, Zenon
<1>10. EventsInv'
  <2>1. \A i \in 1..n : events'[i].kind = "stage_started" => events'[i].stage <= stage'
    <3>1. ASSUME NEW i \in 1..n, events'[i].kind = "stage_started"
          PROVE  events'[i].stage <= stage'
      <4>1. PICK x \in 0..9 : x = events'[i].stage
        <5>1. events'[i] \in EventType
          BY <1>1
        <5>2. events'[i].stage \in Stages \cup {NoStage}
          BY <5>1 DEF EventType
        <5>3. Stages \cup {NoStage} = 0..9
          BY DEF Stages, NoStage
        <5>. QED
          BY <5>2, <5>3, Zenon
      <4>2. x <= stage
        BY <1>8, <3>1, <4>1, Zenon
      <4>3. x <= stage'
        <5>1. stage \in 1..9 /\ stage' \in 1..9 /\ stage <= stage'
          BY <1>0, <1>2 DEF Stages
        <5>. QED
          BY <4>2, <5>1
      <4>. QED
        BY <4>1, <4>3, Zenon
    <3>. QED
      BY <3>1
  <2>2. pc' # "start"
    BY <1>2
  <2>. QED
    BY <1>1, <1>7, <1>8, <1>9, <2>1, <2>2 DEF EventsInv
<1>11. ReportInv'
  <2>1. /\ Delivered("run_completed", NoStage)' <=> Delivered("run_completed", NoStage)
        /\ \A t \in Stages : Delivered("stage_completed", t)' <=>
             Delivered("stage_completed", t) \/ t = stage
    BY <1>0, DeliveredByOneMore DEF EventKinds
  <2>2. /\ ~Delivered("run_completed", NoStage)'
        /\ summary'.timings = {t \in Stages : Delivered("stage_completed", t)'}
    BY <1>0, <2>1 DEF CoreInv, ReportInv, Running, Completed
  <2>3. result' # Completed /\ result'.status # "failed"
    BY <1>0 DEF Running, Completed
  <2>4. \A i \in DOMAIN events' :
          events'[i].ok /\ events'[i].kind \notin {"run_completed", "run_failed"}
    BY <1>1, <1>7, <1>8, <1>9
  <2>. QED
    BY <2>2, <2>3, <2>4, Zenon DEF ReportInv
<1>12. CancelInv'
  <2>. SUFFICES ASSUME cancelled PROVE CancelInv'
    BY DEF CancelInv
  <2>1. /\ cancelSeen.stage = stage /\ cancelSeen.at \in Settled
        /\ \A i \in 1..n : events'[i].kind = "stage_started" => events'[i].stage <= cancelSeen.stage
    BY <1>1 DEF CoreInv, CancelInv, Settled
  <2>2. \A i \in DOMAIN events' :
          events'[i].kind = "stage_started" => events'[i].stage <= cancelSeen.stage
    BY <1>1, <1>7, <1>9, <2>1
  <2>3. result' # Completed
    BY <1>0 DEF Running, Completed
  <2>. QED
    BY <1>0, <1>2, <2>1, <2>2, <2>3 DEF CancelInv, Settled
<1>. QED
  BY <1>4, <1>5, <1>6, <1>10, <1>11, <1>12 DEF CoreInv

\* The last event of the run was accepted: ObserveRunCompleted.
LEMMA CompletingTheRunKeeps ==
  ASSUME CoreInv, pc = "runCompleted", pc' = "returned", result' = Completed,
         events' = Append(events, Event("run_completed", NoStage, TRUE)),
         UNCHANGED <<stage, request, cancelled, entry, summary, files, exitCode, cancelSeen>>
  PROVE  CoreInv'
<1>0. /\ events \in Seq(EventType) /\ stage = WriteOutput
      /\ result = Running /\ pc \notin Over
  BY DEF CoreInv, TypeOK, PlaceInv, Over
<1>e. /\ Event("run_completed", NoStage, TRUE) \in EventType
      /\ Event("run_completed", NoStage, TRUE).kind = "run_completed"
  BY <1>0 DEF Event, EventType, EventKinds
<1>1. PICK n \in Nat :
        /\ n = Len(events) /\ Len(events') = n + 1 /\ events' \in Seq(EventType)
        /\ DOMAIN events = 1..n /\ DOMAIN events' = 1..(n + 1)
        /\ \A i \in 1..n : events'[i] = events[i]
        /\ events'[n + 1] = Event("run_completed", NoStage, TRUE)
  BY <1>0, <1>e, AppendedEvent
<1>2. result' \in ResultType /\ result' # Running /\ result'.status # "failed"
  BY DEF ResultType, Completed, Running
<1>3. TypeOK'
  <2>1. pc' \in Places
    BY DEF Places
  <2>. QED
    BY <1>1, <1>2, <2>1 DEF CoreInv, TypeOK
<1>4. PlaceInv'
  BY <1>2 DEF CoreInv, PlaceInv, Over
<1>5. SummaryInv'
  BY <1>0 DEF CoreInv, SummaryInv, Over, Running
<1>6. \A i \in 1..(n + 1) : i \in 1..n \/ i = n + 1
  OBVIOUS
<1>7. \A i \in 1..n :
        /\ events'[i].ok /\ events'[i].kind \notin {"run_completed", "run_failed"}
        /\ events'[i].kind = "stage_started" => events'[i].stage <= stage
  BY <1>0, <1>1 DEF CoreInv, EventsInv
<1>8. events'[n + 1].kind = "run_completed"
  BY <1>1, <1>e, Zenon
<1>9. EventsInv'
  <2>1. \A i \in DOMAIN events' : events'[i].kind = "stage_started" => events'[i].stage <= stage
    BY <1>1, <1>6, <1>7, <1>8
  <2>. QED
    BY <2>1 DEF EventsInv, Over
<1>10. ReportInv'
  <2>1. /\ Delivered("run_completed", NoStage)'
        /\ \A t \in Stages : Delivered("stage_completed", t)' <=> Delivered("stage_completed", t)
    BY <1>0, DeliveredByOneMore DEF EventKinds
  <2>2. \A i \in DOMAIN events' :
          \/ i = Len(events')
          \/ events'[i].ok /\ events'[i].kind \notin {"run_completed", "run_failed"}
    BY <1>1, <1>6, <1>7
  <2>3. summary'.timings = {t \in Stages : Delivered("stage_completed", t)'}
    BY <2>1 DEF CoreInv, ReportInv
  <2>. QED
    BY <1>2, <2>1, <2>2, <2>3, Zenon DEF ReportInv
<1>11. CancelInv'
  <2>. SUFFICES ASSUME cancelled PROVE CancelInv'
    BY DEF CancelInv
  <2>1. \A i \in 1..n : events'[i].kind = "stage_started" => events'[i].stage <= cancelSeen.stage
    BY <1>1 DEF CoreInv, CancelInv
  <2>2. \A i \in DOMAIN events' :
          events'[i].kind = "stage_started" => events'[i].stage <= cancelSeen.stage
    BY <1>1, <1>6, <1>8, <2>1
  <2>. QED
    BY <1>0, <2>2 DEF CoreInv, CancelInv, Settled, Over
<1>. QED
  BY <1>3, <1>4, <1>5, <1>9, <1>10, <1>11 DEF CoreInv

\* The process ends, the token is set, or the process dies.
LEMMA ExitKeeps == CoreInv /\ Exit => CoreInv'
<1>. SUFFICES ASSUME CoreInv, Exit PROVE CoreInv'
  OBVIOUS
<1>. USE DEF Exit
<1>1. TypeOK'
  BY DEF CoreInv, TypeOK, Places, ResultExitCode
<1>2. PlaceInv' /\ SummaryInv'
  BY DEF CoreInv, PlaceInv, SummaryInv, Over
<1>3. EventsInv' /\ CancelInv'
  BY DEF CoreInv, EventsInv, CancelInv, Over, Settled
<1>4. ReportInv'
  BY DEF CoreInv, ReportInv, Delivered, Last
<1>. QED
  BY <1>1, <1>2, <1>3, <1>4 DEF CoreInv

LEMMA CrashKeeps == CoreInv /\ Crash => CoreInv'
<1>. SUFFICES ASSUME CoreInv, Crash PROVE CoreInv'
  OBVIOUS
<1>. USE DEF Crash
<1>1. TypeOK'
  BY DEF CoreInv, TypeOK, Places
<1>2. PlaceInv' /\ SummaryInv'
  BY DEF CoreInv, PlaceInv, SummaryInv, Over
<1>3. EventsInv' /\ CancelInv'
  BY DEF CoreInv, EventsInv, CancelInv, Over, Settled
<1>4. ReportInv'
  BY DEF CoreInv, ReportInv, Delivered, Last
<1>. QED
  BY <1>1, <1>2, <1>3, <1>4 DEF CoreInv

LEMMA CancelKeeps == CoreInv /\ Cancel => CoreInv'
<1>. SUFFICES ASSUME CoreInv, Cancel PROVE CoreInv'
  OBVIOUS
<1>. USE DEF Cancel
<1>0. /\ pc \notin Over /\ result = Running
      /\ cancelSeen'.at = pc /\ cancelSeen'.stage = stage
  BY DEF CoreInv, PlaceInv, Over
<1>1. TypeOK'
  BY DEF CoreInv, TypeOK
<1>2. PlaceInv' /\ SummaryInv'
  BY <1>0 DEF CoreInv, PlaceInv, SummaryInv, Running
<1>3. EventsInv' /\ CancelInv'
  BY <1>0 DEF CoreInv, TypeOK, EventsInv, CancelInv, Running, Completed
<1>4. ReportInv'
  BY DEF CoreInv, ReportInv, Delivered, Last
<1>. QED
  BY <1>1, <1>2, <1>3, <1>4 DEF CoreInv

-----------------------------------------------------------------------------
(***************************************************************************)
(* The initial states, and every step on result, events and summary.       *)
(***************************************************************************)
LEMMA InitEstablishes == Init => IInv
<1>. SUFFICES ASSUME Init PROVE IInv
  OBVIOUS
<1>1. TypeOK
  <2>1. request \in RequestType
    BY RequestsAreTyped DEF Init
  <2>2. files \in [{"input", "output"} -> Contents]
    BY <2>1 DEF Init, RequestType, Contents
  <2>3. events \in Seq(EventType) /\ result \in ResultType
    BY DEF Init, ResultType
  <2>4. cancelSeen \in [at : Places, stage : Stages \cup {NoStage}]
    BY DEF Init, NotSeen, Places
  <2>5. /\ pc \in Places /\ stage \in Stages /\ exitCode \in {-1, 0, 1, 2, 130}
        /\ entry \in {"unknown", "native", "managed"}
        /\ summary \in [timings : SUBSET Stages, evidence : SUBSET Stages]
    BY DEF Init, Places, Stages, ReadInput
  <2>. QED
    BY <2>2, <2>3, <2>4, <2>5 DEF TypeOK, Init
<1>2. PlaceInv
  BY DEF Init, PlaceInv, Over, Running
<1>3. SummaryInv
  BY DEF Init, SummaryInv, Over, Running, Completed, ReadInput
<1>4. EventsInv /\ CancelInv
  BY DEF Init, EventsInv, CancelInv
<1>5. ReportInv
  BY DEF Init, ReportInv, Delivered, Running, Completed
<1>6. FilesInv
  <2>1. Untouched
    BY DEF Init, Untouched, InitialContent
  <2>2. files["output"] # "partial"
    BY RequestsAreTyped DEF Init, RequestType
  <2>. QED
    BY <2>1, <2>2 DEF Init, FilesInv, Settled, Over, Running, Completed
<1>. QED
  BY <1>1, <1>2, <1>3, <1>4, <1>5, <1>6 DEF IInv, CoreInv

\* What a failing work can be caused by.
LEMMA WorkCausesAreCauses ==
  ASSUME NEW s \in Stages, NEW cause \in WorkCauses(s)
  PROVE  /\ cause \in Causes /\ cause \notin {"Cancelled", "RouteCancelled"}
         /\ cause \in RouteCauses => s = PayloadRecovery
BY DEF WorkCauses, Causes, RouteCauses

\* Observe is one of the two kinds of step an event outside the work can be.
LEMMA ObservingKeeps ==
  ASSUME CoreInv, NEW kind \in EventKinds, NEW s \in Stages \cup {NoStage}, NEW place,
         s = stage \/ s = NoStage,
         kind \notin {"run_completed", "run_failed", "stage_completed"},
         kind = "stage_started" => pc = "stageStarted" /\ s = stage,
         Observe(kind, s, place),
         pc \in {"start", "stageStarted", "operationStarted", "operationCompleted"},
         place \in {"enter", "operationStarted", "work", "stageCompleted"},
         place = "stageCompleted" => pc = "operationCompleted",
         UNCHANGED <<stage, request, cancelled, entry, summary, files, exitCode, cancelSeen>>
  PROVE  CoreInv'
<1>1. CASE /\ events' = Append(events, Event(kind, s, TRUE))
           /\ pc' = place /\ result' = result
  <2>1. GoesOn
    BY <1>1 DEF GoesOn, FilesAreTyped, CoreInv, TypeOK, Over, Settled, Places
  <2>. QED
    BY <1>1, <2>1, AcceptingKeeps
<1>2. CASE /\ events' = Append(events, Event(kind, s, FALSE))
           /\ result' = PipelineFailure("Io", s) /\ pc' = "returned"
  <2>1. pc \notin Over
    BY DEF Over
  <2>. QED
    BY <1>2, <2>1, RefusingKeeps
<1>. QED
  BY <1>1, <1>2 DEF Observe

LEMMA NextKeepsCore == IInv /\ [Next]_vars => CoreInv'
<1>. SUFFICES ASSUME CoreInv, [Next]_vars PROVE CoreInv'
  BY DEF IInv
<1>0. /\ stage \in Stages /\ FilesAreTyped
      /\ entry \in {"unknown", "native", "managed"}
      /\ pc = "scan" => stage = ProtectorDetection
      /\ pc = "clrCheck" => stage = ImportRecovery
      /\ pc \in {"open", "write"} => stage = WriteOutput
  BY DEF CoreInv, TypeOK, PlaceInv, FilesAreTyped
<1>1. CASE StartRun
  <2>1. "run_started" \in EventKinds
    BY DEF EventKinds
  <2>. QED
    BY <1>1, <2>1, ObservingKeeps DEF StartRun
<1>2. CASE ValidateClrDirectory
  <2>1. CASE pc' = "enter" /\ UNCHANGED <<summary, result, events>>
    <3>1. GoesOn
      BY <1>0, <1>2, <2>1 DEF ValidateClrDirectory, GoesOn, FilesAreTyped, Over, Settled, Places
    <3>. QED
      BY <2>1, <3>1, MovingKeeps
  <2>2. CASE MakeFailure("Other")
    BY <1>2, <2>2, FailingKeeps DEF ValidateClrDirectory, Over, Causes, RouteCauses
  <2>. QED
    BY <1>2, <2>1, <2>2 DEF ValidateClrDirectory
<1>3. CASE EnterStage
  <2>1. CASE ~cancelled /\ pc' = "stageStarted" /\ UNCHANGED <<summary, result, events>>
    <3>1. GoesOn
      BY <1>0, <1>3, <2>1 DEF EnterStage, GoesOn, FilesAreTyped, Over, Settled, Places
    <3>. QED
      BY <2>1, <3>1, MovingKeeps
  <2>2. CASE cancelled /\ MakeFailure("Cancelled")
    BY <1>3, <2>2, FailingKeeps DEF EnterStage, Over, Causes, RouteCauses
  <2>. QED
    BY <1>3, <2>1, <2>2 DEF EnterStage
<1>4. CASE ObserveStageStarted
  <2>1. "stage_started" \in EventKinds
    BY DEF EventKinds
  <2>. QED
    BY <1>0, <1>4, <2>1, ObservingKeeps DEF ObserveStageStarted
<1>5. CASE ObserveOperationStarted
  <2>1. "operation_started" \in EventKinds
    BY DEF EventKinds
  <2>. QED
    BY <1>0, <1>5, <2>1, ObservingKeeps DEF ObserveOperationStarted
<1>6. CASE WorkSucceeds
  <2>1. GoesOn
    BY <1>0, <1>6 DEF WorkSucceeds, GoesOn, FilesAreTyped, Over, Settled, Places
  <2>. QED
    BY <1>6, <2>1, MovingKeeps DEF WorkSucceeds
<1>7. CASE WorkFails
  <2>1. PICK cause \in WorkCauses(stage) : MakeFailure(cause)
    BY <1>7 DEF WorkFails
  <2>2. pc \notin Over
    BY <1>7 DEF WorkFails, Over
  <2>. QED
    BY <1>0, <1>7, <2>1, <2>2, WorkCausesAreCauses, FailingKeeps DEF WorkFails
<1>8. CASE WorkIsCancelled
  <2>1. CASE MakeFailure("Cancelled")
    BY <1>8, <2>1, FailingKeeps DEF WorkIsCancelled, Over, Causes, RouteCauses
  <2>2. CASE stage = PayloadRecovery /\ MakeFailure("RouteCancelled")
    BY <1>8, <2>2, FailingKeeps DEF WorkIsCancelled, Over, Causes, RouteCauses
  <2>. QED
    BY <1>8, <2>1, <2>2 DEF WorkIsCancelled
<1>9. CASE ChooseOutputPath
  <2>1. CASE pc' \in {"progress", "open"} /\ UNCHANGED <<summary, result, events>>
    <3>1. GoesOn
      BY <1>0, <1>9, <2>1 DEF ChooseOutputPath, GoesOn, FilesAreTyped, Over, Settled, Places
    <3>. QED
      BY <2>1, <3>1, MovingKeeps
  <2>2. CASE MakeFailure("Other")
    BY <1>9, <2>2, FailingKeeps DEF ChooseOutputPath, Over, Causes, RouteCauses
  <2>. QED
    BY <1>9, <2>1, <2>2 DEF ChooseOutputPath
<1>10. ASSUME NEW content \in {"partial", "image"}, Store(content)
       PROVE  FilesAreTyped'
  BY <1>0, <1>10 DEF Store, FilesAreTyped, Contents
<1>11. CASE OpenOutput
  <2>1. CASE Store("partial") /\ pc' = "write" /\ UNCHANGED <<summary, result, events>>
    <3>1. FilesAreTyped'
      BY <1>10, <2>1
    <3>2. GoesOn
      BY <1>0, <1>11, <2>1, <3>1 DEF OpenOutput, GoesOn, Over, Settled, Places
    <3>. QED
      BY <2>1, <3>2, MovingKeeps
  <2>2. CASE MakeFailure("IoError") /\ UNCHANGED files
    BY <1>11, <2>2, FailingKeeps DEF OpenOutput, Over, Causes, RouteCauses
  <2>. QED
    BY <1>11, <2>1, <2>2 DEF OpenOutput
<1>12. CASE WriteImage
  <2>1. CASE Store("image") /\ pc' = "progress" /\ UNCHANGED <<summary, result, events>>
    <3>1. FilesAreTyped'
      BY <1>10, <2>1
    <3>2. GoesOn
      BY <1>0, <1>12, <2>1, <3>1 DEF WriteImage, GoesOn, Over, Settled, Places
    <3>. QED
      BY <2>1, <3>2, MovingKeeps
  <2>2. CASE MakeFailure("IoError") /\ UNCHANGED files
    BY <1>12, <2>2, FailingKeeps DEF WriteImage, Over, Causes, RouteCauses
  <2>. QED
    BY <1>12, <2>1, <2>2 DEF WriteImage
<1>13. CASE ObserveProgress
  <2>1. CASE /\ events' = Append(events, Event("progress", stage, TRUE))
             /\ pc' = IF stage = ProtectorDetection THEN "scan" ELSE "settle"
             /\ UNCHANGED <<summary, result>>
    <3>1. GoesOn
      BY <1>0, <1>13, <2>1 DEF ObserveProgress, GoesOn, FilesAreTyped, Over, Settled, Places
    <3>2. "progress" \in EventKinds
      BY DEF EventKinds
    <3>. QED
      BY <1>0, <2>1, <3>1, <3>2, AcceptingKeeps
  <2>2. ASSUME NEW ok \in BOOLEAN,
               events' = events \o <<Event("progress", stage, FALSE),
                                     Event("run_failed", stage, ok)>>,
               result' = PipelineFailure(ClassifyFailure(stage, "IoError"), stage),
               pc' = "returned", UNCHANGED summary
        PROVE  CoreInv'
    BY <1>13, <2>2, RefusingProgressKeeps DEF ObserveProgress
  <2>. QED
    BY <1>13, <2>1, <2>2 DEF ObserveProgress
<1>14. CASE FinishDetection
  <2>1. CASE pc' = "settle" /\ UNCHANGED <<summary, result, events>>
    <3>1. GoesOn
      BY <1>0, <1>14, <2>1 DEF FinishDetection, GoesOn, FilesAreTyped, Over, Settled, Places
    <3>. QED
      BY <2>1, <3>1, MovingKeeps
  <2>2. ASSUME NEW cause \in {"KonnNone", "KonnMany", "IoError", "Other"}, MakeFailure(cause)
        PROVE  CoreInv'
    BY <1>14, <2>2, FailingKeeps DEF FinishDetection, Over, Causes, RouteCauses
  <2>3. CASE cancelled /\ MakeFailure("Cancelled")
    BY <1>14, <2>3, FailingKeeps DEF FinishDetection, Over, Causes, RouteCauses
  <2>. QED
    BY <1>14, <2>1, <2>2, <2>3 DEF FinishDetection
<1>15. CASE SettleStage
  <2>1. CASE ~cancelled /\ pc' = "operationCompleted" /\ UNCHANGED <<summary, result, events>>
    <3>1. GoesOn
      BY <1>0, <1>15, <2>1 DEF SettleStage, GoesOn, FilesAreTyped, Over, Settled, Places
    <3>. QED
      BY <2>1, <3>1, MovingKeeps
  <2>2. CASE cancelled /\ MakeFailure("Cancelled")
    BY <1>15, <2>2, FailingKeeps DEF SettleStage, Over, Causes, RouteCauses
  <2>. QED
    BY <1>15, <2>1, <2>2 DEF SettleStage
<1>16. CASE ObserveOperationCompleted
  <2>1. "operation_completed" \in EventKinds
    BY DEF EventKinds
  <2>. QED
    BY <1>0, <1>16, <2>1, ObservingKeeps DEF ObserveOperationCompleted
<1>17. CASE ObserveStageCompleted
  <2>0. pc \notin Over /\ result = Running /\ PipelineFailure("Io", stage) # Running
    BY <1>17 DEF ObserveStageCompleted, Over, CoreInv, PlaceInv, PipelineFailure, Running
  <2>1. CASE result' = Running
    BY <1>17, <2>0, <2>1, CompletingKeeps DEF ObserveStageCompleted, Observe
  <2>2. CASE result' # Running
    <3>1. "stage_completed" \in EventKinds
      BY DEF EventKinds
    <3>. QED
      BY <1>0, <1>17, <2>0, <2>2, <3>1, RefusingKeeps DEF ObserveStageCompleted, Observe
  <2>. QED
    BY <2>1, <2>2
<1>18. CASE ObserveRunCompleted
  <2>1. CASE result' = Completed /\ events' = Append(events, Event("run_completed", NoStage, TRUE))
    BY <1>18, <2>1, CompletingTheRunKeeps DEF ObserveRunCompleted
  <2>2. CASE /\ events' = Append(events, Event("run_completed", NoStage, FALSE))
             /\ result' = PipelineFailure("Io", NoStage)
    <3>1. "run_completed" \in EventKinds /\ pc \notin Over
      BY <1>18 DEF EventKinds, ObserveRunCompleted, Over
    <3>. QED
      BY <1>18, <2>2, <3>1, RefusingKeeps DEF ObserveRunCompleted
  <2>. QED
    BY <1>18, <2>1, <2>2 DEF ObserveRunCompleted
<1>19. CASE Exit
  BY <1>19, ExitKeeps
<1>20. CASE Cancel
  BY <1>20, CancelKeeps
<1>21. CASE Crash
  BY <1>21, CrashKeeps
<1>22. CASE UNCHANGED vars
  <2>1. TypeOK' /\ PlaceInv' /\ SummaryInv'
    BY <1>22 DEF vars, CoreInv, TypeOK, PlaceInv, SummaryInv
  <2>2. EventsInv' /\ CancelInv'
    BY <1>22 DEF vars, CoreInv, EventsInv, CancelInv
  <2>3. ReportInv'
    BY <1>22 DEF vars, CoreInv, ReportInv, Delivered, Last
  <2>. QED
    BY <2>1, <2>2, <2>3 DEF CoreInv
<1>. QED
  BY <1>1, <1>2, <1>3, <1>4, <1>5, <1>6, <1>7, <1>8, <1>9, <1>11, <1>12, <1>13, <1>14,
     <1>15, <1>16, <1>17, <1>18, <1>19, <1>20, <1>21, <1>22 DEF Next, Advance, Stopped

-----------------------------------------------------------------------------
(***************************************************************************)
(* Every step on the files.                                                *)
(***************************************************************************)
LEMMA UntouchedIsWhole ==
  ASSUME TypeOK, Untouched
  PROVE  files["output"] \notin {"partial", "image"}
<1>1. request \in RequestType
  BY RequestsAreTyped DEF TypeOK
<1>. QED
  BY <1>1 DEF TypeOK, Untouched, InitialContent, RequestType

\* A step that ends the run, or ends it badly, leaves the files alone.
LEMMA EndingKeepsFiles ==
  ASSUME FilesInv, pc' \in Over, result' # Completed \/ result' = result,
         UNCHANGED <<stage, request, files>>
  PROVE  FilesInv'
BY DEF FilesInv, Untouched, InitialContent, MayWrite, Over, Settled

LEMMA FailingKeepsFiles ==
  ASSUME FilesInv, NEW cause, MakeFailure(cause), UNCHANGED <<stage, request, files>>
  PROVE  FilesInv'
BY EndingKeepsFiles DEF MakeFailure, PipelineFailure, Completed, Over

\* A step within the pipeline that leaves the files alone.
LEMMA MovingKeepsFiles ==
  ASSUME IInv, pc \notin Over, pc' \notin Over \cup {"write"}, pc # "write",
         result' = result, UNCHANGED <<request, files>>,
         \/ stage # WriteOutput
         \/ /\ stage' = stage /\ pc \notin {"progress", "settle"} \cup Settled
            /\ pc' \notin {"open", "progress", "settle"} \cup Settled
         \/ /\ stage' = stage /\ pc \in {"progress", "settle"} \cup Settled
            /\ pc' \in {"settle"} \cup Settled
         \/ stage' = stage /\ pc = "work" /\ pc' = "progress" /\ request.dryRun
         \/ stage' = stage /\ pc = "work" /\ pc' = "open" /\ MayWrite,
         stage' = WriteOutput /\ stage # WriteOutput => pc' = "enter",
         pc' = "open" => stage = WriteOutput
  PROVE  FilesInv'
<1>0. result # Completed /\ TypeOK
  BY DEF IInv, CoreInv, PlaceInv, Running, Completed
<1>1. Untouched' <=> Untouched
  BY DEF Untouched, InitialContent
<1>2. MayWrite' <=> MayWrite
  BY DEF MayWrite
<1>3. files["output"] # "partial"
  BY DEF IInv, FilesInv
<1>. QED
  BY <1>0, <1>1, <1>2, <1>3 DEF IInv, FilesInv, Settled, Over

LEMMA NextKeepsFiles == IInv /\ [Next]_vars => FilesInv'
<1>. SUFFICES ASSUME IInv, [Next]_vars PROVE FilesInv'
  OBVIOUS
<1>0. /\ FilesInv /\ TypeOK /\ stage \in Stages
      /\ pc \notin Over => result = Running /\ result # Completed
      /\ pc = "start" => stage # WriteOutput
      /\ pc = "scan" => stage # WriteOutput
      /\ pc = "clrCheck" => stage # WriteOutput
  BY DEF IInv, CoreInv, TypeOK, PlaceInv, Running, Completed, ReadInput, WriteOutput,
         ProtectorDetection, ImportRecovery
<1>1. ASSUME NEW kind, NEW s, NEW place, Observe(kind, s, place),
             \/ pc = "start" /\ place = "enter"
             \/ pc = "stageStarted" /\ place = "operationStarted"
             \/ pc = "operationStarted" /\ place = "work"
             \/ pc = "operationCompleted" /\ place = "stageCompleted",
             UNCHANGED <<stage, request, files>>
      PROVE  FilesInv'
  <2>1. CASE pc' = place /\ result' = result
    BY <1>0, <1>1, <2>1, MovingKeepsFiles DEF Over, Settled
  <2>2. CASE pc' = "returned" /\ result' = PipelineFailure("Io", s)
    BY <1>0, <2>2, <1>1, EndingKeepsFiles DEF PipelineFailure, Completed, Over
  <2>. QED
    BY <1>1, <2>1, <2>2 DEF Observe
<1>2. CASE StartRun
  BY <1>1, <1>2 DEF StartRun
<1>3. CASE ValidateClrDirectory
  <2>1. CASE pc' = "enter" /\ UNCHANGED <<summary, result, events>>
    BY <1>0, <1>3, <2>1, MovingKeepsFiles DEF ValidateClrDirectory, Over, Settled
  <2>2. CASE MakeFailure("Other")
    BY <1>0, <1>3, <2>2, FailingKeepsFiles DEF ValidateClrDirectory
  <2>. QED
    BY <1>3, <2>1, <2>2 DEF ValidateClrDirectory
<1>4. CASE EnterStage
  <2>1. CASE pc' = "stageStarted" /\ UNCHANGED <<summary, result, events>>
    BY <1>0, <1>4, <2>1, MovingKeepsFiles DEF EnterStage, Over, Settled
  <2>2. CASE MakeFailure("Cancelled")
    BY <1>0, <1>4, <2>2, FailingKeepsFiles DEF EnterStage
  <2>. QED
    BY <1>4, <2>1, <2>2 DEF EnterStage
<1>5. CASE ObserveStageStarted
  BY <1>1, <1>5 DEF ObserveStageStarted
<1>6. CASE ObserveOperationStarted
  BY <1>1, <1>6 DEF ObserveOperationStarted
<1>7. CASE WorkSucceeds
  BY <1>0, <1>7, MovingKeepsFiles DEF WorkSucceeds, Over, Settled
<1>8. CASE WorkFails
  BY <1>0, <1>8, FailingKeepsFiles DEF WorkFails
<1>9. CASE WorkIsCancelled
  BY <1>0, <1>9, FailingKeepsFiles DEF WorkIsCancelled
<1>10. CASE ChooseOutputPath
  <2>1. CASE /\ \/ request.dryRun /\ pc' = "progress"
                \/ MayWrite /\ pc' = "open"
             /\ UNCHANGED <<summary, result, events>>
    BY <1>0, <1>10, <2>1, MovingKeepsFiles DEF ChooseOutputPath, Over, Settled
  <2>2. CASE MakeFailure("Other")
    BY <1>0, <1>10, <2>2, FailingKeepsFiles DEF ChooseOutputPath
  <2>. QED
    BY <1>10, <2>1, <2>2 DEF ChooseOutputPath
<1>11. CASE OpenOutput
  <2>1. CASE Store("partial") /\ pc' = "write" /\ UNCHANGED <<summary, result, events>>
    <3>1. files'["output"] = "partial"
      BY <1>0, <2>1 DEF Store, TypeOK, WrittenPaths
    <3>2. MayWrite /\ stage = WriteOutput /\ result # Completed /\ pc \notin Over
      BY <1>0, <1>11 DEF OpenOutput, FilesInv, IInv, CoreInv, PlaceInv, Over
    <3>3. MayWrite'
      BY <1>11, <3>2 DEF OpenOutput, MayWrite
    <3>. QED
      BY <1>11, <2>1, <3>1, <3>2, <3>3 DEF OpenOutput, FilesInv, Over, Settled
  <2>2. CASE MakeFailure("IoError") /\ UNCHANGED files
    BY <1>0, <1>11, <2>2, FailingKeepsFiles DEF OpenOutput
  <2>. QED
    BY <1>11, <2>1, <2>2 DEF OpenOutput
<1>12. CASE WriteImage
  <2>1. CASE Store("image") /\ pc' = "progress" /\ UNCHANGED <<summary, result, events>>
    <3>1. files'["output"] = "image"
      BY <1>0, <2>1 DEF Store, TypeOK, WrittenPaths
    <3>2. MayWrite /\ stage = WriteOutput /\ result # Completed /\ pc \notin Over
      BY <1>0, <1>12 DEF WriteImage, FilesInv, IInv, CoreInv, PlaceInv, Over
    <3>3. MayWrite' /\ ~request'.dryRun
      BY <1>12, <3>2 DEF WriteImage, MayWrite
    <3>. QED
      BY <1>12, <2>1, <3>1, <3>2, <3>3 DEF WriteImage, FilesInv, Over, Settled
  <2>2. CASE MakeFailure("IoError") /\ UNCHANGED files
    BY <1>0, <1>12, <2>2, FailingKeepsFiles DEF WriteImage
  <2>. QED
    BY <1>12, <2>1, <2>2 DEF WriteImage
<1>13. CASE ObserveProgress
  <2>1. CASE /\ pc' = IF stage = ProtectorDetection THEN "scan" ELSE "settle"
             /\ UNCHANGED <<summary, result>>
    BY <1>0, <1>13, <2>1, MovingKeepsFiles DEF ObserveProgress, Over, Settled,
       ProtectorDetection, WriteOutput
  <2>2. CASE /\ result' = PipelineFailure(ClassifyFailure(stage, "IoError"), stage)
             /\ pc' = "returned"
    BY <1>0, <1>13, <2>2, EndingKeepsFiles DEF ObserveProgress, PipelineFailure, Completed, Over
  <2>. QED
    BY <1>13, <2>1, <2>2 DEF ObserveProgress
<1>14. CASE FinishDetection
  <2>1. CASE pc' = "settle" /\ UNCHANGED <<summary, result, events>>
    BY <1>0, <1>14, <2>1, MovingKeepsFiles DEF FinishDetection, Over, Settled
  <2>2. CASE \E cause \in Causes : MakeFailure(cause)
    BY <1>0, <1>14, <2>2, FailingKeepsFiles DEF FinishDetection
  <2>. QED
    BY <1>14, <2>1, <2>2 DEF FinishDetection, Causes
<1>15. CASE SettleStage
  <2>1. CASE pc' = "operationCompleted" /\ UNCHANGED <<summary, result, events>>
    BY <1>0, <1>15, <2>1, MovingKeepsFiles DEF SettleStage, Over, Settled
  <2>2. CASE MakeFailure("Cancelled")
    BY <1>0, <1>15, <2>2, FailingKeepsFiles DEF SettleStage
  <2>. QED
    BY <1>15, <2>1, <2>2 DEF SettleStage
<1>16. CASE ObserveOperationCompleted
  BY <1>1, <1>16 DEF ObserveOperationCompleted
<1>17. CASE ObserveStageCompleted
  <2>1. CASE /\ pc' = AfterStage /\ result' = result
             /\ stage' = IF stage = WriteOutput THEN stage ELSE stage + 1
    <3>1. /\ stage = WriteOutput => stage' = stage /\ pc' = "runCompleted"
          /\ stage # WriteOutput => pc' \in {"enter", "clrCheck"}
          /\ stage # WriteOutput /\ stage' = WriteOutput => pc' = "enter"
      BY <1>0, <2>1 DEF AfterStage, Stages, WriteOutput, StartupRecovery
    <3>. QED
      BY <1>0, <1>17, <2>1, <3>1, MovingKeepsFiles DEF ObserveStageCompleted, Over, Settled
  <2>2. CASE pc' = "returned" /\ result' = PipelineFailure("Io", stage) /\ UNCHANGED stage
    BY <1>0, <1>17, <2>2, EndingKeepsFiles DEF ObserveStageCompleted, PipelineFailure,
       Completed, Over
  <2>3. pc \notin Over /\ PipelineFailure("Io", stage) # Running
    BY <1>17 DEF ObserveStageCompleted, Over, PipelineFailure, Running
  <2>. QED
    BY <1>0, <1>17, <2>1, <2>2, <2>3 DEF ObserveStageCompleted, Observe
<1>18. CASE ObserveRunCompleted
  <2>1. CASE result' = Completed
    <3>1. /\ stage = WriteOutput /\ pc \notin Over
          /\ IF request.dryRun THEN Untouched ELSE files["output"] = "image"
      BY <1>0, <1>18 DEF ObserveRunCompleted, IInv, CoreInv, PlaceInv, FilesInv, Over, Settled
    <3>2. (Untouched' <=> Untouched) /\ (MayWrite' <=> MayWrite)
      BY <1>18 DEF ObserveRunCompleted, Untouched, InitialContent, MayWrite
    <3>. QED
      BY <1>0, <1>18, <3>1, <3>2 DEF ObserveRunCompleted, FilesInv, Over, Settled
  <2>2. CASE result' = PipelineFailure("Io", NoStage)
    BY <1>0, <1>18, <2>2, EndingKeepsFiles DEF ObserveRunCompleted, PipelineFailure,
       Completed, Over
  <2>. QED
    BY <1>18, <2>1, <2>2 DEF ObserveRunCompleted
<1>19. CASE Exit
  BY <1>0, <1>19, EndingKeepsFiles DEF Exit, Over
<1>20. CASE Cancel
  BY <1>0, <1>20 DEF Cancel, FilesInv, Untouched, InitialContent, MayWrite
<1>21. CASE Crash
  BY <1>0, <1>21, EndingKeepsFiles DEF Crash, Over
<1>22. CASE UNCHANGED vars
  BY <1>0, <1>22 DEF vars, FilesInv, Untouched, InitialContent, MayWrite
<1>. QED
  BY <1>2, <1>3, <1>4, <1>5, <1>6, <1>7, <1>8, <1>9, <1>10, <1>11, <1>12, <1>13, <1>14,
     <1>15, <1>16, <1>17, <1>18, <1>19, <1>20, <1>21, <1>22 DEF Next, Advance, Stopped

-----------------------------------------------------------------------------
LEMMA Invariance == Spec => []IInv
<1>1. Init => IInv
  BY InitEstablishes
<1>2. IInv /\ [Next]_vars => IInv'
  BY NextKeepsCore, NextKeepsFiles DEF IInv
<1>. QED
  BY <1>1, <1>2, PTL DEF Spec

(***************************************************************************)
(* The variables stay in their types.                                      *)
(***************************************************************************)
THEOREM TypeCorrect == Spec => []TypeOK
<1>1. IInv => TypeOK
  BY DEF IInv, CoreInv
<1>. QED
  BY <1>1, Invariance, PTL

(***************************************************************************)
(* Caller, observer and exit code agree on how the run ended, wherever the  *)
(* observer refuses an event, a stage fails or the token is set (run,       *)
(* run_stage, make_failure, result_exit_code).                             *)
(***************************************************************************)
THEOREM ReportsAreRight == Spec => []RunIsReported
<1>1. IInv => RunIsReported
  <2>. SUFFICES ASSUME IInv PROVE RunIsReported
    OBVIOUS
  <2>1. exitCode = 0 => result = Completed
    <3>1. exitCode = 0 => pc = "exited" /\ ResultExitCode(result) = 0
      BY DEF IInv, CoreInv, PlaceInv
    <3>2. ResultExitCode(result) = 0 => result.status = "completed"
      BY DEF ResultExitCode
    <3>. QED
      BY <3>1, <3>2, ResultIsOneOfThree DEF IInv, CoreInv, TypeOK
  <2>2. exitCode = 130 => cancelled /\ result # Completed
    <3>1. exitCode = 130 => pc = "exited" /\ ResultExitCode(result) = 130 /\ result # Running
      BY DEF IInv, CoreInv, PlaceInv
    <3>2. ResultExitCode(result) = 130 => result.status # "completed" /\ result.reason = "Cancelled"
      BY DEF ResultExitCode
    <3>3. result.status = "failed" /\ result.reason = "Cancelled" => cancelled
      BY DEF IInv, CoreInv, PlaceInv
    <3>. QED
      BY <3>1, <3>2, <3>3, ResultIsOneOfThree DEF IInv, CoreInv, TypeOK
  <2>. QED
    BY <2>1, <2>2 DEF IInv, CoreInv, ReportInv, RunIsReported
<1>. QED
  BY <1>1, Invariance, PTL

(***************************************************************************)
(* The partial summary of a run holds the timings of exactly the stages     *)
(* whose completion was delivered, a prefix of the nine (run, run_stage,    *)
(* make_failure).                                                          *)
(***************************************************************************)
THEOREM SummaryIsRight == Spec => []SummaryMatchesEvents
<1>1. IInv => SummaryMatchesEvents
  <2>. SUFFICES ASSUME IInv PROVE SummaryMatchesEvents
    OBVIOUS
  <2>1. stage \in 1..9
    BY DEF IInv, CoreInv, TypeOK, Stages
  <2>2. \A s \in summary.timings : \A t \in 1..s : t \in summary.timings
    <3>1. summary.timings = 1..(stage - 1) \/ summary.timings = 1..9
      BY DEF IInv, CoreInv, SummaryInv, Stages
    <3>. QED
      BY <2>1, <3>1
  <2>. QED
    BY <2>2 DEF IInv, CoreInv, SummaryInv, ReportInv, SummaryMatchesEvents
<1>. QED
  BY <1>1, Invariance, PTL

(***************************************************************************)
(* Once the token is set no further stage starts, and a run completes only  *)
(* if it had passed the last checkpoint of WriteOutput (run_stage).         *)
(***************************************************************************)
THEOREM CancellationStops == Spec => []CancelStopsTheRun
<1>1. IInv => CancelStopsTheRun
  BY DEF IInv, CoreInv, CancelInv, CancelStopsTheRun, Settled
<1>. QED
  BY <1>1, Invariance, PTL

(***************************************************************************)
(* Neither file changes before the last stage opens the output, nor on a    *)
(* dry run or when the output path is the input's (run, write.rs).          *)
(***************************************************************************)
THEOREM RunFailsClosed == Spec => []FailsClosed
<1>1. IInv => FailsClosed
  <2>. SUFFICES ASSUME IInv, ~Untouched PROVE FailsClosed
    BY DEF FailsClosed
  <2>1. MayWrite /\ stage = WriteOutput
    BY DEF IInv, FilesInv
  <2>2. 1..OutputRebuild \subseteq summary.timings
    <3>1. summary.timings = 1..(stage - 1) \/ summary.timings = 1..9
      BY DEF IInv, CoreInv, SummaryInv, Stages
    <3>. QED
      BY <2>1, <3>1 DEF WriteOutput, OutputRebuild
  <2>3. result.status = "failed" => result.stage \in {WriteOutput, NoStage}
    BY <2>1 DEF IInv, CoreInv, PlaceInv
  <2>. QED
    BY <2>1, <2>2, <2>3 DEF FailsClosed, MayWrite
<1>. QED
  BY <1>1, Invariance, PTL

-----------------------------------------------------------------------------
(***************************************************************************)
(* The refinement.  What the mapping makes of the three kinds of step: the  *)
(* result and the files stay, the run fails, or it is over.                *)
(***************************************************************************)
LEMMA QuietStepIsAStutter ==
  ASSUME pc # "crashed", pc' # "crashed", UNCHANGED <<request, files, result>>
  PROVE  UNCHANGED Contract!vars
BY DEF Contract!vars, ContractPhase, ContractOutput

LEMMA FailingStepFails ==
  ASSUME IInv, pc \notin Over, pc' = "returned", NEW reason, NEW s,
         result' = PipelineFailure(reason, s), UNCHANGED <<request, files>>
  PROVE  Contract!Next
<1>1. pc # "crashed" /\ result.status = "running"
  BY DEF IInv, CoreInv, PlaceInv, Over, Running
<1>2. pc' # "crashed" /\ result'.status = "failed"
  BY DEF PipelineFailure
<1>3. ContractPhase = "working" /\ ContractPhase' = "failed" /\ ContractOutput' = ContractOutput
  BY <1>1, <1>2 DEF ContractPhase, ContractOutput
<1>. QED
  BY <1>3 DEF Contract!Next, Contract!Fail

LEMMA StepImplementsContract ==
  ASSUME IInv, [Next]_vars
  PROVE  [Contract!Next]_(Contract!vars)
<1>0. /\ TypeOK
      /\ pc \notin Over => result = Running
      /\ \A cause : pc \notin Over /\ MakeFailure(cause) /\ UNCHANGED <<request, files>>
                      => Contract!Next
  <2>1. \A cause : pc \notin Over /\ MakeFailure(cause) /\ UNCHANGED <<request, files>>
                     => Contract!Next
    BY FailingStepFails DEF MakeFailure
  <2>. QED
    BY <2>1 DEF IInv, CoreInv, PlaceInv
<1>1. ASSUME NEW kind, NEW s, NEW place, Observe(kind, s, place), pc \notin Over,
             place # "crashed", UNCHANGED <<request, files>>
      PROVE  [Contract!Next]_(Contract!vars)
  <2>1. CASE pc' = place /\ result' = result
    BY <1>1, <2>1, QuietStepIsAStutter DEF Over
  <2>2. CASE pc' = "returned" /\ result' = PipelineFailure("Io", s)
    BY <1>1, <2>2, FailingStepFails
  <2>. QED
    BY <1>1, <2>1, <2>2 DEF Observe
<1>2. CASE StartRun
  BY <1>1, <1>2 DEF StartRun, Over
<1>3. CASE ValidateClrDirectory
  BY <1>0, <1>3, QuietStepIsAStutter DEF ValidateClrDirectory, Over
<1>4. CASE EnterStage
  BY <1>0, <1>4, QuietStepIsAStutter DEF EnterStage, Over
<1>5. CASE ObserveStageStarted
  BY <1>1, <1>5 DEF ObserveStageStarted, Over
<1>6. CASE ObserveOperationStarted
  BY <1>1, <1>6 DEF ObserveOperationStarted, Over
<1>7. CASE WorkSucceeds
  BY <1>7, QuietStepIsAStutter DEF WorkSucceeds
<1>8. CASE WorkFails
  BY <1>0, <1>8 DEF WorkFails, Over
<1>9. CASE WorkIsCancelled
  BY <1>0, <1>9 DEF WorkIsCancelled, Over
<1>10. CASE ChooseOutputPath
  BY <1>0, <1>10, QuietStepIsAStutter DEF ChooseOutputPath, Over
<1>11. CASE OpenOutput
  <2>1. CASE Store("partial") /\ pc' = "write" /\ UNCHANGED <<summary, result, events>>
    <3>1. /\ MayWrite /\ pc \notin Over /\ result = Running
          /\ files["output"] \notin {"partial", "image"}
      BY <1>0, <1>11, UntouchedIsWhole DEF OpenOutput, IInv, FilesInv, Over, Settled
    <3>2. files'["output"] = "partial"
      BY <1>0, <2>1 DEF Store, TypeOK, WrittenPaths
    <3>3. /\ ContractPhase = "working" /\ ContractPhase' = "working"
          /\ ContractOutput = "untouched" /\ ContractOutput' = "partial"
      BY <2>1, <3>1, <3>2 DEF ContractPhase, ContractOutput, Running, Over
    <3>. QED
      BY <1>11, <3>1, <3>3 DEF OpenOutput, MayWrite, Contract!Next, Contract!BeginWrite
  <2>2. CASE MakeFailure("IoError") /\ UNCHANGED files
    BY <1>0, <1>11, <2>2 DEF OpenOutput, Over
  <2>. QED
    BY <1>11, <2>1, <2>2 DEF OpenOutput
<1>12. CASE WriteImage
  <2>1. CASE Store("image") /\ pc' = "progress" /\ UNCHANGED <<summary, result, events>>
    <3>1. pc \notin Over /\ result = Running /\ files["output"] = "partial"
      BY <1>0, <1>12 DEF WriteImage, IInv, FilesInv, Over
    <3>2. files'["output"] = "image"
      BY <1>0, <2>1 DEF Store, TypeOK, WrittenPaths
    <3>3. /\ ContractPhase = "working" /\ ContractPhase' = "working"
          /\ ContractOutput = "partial" /\ ContractOutput' = "complete"
      BY <2>1, <3>1, <3>2 DEF ContractPhase, ContractOutput, Running, Over
    <3>. QED
      BY <1>12, <3>3 DEF WriteImage, Contract!Next, Contract!FinishWrite
  <2>2. CASE MakeFailure("IoError") /\ UNCHANGED files
    BY <1>0, <1>12, <2>2 DEF WriteImage, Over
  <2>. QED
    BY <1>12, <2>1, <2>2 DEF WriteImage
<1>13. CASE ObserveProgress
  <2>1. CASE pc' \in {"scan", "settle"} /\ UNCHANGED <<summary, result>>
    BY <1>13, <2>1, QuietStepIsAStutter DEF ObserveProgress
  <2>2. CASE /\ result' = PipelineFailure(ClassifyFailure(stage, "IoError"), stage)
             /\ pc' = "returned"
    BY <1>13, <2>2, FailingStepFails DEF ObserveProgress, Over
  <2>. QED
    BY <1>13, <2>1, <2>2 DEF ObserveProgress
<1>14. CASE FinishDetection
  BY <1>0, <1>14, QuietStepIsAStutter DEF FinishDetection, Over
<1>15. CASE SettleStage
  BY <1>0, <1>15, QuietStepIsAStutter DEF SettleStage, Over
<1>16. CASE ObserveOperationCompleted
  BY <1>1, <1>16 DEF ObserveOperationCompleted, Over
<1>17. CASE ObserveStageCompleted
  <2>1. AfterStage # "crashed"
    BY DEF AfterStage
  <2>. QED
    BY <1>1, <1>17, <2>1 DEF ObserveStageCompleted, Over
<1>18. CASE ObserveRunCompleted
  <2>1. CASE result' = Completed
    <3>1. /\ pc \notin Over /\ stage = WriteOutput /\ result = Running
          /\ IF request.dryRun THEN Untouched ELSE files["output"] = "image"
      BY <1>0, <1>18 DEF ObserveRunCompleted, IInv, CoreInv, PlaceInv, FilesInv, Over, Settled
    <3>2. /\ ContractPhase = "working" /\ ContractPhase' = "succeeded"
          /\ ContractOutput' = ContractOutput
      BY <1>18, <2>1, <3>1 DEF ObserveRunCompleted, ContractPhase, ContractOutput,
         Running, Completed, Over
    <3>3. ContractOutput = IF request.dryRun THEN "untouched" ELSE "complete"
      BY <1>0, <3>1, UntouchedIsWhole DEF ContractOutput
    <3>. QED
      BY <1>18, <3>2, <3>3 DEF ObserveRunCompleted, Contract!Next, Contract!Succeed
  <2>2. CASE result' = PipelineFailure("Io", NoStage)
    BY <1>18, <2>2, FailingStepFails DEF ObserveRunCompleted, Over
  <2>. QED
    BY <1>18, <2>1, <2>2 DEF ObserveRunCompleted
<1>19. CASE Exit
  BY <1>19, QuietStepIsAStutter DEF Exit
<1>20. CASE Cancel
  BY <1>20, QuietStepIsAStutter DEF Cancel
<1>21. CASE Crash
  <2>1. ContractPhase # "dead" /\ ContractPhase' = "dead" /\ ContractOutput' = ContractOutput
    BY <1>21 DEF Crash, ContractPhase, ContractOutput
  <2>. QED
    BY <1>21, <2>1 DEF Crash, Contract!Next, Contract!Die
<1>22. CASE UNCHANGED vars
  BY <1>22 DEF vars, Contract!vars, ContractPhase, ContractOutput
<1>. QED
  BY <1>2, <1>3, <1>4, <1>5, <1>6, <1>7, <1>8, <1>9, <1>10, <1>11, <1>12, <1>13, <1>14,
     <1>15, <1>16, <1>17, <1>18, <1>19, <1>20, <1>21, <1>22 DEF Next, Advance, Stopped

(***************************************************************************)
(* The safety half of ImplementsContract: the pipeline starts where the     *)
(* contract of a run does, and each of its steps is one the contract allows *)
(* or a stutter.  That every run ends rests on fairness and is left to TLC. *)
(***************************************************************************)
THEOREM ContractIsKept == Spec => Contract!Init /\ [][Contract!Next]_(Contract!vars)
<1>1. Init => Contract!Init
  <2>. SUFFICES ASSUME Init PROVE Contract!Init
    OBVIOUS
  <2>1. TypeOK /\ Untouched
    BY InitEstablishes DEF IInv, CoreInv, Init, Untouched, InitialContent
  <2>2. request.dryRun \in BOOLEAN
    BY RequestsAreTyped DEF Init, RequestType
  <2>3. ContractPhase = "working"
    BY DEF Init, ContractPhase, Running
  <2>4. ContractOutput = "untouched"
    BY <2>1, UntouchedIsWhole DEF ContractOutput
  <2>. QED
    BY <2>2, <2>3, <2>4 DEF Contract!Init
<1>2. IInv /\ [Next]_vars => [Contract!Next]_(Contract!vars)
  BY StepImplementsContract
<1>. QED
  BY <1>1, <1>2, Invariance, PTL DEF Spec
=============================================================================
