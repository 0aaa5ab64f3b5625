------------------------ MODULE PayloadRouterProofs ------------------------
(***************************************************************************)
(* Proofs about PayloadRouter, for every set of plans and of images: the    *)
(* types, the unanimity of the returned payload, the promptness of a        *)
(* cancellation, and that every step of the route is one of                *)
(* PayloadDecision or a stutter.                                           *)
(***************************************************************************)
EXTENDS PayloadRouter, TLAPS

(***************************************************************************)
(* The inductive invariant.  Its heart is Passed: what the route knows of   *)
(* the registrations behind it, which is what makes the comparison with the *)
(* first success alone enough.                                             *)
(***************************************************************************)
Asking == {"probe", "probed", "recover", "authenticate", "finalize"}

\* Where the registry's cursor is, by where the router is.
CursorInv ==
  /\ pc \in {"start", "next"} => current \in Controllers
  /\ pc \in Asking => current \in Applicable(container)
  /\ pc \in {"routed", "evidence"} => current = EvidenceSearch
  /\ pc = "evidence" => retained = 0
  /\ pc # "returned" => outcome = Pending /\ Len(attempts) = current - 1

\* No controller behind the cursor is fatal, and all that authenticate agree.
Passed ==
  /\ retained # 0 =>
       retained \in Applicable(container) /\ retained < current /\ Authenticates(retained)
  /\ \A c \in Applicable(container) : c < current =>
       /\ ~IsFatal(c)
       /\ Authenticates(c) =>
            retained # 0 /\ answer[c].payload = answer[retained].payload

ReturnedInv ==
  outcome.provenance = "Controller" =>
    /\ current = EvidenceSearch
    /\ retained # 0 /\ outcome.payload = answer[retained].payload

\* A set token leaves at most the attempt in flight, and then the route looks at it.
CancelInv ==
  cancelled =>
    /\ \/ Len(attempts) = triedBefore
       \/ Len(attempts) = triedBefore + 1 /\ pc \in {"next", "routed", "returned"}
    /\ pc = "evidence" => triedBefore = LastController
    /\ outcome.provenance # "Controller"
    /\ outcome.provenance = "EvidenceSearch" => triedBefore = LastController

IInv == TypeOK /\ CursorInv /\ Passed /\ ReturnedInv /\ CancelInv

-----------------------------------------------------------------------------
\* An applicable controller is one of the registry.
LEMMA ApplicableIsController ==
  ASSUME NEW box, NEW c \in Applicable(box)
  PROVE  c \in 1..9
BY DEF Applicable, Controllers, LastController

\* What an attempt is made of, and what the trace is after one more.
LEMMA RecordIsTyped ==
  ASSUME attempts \in Seq(AttemptType), NEW a \in AttemptType,
         attempts' = Append(attempts, a)
  PROVE  /\ attempts' \in Seq(AttemptType)
         /\ Len(attempts') = Len(attempts) + 1
         /\ Len(attempts) \in Nat
OBVIOUS

\* A controller that authenticates gives one of the payloads.
LEMMA AuthenticatedPayload ==
  ASSUME TypeOK, NEW c \in Applicable(container), Authenticates(c)
  PROVE  answer[c].payload \in Payloads
<1>1. answer[c] \in Answers
  BY DEF TypeOK
<1>2. answer[c].verdict \notin Failures
  BY DEF Authenticates, Failures
<1>. QED
  BY <1>1, <1>2 DEF Answers, Says, Finds

\* Equal plans and equal images are equal payloads.
LEMMA AgreementIsEquality ==
  ASSUME TypeOK, NEW c \in Applicable(container), NEW d \in Applicable(container),
         Authenticates(c), Authenticates(d)
  PROVE  Agrees(c, d) <=> answer[c].payload = answer[d].payload
<1>1. answer[c].payload \in Payloads /\ answer[d].payload \in Payloads
  BY AuthenticatedPayload
<1>. QED
  BY <1>1 DEF Payloads, Agrees

\* The initial states satisfy the invariant.
LEMMA InitEstablishes == Init => IInv
<1>. SUFFICES ASSUME Init PROVE IInv
  OBVIOUS
<1>1. TypeOK
  <2>1. attempts \in Seq(AttemptType)
    BY DEF Init
  <2>2. outcome \in OutcomeType
    BY DEF Init, OutcomeType
  <2>3. cancelled \in BOOLEAN
    BY DEF Init
  <2>4. /\ current \in 1..EvidenceSearch /\ retained \in 0..LastController
        /\ triedBefore \in 0..EvidenceSearch /\ pc \in Places
    BY DEF Init, Places, EvidenceSearch, LastController
  <2>5. container \in Containers /\ answer \in [Applicable(container) -> Answers]
    BY DEF Init
  <2>. QED
    BY <2>1, <2>2, <2>3, <2>4, <2>5 DEF TypeOK
<1>2. CursorInv /\ ReturnedInv /\ CancelInv
  BY DEF Init, CursorInv, ReturnedInv, CancelInv, Asking, Controllers,
         LastController, Pending
<1>3. Passed
  BY ApplicableIsController DEF Init, Passed
<1>. QED
  BY <1>1, <1>2, <1>3 DEF IInv

-----------------------------------------------------------------------------
(***************************************************************************)
(* The three kinds of step a controller can lead to: the router moves on    *)
(* within a registration, goes on to the next one, or returns.  Each keeps  *)
(* the invariant, given what is known of Passed and of the result.          *)
(***************************************************************************)
LEMMA MovingKeeps ==
  ASSUME IInv, NEW place \in Asking, Goto(place),
         current \in Applicable(container), pc \in Asking \cup {"next"},
         pc = "next" => ~cancelled,
         UNCHANGED <<container, answer, retained, cancelled, triedBefore>>
  PROVE  IInv'
<1>. USE DEF Goto
<1>1. TypeOK'
  BY DEF IInv, TypeOK, Asking, Places
<1>2. CursorInv' /\ ReturnedInv'
  BY DEF IInv, CursorInv, ReturnedInv, Asking, Pending
<1>3. Passed'
  BY DEF IInv, Passed, IsFatal, Authenticates
<1>4. CancelInv'
  BY DEF IInv, CancelInv, CursorInv, Asking, Pending
<1>. QED
  BY <1>1, <1>2, <1>3, <1>4 DEF IInv

LEMMA GoingOnKeeps ==
  ASSUME IInv, current \in Controllers, pc \in Asking \cup {"next"},
         pc = "next" => ~cancelled,
         NEW a \in AttemptType, attempts' = Append(attempts, a), NextRegistration,
         retained' \in {retained, current}, Passed',
         UNCHANGED <<container, answer, cancelled, triedBefore>>
  PROVE  IInv'
<1>. USE DEF NextRegistration
<1>1. /\ attempts' \in Seq(AttemptType)
      /\ Len(attempts') = Len(attempts) + 1
      /\ Len(attempts) \in Nat
  BY RecordIsTyped DEF IInv, TypeOK
<1>2. TypeOK'
  BY <1>1 DEF IInv, TypeOK, Places, Controllers, LastController, EvidenceSearch
<1>3. CursorInv' /\ ReturnedInv'
  BY <1>1 DEF IInv, CursorInv, ReturnedInv, Asking, Pending, Controllers,
              LastController, EvidenceSearch
<1>4. CancelInv'
  BY <1>1 DEF IInv, TypeOK, CancelInv, CursorInv, Asking, Pending
<1>. QED
  BY <1>2, <1>3, <1>4 DEF IInv

LEMMA ReturningKeeps ==
  ASSUME IInv, pc # "returned", NEW result \in OutcomeType, Return(result),
         \/ UNCHANGED attempts
         \/ /\ pc \notin {"next", "routed"}
            /\ \E a \in AttemptType : attempts' = Append(attempts, a),
         result.provenance = "Controller" =>
           /\ current = EvidenceSearch /\ ~cancelled
           /\ retained # 0 /\ result.payload = answer[retained].payload,
         result.provenance = "EvidenceSearch" => pc = "evidence",
         UNCHANGED <<container, answer, current, retained, cancelled, triedBefore>>
  PROVE  IInv'
<1>. USE DEF Return
<1>1. /\ attempts' \in Seq(AttemptType)
      /\ Len(attempts) \in Nat
      /\ \/ Len(attempts') = Len(attempts)
         \/ Len(attempts') = Len(attempts) + 1 /\ pc \notin {"next", "routed"}
  BY RecordIsTyped DEF IInv, TypeOK
<1>2. TypeOK'
  BY <1>1 DEF IInv, TypeOK, Places
<1>3. CursorInv' /\ ReturnedInv'
  BY DEF IInv, CursorInv, ReturnedInv, Asking
<1>4. Passed'
  BY DEF IInv, Passed, IsFatal, Authenticates
<1>5. CancelInv'
  BY <1>1 DEF IInv, TypeOK, CancelInv
<1>. QED
  BY <1>2, <1>3, <1>4, <1>5 DEF IInv

\* Returning because the token is set.
LEMMA ReturnCancelledKeeps ==
  ASSUME IInv, pc # "returned", ReturnCancelled,
         UNCHANGED <<container, answer, retained, cancelled, triedBefore>>
  PROVE  IInv'
<1>1. RouteError("Cancelled") \in OutcomeType
  BY DEF OutcomeType, RouteErrorKinds
<1>. QED
  BY <1>1, ReturningKeeps DEF ReturnCancelled, RouteError

-----------------------------------------------------------------------------
(***************************************************************************)
(* Passed across the end of a registration: with a controller that is not   *)
(* applicable or rejects, nothing new is to be known of it; a controller    *)
(* that authenticates is the first to, or agrees with the first.            *)
(***************************************************************************)
LEMMA PassedWithoutSuccess ==
  ASSUME IInv, current' = current + 1,
         UNCHANGED <<container, answer, retained>>,
         \/ current \notin Applicable(container)
         \/ ~IsFatal(current) /\ ~Authenticates(current)
  PROVE  Passed'
<1>1. retained # 0 => retained < current'
  BY DEF IInv, Passed, TypeOK, EvidenceSearch, LastController
<1>2. ASSUME NEW c \in Applicable(container), c < current'
      PROVE  /\ ~IsFatal(c)
             /\ Authenticates(c) =>
                  retained # 0 /\ answer[c].payload = answer[retained].payload
  <2>1. c < current \/ c = current
    BY <1>2, ApplicableIsController DEF IInv, TypeOK, EvidenceSearch, LastController
  <2>. QED
    BY <1>2, <2>1 DEF IInv, Passed
<1>. QED
  BY <1>1, <1>2 DEF IInv, Passed, IsFatal, Authenticates

LEMMA PassedWithSuccess ==
  ASSUME IInv, current \in Applicable(container), current' = current + 1,
         Authenticates(current), UNCHANGED <<container, answer>>,
         retained' = IF retained = 0 THEN current ELSE retained,
         retained = 0 \/ Agrees(retained, current)
  PROVE  Passed'
<1>1. /\ retained' \in Applicable(container) /\ retained' # 0
      /\ retained' < current' /\ Authenticates(retained')
  BY ApplicableIsController DEF IInv, Passed, TypeOK, EvidenceSearch, LastController
<1>2. answer[current].payload = answer[retained'].payload
  BY AgreementIsEquality DEF IInv, Passed
<1>3. ASSUME NEW c \in Applicable(container), c < current'
      PROVE  /\ ~IsFatal(c)
             /\ Authenticates(c) => answer[c].payload = answer[retained'].payload
  <2>1. c < current \/ c = current
    BY <1>3, ApplicableIsController DEF IInv, TypeOK, EvidenceSearch, LastController
  <2>2. CASE c < current
    BY <2>2 DEF IInv, Passed
  <2>3. CASE c = current
    BY <2>3, <1>2 DEF IsFatal, Authenticates
  <2>. QED
    BY <2>1, <2>2, <2>3
<1>. QED
  BY <1>1, <1>3 DEF Passed, IsFatal, Authenticates

-----------------------------------------------------------------------------
(***************************************************************************)
(* Every step keeps the invariant.                                         *)
(***************************************************************************)
LEMMA NextKeeps == IInv /\ [Next]_vars => IInv'
<1>. SUFFICES ASSUME IInv, [Next]_vars PROVE IInv'
  OBVIOUS
<1>0. /\ pc \in {"next"} \cup Asking => current \in Controllers
      /\ pc \in Asking => current \in Applicable(container)
  BY ApplicableIsController DEF IInv, CursorInv, Controllers, LastController, Asking
<1>1. ASSUME NEW stage \in {"Probe", "Recovery", "Authentication", "Finalization"},
             NEW result \in {"NotApplicable", "Rejected", "Fatal", "Authenticated", "Ambiguous"},
             NEW code \in {"None", "StructuralMismatch", "NoAuthenticatedPlan",
                           "InternalFailure", "AmbiguousPlans"},
             current \in Controllers
      PROVE  Attempt(current, result, stage, code) \in AttemptType
  BY <1>1 DEF Attempt, AttemptType
<1>2. CASE Start
  <2>1. CASE ReturnCancelled
    BY <1>2, <2>1, ReturnCancelledKeeps DEF Start
  <2>2. CASE ~cancelled /\ Goto("next")
    BY <1>2, <2>2 DEF Start, Goto, IInv, TypeOK, Places, CursorInv, ReturnedInv, Passed,
         CancelInv, Asking, Pending, IsFatal, Authenticates
  <2>. QED
    BY <1>2, <2>1, <2>2 DEF Start
<1>3. CASE EnterProbe
  <2>1. CASE ReturnCancelled
    BY <1>3, <2>1, ReturnCancelledKeeps DEF EnterProbe
  <2>2. CASE /\ ~cancelled /\ current \notin Applicable(container)
             /\ Record("NotApplicable", "Probe", "None")
             /\ NextRegistration
    <3>1. Passed'
      BY <1>3, <2>2, PassedWithoutSuccess DEF EnterProbe, NextRegistration
    <3>. QED
      BY <1>0, <1>1, <1>3, <2>2, <3>1, GoingOnKeeps DEF EnterProbe, Record
  <2>3. CASE ~cancelled /\ current \in Applicable(container) /\ Goto("probe")
    BY <1>3, <2>3, MovingKeeps DEF EnterProbe, Asking
  <2>. QED
    BY <1>3, <2>1, <2>2, <2>3 DEF EnterProbe
<1>4. CASE Probe
  <2>1. CASE ReturnCancelled
    BY <1>4, <2>1, ReturnCancelledKeeps DEF Probe
  <2>2. CASE /\ answer[current].verdict = "notFound"
             /\ Record("NotApplicable", "Probe", "None")
             /\ NextRegistration
    <3>1. Passed'
      BY <1>4, <2>2, PassedWithoutSuccess
         DEF Probe, NextRegistration, IsFatal, Authenticates
    <3>. QED
      BY <1>0, <1>1, <1>4, <2>2, <3>1, GoingOnKeeps DEF Probe, Record, Asking
  <2>3. CASE /\ answer[current].verdict = "probeRejected"
             /\ RejectAndGoOn("Probe", "StructuralMismatch")
    <3>1. Passed'
      BY <1>4, <2>3, PassedWithoutSuccess
         DEF Probe, RejectAndGoOn, NextRegistration, IsFatal, Authenticates
    <3>. QED
      BY <1>0, <1>1, <1>4, <2>3, <3>1, GoingOnKeeps
         DEF Probe, RejectAndGoOn, Record, Asking
  <2>4. CASE Goto("probed")
    BY <1>0, <1>4, <2>4, MovingKeeps DEF Probe, Asking
  <2>. QED
    BY <1>4, <2>1, <2>2, <2>3, <2>4 DEF Probe
<1>5. CASE EnterRecovery
  <2>1. CASE ReturnCancelled
    BY <1>5, <2>1, ReturnCancelledKeeps DEF EnterRecovery
  <2>2. CASE Goto("recover")
    BY <1>0, <1>5, <2>2, MovingKeeps DEF EnterRecovery, Asking
  <2>. QED
    BY <1>5, <2>1, <2>2 DEF EnterRecovery
<1>6. CASE Recover
  <2>1. CASE ReturnCancelled
    BY <1>6, <2>1, ReturnCancelledKeeps DEF Recover
  <2>2. CASE /\ answer[current].verdict = "recoveryRejected"
             /\ RejectAndGoOn("Recovery", "StructuralMismatch")
    <3>1. Passed'
      BY <1>6, <2>2, PassedWithoutSuccess
         DEF Recover, RejectAndGoOn, NextRegistration, IsFatal, Authenticates
    <3>. QED
      BY <1>0, <1>1, <1>6, <2>2, <3>1, GoingOnKeeps
         DEF Recover, RejectAndGoOn, Record, Asking
  <2>3. CASE Goto("authenticate")
    BY <1>0, <1>6, <2>3, MovingKeeps DEF Recover, Asking
  <2>. QED
    BY <1>6, <2>1, <2>2, <2>3 DEF Recover
<1>7. CASE Authenticate
  <2>1. CASE ReturnCancelled
    BY <1>7, <2>1, ReturnCancelledKeeps DEF Authenticate
  <2>2. CASE /\ answer[current].verdict = "noPlan"
             /\ RejectAndGoOn("Authentication", "NoAuthenticatedPlan")
    <3>1. Passed'
      BY <1>7, <2>2, PassedWithoutSuccess
         DEF Authenticate, RejectAndGoOn, NextRegistration, IsFatal, Authenticates
    <3>. QED
      BY <1>0, <1>1, <1>7, <2>2, <3>1, GoingOnKeeps
         DEF Authenticate, RejectAndGoOn, Record, Asking
  <2>3. CASE FailTheRoute("Authentication")
    <3>1. RouteError("Internal") \in OutcomeType
      BY DEF OutcomeType, RouteErrorKinds
    <3>. QED
      BY <1>0, <1>1, <1>7, <2>3, <3>1, ReturningKeeps
         DEF Authenticate, FailTheRoute, Record, RouteError, Asking
  <2>4. CASE Goto("finalize")
    BY <1>0, <1>7, <2>4, MovingKeeps DEF Authenticate, Asking
  <2>. QED
    BY <1>7, <2>1, <2>2, <2>3, <2>4 DEF Authenticate
<1>8. CASE Finalize
  <2>1. CASE FailTheRoute("Finalization") /\ UNCHANGED retained
    <3>1. RouteError("Internal") \in OutcomeType
      BY DEF OutcomeType, RouteErrorKinds
    <3>. QED
      BY <1>0, <1>1, <1>8, <2>1, <3>1, ReturningKeeps
         DEF Finalize, FailTheRoute, Record, RouteError, Asking
  <2>2. CASE /\ answer[current].verdict = "authenticated"
             /\ retained = 0 \/ Agrees(retained, current)
             /\ Retain
    <3>1. Passed'
      BY <1>0, <1>8, <2>2, PassedWithSuccess
         DEF Finalize, Retain, NextRegistration, Authenticates, Asking
    <3>. QED
      BY <1>0, <1>1, <1>8, <2>2, <3>1, GoingOnKeeps DEF Finalize, Retain, Record, Asking
  <2>3. CASE RejectConflict
    <3>1. RouteError("Ambiguous") \in OutcomeType
      BY DEF OutcomeType, RouteErrorKinds
    <3>. QED
      BY <1>0, <1>1, <1>8, <2>3, <3>1, ReturningKeeps
         DEF Finalize, RejectConflict, Record, RouteError, Asking
  <2>. QED
    BY <1>8, <2>1, <2>2, <2>3 DEF Finalize
<1>9. CASE FinishRoute
  <2>1. CASE ReturnCancelled
    BY <1>9, <2>1, ReturnCancelledKeeps DEF FinishRoute
  <2>2. CASE /\ ~cancelled /\ retained # 0
             /\ Return(Recovered("Controller", answer[retained].payload))
             /\ UNCHANGED <<attempts, current>>
    <3>1. answer[retained].payload \in Payloads
      BY <2>2, AuthenticatedPayload DEF IInv, Passed
    <3>2. Recovered("Controller", answer[retained].payload) \in OutcomeType
      BY <3>1 DEF OutcomeType
    <3>3. current = EvidenceSearch
      BY <1>9 DEF FinishRoute, IInv, CursorInv
    <3>. QED
      BY <1>9, <2>2, <3>2, <3>3, ReturningKeeps DEF FinishRoute, Recovered
  <2>3. CASE ~cancelled /\ retained = 0 /\ Goto("evidence")
    BY <1>9, <2>3 DEF FinishRoute, Goto, IInv, TypeOK, Places, CursorInv, ReturnedInv,
         Passed, CancelInv, Asking, Pending, IsFatal, Authenticates
  <2>. QED
    BY <1>9, <2>1, <2>2, <2>3 DEF FinishRoute
<1>10. CASE RecoverFromEvidence
  <2>1. CASE ReturnCancelled
    BY <1>10, <2>1, ReturnCancelledKeeps DEF RecoverFromEvidence
  <2>2. ASSUME NEW a \in EvidenceAnswers,
               attempts' = Append(attempts, EvidenceAttempt(a)),
               Return(EvidenceResult(a)), UNCHANGED current
        PROVE  IInv'
    <3>1. EvidenceAttempt(a) \in AttemptType
      BY DEF EvidenceAttempt, Attempt, AttemptType
    <3>2. EvidenceResult(a) \in OutcomeType /\ EvidenceResult(a).provenance # "Controller"
      BY DEF EvidenceResult, EvidenceAnswers, OutcomeType, RouteErrorKinds, Says, Finds,
             RouteError, Recovered
    <3>. QED
      BY <1>10, <2>2, <3>1, <3>2, ReturningKeeps DEF RecoverFromEvidence
  <2>. QED
    BY <1>10, <2>1, <2>2 DEF RecoverFromEvidence
<1>11. CASE Cancel
  <2>0. cancelled' \in BOOLEAN
    BY <1>11 DEF Cancel
  <2>1. triedBefore' \in 0..EvidenceSearch
    <3>1. Len(attempts) = current - 1
      BY <1>11 DEF Cancel, IInv, CursorInv
    <3>2. current \in 1..EvidenceSearch
      BY DEF IInv, TypeOK
    <3>. QED
      BY <1>11, <3>1, <3>2 DEF Cancel, EvidenceSearch, LastController
  <2>2. TypeOK' /\ CursorInv' /\ ReturnedInv' /\ Passed'
    BY <1>11, <2>0, <2>1 DEF Cancel, IInv, TypeOK, CursorInv, ReturnedInv, Passed,
         IsFatal, Authenticates
  <2>3. CancelInv'
    BY <1>11 DEF Cancel, IInv, CursorInv, CancelInv, Pending, EvidenceSearch, LastController
  <2>. QED
    BY <2>2, <2>3 DEF IInv
<1>12. CASE UNCHANGED vars
  BY <1>12 DEF vars, IInv, TypeOK, CursorInv, ReturnedInv, Passed, CancelInv,
       IsFatal, Authenticates
<1>. QED
  BY <1>2, <1>3, <1>4, <1>5, <1>6, <1>7, <1>8, <1>9, <1>10, <1>11, <1>12
     DEF Next, Advance, Stopped

\* The invariant holds of every reachable state.
THEOREM Invariance == Spec => []IInv
BY InitEstablishes, NextKeeps, PTL DEF Spec

-----------------------------------------------------------------------------
(***************************************************************************)
(* The router's variables keep their types (recover_payload_automatically), *)
(* whatever the plans and images are.                                      *)
(***************************************************************************)
THEOREM TypeCorrect == Spec => []TypeOK
<1>1. IInv => TypeOK
  BY DEF IInv
<1>. QED
  BY <1>1, Invariance, PTL

(***************************************************************************)
(* A returned controller payload is contradicted by no applicable          *)
(* controller of the registry, and none of them failed fatally: comparing   *)
(* each success with the first (retain_controller_success) is enough.      *)
(***************************************************************************)
THEOREM Unanimity == Spec => []PayloadIsUnanimous
<1>1. IInv => PayloadIsUnanimous
  BY ApplicableIsController
     DEF IInv, Passed, ReturnedInv, PayloadIsUnanimous, EvidenceSearch, LastController
<1>. QED
  BY <1>1, Invariance, PTL

(***************************************************************************)
(* After the token is set at most one attempt is still recorded and no      *)
(* controller's payload is returned (the checkpoints of probe and router).  *)
(***************************************************************************)
THEOREM PromptCancellation == Spec => []CancellationIsPrompt
<1>1. IInv => CancellationIsPrompt
  BY DEF IInv, TypeOK, CancelInv, CancellationIsPrompt
<1>. QED
  BY <1>1, Invariance, PTL

-----------------------------------------------------------------------------
(***************************************************************************)
(* The trace.  While the route runs it holds nothing that stops it, and the  *)
(* first attempt that authenticated is that of the retained controller.     *)
(***************************************************************************)
Going == {"NotApplicable", "Rejected", "Authenticated"}

TraceInv ==
  /\ TraceTellsTheRoute
  /\ pc # "returned" =>
       /\ \A i \in DOMAIN attempts : attempts[i].outcome \in Going
       /\ retained # 0 =>
            retained \in DOMAIN attempts /\ attempts[retained].outcome = "Authenticated"
       /\ retained = 0 => \A i \in DOMAIN attempts : attempts[i].outcome # "Authenticated"

\* The attempt that is added is the one of the cursor; those before it stay.
LEMMA OneMoreAttempt ==
  ASSUME IInv, pc # "returned", NEW a \in AttemptType, attempts' = Append(attempts, a)
  PROVE  /\ Len(attempts) \in Nat /\ Len(attempts') = Len(attempts) + 1
         /\ current = Len(attempts')
         /\ DOMAIN attempts = 1 .. Len(attempts)
         /\ DOMAIN attempts' = DOMAIN attempts \cup {current} /\ current \notin DOMAIN attempts
         /\ \A i \in DOMAIN attempts : attempts'[i] = attempts[i]
         /\ attempts'[current] = a
<1>1. attempts \in Seq(AttemptType) /\ Len(attempts) = current - 1 /\ current \in Nat
  BY DEF IInv, TypeOK, CursorInv, EvidenceSearch, LastController
<1>2. /\ attempts' \in Seq(AttemptType) /\ Len(attempts') = Len(attempts) + 1
      /\ DOMAIN attempts = 1 .. Len(attempts) /\ DOMAIN attempts' = 1 .. Len(attempts')
      /\ \A i \in 1 .. Len(attempts) : attempts'[i] = attempts[i]
      /\ attempts'[Len(attempts) + 1] = a
  BY <1>1
<1>3. Len(attempts) \in Nat /\ current = Len(attempts) + 1
  BY <1>1
<1>4. \A n \in Nat : 1 .. n + 1 = 1 .. n \cup {n + 1} /\ n + 1 \notin 1 .. n
  OBVIOUS
<1>. QED
  BY <1>2, <1>3, <1>4

LEMMA TraceMoves ==
  ASSUME IInv, TraceInv, pc # "returned",
         UNCHANGED <<answer, attempts, retained, outcome>>
  PROVE  TraceInv'
BY DEF TraceInv, TraceTellsTheRoute

LEMMA TraceIsCancelled ==
  ASSUME IInv, TraceInv, pc # "returned", ReturnCancelled, UNCHANGED answer
  PROVE  TraceInv'
<1>1. /\ attempts' = attempts /\ pc' = "returned"
      /\ outcome' = RouteError("Cancelled") /\ outcome'.provenance = "Cancelled"
  BY DEF ReturnCancelled, Return, RouteError
<1>2. \A i \in DOMAIN attempts : /\ attempts[i].provider = i
                                 /\ attempts[i].outcome \in Going
  BY DEF TraceInv, TraceTellsTheRoute
<1>. QED
  BY <1>1, <1>2 DEF TraceInv, TraceTellsTheRoute, Going

LEMMA TraceGoesOn ==
  ASSUME IInv, TraceInv, pc # "returned", current \in Controllers,
         NEW a \in AttemptType, attempts' = Append(attempts, a),
         a.provider = current, a.outcome \in Going,
         retained' = IF a.outcome = "Authenticated" /\ retained = 0 THEN current ELSE retained,
         UNCHANGED <<answer, outcome>>, pc' # "returned"
  PROVE  TraceInv'
<1>1. outcome' = Pending /\ outcome'.provenance = "pending"
  BY DEF IInv, CursorInv, Pending
<1>2. /\ DOMAIN attempts' = DOMAIN attempts \cup {current} /\ current \notin DOMAIN attempts
      /\ \A i \in DOMAIN attempts : attempts'[i] = attempts[i]
      /\ attempts'[current] = a
  BY OneMoreAttempt
<1>3. \A i \in DOMAIN attempts : /\ attempts[i].provider = i
                                 /\ attempts[i].outcome \in Going
  BY DEF TraceInv, TraceTellsTheRoute
<1>4. \A i \in DOMAIN attempts' : /\ attempts'[i].provider = i
                                  /\ attempts'[i].outcome \in Going
  BY <1>2, <1>3
<1>5. TraceTellsTheRoute'
  BY <1>1, <1>4 DEF TraceTellsTheRoute, Going
<1>6. current # 0
  BY DEF Controllers
<1>7. /\ retained' # 0 =>
           retained' \in DOMAIN attempts' /\ attempts'[retained'].outcome = "Authenticated"
      /\ retained' = 0 => \A i \in DOMAIN attempts' : attempts'[i].outcome # "Authenticated"
  BY <1>2, <1>6 DEF TraceInv
<1>. QED
  BY <1>4, <1>5, <1>7 DEF TraceInv

\* A fatal failure, or a contradiction, is recorded and ends the route.
LEMMA TraceStops ==
  ASSUME IInv, TraceInv, pc # "returned",
         NEW a \in AttemptType, attempts' = Append(attempts, a), a.provider = current,
         \/ a.outcome = "Fatal" /\ Return(RouteError("Internal"))
         \/ /\ a.outcome = "Ambiguous" /\ Return(RouteError("Ambiguous"))
            /\ retained # 0 /\ answer[retained].payload # answer[current].payload,
         UNCHANGED answer
  PROVE  TraceInv'
<1>1. /\ DOMAIN attempts' = DOMAIN attempts \cup {current} /\ current \notin DOMAIN attempts
      /\ \A i \in DOMAIN attempts : attempts'[i] = attempts[i]
      /\ attempts'[current] = a /\ current = Len(attempts')
      /\ DOMAIN attempts = 1 .. Len(attempts) /\ Len(attempts) \in Nat
      /\ Len(attempts') = Len(attempts) + 1
  BY OneMoreAttempt
<1>2. \A i \in DOMAIN attempts : /\ attempts'[i].provider = i
                                 /\ attempts'[i].outcome \in Going
  BY <1>1 DEF TraceInv, TraceTellsTheRoute
<1>3. /\ pc' = "returned" /\ outcome'.provenance \in {"Internal", "Ambiguous"}
      /\ outcome'.provenance = "Ambiguous" => a.outcome = "Ambiguous"
  BY DEF Return, RouteError
<1>4. DOMAIN attempts = 1 .. current - 1
  BY <1>1
<1>5. a.outcome = "Ambiguous" =>
        \E d \in 1 .. (current - 1) : /\ attempts'[d].outcome = "Authenticated"
                                      /\ answer'[d].payload # answer'[current].payload
  BY <1>1, <1>4 DEF TraceInv
<1>6. a.outcome \in {"Fatal", "Ambiguous"} =>
        outcome' = RouteError(IF a.outcome = "Fatal" THEN "Internal" ELSE "Ambiguous")
  BY DEF Return
<1>. QED
  BY <1>1, <1>2, <1>3, <1>5, <1>6 DEF TraceInv, TraceTellsTheRoute, Going

\* The whole registry was asked when a controller's payload is returned.
LEMMA TraceEndsWithAController ==
  ASSUME IInv, TraceInv, pc = "routed", NEW p, Return(Recovered("Controller", p)),
         UNCHANGED <<answer, attempts>>
  PROVE  TraceInv'
<1>1. Len(attempts) = LastController
  BY DEF IInv, CursorInv, EvidenceSearch, LastController
<1>2. pc' = "returned" /\ outcome'.provenance = "Controller"
  BY DEF Return, Recovered
<1>3. \A i \in DOMAIN attempts : /\ attempts[i].provider = i
                                 /\ attempts[i].outcome \in Going
  BY DEF TraceInv, TraceTellsTheRoute
<1>. QED
  BY <1>1, <1>2, <1>3 DEF TraceInv, TraceTellsTheRoute, Going

LEMMA TraceEndsWithTheEvidence ==
  ASSUME IInv, TraceInv, pc = "evidence", NEW a \in EvidenceAnswers,
         attempts' = Append(attempts, EvidenceAttempt(a)), Return(EvidenceResult(a)),
         UNCHANGED answer
  PROVE  TraceInv'
<1> DEFINE e == EvidenceAttempt(a)
<1>1. e \in AttemptType /\ e.provider = EvidenceSearch
  BY DEF EvidenceAttempt, Attempt, AttemptType
<1>2. current = EvidenceSearch /\ retained = 0 /\ Len(attempts) = current - 1
  BY DEF IInv, CursorInv
<1>3. /\ DOMAIN attempts' = DOMAIN attempts \cup {current} /\ current \notin DOMAIN attempts
      /\ \A i \in DOMAIN attempts : attempts'[i] = attempts[i]
      /\ attempts'[current] = e /\ current = Len(attempts')
      /\ DOMAIN attempts = 1 .. Len(attempts) /\ Len(attempts) \in Nat
  BY <1>1, OneMoreAttempt
<1>4. \A i \in DOMAIN attempts : /\ attempts'[i].provider = i
                                 /\ attempts'[i].outcome \in {"NotApplicable", "Rejected"}
  BY <1>2, <1>3 DEF TraceInv, TraceTellsTheRoute, Going
<1>5. DOMAIN attempts = Controllers /\ Len(attempts') = EvidenceSearch
  BY <1>2, <1>3 DEF Controllers, EvidenceSearch, LastController
<1>6. /\ e.outcome # "Ambiguous" /\ EvidenceResult(a).provenance \notin {"Ambiguous", "Controller"}
      /\ e.outcome = "Fatal" => EvidenceResult(a) = RouteError("Internal")
  BY DEF EvidenceAttempt, EvidenceResult, EvidenceAnswers, Attempt, RouteError, Recovered,
         Says, Finds
<1>7. pc' = "returned" /\ outcome' = EvidenceResult(a)
  BY DEF Return
<1>. QED
  BY <1>1, <1>2, <1>3, <1>4, <1>5, <1>6, <1>7 DEF TraceInv, TraceTellsTheRoute

LEMMA TraceKept == IInv /\ TraceInv /\ [Next]_vars => TraceInv'
<1>. SUFFICES ASSUME IInv, TraceInv, [Next]_vars PROVE TraceInv'
  OBVIOUS
<1>0. /\ pc \in {"next"} \cup Asking => current \in Controllers
      /\ pc \in Asking => current \in Applicable(container)
  BY ApplicableIsController DEF IInv, CursorInv, Controllers, LastController, Asking
<1>1. ASSUME NEW stage \in {"Probe", "Recovery", "Authentication", "Finalization"},
             NEW result \in {"NotApplicable", "Rejected", "Fatal", "Authenticated", "Ambiguous"},
             NEW code \in {"None", "StructuralMismatch", "NoAuthenticatedPlan",
                           "InternalFailure", "AmbiguousPlans"},
             current \in Controllers
      PROVE  LET a == Attempt(current, result, stage, code)
             IN  a \in AttemptType /\ a.provider = current /\ a.outcome = result
  BY <1>1 DEF Attempt, AttemptType
<1>2. CASE ReturnCancelled /\ pc # "returned" /\ UNCHANGED answer
  BY <1>2, TraceIsCancelled
<1>3. CASE UNCHANGED <<answer, attempts, retained, outcome>>
  <2>1. CASE pc # "returned"
    BY <1>3, <2>1, TraceMoves
  <2>2. CASE pc = "returned" /\ pc' = "returned"
    BY <1>3, <2>2 DEF TraceInv, TraceTellsTheRoute
  <2>3. pc = "returned" => pc' = "returned"
    BY DEF Next, Advance, Stopped, vars, Start, EnterProbe, Probe, EnterRecovery, Recover,
           Authenticate, Finalize, FinishRoute, RecoverFromEvidence, Cancel
  <2>. QED
    BY <2>1, <2>2, <2>3
<1>4. ASSUME NEW result \in {"NotApplicable", "Rejected"},
             NEW stage \in {"Probe", "Recovery", "Authentication"},
             NEW code \in {"None", "StructuralMismatch", "NoAuthenticatedPlan"},
             Record(result, stage, code), NextRegistration,
             pc \in {"next"} \cup Asking, UNCHANGED <<answer, retained>>
      PROVE  TraceInv'
  BY <1>0, <1>1, <1>4, TraceGoesOn DEF Record, NextRegistration, Going, Asking
<1>5. ASSUME NEW stage \in {"Authentication", "Finalization"}, FailTheRoute(stage),
             pc \in Asking, UNCHANGED answer
      PROVE  TraceInv'
  BY <1>0, <1>1, <1>5, TraceStops DEF FailTheRoute, Record, Asking
<1>6. CASE Start \/ EnterProbe \/ EnterRecovery
  BY <1>2, <1>3, <1>4, <1>6 DEF Start, EnterProbe, EnterRecovery, Goto, Asking
<1>7. CASE Probe
  BY <1>2, <1>3, <1>4, <1>7 DEF Probe, Goto, RejectAndGoOn, Asking
<1>8. CASE Recover
  BY <1>2, <1>3, <1>4, <1>8 DEF Recover, Goto, RejectAndGoOn, Asking
<1>9. CASE Authenticate
  BY <1>2, <1>3, <1>4, <1>5, <1>9 DEF Authenticate, Goto, RejectAndGoOn, Asking
<1>10. CASE Finalize
  <2>1. CASE FailTheRoute("Finalization")
    BY <1>5, <1>10, <2>1 DEF Finalize, Asking
  <2>2. CASE Retain
    BY <1>0, <1>1, <1>10, <2>2, TraceGoesOn
       DEF Finalize, Retain, Record, NextRegistration, Going, Asking
  <2>3. CASE answer[current].verdict = "authenticated" /\ retained # 0
             /\ ~Agrees(retained, current) /\ RejectConflict
    <3>1. answer[retained].payload # answer[current].payload
      BY <1>0, <1>10, <2>3, AgreementIsEquality
         DEF Finalize, Asking, IInv, Passed, Authenticates
    <3>. QED
      BY <1>0, <1>1, <1>10, <2>3, <3>1, TraceStops
         DEF Finalize, RejectConflict, Record, Asking
  <2>. QED
    BY <1>10, <2>1, <2>2, <2>3 DEF Finalize
<1>11. CASE FinishRoute
  BY <1>2, <1>3, <1>11, TraceEndsWithAController DEF FinishRoute, Goto
<1>12. CASE RecoverFromEvidence
  BY <1>2, <1>12, TraceEndsWithTheEvidence DEF RecoverFromEvidence
<1>13. CASE Cancel \/ UNCHANGED vars
  BY <1>3, <1>13 DEF Cancel, vars
<1>. QED
  BY <1>6, <1>7, <1>8, <1>9, <1>10, <1>11, <1>12, <1>13 DEF Next, Advance, Stopped

(***************************************************************************)
(* What the trace says is what happened: who was asked, in which order, who  *)
(* stopped the route and whom an ambiguous controller contradicts, for every *)
(* set of plans and images (router.rs pushes the attempt of a contradicting  *)
(* controller as authenticated and rewrites it afterwards).                 *)
(***************************************************************************)
THEOREM TraceIsTrue == Spec => []TraceTellsTheRoute
<1>1. Init => TraceInv
  BY DEF Init, TraceInv, TraceTellsTheRoute, Pending
<1>2. TraceInv => TraceTellsTheRoute
  BY DEF TraceInv
<1>. QED
  BY <1>1, <1>2, Invariance, TraceKept, PTL DEF Spec

-----------------------------------------------------------------------------
(***************************************************************************)
(* The router implements PayloadDecision, but for the liveness part.        *)
(***************************************************************************)
\* While nobody behind the cursor stops the route, and the cursor passed everyone, nobody does.
LEMMA NobodyBehindStops ==
  ASSUME IInv, NEW c \in Applicable(container), c < current
  PROVE  ~Decision!StopsTheRoute(c)
<1>1. ~Decision!IsFatal(c)
  BY DEF IInv, Passed, IsFatal, Decision!IsFatal
<1>2. ASSUME NEW d \in Applicable(container), d < c, Authenticates(c), Authenticates(d)
      PROVE  answer[d].payload = answer[c].payload
  BY <1>2, ApplicableIsController
     DEF IInv, Passed, TypeOK, EvidenceSearch, LastController
<1>3. DOMAIN answer = Applicable(container)
  BY DEF IInv, TypeOK
<1>. QED
  BY <1>1, <1>2, <1>3
     DEF Decision!StopsTheRoute, Decision!Contradicts, Decision!Authenticates, Authenticates

LEMMA CancelledDecides ==
  ASSUME IInv, pc # "returned", ReturnCancelled, UNCHANGED <<answer, cancelled>>
  PROVE  Decision!Decide
BY DEF IInv, CursorInv, ReturnCancelled, Return, Decision!Decide, Decision!DecideCancelled,
       Decision!Pending, Pending, Decision!RouteError, RouteError

\* A fatal answer of the current controller is the decision: nobody before it stops the route.
LEMMA FatalDecides ==
  ASSUME IInv, pc \in Asking, IsFatal(current),
         Return(RouteError("Internal")), UNCHANGED <<answer, cancelled>>
  PROVE  Decision!Decide
<1>1. current \in Applicable(container) /\ DOMAIN answer = Applicable(container)
  BY DEF IInv, CursorInv, TypeOK
<1>2. Decision!DecidesToFail(current)
  BY <1>1, NobodyBehindStops
     DEF Decision!DecidesToFail, Decision!StopsTheRoute, Decision!IsFatal, IsFatal
<1>. QED
  BY <1>1, <1>2
     DEF IInv, CursorInv, Asking, Return, Decision!Decide, Decision!DecideFailure,
         Decision!IsFatal, IsFatal, Decision!Pending, Pending, Decision!RouteError, RouteError

\* So is a conflict of the current controller with the retained one.
LEMMA ConflictDecides ==
  ASSUME IInv, pc \in Asking, Authenticates(current), retained # 0,
         ~Agrees(retained, current),
         Return(RouteError("Ambiguous")), UNCHANGED <<answer, cancelled>>
  PROVE  Decision!Decide
<1>1. current \in Applicable(container) /\ DOMAIN answer = Applicable(container)
  BY DEF IInv, CursorInv, TypeOK
<1>2. /\ retained \in Applicable(container) /\ retained < current
      /\ Authenticates(retained)
      /\ answer[retained].payload # answer[current].payload
  BY <1>1, AgreementIsEquality DEF IInv, Passed
<1>3. Decision!Contradicts(current)
  BY <1>1, <1>2 DEF Decision!Contradicts, Decision!Authenticates, Authenticates
<1>4. Decision!DecidesToFail(current)
  BY <1>1, <1>3, NobodyBehindStops DEF Decision!DecidesToFail, Decision!StopsTheRoute
<1>5. ~Decision!IsFatal(current)
  BY DEF Decision!IsFatal, Authenticates
<1>. QED
  BY <1>1, <1>4, <1>5
     DEF IInv, CursorInv, Asking, Return, Decision!Decide, Decision!DecideFailure,
         Decision!Pending, Pending, Decision!RouteError, RouteError

\* Past the registry nobody stops the route.
LEMMA NobodyStopsAtTheEnd ==
  ASSUME IInv, pc \in {"routed", "evidence"}
  PROVE  Decision!NobodyStops
<1>1. ASSUME NEW c \in Applicable(container) PROVE c < current
  BY ApplicableIsController DEF IInv, CursorInv, EvidenceSearch, LastController
<1>2. DOMAIN answer = Applicable(container)
  BY DEF IInv, TypeOK
<1>. QED
  BY <1>1, <1>2, NobodyBehindStops DEF Decision!NobodyStops

LEMMA StepIsADecision ==
  IInv /\ [Next]_vars => [Decision!Next]_(Decision!vars)
<1>. SUFFICES ASSUME IInv, [Next]_vars
              PROVE  Decision!Next \/ UNCHANGED <<answer, cancelled, outcome>>
  BY DEF Decision!vars
<1>0. pc # "returned" => outcome = Pending
  BY DEF IInv, CursorInv
<1>1. CASE Start \/ EnterProbe \/ Probe \/ EnterRecovery \/ Recover
  <2>1. CASE ReturnCancelled
    BY <1>1, <2>1, CancelledDecides
       DEF Decision!Next, Start, EnterProbe, Probe, EnterRecovery, Recover
  <2>2. CASE ~ReturnCancelled
    BY <1>1, <2>2 DEF Start, EnterProbe, Probe, EnterRecovery, Recover, Goto,
                      NextRegistration, RejectAndGoOn
  <2>. QED
    BY <2>1, <2>2
<1>2. CASE Authenticate
  <2>1. CASE ReturnCancelled
    BY <1>2, <2>1, CancelledDecides DEF Decision!Next, Authenticate
  <2>2. CASE answer[current].verdict = "authenticationFatal" /\ FailTheRoute("Authentication")
    BY <1>2, <2>2, FatalDecides
       DEF Decision!Next, Authenticate, FailTheRoute, IsFatal, Asking
  <2>3. CASE UNCHANGED outcome
    BY <1>2, <2>3 DEF Authenticate
  <2>. QED
    BY <1>2, <2>1, <2>2, <2>3 DEF Authenticate, Goto, NextRegistration, RejectAndGoOn
<1>3. CASE Finalize
  <2>1. CASE answer[current].verdict = "finalizationFatal" /\ FailTheRoute("Finalization")
    BY <1>3, <2>1, FatalDecides
       DEF Decision!Next, Finalize, FailTheRoute, IsFatal, Asking
  <2>2. CASE /\ answer[current].verdict = "authenticated"
             /\ retained # 0 /\ ~Agrees(retained, current)
             /\ RejectConflict
    BY <1>3, <2>2, ConflictDecides
       DEF Decision!Next, Finalize, RejectConflict, Authenticates, Asking
  <2>3. CASE Retain
    BY <1>3, <2>3 DEF Finalize, Retain, NextRegistration
  <2>. QED
    BY <1>3, <2>1, <2>2, <2>3 DEF Finalize
<1>4. CASE FinishRoute
  <2>1. CASE ReturnCancelled
    BY <1>4, <2>1, CancelledDecides DEF Decision!Next, FinishRoute
  <2>2. CASE /\ ~cancelled /\ retained # 0
             /\ Return(Recovered("Controller", answer[retained].payload))
    <3>1. retained \in DOMAIN answer /\ Decision!Authenticates(retained)
      BY <2>2 DEF IInv, TypeOK, Passed, Authenticates, Decision!Authenticates
    <3>2. Decision!NobodyStops
      BY <1>4, NobodyStopsAtTheEnd DEF FinishRoute
    <3>3. Decision!DecideController
      BY <2>2, <3>1, <3>2 DEF Decision!DecideController, Return, Decision!Recovered, Recovered
    <3>. QED
      BY <1>0, <1>4, <3>3
         DEF FinishRoute, Decision!Next, Decision!Decide, Decision!Pending, Pending
  <2>3. CASE Goto("evidence")
    BY <1>4, <2>3 DEF FinishRoute, Goto
  <2>. QED
    BY <1>4, <2>1, <2>2, <2>3 DEF FinishRoute
<1>5. CASE RecoverFromEvidence
  <2>1. CASE ReturnCancelled
    BY <1>5, <2>1, CancelledDecides DEF Decision!Next, RecoverFromEvidence
  <2>2. ASSUME NEW a \in EvidenceAnswers, Return(EvidenceResult(a))
        PROVE  Decision!Next
    <3>1. Decision!NobodyStops
      BY <1>5, NobodyStopsAtTheEnd DEF RecoverFromEvidence
    <3>2. \A c \in DOMAIN answer : ~Decision!Authenticates(c)
      BY <1>5, ApplicableIsController
         DEF RecoverFromEvidence, IInv, TypeOK, CursorInv, Passed, Authenticates,
             Decision!Authenticates, EvidenceSearch, LastController
    <3>3. Decision!DecideEvidence
      BY <2>2, <3>1, <3>2
         DEF Decision!DecideEvidence, Return, EvidenceResult, EvidenceAnswers, Says, Finds,
             Decision!Recovered, Recovered, Decision!RouteError, RouteError
    <3>. QED
      BY <1>0, <1>5, <3>3
         DEF RecoverFromEvidence, Decision!Next, Decision!Decide, Decision!Pending, Pending
  <2>. QED
    BY <1>5, <2>1, <2>2 DEF RecoverFromEvidence
<1>6. CASE Cancel
  BY <1>0, <1>6 DEF Cancel, Decision!Next, Decision!Cancel, Decision!Pending, Pending
<1>7. CASE UNCHANGED vars
  BY <1>7 DEF vars
<1>. QED
  BY <1>1, <1>2, <1>3, <1>4, <1>5, <1>6, <1>7 DEF Next, Advance, Stopped

(***************************************************************************)
(* Every behaviour of the router is one of PayloadDecision's: it decides    *)
(* once, in one step, what the controllers' answers and the token allow.    *)
(***************************************************************************)
THEOREM DecisionIsSafe ==
  Spec => Decision!Init /\ [][Decision!Next]_(Decision!vars)
<1>1. Init => Decision!Init
  BY DEF Init, Decision!Init, Pending, Decision!Pending
<1>. QED
  BY <1>1, Invariance, StepIsADecision, PTL DEF Spec
=============================================================================
