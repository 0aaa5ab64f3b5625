--------------------------- MODULE PayloadRouter ---------------------------
(***************************************************************************)
(* `recover_payload_automatically` (payload/decrypt/router.rs): nine        *)
(* controllers, each a family of packed containers, are tried in registry  *)
(* order: probe, recover, authenticate, finalize.  Every one is tried, also *)
(* after a success, since a second controller that authenticates another    *)
(* payload makes the image ambiguous.  Only when none succeeds is the       *)
(* evidence search run.                                                     *)
(*                                                                         *)
(* What a controller will say of the image is fixed by the image and        *)
(* unknown to the router until it asks; here it is chosen in Init.  The     *)
(* Ctrl-C thread may set the token at any moment, and the router and the    *)
(* controllers look at it at the points the code does.                      *)
(***************************************************************************)
EXTENDS Integers, Sequences

CONSTANTS
  Plans,      \* materialization plans, up to semantically_eq
  Images      \* recovered images

(***************************************************************************)
(* controller::REGISTRY: the containers each controller applies to.  The    *)
(* finalizer profile of a registration follows from its controller, so      *)
(* finalize's profile check is one of the ways finalization fails.          *)
(***************************************************************************)
I386AnyImage    == {"i386exe", "i386dll"}
Amd64Executable == {"amd64exe"}
Amd64Dll        == {"amd64dll"}

Containers == {"i386exe", "i386dll", "amd64exe", "amd64dll"}

Registry ==
  <<I386AnyImage,       \* ShellDirectoryManifest
    Amd64Dll,           \* CodecRelocation
    Amd64Executable,    \* CodecControlPayload
    Amd64Dll,           \* StateAssetSelection
    I386AnyImage,       \* CodecOperationDispatch
    Amd64Executable,    \* ImageBaseMetadataBinding
    Amd64Dll,           \* CodecControlMetadata
    Amd64Executable,    \* PayloadChecksumManifest
    Amd64Executable>>   \* TerminalProfileDispatch

LastController == 9
Controllers == 1..LastController
EvidenceSearch == LastController + 1

Applicable(box) == {c \in Controllers : box \in Registry[c]}

(***************************************************************************)
(* What a controller says of the image: where it fails, and how, or the     *)
(* payload it authenticates.                                               *)
(***************************************************************************)
Payloads == [plan : Plans, image : Images]
NoPayload == [plan |-> "none", image |-> "none"]

Failures == {"notFound", "probeRejected", "recoveryRejected", "noPlan",
             "authenticationFatal", "finalizationFatal"}

Says(verdict) == [verdict |-> verdict, payload |-> NoPayload]
Finds(p)      == [verdict |-> "authenticated", payload |-> p]
Answers == {Says(v) : v \in Failures} \cup {Finds(p) : p \in Payloads}

EvidenceAnswers == {Says("rejected"), Says("fatal")} \cup {Finds(p) : p \in Payloads}

(***************************************************************************)
(* PayloadProviderAttempt: one entry of the trace a route leaves.           *)
(***************************************************************************)
Attempt(provider, outcome, stage, code) ==
  [provider |-> provider, outcome |-> outcome, stage |-> stage, code |-> code]

AttemptType ==
  [provider : Controllers \cup {EvidenceSearch},
   outcome  : {"NotApplicable", "Rejected", "Fatal", "Authenticated", "Ambiguous"},
   stage    : {"Probe", "Recovery", "Authentication", "Finalization", "EvidenceSearch"},
   code     : {"None", "StructuralMismatch", "NoAuthenticatedPlan", "InternalFailure",
               "AmbiguousPlans", "EvidenceSearchRejected"}]

RouteErrorKinds == {"Unsupported", "Ambiguous", "Internal", "Cancelled"}

\* What the route returned: pending, the payload and who found it, or a PayloadRouteError.
Pending == [provenance |-> "pending", payload |-> NoPayload]
Recovered(who, p) == [provenance |-> who, payload |-> p]
RouteError(kind)  == [provenance |-> kind, payload |-> NoPayload]

OutcomeType ==
  {Pending} \cup {RouteError(k) : k \in RouteErrorKinds}
    \cup {Recovered("Controller", p) : p \in Payloads}
    \cup {Recovered("EvidenceSearch", p) : p \in Payloads}

VARIABLES
  container,    \* machine and role of the packed image
  answer,       \* what each applicable controller will say
  pc,           \* where the router is
  current,      \* the registration it is at
  attempts,     \* the trace
  retained,     \* controller_success: the controller whose success is kept, or 0
  outcome,      \* what the route returned
  cancelled,    \* CancellationToken
  triedBefore   \* history: the attempts made when the token was set

vars == <<container, answer, pc, current, attempts, retained, outcome,
          cancelled, triedBefore>>

Places == {"start", "next", "probe", "probed", "recover", "authenticate",
           "finalize", "routed", "evidence", "returned"}

TypeOK ==
  /\ container \in Containers
  /\ answer \in [Applicable(container) -> Answers]
  /\ pc \in Places
  /\ current \in 1..EvidenceSearch
  /\ attempts \in Seq(AttemptType)
  /\ retained \in 0..LastController
  /\ outcome \in OutcomeType
  /\ cancelled \in BOOLEAN
  /\ triedBefore \in 0..EvidenceSearch

Init ==
  /\ container \in Containers
  /\ answer \in [Applicable(container) -> Answers]
  /\ pc = "start"
  /\ current = 1
  /\ attempts = <<>>
  /\ retained = 0
  /\ outcome = Pending
  /\ cancelled = FALSE
  /\ triedBefore = 0

-----------------------------------------------------------------------------
(***************************************************************************)
(* Ways to go on and to end.                                               *)
(***************************************************************************)
Return(result) == outcome' = result /\ pc' = "returned"

\* A cancelled route returns the attempts made so far; the one in flight is not among them.
ReturnCancelled ==
  /\ cancelled
  /\ Return(RouteError("Cancelled"))
  /\ UNCHANGED <<attempts, current>>

Record(result, stage, code) ==
  attempts' = Append(attempts, Attempt(current, result, stage, code))

NextRegistration ==
  /\ current' = current + 1
  /\ pc' = IF current = LastController THEN "routed" ELSE "next"
  /\ UNCHANGED outcome

Goto(place) ==
  /\ pc' = place
  /\ UNCHANGED <<current, attempts, outcome>>

(***************************************************************************)
(* classify_provider_failure: only a plain error of authentication, or any  *)
(* error of finalization, stops the route.                                 *)
(***************************************************************************)
RejectAndGoOn(stage, code) ==
  /\ Record("Rejected", stage, code)
  /\ NextRegistration

FailTheRoute(stage) ==
  /\ Record("Fatal", stage, "InternalFailure")
  /\ Return(RouteError("Internal"))
  /\ UNCHANGED current

-----------------------------------------------------------------------------
Start ==
  /\ pc = "start"
  /\ \/ ReturnCancelled
     \/ ~cancelled /\ Goto("next")
  /\ UNCHANGED <<container, answer, retained, cancelled, triedBefore>>

\* controller::probe: its first checkpoint, then the container's machine and role.
EnterProbe ==
  /\ pc = "next"
  /\ \/ ReturnCancelled
     \/ /\ ~cancelled /\ current \notin Applicable(container)
        /\ Record("NotApplicable", "Probe", "None")
        /\ NextRegistration
     \/ /\ ~cancelled /\ current \in Applicable(container)
        /\ Goto("probe")
  /\ UNCHANGED <<container, answer, retained, cancelled, triedBefore>>

\* controller::probe: the second checkpoint, before the result is looked at.
Probe ==
  /\ pc = "probe"
  /\ \/ ReturnCancelled
     \/ /\ ~cancelled /\ answer[current].verdict = "notFound"
        /\ Record("NotApplicable", "Probe", "None")
        /\ NextRegistration
     \/ /\ ~cancelled /\ answer[current].verdict = "probeRejected"
        /\ RejectAndGoOn("Probe", "StructuralMismatch")
     \/ /\ ~cancelled /\ answer[current].verdict \notin {"notFound", "probeRejected"}
        /\ Goto("probed")
  /\ UNCHANGED <<container, answer, retained, cancelled, triedBefore>>

\* The router's own checkpoint between probe and recovery.
EnterRecovery ==
  /\ pc = "probed"
  /\ \/ ReturnCancelled
     \/ ~cancelled /\ Goto("recover")
  /\ UNCHANGED <<container, answer, retained, cancelled, triedBefore>>

\* controller::recover looks at the token now and then: it may miss a late one.
Recover ==
  /\ pc = "recover"
  /\ \/ ReturnCancelled
     \/ /\ answer[current].verdict = "recoveryRejected"
        /\ RejectAndGoOn("Recovery", "StructuralMismatch")
     \/ /\ answer[current].verdict # "recoveryRejected"
        /\ Goto("authenticate")
  /\ UNCHANGED <<container, answer, retained, cancelled, triedBefore>>

\* authenticate_controller_proposal: replay of every block under the one plan.
Authenticate ==
  /\ pc = "authenticate"
  /\ \/ ReturnCancelled
     \/ /\ answer[current].verdict = "noPlan"
        /\ RejectAndGoOn("Authentication", "NoAuthenticatedPlan")
     \/ /\ answer[current].verdict = "authenticationFatal"
        /\ FailTheRoute("Authentication")
     \/ /\ answer[current].verdict \in {"authenticated", "finalizationFatal"}
        /\ Goto("finalize")
  /\ UNCHANGED <<container, answer, retained, cancelled, triedBefore>>

(***************************************************************************)
(* controller::finalize, which never looks at the token, and then           *)
(* retain_controller_success, which keeps the first success and accepts a   *)
(* later one only with an equal plan and an equal image.                    *)
(***************************************************************************)
\* Mutated Agrees: the images are not compared.
AgreesOnPlan(c, d) == answer[c].payload.plan = answer[d].payload.plan

Agrees(c, d) ==
  /\ answer[c].payload.plan = answer[d].payload.plan
  /\ answer[c].payload.image = answer[d].payload.image

\* Mutated Retain: the first success ends the search.
RetainAndStop ==
  /\ retained' = current
  /\ Record("Authenticated", "Finalization", "None")
  /\ current' = EvidenceSearch
  /\ pc' = "routed"
  /\ UNCHANGED outcome

Retain ==
  /\ retained' = IF retained = 0 THEN current ELSE retained
  /\ Record("Authenticated", "Finalization", "None")
  /\ NextRegistration

\* Mutated RejectConflict: the attempt is not rewritten.
RejectConflictUnmarked ==
  /\ Record("Authenticated", "Finalization", "None")
  /\ Return(RouteError("Ambiguous"))
  /\ UNCHANGED <<current, retained>>

RejectConflict ==
  /\ Record("Ambiguous", "Authentication", "AmbiguousPlans")
  /\ Return(RouteError("Ambiguous"))
  /\ UNCHANGED <<current, retained>>

Finalize ==
  /\ pc = "finalize"
  /\ \/ /\ answer[current].verdict = "finalizationFatal"
        /\ FailTheRoute("Finalization")
        /\ UNCHANGED retained
     \/ /\ answer[current].verdict = "authenticated"
        /\ IF retained = 0 \/ Agrees(retained, current) THEN Retain ELSE RejectConflict
  /\ UNCHANGED <<container, answer, cancelled, triedBefore>>

\* Mutated FinishRoute: the last checkpoints are missing.
FinishRouteUnchecked ==
  /\ pc = "routed"
  /\ \/ /\ retained # 0
        /\ Return(Recovered("Controller", answer[retained].payload))
        /\ UNCHANGED <<attempts, current>>
     \/ /\ retained = 0
        /\ Goto("evidence")
  /\ UNCHANGED <<container, answer, retained, cancelled, triedBefore>>

\* After the last registration: a checkpoint, then the retained success or the evidence.
FinishRoute ==
  /\ pc = "routed"
  /\ \/ ReturnCancelled
     \/ /\ ~cancelled /\ retained # 0
        /\ Return(Recovered("Controller", answer[retained].payload))
        /\ UNCHANGED <<attempts, current>>
     \/ /\ ~cancelled /\ retained = 0
        /\ Goto("evidence")
  /\ UNCHANGED <<container, answer, retained, cancelled, triedBefore>>

(***************************************************************************)
(* evidence::recover and classify_evidence_failure.                        *)
(***************************************************************************)
EvidenceAttempt(a) ==
  CASE a.verdict = "rejected" ->
         Attempt(EvidenceSearch, "Rejected", "EvidenceSearch", "EvidenceSearchRejected")
    [] a.verdict = "fatal" ->
         Attempt(EvidenceSearch, "Fatal", "EvidenceSearch", "InternalFailure")
    [] OTHER ->
         Attempt(EvidenceSearch, "Authenticated", "EvidenceSearch", "None")

\* Mutated EvidenceResult: the attempt's outcome in place of the route's kind.
EvidenceResultRaw(a) ==
  IF a.verdict \in {"rejected", "fatal"}
  THEN RouteError(a.verdict) ELSE Recovered("EvidenceSearch", a.payload)

EvidenceResult(a) ==
  CASE a.verdict = "rejected" -> RouteError("Unsupported")
    [] a.verdict = "fatal"    -> RouteError("Internal")
    [] OTHER                  -> Recovered("EvidenceSearch", a.payload)

RecoverFromEvidence ==
  /\ pc = "evidence"
  /\ \/ ReturnCancelled
     \/ \E a \in EvidenceAnswers :
          /\ attempts' = Append(attempts, EvidenceAttempt(a))
          /\ Return(EvidenceResult(a))
          /\ UNCHANGED current
  /\ UNCHANGED <<container, answer, retained, cancelled, triedBefore>>

Cancel ==
  /\ ~cancelled /\ pc # "returned"
  /\ cancelled' = TRUE
  /\ triedBefore' = Len(attempts)
  /\ UNCHANGED <<container, answer, pc, current, attempts, retained, outcome>>

Advance ==
  \/ Start \/ EnterProbe \/ Probe \/ EnterRecovery \/ Recover
  \/ Authenticate \/ Finalize \/ FinishRoute \/ RecoverFromEvidence

Stopped == pc = "returned" /\ UNCHANGED vars

Next == Advance \/ Cancel \/ Stopped

(***************************************************************************)
(* Fairness: the route is a bounded computation of one thread.             *)
(***************************************************************************)
Spec == Init /\ [][Next]_vars /\ WF_vars(Advance)

-----------------------------------------------------------------------------
(***************************************************************************)
(* Properties.                                                             *)
(***************************************************************************)
Authenticates(c) == answer[c].verdict = "authenticated"
IsFatal(c) == answer[c].verdict \in {"authenticationFatal", "finalizationFatal"}

(***************************************************************************)
(* A controller's payload is returned only when no applicable controller of *)
(* the whole registry, earlier or later, authenticates another one or fails *)
(* fatally (recover_payload_automatically, retain_controller_success).      *)
(***************************************************************************)
PayloadIsUnanimous ==
  outcome.provenance = "Controller" =>
    \A c \in Applicable(container) :
      /\ ~IsFatal(c)
      /\ Authenticates(c) => answer[c].payload = outcome.payload

(***************************************************************************)
(* The trace tells the route: one attempt per registration, in registry     *)
(* order; only the last may stop the route, and it tells why; an ambiguity  *)
(* names a controller that contradicts one traced as authenticated before   *)
(* it; a recovered payload carries the whole trace, and evidence comes last.*)
(***************************************************************************)
TraceTellsTheRoute ==
  /\ \A i \in DOMAIN attempts :
       /\ attempts[i].provider = i
       /\ attempts[i].outcome \in {"Fatal", "Ambiguous"} =>
            /\ i = Len(attempts)
            /\ outcome = RouteError(IF attempts[i].outcome = "Fatal"
                                    THEN "Internal" ELSE "Ambiguous")
       /\ attempts[i].outcome = "Ambiguous" =>
            \E d \in 1..(i - 1) :
              /\ attempts[d].outcome = "Authenticated"
              /\ answer[d].payload # answer[i].payload
  /\ outcome.provenance = "Ambiguous" =>
       attempts[Len(attempts)].outcome = "Ambiguous"
  /\ outcome.provenance = "Controller" => Len(attempts) = LastController
  /\ outcome.provenance \in {"EvidenceSearch", "Unsupported"} =>
       /\ Len(attempts) = EvidenceSearch
       /\ \A c \in Controllers : attempts[c].outcome \in {"NotApplicable", "Rejected"}

(***************************************************************************)
(* Once the token is set at most the attempt in flight is still recorded,   *)
(* no controller's payload is returned, and an evidence payload only if the *)
(* evidence search was all that was left (probe, recover, the checkpoints). *)
(***************************************************************************)
CancellationIsPrompt ==
  cancelled =>
    /\ Len(attempts) <= triedBefore + 1
    /\ outcome.provenance # "Controller"
    /\ outcome.provenance = "EvidenceSearch" => triedBefore = LastController

(***************************************************************************)
(* The route decides as PayloadDecision does in one step, and it decides.   *)
(***************************************************************************)
Decision == INSTANCE PayloadDecision

RouteImplementsDecision == Decision!Spec
=============================================================================
