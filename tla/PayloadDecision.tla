-------------------------- MODULE PayloadDecision --------------------------
(***************************************************************************)
(* What the payload route promises, without its order of work: one step     *)
(* that decides, from everything the applicable controllers say of the      *)
(* image, which payload is recovered or why none is.                        *)
(*                                                                         *)
(* A payload is recovered only if no controller before the end of the       *)
(* registry stops the route and all that authenticate agree; the evidence   *)
(* search decides only if no controller authenticates; and a set token may  *)
(* replace every decision but the loss of it: a cancelled route recovers    *)
(* no controller's payload.                                                *)
(***************************************************************************)
EXTENDS Integers

CONSTANTS Payloads, NoPayload, RouteErrorKinds

VARIABLES
  answer,     \* what each applicable controller says of the image
  cancelled,  \* CancellationToken
  outcome     \* the decision

vars == <<answer, cancelled, outcome>>

Pending == [provenance |-> "pending", payload |-> NoPayload]
Recovered(who, p) == [provenance |-> who, payload |-> p]
RouteError(kind)  == [provenance |-> kind, payload |-> NoPayload]

Authenticates(c) == answer[c].verdict = "authenticated"
IsFatal(c) == answer[c].verdict \in {"authenticationFatal", "finalizationFatal"}

\* c authenticates another payload than a controller before it.
Contradicts(c) ==
  /\ Authenticates(c)
  /\ \E d \in DOMAIN answer :
       d < c /\ Authenticates(d) /\ answer[d].payload # answer[c].payload

StopsTheRoute(c) == IsFatal(c) \/ Contradicts(c)

\* c is the first to stop the route.
DecidesToFail(c) ==
  /\ StopsTheRoute(c)
  /\ \A d \in DOMAIN answer : d < c => ~StopsTheRoute(d)

NobodyStops == \A c \in DOMAIN answer : ~StopsTheRoute(c)

Init ==
  /\ cancelled = FALSE
  /\ outcome = Pending

Cancel ==
  /\ outcome = Pending
  /\ cancelled' = TRUE
  /\ UNCHANGED <<answer, outcome>>

DecideCancelled ==
  /\ cancelled
  /\ outcome' = RouteError("Cancelled")

DecideFailure ==
  \E c \in DOMAIN answer :
    /\ DecidesToFail(c)
    /\ outcome' = RouteError(IF IsFatal(c) THEN "Internal" ELSE "Ambiguous")

DecideController ==
  /\ ~cancelled
  /\ NobodyStops
  /\ \E c \in DOMAIN answer :
       /\ Authenticates(c)
       /\ outcome' = Recovered("Controller", answer[c].payload)

DecideEvidence ==
  /\ NobodyStops
  /\ \A c \in DOMAIN answer : ~Authenticates(c)
  /\ \/ \E p \in Payloads : outcome' = Recovered("EvidenceSearch", p)
     \/ \E k \in {"Unsupported", "Internal"} : outcome' = RouteError(k)

Decide ==
  /\ outcome = Pending
  /\ DecideCancelled \/ DecideFailure \/ DecideController \/ DecideEvidence
  /\ UNCHANGED <<answer, cancelled>>

Next == Cancel \/ Decide

Spec == Init /\ [][Next]_vars /\ <>(outcome # Pending)
=============================================================================
