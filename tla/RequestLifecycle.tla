-------------------------- MODULE RequestLifecycle --------------------------
(***************************************************************************)
(* What the server promises to the client of a request, and nothing else:  *)
(* a submitted request is answered at most once, with a final result or an *)
(* error, and is dropped without an answer only if its own client          *)
(* cancelled it.                                                           *)
(***************************************************************************)
CONSTANT Requests

VARIABLES
  stage,    \* "new", "open" or "over"
  reply,    \* "none", "final" or "error"
  unwanted  \* requests whose client has cancelled

lifecycleVars == <<stage, reply, unwanted>>

LifecycleInit ==
  /\ stage = [r \in Requests |-> "new"]
  /\ reply = [r \in Requests |-> "none"]
  /\ unwanted = {}

Open(r) ==
  /\ stage[r] = "new"
  /\ stage' = [stage EXCEPT ![r] = "open"]
  /\ UNCHANGED <<reply, unwanted>>

\* A server that is down refuses at once.
Refuse(r) ==
  /\ stage[r] = "new"
  /\ stage' = [stage EXCEPT ![r] = "over"]
  /\ reply' = [reply EXCEPT ![r] = "error"]
  /\ UNCHANGED unwanted

Unwant(r) ==
  /\ stage[r] # "new"
  /\ unwanted' = unwanted \cup {r}
  /\ UNCHANGED <<stage, reply>>

Answer(r) ==
  /\ stage[r] = "open"
  /\ stage' = [stage EXCEPT ![r] = "over"]
  /\ \E kind \in {"final", "error"} : reply' = [reply EXCEPT ![r] = kind]
  /\ UNCHANGED unwanted

Drop(r) ==
  /\ stage[r] = "open" /\ r \in unwanted
  /\ stage' = [stage EXCEPT ![r] = "over"]
  /\ UNCHANGED <<reply, unwanted>>

LifecycleNext ==
  \E r \in Requests : Open(r) \/ Refuse(r) \/ Unwant(r) \/ Answer(r) \/ Drop(r)

LifecycleSpec == LifecycleInit /\ [][LifecycleNext]_lifecycleVars
=============================================================================
