-------------------------- MODULE Dispatcher_proof --------------------------
(***************************************************************************)
(* The dispatcher implements RequestLifecycle, loses no cancel, drives     *)
(* what it publishes for, and leaves nobody waiting when a thread is gone: *)
(* for every set of requests and of control calls, every chaining of turns *)
(* and every number of faults.                                             *)
(*                                                                         *)
(* OnePlace is inductive: an open request has no answer yet and is at most *)
(* one of queued, being admitted and active; an abort is its own client's. *)
(* One lemma per action of the code; those that end a request share        *)
(* ConcludeFacts.                                                          *)
(***************************************************************************)
EXTENDS Dispatcher, SequenceFacts, FiniteSetTheorems, TLAPS

USE DispatcherAssumption DEF loopVars, handleVars, flagVars, queueVars, runVars

Replied == {<<>>, <<"final">>, <<"error">>}
QueueItem == Requests \cup {Wakeup, Stop}
AbortItem == [req : Requests, force : BOOLEAN]

\* The first event of a request is its only one.
LEMMA FirstEvent ==
  /\ \A put \in Replied : <<>> \o put = put
  /\ Append(<<>>, "error") = <<"error">>
BY DEF Replied

\* _mark_request_terminal and the event, for an open request.
LEMMA ConcludeFacts ==
  ASSUME OnePlace, NEW r \in submitted \ terminal, NEW put \in Replied, Conclude(r, put)
  PROVE  /\ terminal' = terminal \cup {r}
         /\ events' = [events EXCEPT ![r] = put]
         /\ events' \in [Requests -> Replied]
         /\ latest' \in [Requests -> Requests \cup {None}]
         /\ \A q \in Requests : latest[q] # r => latest'[q] = latest[q]
<1>1. r \in Requests /\ events[r] = <<>> /\ events \in [Requests -> Replied]
      /\ latest \in [Requests -> Requests \cup {None}]
  BY DEF OnePlace, HandlesAgree, DispatcherTypeOK, Replied
<1>2. events[r] \o put = put
  BY <1>1, FirstEvent
<1>3. /\ terminal' = terminal \cup {r} /\ events' = [events EXCEPT ![r] = events[r] \o put]
      /\ latest' = [q \in Requests |-> IF q = seqId[r] /\ latest[q] = r THEN None ELSE latest[q]]
  BY DEF Conclude
<1>4. QED BY <1>1, <1>2, <1>3

\* The head of the abort queue, and what stays behind it.
LEMMA TakenAbort ==
  ASSUME OnePlace, aborts # <<>>, aborts' = Tail(aborts), UNCHANGED <<cancelled, seqId>>
  PROVE  /\ Head(aborts) \in AbortItem /\ aborts' \in Seq(AbortItem)
         /\ Head(aborts).req \in cancelled /\ Head(aborts).req \in submitted
         /\ seqId[Head(aborts).req] \in Requests
         /\ \A i \in DOMAIN aborts' : /\ aborts'[i].req \in cancelled'
                                      /\ seqId'[aborts'[i].req] # None
<1>1. aborts \in Seq(AbortItem) /\ seqId \in [Requests -> Requests \cup {None}]
      /\ cancelled \subseteq Requests
  BY DEF OnePlace, DispatcherTypeOK, AbortItem
<1>2. /\ Tail(aborts) \in Seq(AbortItem) /\ Head(aborts) \in AbortItem
      /\ 1 \in DOMAIN aborts /\ Head(aborts) = aborts[1]
      /\ \A i \in DOMAIN Tail(aborts) : i + 1 \in DOMAIN aborts /\ Tail(aborts)[i] = aborts[i + 1]
  BY <1>1, TailPositions
<1>3. /\ cancelled \subseteq submitted
      /\ \A i \in DOMAIN aborts : aborts[i].req \in cancelled /\ seqId[aborts[i].req] # None
  BY DEF OnePlace, HandlesAgree
<1>4. Head(aborts).req \in cancelled /\ seqId[Head(aborts).req] # None
  BY <1>2, <1>3
<1>5. QED BY <1>1, <1>2, <1>3, <1>4

\* The head of the submission queue, and what stays behind it.
LEMMA TakenItem ==
  ASSUME OnePlace, pending # <<>>, pending' = Tail(pending)
  PROVE  /\ Head(pending) \in QueueItem /\ pending' \in Seq(QueueItem)
         /\ Head(pending) \in Requests =>
              /\ Head(pending) \in submitted \ terminal /\ seqId[Head(pending)] = None
              /\ \A i \in DOMAIN pending' : pending'[i] # Head(pending)
         /\ \A i \in DOMAIN pending' : pending'[i] \in Requests =>
              /\ pending'[i] \in submitted \ terminal /\ seqId[pending'[i]] = None
              /\ \A j \in DOMAIN pending' : pending'[j] = pending'[i] => j = i
<1>1. pending \in Seq(QueueItem)
  BY DEF OnePlace, DispatcherTypeOK, QueueItem
<1>2. /\ Tail(pending) \in Seq(QueueItem) /\ Head(pending) \in QueueItem
      /\ 1 \in DOMAIN pending /\ Head(pending) = pending[1]
      /\ \A i \in DOMAIN Tail(pending) :
           i \in Nat \ {0} /\ i + 1 \in DOMAIN pending /\ Tail(pending)[i] = pending[i + 1]
  BY <1>1, TailPositions
<1>3. QueueAgrees
  BY DEF OnePlace
<1>4. \A i \in DOMAIN pending' : pending'[i] \in Requests =>
        /\ pending'[i] \in submitted \ terminal /\ seqId[pending'[i]] = None
        /\ \A j \in DOMAIN pending' : pending'[j] = pending'[i] => j = i
  <2>1. SUFFICES ASSUME NEW i \in DOMAIN pending', pending'[i] \in Requests
                 PROVE  /\ pending'[i] \in submitted \ terminal /\ seqId[pending'[i]] = None
                        /\ \A j \in DOMAIN pending' : pending'[j] = pending'[i] => j = i
    OBVIOUS
  <2>2. i \in Nat /\ i + 1 \in DOMAIN pending /\ pending'[i] = pending[i + 1]
    BY <1>2
  <2>3. ASSUME NEW j \in DOMAIN pending', pending'[j] = pending'[i] PROVE j = i
    <3>1. j \in Nat /\ j + 1 \in DOMAIN pending /\ pending'[j] = pending[j + 1]
      BY <1>2
    <3>2. j + 1 = i + 1
      BY <1>3, <2>1, <2>2, <2>3, <3>1 DEF QueueAgrees
    <3>3. QED BY <2>2, <3>1, <3>2
  <2>4. QED BY <1>3, <2>1, <2>2, <2>3 DEF QueueAgrees
<1>5. ASSUME Head(pending) \in Requests, NEW i \in DOMAIN pending', pending'[i] = Head(pending)
      PROVE  FALSE
  <2>1. i \in Nat \ {0} /\ i + 1 \in DOMAIN pending /\ pending[i + 1] = pending[1]
    BY <1>2, <1>5
  <2>2. i + 1 = 1
    BY <1>2, <1>3, <1>5, <2>1 DEF QueueAgrees
  <2>3. QED BY <2>1, <2>2
<1>6. QED BY <1>2, <1>3, <1>4, <1>5 DEF QueueAgrees

\* An open request that is not queued ends, and is active no more.
LEMMA EndActive ==
  ASSUME OnePlace, NEW q \in Requests, active[q] # None, NEW put \in Replied,
         Unpublish(q), Conclude(active[q], put),
         UNCHANGED <<submitted, cancelled, seqId, loop, pending>>,
         pc' \notin {"admit", "admitting", "admitted", "fail_queued", "fail_aborts", "dead"},
         \A i \in DOMAIN aborts' : aborts'[i].req \in cancelled' /\ seqId'[aborts'[i].req] # None
  PROVE  /\ HandlesAgree' /\ QueueAgrees' /\ ItemAgrees' /\ ActiveAgrees'
         /\ terminal' \subseteq Requests /\ events' \in [Requests -> Replied]
         /\ active' \in [Requests -> Requests \cup {None}]
         /\ latest' \in [Requests -> Requests \cup {None}]
<1> DEFINE r == active[q]
<1>1. DispatcherTypeOK /\ HandlesAgree /\ QueueAgrees /\ ActiveAgrees
  BY DEF OnePlace
<1>2. r \in submitted \ terminal /\ seqId[r] = q /\ r \in Requests /\ seqId[r] # None
  BY <1>1 DEF ActiveAgrees, DispatcherTypeOK
<1>3. /\ terminal' = terminal \cup {r} /\ events' = [events EXCEPT ![r] = put]
      /\ events' \in [Requests -> Replied] /\ latest' \in [Requests -> Requests \cup {None}]
      /\ \A p \in Requests : latest[p] # r => latest'[p] = latest[p]
  BY <1>2, ConcludeFacts
<1>4. active' = [active EXCEPT ![q] = None] /\ active \in [Requests -> Requests \cup {None}]
  BY <1>1 DEF Unpublish, DispatcherTypeOK
<1>5. HandlesAgree'
  BY <1>1, <1>2, <1>3 DEF HandlesAgree, DispatcherTypeOK
<1>6. QueueAgrees'
  BY <1>1, <1>2, <1>3 DEF QueueAgrees
<1>7. ItemAgrees'
  BY DEF ItemAgrees
<1>8. ActiveAgrees'
  <2>1. SUFFICES ASSUME NEW p \in Requests, active'[p] # None
                 PROVE  /\ active'[p] \in submitted \ terminal'
                        /\ seqId[active'[p]] = p /\ latest'[p] = active'[p]
    BY DEF ActiveAgrees
  <2>2. p # q /\ active'[p] = active[p]
    BY <1>4, <2>1
  <2>3. active[p] \in submitted \ terminal /\ seqId[active[p]] = p /\ latest[p] = active[p]
    BY <1>1, <2>1, <2>2 DEF ActiveAgrees
  <2>4. active[p] # r
    BY <1>2, <2>2, <2>3
  <2>5. QED BY <1>3, <2>2, <2>3, <2>4
<1>9. QED BY <1>1, <1>2, <1>3, <1>4, <1>5, <1>6, <1>7, <1>8 DEF DispatcherTypeOK

\* The request being admitted ends.
LEMMA EndItem ==
  ASSUME OnePlace, pc \in {"admit", "admitting", "admitted"}, pc' = "batch",
         NEW put \in Replied, put = <<>> => item \in cancelled,
         terminal' = terminal \cup {item}, events' = [events EXCEPT ![item] = put],
         \A q \in Requests : latest[q] # item => latest'[q] = latest[q],
         UNCHANGED <<submitted, cancelled, seqId, loop, pending, aborts, active>>
  PROVE  /\ HandlesAgree' /\ QueueAgrees' /\ ItemAgrees' /\ ActiveAgrees'
         /\ terminal' \subseteq Requests /\ events' \in [Requests -> Replied]
<1>1. DispatcherTypeOK /\ HandlesAgree /\ QueueAgrees /\ ItemAgrees /\ ActiveAgrees
  BY DEF OnePlace
<1>2. /\ item \in submitted \ terminal /\ item \in Requests
      /\ \A i \in DOMAIN pending : pending[i] # item
      /\ \A q \in Requests : active[q] # item
  BY <1>1 DEF ItemAgrees, DispatcherTypeOK
<1>3. terminal' \subseteq Requests /\ events' \in [Requests -> Replied]
  BY <1>1, <1>2 DEF DispatcherTypeOK, Replied
<1>4. HandlesAgree'
  BY <1>1, <1>2 DEF HandlesAgree, DispatcherTypeOK
<1>5. QueueAgrees'
  BY <1>1, <1>2 DEF QueueAgrees
<1>6. ItemAgrees'
  BY DEF ItemAgrees
<1>7. ActiveAgrees'
  BY <1>1, <1>2 DEF ActiveAgrees
<1>8. QED BY <1>3, <1>4, <1>5, <1>6, <1>7

\* What the calls of the engine do to what it holds, and to the count of faults.
LEMMA EngineTypes ==
  ASSUME DispatcherTypeOK
  PROVE  /\ \A q \in Requests : EngineAbort(q) =>
              left' \in [Requests -> 0..MaxOutput] /\ chains' \subseteq Requests
         /\ CallOk \/ CallRaises => faults' \in 0..MaxFaults
         /\ \A a \in AbortItem : Resolve(a) => discards' \in [Requests -> {"none", "waiting", "over"}]
<1>1. ASSUME NEW q \in Requests, EngineAbort(q)
      PROVE  left' \in [Requests -> 0..MaxOutput] /\ chains' \subseteq Requests
  BY <1>1 DEF EngineAbort, DispatcherTypeOK
<1>2. CallOk \/ CallRaises => faults' \in 0..MaxFaults
  BY DEF CallOk, CallRaises, DispatcherTypeOK
<1>3. ASSUME NEW a \in AbortItem, Resolve(a)
      PROVE  discards' \in [Requests -> {"none", "waiting", "over"}]
  <2>1. a.req \in Requests /\ discards \in [Requests -> {"none", "waiting", "over"}]
    BY DEF AbortItem, DispatcherTypeOK
  <2>2. discards' \in {discards, [discards EXCEPT ![a.req] = "over"]}
    BY <1>3 DEF Resolve
  <2>3. QED BY <2>1, <2>2
<1>4. QED BY <1>1, <1>2, <1>3

\* A step that moves no request.
LEMMA Quiet ==
  ASSUME OnePlace, loop' \in {loop, Idle}, NEW admits, admits = {"admit", "admitting", "admitted"},
         UNCHANGED <<submitted, cancelled, terminal, events, seqId, aborts, pending, active, latest>>,
         pc' \notin admits \/ UNCHANGED <<pc, item>>,
         pc' \in {"fail_queued", "fail_aborts", "dead"} => pc \in {"fail_queued", "fail_aborts", "dead"}
  PROVE  HandlesAgree' /\ QueueAgrees' /\ ItemAgrees' /\ ActiveAgrees'
<1>1. HandlesAgree /\ QueueAgrees /\ ItemAgrees /\ ActiveAgrees
  BY DEF OnePlace
<1>2. HandlesAgree'
  BY <1>1 DEF HandlesAgree, Idle
<1>3. QueueAgrees'
  BY <1>1 DEF QueueAgrees
<1>4. ItemAgrees'
  BY <1>1 DEF ItemAgrees
<1>5. ActiveAgrees'
  BY <1>1 DEF ActiveAgrees, NoneActive
<1>6. QED BY <1>2, <1>3, <1>4, <1>5

\* The steps that move no request.
LEMMA QuietSteps ==
  ASSUME OnePlace,
         \/ (\E r \in Requests : DiscardTimesOut(r)) \/ CloseExit
         \/ DrainControl \/ ControlsDrained \/ AbortsDrained
         \/ NothingActive \/ Step \/ StepRaises \/ PublishDeltaRaises \/ DeltasDone
         \/ FinishedDone \/ MarkFailed \/ FailControls
  PROVE  OnePlace'
<1> DEFINE Same == /\ loop' \in {loop, Idle}
                   /\ UNCHANGED <<submitted, cancelled, terminal, events, seqId, aborts, pending,
                                  active, latest>>
                   /\ pc' \notin {"admit", "admitting", "admitted"} \/ UNCHANGED <<pc, item>>
                   /\ pc' \in {"fail_queued", "fail_aborts", "dead"} =>
                        pc \in {"fail_queued", "fail_aborts", "dead"}
<1>1. DispatcherTypeOK
  BY DEF OnePlace
<1>2. ASSUME Same PROVE HandlesAgree' /\ QueueAgrees' /\ ItemAgrees' /\ ActiveAgrees'
  BY <1>2, Quiet
<1>3. SUFFICES DispatcherTypeOK' /\ Same
  BY <1>2 DEF OnePlace
<1>4. CASE \E r \in Requests : DiscardTimesOut(r)
  <2>1. Same
    BY <1>1, <1>4 DEF DiscardTimesOut, DispatcherTypeOK
  <2>2. DispatcherTypeOK'
    BY <1>1, <1>4, EngineTypes DEF DiscardTimesOut, DispatcherTypeOK, Running, Idle
  <2>3. QED BY <2>1, <2>2
<1>5. CASE CloseExit
  <2>1. Same
    BY <1>1, <1>5 DEF CloseExit, DispatcherTypeOK
  <2>2. DispatcherTypeOK'
    BY <1>1, <1>5, EngineTypes DEF CloseExit, DispatcherTypeOK, Running, Idle
  <2>3. QED BY <2>1, <2>2
<1>6. CASE DrainControl
  <2>1. Same
    BY <1>1, <1>6 DEF DrainControl, DispatcherTypeOK
  <2>2. DispatcherTypeOK'
    BY <1>1, <1>6, EngineTypes, SMTT(60) DEF DrainControl, CallOk, CallRaises, DispatcherTypeOK, Running, Idle
  <2>3. QED BY <2>1, <2>2
<1>7. CASE ControlsDrained
  <2>1. Same
    BY <1>1, <1>7 DEF ControlsDrained, DispatcherTypeOK
  <2>2. DispatcherTypeOK'
    BY <1>1, <1>7, EngineTypes DEF ControlsDrained, DispatcherTypeOK, Running, Idle
  <2>3. QED BY <2>1, <2>2
<1>8. CASE AbortsDrained
  <2>1. Same
    BY <1>1, <1>8 DEF AbortsDrained, DispatcherTypeOK
  <2>2. DispatcherTypeOK'
    BY <1>1, <1>8, EngineTypes DEF AbortsDrained, DispatcherTypeOK, Running, Idle
  <2>3. QED BY <2>1, <2>2
<1>9. CASE NothingActive
  <2>1. Same
    BY <1>1, <1>9 DEF NothingActive, NextRound, DispatcherTypeOK
  <2>2. DispatcherTypeOK'
    BY <1>1, <1>9, EngineTypes, ZenonT(60) DEF NothingActive, NextRound, DispatcherTypeOK, Running, Idle
  <2>3. QED BY <2>1, <2>2
<1>10. CASE Step
  <2>1. Same
    BY <1>1, <1>10 DEF Step, DispatcherTypeOK
  <2>2. DispatcherTypeOK'
    BY <1>1, <1>10, EngineTypes, SMTT(60) DEF Step, Live, DispatcherTypeOK, Running, Idle
  <2>3. QED BY <2>1, <2>2
<1>11. CASE StepRaises
  <2>1. Same
    BY <1>1, <1>11 DEF StepRaises, DispatcherTypeOK
  <2>2. DispatcherTypeOK'
    BY <1>1, <1>11, EngineTypes DEF StepRaises, DispatcherTypeOK, Running, Idle
  <2>3. QED BY <2>1, <2>2
<1>12. CASE PublishDeltaRaises
  <2>1. Same
    BY <1>1, <1>12 DEF PublishDeltaRaises, DispatcherTypeOK
  <2>2. /\ left' \in [Requests -> 0..MaxOutput] /\ chains' \subseteq Requests
        /\ faults' \in 0..MaxFaults
    <3>1. PICK q \in Requests : EngineAbort(q) \/ UNCHANGED <<left, chains>>
      BY <1>1, <1>12 DEF PublishDeltaRaises, DispatcherTypeOK
    <3>2. CallRaises
      BY <1>12 DEF PublishDeltaRaises
    <3>3. QED BY <1>1, <3>1, <3>2, EngineTypes DEF DispatcherTypeOK
  <2>3. DispatcherTypeOK'
    BY <1>1, <1>12, <2>2, SMTT(60) DEF PublishDeltaRaises, DispatcherTypeOK, Running
  <2>4. QED BY <2>1, <2>3
<1>13. CASE DeltasDone
  <2>1. Same
    BY <1>1, <1>13 DEF DeltasDone, DispatcherTypeOK
  <2>2. DispatcherTypeOK'
    BY <1>1, <1>13, EngineTypes DEF DeltasDone, DispatcherTypeOK, Running, Idle
  <2>3. QED BY <2>1, <2>2
<1>14. CASE FinishedDone
  <2>1. Same
    BY <1>1, <1>14 DEF FinishedDone, NextRound, DispatcherTypeOK
  <2>2. DispatcherTypeOK'
    BY <1>1, <1>14, EngineTypes, ZenonT(60) DEF FinishedDone, NextRound, DispatcherTypeOK, Running, Idle
  <2>3. QED BY <2>1, <2>2
<1>15. CASE MarkFailed
  <2>1. Same
    BY <1>1, <1>15 DEF MarkFailed, DispatcherTypeOK
  <2>2. DispatcherTypeOK'
    BY <1>1, <1>15, EngineTypes DEF MarkFailed, DispatcherTypeOK, Running, Idle
  <2>3. QED BY <2>1, <2>2
<1>16. CASE FailControls
  <2>1. Same
    BY <1>1, <1>16 DEF FailControls, DispatcherTypeOK
  <2>2. DispatcherTypeOK'
    BY <1>1, <1>16, EngineTypes DEF FailControls, DispatcherTypeOK, Running, Idle
  <2>3. QED BY <2>1, <2>2
<1>17. QED BY <1>4, <1>5, <1>6, <1>7, <1>8, <1>9, <1>10, <1>11, <1>12, <1>13, <1>14, <1>15, <1>16

\* cancel and discard, first half
LEMMA MarkSteps ==
  ASSUME NEW r \in Requests, OnePlace, CancelMark(r) \/ DiscardMark(r)
  PROVE  OnePlace'
<1>1. DispatcherTypeOK /\ HandlesAgree /\ QueueAgrees /\ ItemAgrees /\ ActiveAgrees
  BY DEF OnePlace
<1>2. /\ r \in submitted /\ cancelled' = cancelled \cup {r}
      /\ loop' \in [op : {"cancel", "discard"}, req : {r}]
      /\ UNCHANGED <<submitted, discards, calls, handleVars, flagVars, queueVars, pc, runVars,
                     active, latest, left, chains, faults, lost>>
  BY DEF CancelMark, DiscardMark
<1>3. DispatcherTypeOK'
  BY <1>1, <1>2 DEF DispatcherTypeOK
<1>4. HandlesAgree' /\ QueueAgrees' /\ ItemAgrees' /\ ActiveAgrees'
  BY <1>1, <1>2 DEF HandlesAgree, QueueAgrees, ItemAgrees, ActiveAgrees, NoneActive
<1>5. QED BY <1>3, <1>4 DEF OnePlace

\* _drain_aborts, too late: a request whose id is reused is not active.
LEMMA AbortIgnoredStep == ASSUME OnePlace, AbortIgnored PROVE OnePlace'
<1> DEFINE a == Head(aborts)
<1>1. DispatcherTypeOK /\ HandlesAgree /\ QueueAgrees /\ ItemAgrees /\ ActiveAgrees
  BY DEF OnePlace
<1>2. /\ pc = "aborts" /\ aborts # <<>> /\ aborts' = Tail(aborts)
      /\ UNCHANGED <<loop, submitted, calls, cancelled, seqId, admission, events, flagVars, pending,
                     controls, pc, runVars, active, latest, left, chains, faults, lost>>
  BY DEF AbortIgnored, TakeAbort
<1>3. /\ a \in AbortItem /\ aborts' \in Seq(AbortItem)
      /\ a.req \in cancelled /\ a.req \in submitted /\ seqId[a.req] \in Requests
      /\ \A i \in DOMAIN aborts' : aborts'[i].req \in cancelled' /\ seqId'[aborts'[i].req] # None
  BY <1>2, TakenAbort
<1>4. \/ UNCHANGED <<terminal, discards>>
      \/ terminal' = terminal \cup {a.req} /\ Stale(a.req) /\ Resolve(a)
  BY DEF AbortIgnored
<1>5. discards' \in [Requests -> {"none", "waiting", "over"}]
  BY <1>1, <1>3, <1>4, EngineTypes DEF DispatcherTypeOK
<1>6. DispatcherTypeOK'
  BY <1>1, <1>2, <1>3, <1>4, <1>5 DEF DispatcherTypeOK, AbortItem
<1>7. HandlesAgree'
  BY <1>1, <1>2, <1>3, <1>4 DEF HandlesAgree
<1>8. QueueAgrees' /\ ItemAgrees'
  BY <1>1, <1>2, <1>3, <1>4 DEF QueueAgrees, ItemAgrees
<1>9. Stale(a.req) => \A q \in Requests : active[q] # a.req
  BY <1>1, <1>3 DEF Stale, ActiveAgrees, DispatcherTypeOK
<1>10. ActiveAgrees'
  BY <1>1, <1>2, <1>4, <1>9 DEF ActiveAgrees, NoneActive
<1>11. QED BY <1>6, <1>7, <1>8, <1>10 DEF OnePlace

\* _drain_aborts, of an active request
LEMMA AbortActiveStep == ASSUME OnePlace, AbortActive PROVE OnePlace'
<1> DEFINE a == Head(aborts)
           q == seqId[a.req]
<1>1. DispatcherTypeOK /\ HandlesAgree /\ QueueAgrees /\ ItemAgrees /\ ActiveAgrees
  BY DEF OnePlace
<1>2. /\ pc = "aborts" /\ aborts # <<>> /\ aborts' = Tail(aborts)
      /\ active[q] # None /\ Resolve(a)
      /\ UNCHANGED <<loop, submitted, calls, cancelled, seqId, admission, flagVars, pending,
                     controls, runVars, lost>>
  BY DEF AbortActive, TakeAbort
<1>3. /\ a \in AbortItem /\ aborts' \in Seq(AbortItem) /\ q \in Requests
      /\ \A i \in DOMAIN aborts' : aborts'[i].req \in cancelled' /\ seqId'[aborts'[i].req] # None
  BY <1>2, TakenAbort
<1>4. discards' \in [Requests -> {"none", "waiting", "over"}]
  BY <1>1, <1>2, <1>3, EngineTypes
<1>5. CASE EngineAbort(q) /\ Unpublish(q) /\ Conclude(active[q], <<>>) /\ CallOk /\ pc' = pc
  <2>1. /\ HandlesAgree' /\ QueueAgrees' /\ ItemAgrees' /\ ActiveAgrees'
        /\ terminal' \subseteq Requests /\ events' \in [Requests -> Replied]
        /\ active' \in [Requests -> Requests \cup {None}]
        /\ latest' \in [Requests -> Requests \cup {None}]
    <3>1. <<>> \in Replied
      BY DEF Replied
    <3>2. QED BY <1>2, <1>3, <1>5, <3>1, EndActive
  <2>2. /\ left' \in [Requests -> 0..MaxOutput] /\ chains' \subseteq Requests
        /\ faults' \in 0..MaxFaults
    BY <1>1, <1>3, <1>5, EngineTypes
  <2>3. DispatcherTypeOK'
    BY <1>1, <1>2, <1>3, <1>4, <1>5, <2>1, <2>2 DEF DispatcherTypeOK, AbortItem, Replied
  <2>4. QED BY <2>1, <2>3 DEF OnePlace
<1>6. CASE /\ CallRaises /\ pc' = "failing"
           /\ UNCHANGED <<active, latest, terminal, events, left, chains>>
  <2>1. faults' \in 0..MaxFaults
    BY <1>1, <1>6, EngineTypes
  <2>2. DispatcherTypeOK'
    BY <1>1, <1>2, <1>3, <1>4, <1>6, <2>1, SMTT(60) DEF DispatcherTypeOK, AbortItem
  <2>3. HandlesAgree' /\ QueueAgrees' /\ ItemAgrees' /\ ActiveAgrees'
    BY <1>1, <1>2, <1>3, <1>6 DEF HandlesAgree, QueueAgrees, ItemAgrees, ActiveAgrees
  <2>4. QED BY <2>2, <2>3 DEF OnePlace
<1>7. QED BY <1>5, <1>6 DEF AbortActive

\* _drain_aborts, of a request that is over
LEMMA AbortOverStep == ASSUME OnePlace, AbortOver PROVE OnePlace'
<1> DEFINE a == Head(aborts)
           q == seqId[a.req]
<1>1. DispatcherTypeOK /\ HandlesAgree /\ QueueAgrees /\ ItemAgrees /\ ActiveAgrees
  BY DEF OnePlace
<1>2. /\ pc = "aborts" /\ aborts # <<>> /\ aborts' = Tail(aborts) /\ Resolve(a)
      /\ (EngineAbort(q) /\ CallOk) \/ (CallRaises /\ UNCHANGED <<left, chains>>)
      /\ UNCHANGED <<loop, submitted, calls, cancelled, handleVars, flagVars, pending, controls, pc,
                     runVars, active, latest, lost>>
  BY DEF AbortOver, TakeAbort
<1>3. /\ a \in AbortItem /\ aborts' \in Seq(AbortItem) /\ q \in Requests
      /\ \A i \in DOMAIN aborts' : aborts'[i].req \in cancelled' /\ seqId'[aborts'[i].req] # None
  BY <1>2, TakenAbort
<1>4. /\ discards' \in [Requests -> {"none", "waiting", "over"}] /\ faults' \in 0..MaxFaults
      /\ left' \in [Requests -> 0..MaxOutput] /\ chains' \subseteq Requests
  BY <1>1, <1>2, <1>3, EngineTypes DEF DispatcherTypeOK
<1>5. DispatcherTypeOK'
  BY <1>1, <1>2, <1>3, <1>4, SMTT(60) DEF DispatcherTypeOK, AbortItem
<1>6. HandlesAgree' /\ QueueAgrees' /\ ItemAgrees' /\ ActiveAgrees'
  BY <1>1, <1>2, <1>3 DEF HandlesAgree, QueueAgrees, ItemAgrees, ActiveAgrees, NoneActive
<1>7. QED BY <1>5, <1>6 DEF OnePlace

\* submit
LEMMA SubmitStep == ASSUME NEW r \in Requests, OnePlace, Submit(r) PROVE OnePlace'
<1>1. DispatcherTypeOK /\ HandlesAgree /\ QueueAgrees /\ ItemAgrees /\ ActiveAgrees
  BY DEF OnePlace
<1>2. /\ r \notin submitted /\ r \notin terminal /\ events[r] = <<>> /\ seqId[r] = None
      /\ submitted' = submitted \cup {r}
      /\ UNCHANGED <<loop, discards, calls, cancelled, seqId, closing, failed, exited, aborts,
                     controls, pc, second, stopping, item, out, fin, active, latest, left, chains,
                     faults, lost>>
  BY <1>1 DEF Submit, HandlesAgree
<1>3. CASE Unavailable
  <2>1. /\ terminal' = terminal \cup {r} /\ UNCHANGED pending
        /\ events' = [events EXCEPT ![r] = <<"error">>]
        /\ admission' = [admission EXCEPT ![r] = "error"]
    BY <1>1, <1>2, <1>3, FirstEvent DEF Submit
  <2>2. DispatcherTypeOK'
    BY <1>1, <1>2, <2>1 DEF DispatcherTypeOK
  <2>3. HandlesAgree' /\ QueueAgrees' /\ ItemAgrees' /\ ActiveAgrees'
    BY <1>1, <1>2, <2>1
    DEF DispatcherTypeOK, HandlesAgree, QueueAgrees, ItemAgrees, ActiveAgrees, NoneActive
  <2>4. QED BY <2>2, <2>3 DEF OnePlace
<1>4. CASE ~Unavailable
  <2>1. pending' = Append(pending, r) /\ UNCHANGED <<terminal, events, admission>>
    BY <1>4 DEF Submit
  <2>2. pending \in Seq(QueueItem) /\ r \in QueueItem
    BY <1>1 DEF DispatcherTypeOK, QueueItem
  <2>3. /\ pending' \in Seq(QueueItem)
        /\ DOMAIN pending' = DOMAIN pending \cup {Len(pending) + 1}
        /\ Len(pending) + 1 \notin DOMAIN pending
        /\ \A i \in DOMAIN pending : pending'[i] = pending[i]
        /\ pending'[Len(pending) + 1] = r
    BY <2>1, <2>2, AppendPositions
  <2>4. \A i \in DOMAIN pending : pending[i] # r
    BY <1>1, <1>2 DEF QueueAgrees
  <2>5. DispatcherTypeOK'
    BY <1>1, <1>2, <2>1, <2>3 DEF DispatcherTypeOK, QueueItem
  <2>6. QueueAgrees'
    BY <1>1, <1>2, <2>1, <2>3, <2>4 DEF QueueAgrees
  <2>7. ItemAgrees'
    BY <1>1, <1>2, <2>1, <2>3 DEF ItemAgrees
  <2>8. HandlesAgree' /\ ActiveAgrees'
    BY <1>1, <1>2, <2>1 DEF HandlesAgree, ActiveAgrees, NoneActive
  <2>9. QED BY <2>5, <2>6, <2>7, <2>8 DEF OnePlace
<1>5. QED BY <1>3, <1>4

\* cancel, second half
LEMMA CancelEnqueueStep == ASSUME OnePlace, CancelEnqueue PROVE OnePlace'
<1>1. DispatcherTypeOK /\ HandlesAgree /\ QueueAgrees /\ ItemAgrees /\ ActiveAgrees
  BY DEF OnePlace
<1>2. /\ loop.op = "cancel" /\ loop.req \in cancelled /\ loop.req \in Requests
      /\ UNCHANGED <<terminal, submitted, cancelled, events, seqId, pending, item, pc, active, latest>>
  BY <1>1 DEF CancelEnqueue, HandlesAgree, DispatcherTypeOK
<1>3. /\ loop' \in [op : {"idle", "wake", "locked_wake"}, req : Requests \cup {None}]
      /\ discards' \in [Requests -> {"none", "waiting", "over"}]
  <2>1. /\ loop \in [op : {"cancel"}, req : Requests \cup {None}]
        /\ discards \in [Requests -> {"none", "waiting", "over"}]
    BY <1>1, <1>2 DEF DispatcherTypeOK
  <2>2. loop' \in {Idle, [loop EXCEPT !.op = "wake"], [loop EXCEPT !.op = "locked_wake"]}
    BY DEF CancelEnqueue
  <2>3. discards' \in {discards, [discards EXCEPT ![loop.req] = "over"],
                       [discards EXCEPT ![loop.req] = "waiting"]}
    BY DEF CancelEnqueue
  <2>4. QED BY <1>2, <2>1, <2>2, <2>3 DEF Idle
<1>4. CASE UNCHANGED aborts
  <2>1. DispatcherTypeOK'
    BY <1>1, <1>2, <1>3, <1>4 DEF CancelEnqueue, DispatcherTypeOK
  <2>2. HandlesAgree' /\ QueueAgrees' /\ ItemAgrees' /\ ActiveAgrees'
    BY <1>1, <1>2, <1>3, <1>4 DEF HandlesAgree, QueueAgrees, ItemAgrees, ActiveAgrees, NoneActive
  <2>3. QED BY <2>1, <2>2 DEF OnePlace
<1>5. ASSUME NEW x \in AbortItem, x.req = loop.req, aborts' = Append(aborts, x),
             seqId[loop.req] # None
      PROVE  OnePlace'
  <2>1. aborts \in Seq(AbortItem)
    BY <1>1 DEF DispatcherTypeOK, AbortItem
  <2>2. /\ aborts' \in Seq(AbortItem)
        /\ DOMAIN aborts' = DOMAIN aborts \cup {Len(aborts) + 1}
        /\ \A i \in DOMAIN aborts : aborts'[i] = aborts[i]
        /\ aborts'[Len(aborts) + 1] = x
    BY <1>5, <2>1, AppendPositions
  <2>3. DispatcherTypeOK'
    BY <1>1, <1>2, <1>3, <2>2, SMTT(60) DEF CancelEnqueue, DispatcherTypeOK, AbortItem
  <2>4. HandlesAgree'
    BY <1>1, <1>2, <1>3, <1>5, <2>2 DEF HandlesAgree
  <2>5. QueueAgrees' /\ ItemAgrees' /\ ActiveAgrees'
    BY <1>1, <1>2 DEF QueueAgrees, ItemAgrees, ActiveAgrees, NoneActive
  <2>6. QED BY <2>3, <2>4, <2>5 DEF OnePlace
<1>6. Abort(loop.req, FALSE) \in AbortItem /\ Abort(loop.req, FALSE).req = loop.req
  BY <1>2 DEF Abort, AbortItem
<1>7. \/ UNCHANGED aborts
      \/ aborts' = Append(aborts, Abort(loop.req, FALSE)) /\ seqId[loop.req] # None
  BY DEF CancelEnqueue
<1>8. QED BY <1>4, <1>5, <1>6, <1>7

\* discard, second half
LEMMA DiscardEnqueueStep == ASSUME OnePlace, DiscardEnqueue PROVE OnePlace'
<1>1. DispatcherTypeOK /\ HandlesAgree /\ QueueAgrees /\ ItemAgrees /\ ActiveAgrees
  BY DEF OnePlace
<1>2. /\ loop.op = "discard" /\ loop.req \in cancelled /\ loop.req \in Requests
      /\ UNCHANGED <<terminal, submitted, cancelled, events, seqId, pending, item, pc, active, latest>>
  BY <1>1 DEF DiscardEnqueue, HandlesAgree, DispatcherTypeOK
<1>3. /\ loop' \in [op : {"idle", "wake", "locked_wake"}, req : Requests \cup {None}]
      /\ discards' \in [Requests -> {"none", "waiting", "over"}]
  <2>1. /\ loop \in [op : {"discard"}, req : Requests \cup {None}]
        /\ discards \in [Requests -> {"none", "waiting", "over"}]
    BY <1>1, <1>2 DEF DispatcherTypeOK
  <2>2. loop' \in {Idle, [loop EXCEPT !.op = "wake"], [loop EXCEPT !.op = "locked_wake"]}
    BY DEF DiscardEnqueue
  <2>3. discards' \in {discards, [discards EXCEPT ![loop.req] = "over"],
                       [discards EXCEPT ![loop.req] = "waiting"]}
    BY DEF DiscardEnqueue
  <2>4. QED BY <1>2, <2>1, <2>2, <2>3 DEF Idle
<1>4. CASE UNCHANGED aborts
  <2>1. DispatcherTypeOK'
    BY <1>1, <1>2, <1>3, <1>4 DEF DiscardEnqueue, DispatcherTypeOK
  <2>2. HandlesAgree' /\ QueueAgrees' /\ ItemAgrees' /\ ActiveAgrees'
    BY <1>1, <1>2, <1>3, <1>4 DEF HandlesAgree, QueueAgrees, ItemAgrees, ActiveAgrees, NoneActive
  <2>3. QED BY <2>1, <2>2 DEF OnePlace
<1>5. ASSUME NEW x \in AbortItem, x.req = loop.req, aborts' = Append(aborts, x),
             seqId[loop.req] # None
      PROVE  OnePlace'
  <2>1. aborts \in Seq(AbortItem)
    BY <1>1 DEF DispatcherTypeOK, AbortItem
  <2>2. /\ aborts' \in Seq(AbortItem)
        /\ DOMAIN aborts' = DOMAIN aborts \cup {Len(aborts) + 1}
        /\ \A i \in DOMAIN aborts : aborts'[i] = aborts[i]
        /\ aborts'[Len(aborts) + 1] = x
    BY <1>5, <2>1, AppendPositions
  <2>3. DispatcherTypeOK'
    BY <1>1, <1>2, <1>3, <2>2, SMTT(60) DEF DiscardEnqueue, DispatcherTypeOK, AbortItem
  <2>4. HandlesAgree'
    BY <1>1, <1>2, <1>3, <1>5, <2>2 DEF HandlesAgree
  <2>5. QueueAgrees' /\ ItemAgrees' /\ ActiveAgrees'
    BY <1>1, <1>2 DEF QueueAgrees, ItemAgrees, ActiveAgrees, NoneActive
  <2>6. QED BY <2>3, <2>4, <2>5 DEF OnePlace
<1>6. Abort(loop.req, TRUE) \in AbortItem /\ Abort(loop.req, TRUE).req = loop.req
  BY <1>2 DEF Abort, AbortItem
<1>7. \/ UNCHANGED aborts
      \/ aborts' = Append(aborts, Abort(loop.req, TRUE)) /\ seqId[loop.req] # None
  BY DEF DiscardEnqueue
<1>8. QED BY <1>4, <1>5, <1>6, <1>7

\* control
LEMMA ControlStep == ASSUME NEW c \in Controls, OnePlace, Control(c) PROVE OnePlace'
<1>1. DispatcherTypeOK /\ HandlesAgree /\ QueueAgrees /\ ItemAgrees /\ ActiveAgrees
  BY DEF OnePlace
<1>2. controls' \in Seq(Controls) /\ calls' \in [Controls -> {"none", "waiting", "over"}]
      /\ loop' \in [op : {"idle", "locked_wake"}, req : Requests \cup {None}]
  <2>1. controls \in Seq(Controls) /\ loop \in [op : {"idle"}, req : Requests \cup {None}]
    BY <1>1 DEF Control, DispatcherTypeOK, Idle
  <2>2. Append(controls, c) \in Seq(Controls)
    BY <2>1, AppendPositions
  <2>3. /\ controls' \in {controls, Append(controls, c)}
        /\ calls' \in {[calls EXCEPT ![c] = "over"], [calls EXCEPT ![c] = "waiting"]}
        /\ loop' \in {loop, [op |-> "locked_wake", req |-> None]}
    BY DEF Control
  <2>4. calls \in [Controls -> {"none", "waiting", "over"}]
    BY <1>1 DEF DispatcherTypeOK
  <2>5. calls' \in [Controls -> {"none", "waiting", "over"}]
    BY <2>3, <2>4
  <2>6. loop' \in [op : {"idle", "locked_wake"}, req : Requests \cup {None}]
    BY <2>1, <2>3
  <2>7. QED BY <2>1, <2>2, <2>3, <2>5, <2>6
<1>3. UNCHANGED <<submitted, discards, cancelled, handleVars, flagVars, pending, aborts, pc,
                  runVars, active, latest, left, chains, faults, lost>>
  BY DEF Control
<1>4. DispatcherTypeOK'
  BY <1>1, <1>2, <1>3 DEF DispatcherTypeOK
<1>5. HandlesAgree' /\ QueueAgrees' /\ ItemAgrees' /\ ActiveAgrees'
  BY <1>1, <1>2, <1>3 DEF HandlesAgree, QueueAgrees, ItemAgrees, ActiveAgrees, NoneActive
<1>6. QED BY <1>4, <1>5 DEF OnePlace

\* the wake-up
LEMMA WakeStep == ASSUME OnePlace, Wake PROVE OnePlace'
<1>1. DispatcherTypeOK /\ HandlesAgree /\ QueueAgrees /\ ItemAgrees /\ ActiveAgrees
  BY DEF OnePlace
<1>2. pending' = Append(pending, Wakeup) /\ pending \in Seq(QueueItem) /\ Wakeup \in QueueItem
  BY <1>1 DEF Wake, DispatcherTypeOK, QueueItem
<1>3. /\ pending' \in Seq(QueueItem)
      /\ DOMAIN pending' = DOMAIN pending \cup {Len(pending) + 1}
      /\ \A i \in DOMAIN pending : pending'[i] = pending[i]
      /\ pending'[Len(pending) + 1] = Wakeup /\ Wakeup \notin Requests
  BY <1>2, AppendPositions
<1>4. DispatcherTypeOK'
  BY <1>1, <1>3 DEF Wake, DispatcherTypeOK, QueueItem, Idle
<1>5. QueueAgrees'
  BY <1>1, <1>3 DEF Wake, QueueAgrees
<1>6. ItemAgrees'
  BY <1>1, <1>3 DEF Wake, ItemAgrees, DispatcherTypeOK, HandlesAgree
<1>7. HandlesAgree' /\ ActiveAgrees'
  BY <1>1 DEF Wake, HandlesAgree, ActiveAgrees, NoneActive, Idle
<1>8. QED BY <1>4, <1>5, <1>6, <1>7 DEF OnePlace

\* close
LEMMA CloseStep == ASSUME OnePlace, Close PROVE OnePlace'
<1>1. DispatcherTypeOK /\ HandlesAgree /\ QueueAgrees /\ ItemAgrees /\ ActiveAgrees
  BY DEF OnePlace
<1>2. pending' = Append(pending, Stop) /\ pending \in Seq(QueueItem) /\ Stop \in QueueItem
  BY <1>1 DEF Close, DispatcherTypeOK, QueueItem
<1>3. /\ pending' \in Seq(QueueItem)
      /\ DOMAIN pending' = DOMAIN pending \cup {Len(pending) + 1}
      /\ \A i \in DOMAIN pending : pending'[i] = pending[i]
      /\ pending'[Len(pending) + 1] = Stop /\ Stop \notin Requests
  BY <1>2, AppendPositions
<1>4. DispatcherTypeOK'
  BY <1>1, <1>3 DEF Close, DispatcherTypeOK, QueueItem, Idle
<1>5. QueueAgrees'
  BY <1>1, <1>3 DEF Close, QueueAgrees
<1>6. ItemAgrees'
  BY <1>1, <1>3 DEF Close, ItemAgrees, DispatcherTypeOK, HandlesAgree
<1>7. HandlesAgree' /\ ActiveAgrees'
  BY <1>1 DEF Close, HandlesAgree, ActiveAgrees, NoneActive, Idle
<1>8. QED BY <1>4, <1>5, <1>6, <1>7 DEF OnePlace

\* _run takes the head of the queue: a request is admitted next, a marker is not.
LEMMA TakeHead ==
  ASSUME OnePlace, pc \in {"take", "batch"}, pending # <<>>, pending' = Tail(pending),
         item' = (IF Head(pending) \in Requests THEN Head(pending) ELSE item),
         IF Head(pending) \in Requests THEN pc' = "admit"
                                       ELSE pc' \in {"fail_active", "controls", "batch"},
         stopping' \in BOOLEAN,
         UNCHANGED <<loopVars, handleVars, flagVars, aborts, controls, second, out, fin, active,
                     latest, left, chains, faults, lost>>
  PROVE  OnePlace'
<1>1. DispatcherTypeOK /\ HandlesAgree /\ QueueAgrees /\ ItemAgrees /\ ActiveAgrees
  BY DEF OnePlace
<1>2. /\ Head(pending) \in QueueItem /\ pending' \in Seq(QueueItem)
      /\ Head(pending) \in Requests =>
           /\ Head(pending) \in submitted \ terminal /\ seqId[Head(pending)] = None
           /\ \A i \in DOMAIN pending' : pending'[i] # Head(pending)
      /\ \A i \in DOMAIN pending' : pending'[i] \in Requests =>
           /\ pending'[i] \in submitted \ terminal /\ seqId[pending'[i]] = None
           /\ \A j \in DOMAIN pending' : pending'[j] = pending'[i] => j = i
  BY TakenItem
<1>3. pc' \in {"admit", "fail_active", "controls", "batch"} /\ item' \in Requests \cup {None}
  BY <1>1 DEF DispatcherTypeOK
<1>4. DispatcherTypeOK'
  BY <1>1, <1>2, <1>3 DEF DispatcherTypeOK, QueueItem, Running
<1>5. HandlesAgree' /\ QueueAgrees'
  BY <1>1, <1>2 DEF HandlesAgree, QueueAgrees
<1>6. ItemAgrees'
  <2>1. SUFFICES ASSUME pc' = "admit" PROVE ItemAgrees'
    BY <1>3 DEF ItemAgrees
  <2>2. item' = Head(pending) /\ Head(pending) \in Requests
    BY <2>1
  <2>3. \A q \in Requests : active[q] # Head(pending)
    BY <1>1, <1>2, <2>2 DEF ActiveAgrees
  <2>4. QED BY <1>2, <2>1, <2>2, <2>3 DEF ItemAgrees
<1>7. ActiveAgrees'
  BY <1>1, <1>3 DEF ActiveAgrees
<1>8. QED BY <1>4, <1>5, <1>6, <1>7 DEF OnePlace

\* the blocking get
LEMMA TakeStep == ASSUME OnePlace, Take PROVE OnePlace'
<1>1. DispatcherTypeOK
  BY DEF OnePlace
<1>2. CASE pc' = "batch" /\ UNCHANGED <<pending, item>>
  <2>1. HandlesAgree' /\ QueueAgrees' /\ ItemAgrees' /\ ActiveAgrees'
    BY <1>2, Quiet DEF Take
  <2>2. DispatcherTypeOK'
    BY <1>1, <1>2 DEF Take, DispatcherTypeOK, Running
  <2>3. QED BY <2>1, <2>2 DEF OnePlace
<1>3. CASE pending # <<>> /\ pending' = Tail(pending)
           /\ item' = (IF Head(pending) \in Requests THEN Head(pending) ELSE item)
           /\ pc' = CASE Head(pending) = Stop -> "fail_active"
                      [] Head(pending) = Wakeup -> "controls"
                      [] OTHER -> "admit"
  <2>1. Head(pending) \in QueueItem
    BY <1>3, TakenItem
  <2>2. IF Head(pending) \in Requests THEN pc' = "admit"
                                      ELSE pc' \in {"fail_active", "controls", "batch"}
    BY <1>3, <2>1 DEF QueueItem
  <2>3. QED BY <1>1, <1>3, <2>2, TakeHead DEF Take, DispatcherTypeOK
<1>4. QED BY <1>2, <1>3 DEF Take

\* the other gets
LEMMA TakeMoreStep == ASSUME OnePlace, TakeMore PROVE OnePlace'
<1>1. DispatcherTypeOK
  BY DEF OnePlace
<1>2. CASE pc' = "controls" /\ second' = TRUE /\ UNCHANGED <<pending, item, stopping>>
  <2>1. HandlesAgree' /\ QueueAgrees' /\ ItemAgrees' /\ ActiveAgrees'
    BY <1>2, Quiet DEF TakeMore
  <2>2. DispatcherTypeOK'
    BY <1>1, <1>2 DEF TakeMore, DispatcherTypeOK, Running
  <2>3. QED BY <2>1, <2>2 DEF OnePlace
<1>3. CASE /\ pending # <<>> /\ pending' = Tail(pending)
           /\ stopping' = (stopping \/ Head(pending) = Stop)
           /\ item' = (IF Head(pending) \in Requests THEN Head(pending) ELSE item)
           /\ pc' = (IF Head(pending) \in Requests THEN "admit" ELSE pc)
           /\ UNCHANGED second
  <2>1. stopping' \in BOOLEAN
    BY <1>1, <1>3 DEF DispatcherTypeOK
  <2>2. /\ pc = "batch"
        /\ UNCHANGED <<loopVars, handleVars, flagVars, aborts, controls, out, fin, active, latest,
                       left, chains, faults, lost>>
    BY DEF TakeMore
  <2>3. QED BY <1>3, <2>1, <2>2, TakeHead
<1>4. QED BY <1>2, <1>3 DEF TakeMore

\* _admit, before the engine is called
LEMMA AdmitCheckStep == ASSUME OnePlace, AdmitCheck PROVE OnePlace'
<1>1. DispatcherTypeOK /\ HandlesAgree /\ QueueAgrees /\ ItemAgrees /\ ActiveAgrees
  BY DEF OnePlace
<1>2. /\ pc = "admit" /\ item \in Requests /\ events[item] = <<>>
      /\ UNCHANGED <<loopVars, seqId, flagVars, queueVars, runVars, active, latest, left, chains,
                     faults, lost>>
  BY <1>1 DEF AdmitCheck, ItemAgrees, HandlesAgree, DispatcherTypeOK
<1>3. CASE item \in cancelled \/ closing
  <2> DEFINE put == IF item \in cancelled THEN <<>> ELSE <<"error">>
  <2>1. put \in Replied /\ (put = <<>> => item \in cancelled)
    BY DEF Replied
  <2>2. /\ terminal' = terminal \cup {item} /\ pc' = "batch"
        /\ events' = [events EXCEPT ![item] = put]
        /\ admission' = [admission EXCEPT ![item] = "error"]
    <3>1. events[item] = <<>> /\ Append(events[item], "error") = <<"error">>
      BY <1>2, FirstEvent
    <3>2. QED BY <1>3, <3>1 DEF AdmitCheck
  <2> HIDE DEF put
  <2>3. /\ HandlesAgree' /\ QueueAgrees' /\ ItemAgrees' /\ ActiveAgrees'
        /\ terminal' \subseteq Requests /\ events' \in [Requests -> Replied]
    BY <1>2, <2>1, <2>2, EndItem
  <2>4. DispatcherTypeOK'
    BY <1>1, <1>2, <2>2, <2>3 DEF DispatcherTypeOK, Running, Replied
  <2>5. QED BY <2>3, <2>4 DEF OnePlace
<1>4. CASE ~(item \in cancelled \/ closing)
  <2>1. pc' = "admitting" /\ UNCHANGED <<terminal, events, admission>>
    BY <1>4 DEF AdmitCheck
  <2>2. DispatcherTypeOK'
    BY <1>1, <1>2, <2>1 DEF DispatcherTypeOK, Running
  <2>3. HandlesAgree' /\ QueueAgrees' /\ ItemAgrees' /\ ActiveAgrees'
    BY <1>1, <1>2, <2>1 DEF HandlesAgree, QueueAgrees, ItemAgrees, ActiveAgrees
  <2>4. QED BY <2>2, <2>3 DEF OnePlace
<1>5. QED BY <1>3, <1>4

\* _admit, the engine takes the request
LEMMA AdmitAcceptedStep == ASSUME OnePlace, AdmitAccepted PROVE OnePlace'
<1>1. DispatcherTypeOK /\ HandlesAgree /\ QueueAgrees /\ ItemAgrees /\ ActiveAgrees
  BY DEF OnePlace
<1>2. PICK q \in EngineSeqIds(item) :
        /\ seqId' = [seqId EXCEPT ![item] = q]
        /\ left' = [left EXCEPT ![q] = MaxOutput]
        /\ chains' = chains \ {q}
  BY DEF AdmitAccepted
<1>3. /\ pc = "admitting" /\ pc' = "admitted"
      /\ UNCHANGED <<loopVars, terminal, admission, events, flagVars, queueVars, runVars, active,
                     latest, faults, lost>>
  BY DEF AdmitAccepted
<1>4. /\ item \in Requests /\ item \in submitted \ terminal /\ seqId[item] = None
      /\ \A i \in DOMAIN pending : pending[i] # item
      /\ \A p \in Requests : active[p] # item
  BY <1>1, <1>3 DEF ItemAgrees, DispatcherTypeOK
<1>5. q \in Requests /\ q # None
  BY <1>1, <1>4 DEF EngineSeqIds, DispatcherTypeOK
<1>6. seqId' \in [Requests -> Requests \cup {None}] /\ left' \in [Requests -> 0..MaxOutput]
      /\ chains' \subseteq Requests
  BY <1>1, <1>2, <1>4, <1>5 DEF DispatcherTypeOK
<1>7. seqId'[item] = q /\ \A r \in Requests : r # item => seqId'[r] = seqId[r]
  BY <1>1, <1>2, <1>4 DEF DispatcherTypeOK
<1>8. DispatcherTypeOK'
  BY <1>1, <1>3, <1>6 DEF DispatcherTypeOK, Running
<1>9. HandlesAgree'
  <2>1. \A i \in DOMAIN aborts : aborts[i].req \in Requests
    BY <1>1 DEF HandlesAgree, DispatcherTypeOK
  <2>2. QED BY <1>1, <1>3, <1>4, <1>5, <1>7, <2>1 DEF HandlesAgree
<1>10. QueueAgrees'
  BY <1>1, <1>3, <1>4, <1>7 DEF QueueAgrees
<1>11. ItemAgrees'
  BY <1>1, <1>3, <1>4, <1>5, <1>7 DEF ItemAgrees
<1>12. ActiveAgrees'
  BY <1>1, <1>3, <1>4, <1>7 DEF ActiveAgrees, DispatcherTypeOK
<1>13. QED BY <1>8, <1>9, <1>10, <1>11, <1>12 DEF OnePlace

\* _admit, the engine refuses
LEMMA AdmitRefusedStep == ASSUME OnePlace, AdmitRefused PROVE OnePlace'
<1>1. DispatcherTypeOK /\ HandlesAgree /\ QueueAgrees /\ ItemAgrees /\ ActiveAgrees
  BY DEF OnePlace
<1>2. /\ pc = "admitting" /\ pc' = "batch" /\ item \in Requests /\ item \in submitted \ terminal
      /\ events[item] = <<>> /\ seqId[item] \in Requests \cup {None}
      /\ (pc = "admitted" => seqId[item] \in Requests)
      /\ admission' = [admission EXCEPT ![item] = "error"]
      /\ UNCHANGED <<loopVars, seqId, flagVars, queueVars, runVars, active, lost>>
  BY <1>1 DEF AdmitRefused, ItemAgrees, HandlesAgree, DispatcherTypeOK
<1>3. <<"error">> \in Replied
  BY DEF Replied
<1>4. /\ terminal' = terminal \cup {item} /\ events' = [events EXCEPT ![item] = <<"error">>]
      /\ latest' \in [Requests -> Requests \cup {None}]
      /\ \A q \in Requests : latest[q] # item => latest'[q] = latest[q]
  <2>1. Conclude(item, <<"error">>)
    BY DEF AdmitRefused
  <2>2. QED BY <1>2, <1>3, <2>1, ConcludeFacts
<1>5. /\ left' \in [Requests -> 0..MaxOutput] /\ chains' \subseteq Requests
      /\ faults' \in 0..MaxFaults
  BY <1>1 DEF AdmitRefused, DispatcherTypeOK
<1>6. <<"error">> = <<>> => item \in cancelled
  BY DEF AdmitRefused
<1>7. /\ HandlesAgree' /\ QueueAgrees' /\ ItemAgrees' /\ ActiveAgrees'
      /\ terminal' \subseteq Requests /\ events' \in [Requests -> Replied]
  BY <1>2, <1>3, <1>4, <1>6, EndItem
<1>8. DispatcherTypeOK'
  BY <1>1, <1>2, <1>4, <1>5, <1>7 DEF DispatcherTypeOK, Running, Replied
<1>9. QED BY <1>7, <1>8 DEF OnePlace

\* _admit, cancelled meanwhile
LEMMA AdmitCancelledStep == ASSUME OnePlace, AdmitCancelled PROVE OnePlace'
<1>1. DispatcherTypeOK /\ HandlesAgree /\ QueueAgrees /\ ItemAgrees /\ ActiveAgrees
  BY DEF OnePlace
<1>2. /\ pc = "admitted" /\ pc' = "batch" /\ item \in Requests /\ item \in submitted \ terminal
      /\ events[item] = <<>> /\ seqId[item] \in Requests \cup {None}
      /\ (pc = "admitted" => seqId[item] \in Requests)
      /\ admission' = [admission EXCEPT ![item] = "error"]
      /\ UNCHANGED <<loopVars, seqId, flagVars, queueVars, runVars, active, lost>>
  BY <1>1 DEF AdmitCancelled, ItemAgrees, HandlesAgree, DispatcherTypeOK
<1>3. <<>> \in Replied
  BY DEF Replied
<1>4. /\ terminal' = terminal \cup {item} /\ events' = [events EXCEPT ![item] = <<>>]
      /\ latest' \in [Requests -> Requests \cup {None}]
      /\ \A q \in Requests : latest[q] # item => latest'[q] = latest[q]
  BY <1>1, <1>2 DEF AdmitCancelled, DispatcherTypeOK
<1>5. /\ left' \in [Requests -> 0..MaxOutput] /\ chains' \subseteq Requests
      /\ faults' \in 0..MaxFaults
  <2>1. EngineAbort(seqId[item]) /\ CallOk
    BY DEF AdmitCancelled, CallOk
  <2>2. QED BY <1>1, <1>2, <2>1, EngineTypes
<1>6. <<>> = <<>> => item \in cancelled
  BY DEF AdmitCancelled
<1>7. /\ HandlesAgree' /\ QueueAgrees' /\ ItemAgrees' /\ ActiveAgrees'
      /\ terminal' \subseteq Requests /\ events' \in [Requests -> Replied]
  BY <1>2, <1>3, <1>4, <1>6, EndItem
<1>8. DispatcherTypeOK'
  BY <1>1, <1>2, <1>4, <1>5, <1>7 DEF DispatcherTypeOK, Running, Replied
<1>9. QED BY <1>7, <1>8 DEF OnePlace

\* _admit, the set-up fails
LEMMA AdmitSetupFailsStep == ASSUME OnePlace, AdmitSetupFails PROVE OnePlace'
<1>1. DispatcherTypeOK /\ HandlesAgree /\ QueueAgrees /\ ItemAgrees /\ ActiveAgrees
  BY DEF OnePlace
<1>2. /\ pc = "admitted" /\ pc' = "batch" /\ item \in Requests /\ item \in submitted \ terminal
      /\ events[item] = <<>> /\ seqId[item] \in Requests \cup {None}
      /\ (pc = "admitted" => seqId[item] \in Requests)
      /\ admission' = [admission EXCEPT ![item] = "error"]
      /\ UNCHANGED <<loopVars, seqId, flagVars, queueVars, runVars, active, lost>>
  BY <1>1 DEF AdmitSetupFails, ItemAgrees, HandlesAgree, DispatcherTypeOK
<1>3. <<"error">> \in Replied
  BY DEF Replied
<1>4. /\ terminal' = terminal \cup {item} /\ events' = [events EXCEPT ![item] = <<"error">>]
      /\ latest' \in [Requests -> Requests \cup {None}]
      /\ \A q \in Requests : latest[q] # item => latest'[q] = latest[q]
  <2>1. Conclude(item, <<"error">>)
    BY DEF AdmitSetupFails
  <2>2. QED BY <1>2, <1>3, <2>1, ConcludeFacts
<1>5. /\ left' \in [Requests -> 0..MaxOutput] /\ chains' \subseteq Requests
      /\ faults' \in 0..MaxFaults
  <2>1. CallRaises /\ (EngineAbort(seqId[item]) \/ UNCHANGED <<left, chains>>)
    BY DEF AdmitSetupFails
  <2>2. QED BY <1>1, <1>2, <2>1, EngineTypes DEF DispatcherTypeOK
<1>6. <<"error">> = <<>> => item \in cancelled
  BY DEF AdmitSetupFails
<1>7. /\ HandlesAgree' /\ QueueAgrees' /\ ItemAgrees' /\ ActiveAgrees'
      /\ terminal' \subseteq Requests /\ events' \in [Requests -> Replied]
  BY <1>2, <1>3, <1>4, <1>6, EndItem
<1>8. DispatcherTypeOK'
  BY <1>1, <1>2, <1>4, <1>5, <1>7 DEF DispatcherTypeOK, Running, Replied
<1>9. QED BY <1>7, <1>8 DEF OnePlace

\* _admit, the request is active
LEMMA AdmitActiveStep == ASSUME OnePlace, AdmitActive PROVE OnePlace'
<1>1. DispatcherTypeOK /\ HandlesAgree /\ QueueAgrees /\ ItemAgrees /\ ActiveAgrees
  BY DEF OnePlace
<1>2. /\ pc = "admitted" /\ pc' = "batch" /\ item \in submitted \ terminal /\ item \in Requests
      /\ seqId[item] \in Requests
      /\ active' = [active EXCEPT ![seqId[item]] = item]
      /\ latest' = [latest EXCEPT ![seqId[item]] = item]
      /\ admission' = [admission EXCEPT ![item] = "ok"]
      /\ UNCHANGED <<loopVars, terminal, seqId, events, flagVars, queueVars, runVars, left, chains,
                     faults, lost>>
  BY <1>1 DEF AdmitActive, ItemAgrees, DispatcherTypeOK
<1>3. DispatcherTypeOK'
  BY <1>1, <1>2 DEF DispatcherTypeOK, Running
<1>4. HandlesAgree' /\ QueueAgrees' /\ ItemAgrees'
  BY <1>1, <1>2 DEF HandlesAgree, QueueAgrees, ItemAgrees
<1>5. ActiveAgrees'
  BY <1>1, <1>2 DEF ActiveAgrees, DispatcherTypeOK
<1>6. QED BY <1>3, <1>4, <1>5 DEF OnePlace

\* _publish_token_deltas
LEMMA PublishDeltaStep == ASSUME OnePlace, PublishDelta PROVE OnePlace'
<1>1. DispatcherTypeOK
  BY DEF OnePlace
<1>2. PICK q \in out :
        /\ out' = out \ {q}
        /\ \/ UNCHANGED <<active, latest, terminal, events, left, chains>>
           \/ /\ active[q] # None /\ Unpublish(q) /\ Conclude(active[q], <<"final">>)
              /\ EngineAbort(q) \/ UNCHANGED <<left, chains>>
  BY DEF PublishDelta
<1>3. /\ pc = "deltas" /\ pc' = pc /\ q \in Requests /\ out' \subseteq Requests
      /\ UNCHANGED <<loopVars, seqId, admission, flagVars, queueVars, second, stopping, item, fin,
                     faults, lost>>
  BY <1>1, <1>2 DEF PublishDelta, DispatcherTypeOK
<1>4. CASE UNCHANGED <<active, latest, terminal, events, left, chains>>
  <2>1. HandlesAgree' /\ QueueAgrees' /\ ItemAgrees' /\ ActiveAgrees'
    BY <1>3, <1>4, Quiet
  <2>2. DispatcherTypeOK'
    BY <1>1, <1>3, <1>4 DEF DispatcherTypeOK
  <2>3. QED BY <2>1, <2>2 DEF OnePlace
<1>5. CASE /\ active[q] # None /\ Unpublish(q) /\ Conclude(active[q], <<"final">>)
           /\ EngineAbort(q) \/ UNCHANGED <<left, chains>>
  <2>1. <<"final">> \in Replied
    BY DEF Replied
  <2>2. \A i \in DOMAIN aborts' : aborts'[i].req \in cancelled' /\ seqId'[aborts'[i].req] # None
    BY <1>3 DEF OnePlace, HandlesAgree
  <2>3. /\ HandlesAgree' /\ QueueAgrees' /\ ItemAgrees' /\ ActiveAgrees'
        /\ terminal' \subseteq Requests /\ events' \in [Requests -> Replied]
        /\ active' \in [Requests -> Requests \cup {None}]
        /\ latest' \in [Requests -> Requests \cup {None}]
    BY <1>3, <1>5, <2>1, <2>2, EndActive
  <2>4. left' \in [Requests -> 0..MaxOutput] /\ chains' \subseteq Requests
    BY <1>1, <1>3, <1>5, EngineTypes DEF DispatcherTypeOK
  <2>5. DispatcherTypeOK'
    BY <1>1, <1>3, <2>3, <2>4 DEF DispatcherTypeOK, Replied
  <2>6. QED BY <2>3, <2>5 DEF OnePlace
<1>6. QED BY <1>2, <1>4, <1>5

\* _publish_finished
LEMMA PublishFinishedStep == ASSUME OnePlace, PublishFinished PROVE OnePlace'
<1>1. DispatcherTypeOK
  BY DEF OnePlace
<1>2. PICK q \in fin :
        /\ fin' = fin \ {q}
        /\ \/ UNCHANGED <<active, latest, terminal, events, left, chains>>
           \/ /\ active[q] # None /\ Unpublish(q) /\ Conclude(active[q], <<"final">>)
              /\ EngineAbort(q) \/ UNCHANGED <<left, chains>>
  BY DEF PublishFinished
<1>3. /\ pc = "finished" /\ pc' = pc /\ q \in Requests /\ fin' \subseteq Requests
      /\ UNCHANGED <<loopVars, seqId, admission, flagVars, queueVars, second, stopping, item, out,
                     faults, lost>>
  BY <1>1, <1>2 DEF PublishFinished, DispatcherTypeOK
<1>4. CASE UNCHANGED <<active, latest, terminal, events, left, chains>>
  <2>1. HandlesAgree' /\ QueueAgrees' /\ ItemAgrees' /\ ActiveAgrees'
    BY <1>3, <1>4, Quiet
  <2>2. DispatcherTypeOK'
    BY <1>1, <1>3, <1>4 DEF DispatcherTypeOK
  <2>3. QED BY <2>1, <2>2 DEF OnePlace
<1>5. CASE /\ active[q] # None /\ Unpublish(q) /\ Conclude(active[q], <<"final">>)
           /\ EngineAbort(q) \/ UNCHANGED <<left, chains>>
  <2>1. <<"final">> \in Replied
    BY DEF Replied
  <2>2. \A i \in DOMAIN aborts' : aborts'[i].req \in cancelled' /\ seqId'[aborts'[i].req] # None
    BY <1>3 DEF OnePlace, HandlesAgree
  <2>3. /\ HandlesAgree' /\ QueueAgrees' /\ ItemAgrees' /\ ActiveAgrees'
        /\ terminal' \subseteq Requests /\ events' \in [Requests -> Replied]
        /\ active' \in [Requests -> Requests \cup {None}]
        /\ latest' \in [Requests -> Requests \cup {None}]
    BY <1>3, <1>5, <2>1, <2>2, EndActive
  <2>4. left' \in [Requests -> 0..MaxOutput] /\ chains' \subseteq Requests
    BY <1>1, <1>3, <1>5, EngineTypes DEF DispatcherTypeOK
  <2>5. DispatcherTypeOK'
    BY <1>1, <1>3, <2>3, <2>4 DEF DispatcherTypeOK, Replied
  <2>6. QED BY <2>3, <2>5 DEF OnePlace
<1>6. QED BY <1>2, <1>4, <1>5

\* _publish_finished raises, before or after active.pop
LEMMA PublishFinishedRaisesStep == ASSUME OnePlace, PublishFinishedRaises PROVE OnePlace'
<1>1. DispatcherTypeOK /\ HandlesAgree /\ QueueAgrees /\ ItemAgrees /\ ActiveAgrees
  BY DEF OnePlace
<1>2. PICK q \in fin :
        /\ active[q] # None
        /\ \/ UNCHANGED <<active, left, chains, lost>>
           \/ /\ Unpublish(q) /\ lost' = lost \cup {active[q]}
              /\ EngineAbort(q) \/ UNCHANGED <<left, chains>>
  BY DEF PublishFinishedRaises
<1>3. /\ pc' = "failing" /\ CallRaises /\ q \in Requests /\ active[q] \in Requests
      /\ UNCHANGED <<loopVars, handleVars, flagVars, queueVars, runVars, latest>>
  BY <1>1, <1>2 DEF PublishFinishedRaises, DispatcherTypeOK
<1>4. /\ left' \in [Requests -> 0..MaxOutput] /\ chains' \subseteq Requests
      /\ faults' \in 0..MaxFaults /\ lost' \subseteq Requests
  BY <1>1, <1>2, <1>3, EngineTypes DEF DispatcherTypeOK
<1>5. active' = active \/ active' = [active EXCEPT ![q] = None]
  BY <1>2 DEF Unpublish
<1>6. DispatcherTypeOK'
  BY <1>1, <1>3, <1>4, <1>5, ZenonT(60) DEF DispatcherTypeOK
<1>7. HandlesAgree' /\ QueueAgrees' /\ ItemAgrees'
  BY <1>1, <1>3 DEF HandlesAgree, QueueAgrees, ItemAgrees
<1>8. ActiveAgrees'
  <2>1. \A p \in Requests : active'[p] # None => active'[p] = active[p]
    BY <1>1, <1>5 DEF DispatcherTypeOK
  <2>2. UNCHANGED <<submitted, terminal, seqId, latest>> /\ pc' = "failing"
    BY <1>3 DEF loopVars, handleVars
  <2>3. QED BY <1>1, <2>1, <2>2 DEF ActiveAgrees
<1>9. QED BY <1>6, <1>7, <1>8 DEF OnePlace

\* _fail_active_requests
LEMMA FailActiveStep == ASSUME OnePlace, FailActive PROVE OnePlace'
<1>1. DispatcherTypeOK /\ HandlesAgree /\ QueueAgrees /\ ItemAgrees /\ ActiveAgrees
  BY DEF OnePlace
<1>2. /\ pc = "fail_active"
      /\ UNCHANGED <<loopVars, seqId, admission, flagVars, queueVars, runVars, lost>>
  BY DEF FailActive
<1>3. CASE /\ NoneActive /\ pc' = "fail_queued"
           /\ UNCHANGED <<active, latest, terminal, events, left, chains, faults>>
  <2>1. DispatcherTypeOK'
    BY <1>1, <1>2, <1>3 DEF DispatcherTypeOK
  <2>2. HandlesAgree' /\ QueueAgrees' /\ ItemAgrees' /\ ActiveAgrees'
    BY <1>1, <1>2, <1>3 DEF HandlesAgree, QueueAgrees, ItemAgrees, ActiveAgrees, NoneActive
  <2>3. QED BY <2>1, <2>2 DEF OnePlace
<1>4. ASSUME NEW q \in Requests, active[q] # None, Unpublish(q),
             Conclude(active[q], <<"error">>), UNCHANGED pc,
             (EngineAbort(q) /\ CallOk) \/ (CallRaises /\ UNCHANGED <<left, chains>>)
      PROVE  OnePlace'
  <2>1. <<"error">> \in Replied
    BY DEF Replied
  <2>2. \A i \in DOMAIN aborts' : aborts'[i].req \in cancelled' /\ seqId'[aborts'[i].req] # None
    BY <1>1, <1>2 DEF HandlesAgree
  <2>3. /\ HandlesAgree' /\ QueueAgrees' /\ ItemAgrees' /\ ActiveAgrees'
        /\ terminal' \subseteq Requests /\ events' \in [Requests -> Replied]
        /\ active' \in [Requests -> Requests \cup {None}]
        /\ latest' \in [Requests -> Requests \cup {None}]
    BY <1>2, <1>4, <2>1, <2>2, EndActive
  <2>4. /\ left' \in [Requests -> 0..MaxOutput] /\ chains' \subseteq Requests
        /\ faults' \in 0..MaxFaults
    BY <1>1, <1>4, EngineTypes DEF DispatcherTypeOK
  <2>5. DispatcherTypeOK'
    BY <1>1, <1>2, <1>4, <2>3, <2>4, SMTT(60) DEF DispatcherTypeOK, Replied
  <2>6. QED BY <2>3, <2>5 DEF OnePlace
<1>5. QED BY <1>3, <1>4 DEF FailActive

\* _drain_queued_requests
LEMMA FailQueuedStep == ASSUME OnePlace, FailQueued PROVE OnePlace'
<1> DEFINE h == Head(pending)
<1>1. DispatcherTypeOK /\ HandlesAgree /\ QueueAgrees /\ ItemAgrees /\ ActiveAgrees
  BY DEF OnePlace
<1>2. /\ pc = "fail_queued" /\ pending # <<>> /\ pending' = Tail(pending)
      /\ UNCHANGED <<loopVars, seqId, flagVars, aborts, controls, pc, runVars, active, latest, left,
                     chains, faults, lost>>
  BY DEF FailQueued
<1>3. /\ pending' \in Seq(QueueItem)
      /\ h \in Requests =>
           /\ h \in submitted \ terminal
           /\ \A i \in DOMAIN pending' : pending'[i] # h
      /\ \A i \in DOMAIN pending' : pending'[i] \in Requests =>
           /\ pending'[i] \in submitted \ terminal /\ seqId[pending'[i]] = None
           /\ \A j \in DOMAIN pending' : pending'[j] = pending'[i] => j = i
  BY <1>2, TakenItem
<1>4. NoneActive
  BY <1>1, <1>2 DEF ActiveAgrees
<1>5. /\ terminal' = terminal \cup {r \in Requests : r = h}
      /\ events' = [r \in Requests |-> IF r = h THEN <<"error">> ELSE events[r]]
      /\ admission' = [r \in Requests |-> IF r = h THEN "error" ELSE admission[r]]
  <2>1. h \in Requests => events[h] = <<>>
    BY <1>1, <1>3 DEF HandlesAgree
  <2>2. \A r \in Requests : r = h => Append(events[r], "error") = <<"error">>
    BY <2>1, FirstEvent
  <2>3. events' = [r \in Requests |-> IF r = h THEN Append(events[r], "error") ELSE events[r]]
    BY DEF FailQueued
  <2>4. QED BY <2>2, <2>3 DEF FailQueued
<1>6. DispatcherTypeOK'
  BY <1>1, <1>2, <1>3, <1>5 DEF DispatcherTypeOK, QueueItem
<1>7. HandlesAgree'
  BY <1>1, <1>2, <1>3, <1>5 DEF HandlesAgree, DispatcherTypeOK
<1>8. QueueAgrees' /\ ItemAgrees'
  BY <1>2, <1>3, <1>5 DEF QueueAgrees, ItemAgrees
<1>9. ActiveAgrees'
  BY <1>2, <1>4 DEF ActiveAgrees, NoneActive
<1>10. QED BY <1>6, <1>7, <1>8, <1>9 DEF OnePlace

\* _fail_pending_aborts: nothing is active any more
LEMMA FailAbortsStep == ASSUME OnePlace, FailAborts PROVE OnePlace'
<1>1. DispatcherTypeOK /\ HandlesAgree /\ QueueAgrees /\ ItemAgrees /\ ActiveAgrees
  BY DEF OnePlace
<1>2. /\ pc = "fail_aborts"
      /\ UNCHANGED <<loop, submitted, calls, cancelled, seqId, admission, events, flagVars, pending,
                     controls, runVars, active, latest, left, chains, faults, lost>>
  BY DEF FailAborts
<1>3. NoneActive
  BY <1>1, <1>2 DEF ActiveAgrees
<1>4. CASE pc' = "dead" /\ UNCHANGED <<aborts, terminal, discards>>
  <2>1. HandlesAgree' /\ QueueAgrees' /\ ItemAgrees' /\ ActiveAgrees'
    BY <1>2, <1>4, Quiet
  <2>2. DispatcherTypeOK'
    BY <1>1, <1>2, <1>4 DEF DispatcherTypeOK
  <2>3. QED BY <2>1, <2>2 DEF OnePlace
<1>5. CASE /\ aborts # <<>> /\ aborts' = Tail(aborts) /\ UNCHANGED pc
           /\ terminal' = terminal \cup {Head(aborts).req} /\ Resolve(Head(aborts))
  <2>1. /\ Head(aborts) \in AbortItem /\ aborts' \in Seq(AbortItem)
        /\ Head(aborts).req \in submitted /\ seqId[Head(aborts).req] \in Requests
        /\ \A i \in DOMAIN aborts' : aborts'[i].req \in cancelled' /\ seqId'[aborts'[i].req] # None
    BY <1>2, <1>5, TakenAbort
  <2>2. discards' \in [Requests -> {"none", "waiting", "over"}]
    BY <1>1, <1>5, <2>1, EngineTypes
  <2>3. DispatcherTypeOK'
    BY <1>1, <1>2, <1>5, <2>1, <2>2, SMTT(60) DEF DispatcherTypeOK, AbortItem
  <2>4. HandlesAgree'
    BY <1>1, <1>2, <1>5, <2>1 DEF HandlesAgree
  <2>5. QueueAgrees' /\ ItemAgrees'
    BY <1>1, <1>2, <1>5, <2>1 DEF QueueAgrees, ItemAgrees
  <2>6. ActiveAgrees'
    BY <1>2, <1>3 DEF ActiveAgrees, NoneActive
  <2>7. QED BY <2>3, <2>4, <2>5, <2>6 DEF OnePlace
<1>6. QED BY <1>4, <1>5 DEF FailAborts

\* The dispatcher starts with every request nowhere.
LEMMA StartsInOnePlace == ASSUME DispatcherInit PROVE OnePlace
<1>1. DispatcherTypeOK
  <2>1. loop \in [op : {"idle", "cancel", "discard", "wake", "locked_wake", "close"},
                  req : Requests \cup {None}]
    BY DEF DispatcherInit, Idle
  <2>2. /\ pending \in Seq(Requests \cup {Wakeup, Stop})
        /\ aborts \in Seq([req : Requests, force : BOOLEAN]) /\ controls \in Seq(Controls)
    BY EmptyFacts DEF DispatcherInit
  <2>3. left \in [Requests -> 0..MaxOutput] /\ faults \in 0..MaxFaults
    BY DEF DispatcherInit
  <2>4. pc \in Running
    BY DEF DispatcherInit, Running
  <2>5. events \in [Requests -> {<<>>, <<"final">>, <<"error">>}]
    BY DEF DispatcherInit
  <2>6. QED BY <2>1, <2>2, <2>3, <2>4, <2>5 DEF DispatcherInit, DispatcherTypeOK
<1>2. HandlesAgree /\ QueueAgrees /\ ItemAgrees /\ ActiveAgrees
  BY DEF DispatcherInit, HandlesAgree, QueueAgrees, ItemAgrees, ActiveAgrees, Idle
<1>3. QED BY <1>1, <1>2 DEF OnePlace

\* Every step of either thread keeps each open request in one place.
LEMMA StaysInOnePlace == ASSUME OnePlace, [DispatcherNext]_dispVars PROVE OnePlace'
<1>1. CASE \E r \in Requests : Submit(r) \/ CancelMark(r) \/ DiscardMark(r) \/ DiscardTimesOut(r)
  BY <1>1, SubmitStep, MarkSteps, QuietSteps
<1>2. CASE \E c \in Controls : Control(c)
  BY <1>2, ControlStep
<1>3. CASE Close \/ LoopContinues
  BY <1>3, CloseStep, CancelEnqueueStep, DiscardEnqueueStep, WakeStep, QuietSteps DEF LoopContinues
<1>4. CASE EngineThread
  BY <1>4, QuietSteps, AbortIgnoredStep, AbortActiveStep, AbortOverStep, TakeStep, TakeMoreStep,
     AdmitCheckStep, AdmitAcceptedStep, AdmitRefusedStep, AdmitCancelledStep, AdmitActiveStep,
     AdmitSetupFailsStep, PublishDeltaStep, PublishFinishedStep, PublishFinishedRaisesStep,
     FailActiveStep, FailQueuedStep, FailAbortsStep
  DEF EngineThread
<1>5. CASE UNCHANGED dispVars
  <2>1. HandlesAgree' /\ QueueAgrees' /\ ItemAgrees' /\ ActiveAgrees'
    BY <1>5 DEF dispVars, OnePlace, HandlesAgree, QueueAgrees, ItemAgrees, ActiveAgrees, NoneActive
  <2>2. DispatcherTypeOK'
    BY <1>5 DEF dispVars, OnePlace, DispatcherTypeOK
  <2>3. QED BY <2>1, <2>2 DEF OnePlace
<1>6. QED BY <1>1, <1>2, <1>3, <1>4, <1>5 DEF DispatcherNext

\* An open request of the dispatcher is in one place in every behaviour.
THEOREM OpenInOnePlace == DispatcherSpec => []OnePlace
BY StartsInOnePlace, StaysInOnePlace, PTL DEF DispatcherSpec

\* Types of the dispatcher's state in every behaviour.
THEOREM DispatcherTypeCorrect == DispatcherSpec => []DispatcherTypeOK
<1>1. OnePlace => DispatcherTypeOK
  BY DEF OnePlace
<1>2. QED BY <1>1, OpenInOnePlace, PTL

-----------------------------------------------------------------------------
(* The refinement *)

\* A step that ends no request and marks none is invisible to the client.
LEMMA Invisible ==
  ASSUME UNCHANGED <<submitted, terminal, events, cancelled>>
  PROVE  UNCHANGED Lifecycle!lifecycleVars
BY DEF Lifecycle!lifecycleVars, Replies

\* An open request ends: with its answer, or without one if it was cancelled.
LEMMA Ending ==
  ASSUME OnePlace, OnePlace', NEW r \in submitted \ terminal, NEW put \in Replied,
         put = <<>> => r \in cancelled,
         terminal' = terminal \cup {r}, events' = [events EXCEPT ![r] = put],
         UNCHANGED <<submitted, cancelled>>
  PROVE  Lifecycle!LifecycleNext
<1> DEFINE stage == [s \in Requests |-> CASE s \notin submitted -> "new"
                                          [] s \in terminal -> "over"
                                          [] OTHER -> "open"]
           reply == [s \in Requests |-> Replies(s)]
<1>1. r \in Requests /\ events \in [Requests -> Replied] /\ events[r] = <<>>
  BY DEF OnePlace, DispatcherTypeOK, HandlesAgree, Replied
<1>2. stage[r] = "open" /\ stage' = [stage EXCEPT ![r] = "over"]
  <2>1. stage[r] = "open"
    BY <1>1
  <2>2. \A s \in Requests : stage'[s] = IF s = r THEN "over" ELSE stage[s]
    BY <1>1
  <2>3. /\ stage' = [s \in Requests |-> stage'[s]]
        /\ stage = [s \in Requests |-> stage[s]]
    OBVIOUS
  <2> HIDE DEF stage
  <2>4. stage' = [stage EXCEPT ![r] = "over"]
    BY <1>1, <2>2, <2>3
  <2>5. QED BY <2>1, <2>4
<1>3. \A s \in Requests : s # r => Replies(s)' = Replies(s)
  BY <1>1 DEF Replies
<1>4. events'[r] = put
  BY <1>1
<1>5. CASE put = <<>>
  <2>1. Replies(r)' = Replies(r)
    BY <1>1, <1>4, <1>5 DEF Replies
  <2>2. reply' = reply
    BY <1>3, <2>1
  <2>3. Lifecycle!Drop(r)
    BY <1>2, <1>5, <2>2 DEF Lifecycle!Drop
  <2>4. QED BY <1>1, <2>3 DEF Lifecycle!LifecycleNext
<1>6. CASE put # <<>>
  <2>1. Replies(r)' \in {"final", "error"}
    BY <1>1, <1>4, <1>6 DEF Replies, Replied
  <2>2. PICK kind \in {"final", "error"} : Replies(r)' = kind
    BY <2>1
  <2>3. reply' = [reply EXCEPT ![r] = kind]
    BY <1>1, <1>3, <2>2
  <2>4. Lifecycle!Answer(r)
    BY <1>2, <2>3 DEF Lifecycle!Answer
  <2>5. QED BY <1>1, <2>4 DEF Lifecycle!LifecycleNext
<1>7. QED BY <1>5, <1>6

\* The request is concluded, with or without an event.
LEMMA Concluding ==
  ASSUME OnePlace, OnePlace', NEW r \in submitted \ terminal, NEW put \in Replied,
         put = <<>> => r \in cancelled, Conclude(r, put), UNCHANGED <<submitted, cancelled>>
  PROVE  Lifecycle!LifecycleNext
<1>1. terminal' = terminal \cup {r} /\ events' = [events EXCEPT ![r] = put]
  BY ConcludeFacts
<1>2. QED BY <1>1, Ending

\* A handle is marked terminal and nothing is put: its client cancelled it.
LEMMA Dropping ==
  ASSUME OnePlace, OnePlace', NEW r \in submitted, r \in cancelled,
         terminal' = terminal \cup {r}, UNCHANGED <<submitted, events, cancelled>>
  PROVE  [Lifecycle!LifecycleNext]_(Lifecycle!lifecycleVars)
<1>1. CASE r \in terminal
  <2>1. terminal' = terminal
    BY <1>1
  <2>2. QED BY <2>1, Invisible
<1>2. CASE r \notin terminal
  <2>1. r \in Requests /\ events \in [Requests -> Replied] /\ events[r] = <<>>
    BY <1>2 DEF OnePlace, DispatcherTypeOK, HandlesAgree, Replied
  <2>2. events' = [events EXCEPT ![r] = <<>>] /\ <<>> \in Replied
    BY <2>1 DEF Replied
  <2>3. QED BY <1>2, <2>2, Ending
<1>3. QED BY <1>1, <1>2

\* submit(): the server takes the request, or refuses it.
LEMMA SubmitOpens ==
  ASSUME NEW r \in Requests, OnePlace, OnePlace', Submit(r)
  PROVE  Lifecycle!LifecycleNext
<1> DEFINE stage == [s \in Requests |-> CASE s \notin submitted -> "new"
                                          [] s \in terminal -> "over"
                                          [] OTHER -> "open"]
           reply == [s \in Requests |-> Replies(s)]
<1>1. /\ r \notin submitted /\ r \notin terminal /\ events \in [Requests -> Replied]
      /\ events[r] = <<>> /\ terminal \subseteq submitted
  BY DEF Submit, OnePlace, DispatcherTypeOK, HandlesAgree, Replied
<1>2. submitted' = submitted \cup {r} /\ UNCHANGED cancelled
  BY DEF Submit
<1>3. /\ stage' = [s \in Requests |-> stage'[s]] /\ stage = [s \in Requests |-> stage[s]]
      /\ stage[r] = "new"
  BY <1>1
<1>4. CASE UNCHANGED <<terminal, events>>
  <2>1. \A s \in Requests : stage'[s] = IF s = r THEN "open" ELSE stage[s]
    BY <1>1, <1>2, <1>4
  <2>2. stage' = [stage EXCEPT ![r] = "open"]
    <3> HIDE DEF stage
    <3>1. QED BY <1>3, <2>1
  <2>3. reply' = reply
    BY <1>4 DEF Replies
  <2>4. Lifecycle!Open(r)
    BY <1>2, <1>3, <2>2, <2>3 DEF Lifecycle!Open
  <2>5. QED BY <2>4 DEF Lifecycle!LifecycleNext
<1>5. CASE /\ terminal' = terminal \cup {r}
           /\ events' = [events EXCEPT ![r] = Append(events[r], "error")]
  <2>1. \A s \in Requests : stage'[s] = IF s = r THEN "over" ELSE stage[s]
    BY <1>1, <1>2, <1>5
  <2>2. stage' = [stage EXCEPT ![r] = "over"]
    <3> HIDE DEF stage
    <3>1. QED BY <1>3, <2>1
  <2>3. events' = [events EXCEPT ![r] = <<"error">>]
    BY <1>1, <1>5, FirstEvent
  <2>4. Replies(r)' = "error" /\ \A s \in Requests : s # r => Replies(s)' = Replies(s)
    BY <1>1, <2>3 DEF Replies
  <2>5. reply' = [reply EXCEPT ![r] = "error"]
    BY <2>4
  <2>6. Lifecycle!Refuse(r)
    BY <1>2, <1>3, <2>2, <2>5 DEF Lifecycle!Refuse
  <2>7. QED BY <2>6 DEF Lifecycle!LifecycleNext
<1>6. QED BY <1>4, <1>5 DEF Submit

\* cancel() and discard() mark the handle.
LEMMA MarkUnwants ==
  ASSUME NEW r \in Requests, CancelMark(r) \/ DiscardMark(r)
  PROVE  Lifecycle!LifecycleNext
<1>1. /\ r \in submitted /\ cancelled' = cancelled \cup {r}
      /\ UNCHANGED <<submitted, terminal, events>>
  BY DEF CancelMark, DiscardMark
<1>2. Lifecycle!Unwant(r)
  BY <1>1 DEF Lifecycle!Unwant, Replies
<1>3. QED BY <1>2 DEF Lifecycle!LifecycleNext

\* _drain_aborts and _fail_pending_aborts: a cancel ends its own request only.
LEMMA AbortsDrop ==
  ASSUME OnePlace, OnePlace', AbortIgnored \/ AbortActive \/ FailAborts
  PROVE  [Lifecycle!LifecycleNext]_(Lifecycle!lifecycleVars)
<1> DEFINE a == Head(aborts)
<1>1. UNCHANGED <<submitted, cancelled, seqId>>
  BY DEF AbortIgnored, AbortActive, FailAborts
<1>2. ASSUME aborts # <<>>, aborts' = Tail(aborts)
      PROVE  a.req \in cancelled /\ a.req \in submitted /\ seqId[a.req] \in Requests
  BY <1>1, <1>2, TakenAbort
<1>3. CASE AbortIgnored
  <2>1. aborts # <<>> /\ aborts' = Tail(aborts) /\ UNCHANGED events
    BY <1>3 DEF AbortIgnored, TakeAbort
  <2>2. UNCHANGED terminal \/ terminal' = terminal \cup {a.req}
    BY <1>3 DEF AbortIgnored
  <2>3. QED BY <1>1, <1>2, <2>1, <2>2, Invisible, Dropping
<1>4. CASE AbortActive
  <2> DEFINE q == seqId[a.req]
  <2>1. /\ aborts # <<>> /\ aborts' = Tail(aborts) /\ ~Stale(a.req) /\ active[q] # None
        /\ Conclude(active[q], <<>>) \/ UNCHANGED <<terminal, events>>
    BY <1>4 DEF AbortActive, TakeAbort
  <2>2. active[q] = a.req /\ a.req \in cancelled /\ q \in Requests
    BY <1>2, <2>1 DEF Stale
  <2>3. active[q] \in submitted \ terminal
    BY <2>1, <2>2 DEF OnePlace, ActiveAgrees
  <2>4. <<>> \in Replied
    BY DEF Replied
  <2>5. QED BY <1>1, <2>1, <2>2, <2>3, <2>4, Invisible, Concluding
<1>5. CASE FailAborts
  <2>1. UNCHANGED events
    BY <1>5 DEF FailAborts
  <2>2. \/ UNCHANGED terminal
        \/ aborts # <<>> /\ aborts' = Tail(aborts) /\ terminal' = terminal \cup {a.req}
    BY <1>5 DEF FailAborts
  <2>3. QED BY <1>1, <1>2, <2>1, <2>2, Invisible, Dropping
<1>6. QED BY <1>3, <1>4, <1>5

\* _admit: what is not admitted is told, unless it was cancelled.
LEMMA AdmitEnds ==
  ASSUME OnePlace, OnePlace', AdmitCheck \/ AdmitRefused \/ AdmitCancelled \/ AdmitSetupFails
  PROVE  [Lifecycle!LifecycleNext]_(Lifecycle!lifecycleVars)
<1>1. UNCHANGED <<submitted, cancelled>> /\ pc \in {"admit", "admitting", "admitted"}
  BY DEF AdmitCheck, AdmitRefused, AdmitCancelled, AdmitSetupFails
<1>2. item \in submitted \ terminal
  BY <1>1 DEF OnePlace, ItemAgrees
<1>3. /\ item \in Requests /\ events \in [Requests -> Replied] /\ events[item] = <<>>
      /\ <<>> \in Replied /\ <<"error">> \in Replied
  BY <1>2 DEF OnePlace, DispatcherTypeOK, HandlesAgree, Replied
<1>4. CASE AdmitCheck
  <2>1. \/ UNCHANGED <<terminal, events>>
        \/ /\ terminal' = terminal \cup {item}
           /\ events' = [events EXCEPT ![item] = IF item \in cancelled THEN events[item]
                                                  ELSE Append(events[item], "error")]
    BY <1>4 DEF AdmitCheck
  <2>2. CASE UNCHANGED <<terminal, events>>
    BY <1>1, <2>2, Invisible
  <2>3. CASE /\ terminal' = terminal \cup {item} /\ item \in cancelled
             /\ events' = [events EXCEPT ![item] = <<>>]
    BY <1>1, <1>2, <1>3, <2>3, Ending
  <2>4. CASE /\ terminal' = terminal \cup {item}
             /\ events' = [events EXCEPT ![item] = <<"error">>]
    BY <1>1, <1>2, <1>3, <2>4, Ending
  <2>5. QED BY <1>3, <2>1, <2>2, <2>3, <2>4, FirstEvent
<1>5. CASE AdmitRefused \/ AdmitSetupFails
  <2>1. Conclude(item, <<"error">>)
    BY <1>5 DEF AdmitRefused, AdmitSetupFails
  <2>2. QED BY <1>1, <1>2, <1>3, <2>1, Concluding
<1>6. CASE AdmitCancelled
  BY <1>1, <1>2, <1>6, Dropping DEF AdmitCancelled
<1>7. QED BY <1>4, <1>5, <1>6

\* _publish_token_deltas, _publish_finished and _fail_active_requests.
LEMMA PublishAnswers ==
  ASSUME OnePlace, OnePlace', PublishDelta \/ PublishFinished \/ FailActive
  PROVE  [Lifecycle!LifecycleNext]_(Lifecycle!lifecycleVars)
<1>1. UNCHANGED <<submitted, cancelled>> /\ out \subseteq Requests /\ fin \subseteq Requests
  BY DEF PublishDelta, PublishFinished, FailActive, OnePlace, DispatcherTypeOK
<1>2. \/ UNCHANGED <<terminal, events>>
      \/ \E q \in Requests : /\ active[q] # None
                            /\ \/ Conclude(active[q], <<"final">>)
                               \/ Conclude(active[q], <<"error">>)
  BY <1>1 DEF PublishDelta, PublishFinished, FailActive
<1>3. <<"final">> \in Replied /\ <<"error">> \in Replied
      /\ <<"final">> # <<>> /\ <<"error">> # <<>>
  BY DEF Replied
<1>4. \A q \in Requests : active[q] # None => active[q] \in submitted \ terminal
  BY DEF OnePlace, ActiveAgrees
<1>5. QED BY <1>1, <1>2, <1>3, <1>4, Invisible, Concluding

\* _drain_queued_requests
LEMMA FailQueuedAnswers ==
  ASSUME OnePlace, OnePlace', FailQueued
  PROVE  [Lifecycle!LifecycleNext]_(Lifecycle!lifecycleVars)
<1> DEFINE h == Head(pending)
<1>1. /\ pending # <<>> /\ pending' = Tail(pending) /\ UNCHANGED <<submitted, cancelled>>
      /\ terminal' = terminal \cup {r \in Requests : r = h}
      /\ events' = [r \in Requests |-> IF r = h THEN Append(events[r], "error") ELSE events[r]]
  BY DEF FailQueued
<1>2. events \in [Requests -> Replied]
  BY DEF OnePlace, DispatcherTypeOK, Replied
<1>3. CASE h \notin Requests
  <2>1. UNCHANGED <<terminal, events>>
    BY <1>1, <1>2, <1>3
  <2>2. QED BY <1>1, <2>1, Invisible
<1>4. CASE h \in Requests
  <2>1. h \in submitted \ terminal
    BY <1>1, <1>4, TakenItem
  <2>2. events[h] = <<>>
    BY <1>4, <2>1 DEF OnePlace, HandlesAgree
  <2>3. events' = [events EXCEPT ![h] = <<"error">>] /\ terminal' = terminal \cup {h}
    BY <1>1, <1>2, <1>4, <2>2, FirstEvent
  <2>4. <<"error">> \in Replied /\ <<"error">> # <<>>
    BY DEF Replied
  <2>5. QED BY <1>1, <2>1, <2>3, <2>4, Ending
<1>5. QED BY <1>3, <1>4

\* Every step of either thread is a step of the client's view, or invisible.
LEMMA StepImplements ==
  ASSUME OnePlace, OnePlace', [DispatcherNext]_dispVars
  PROVE  [Lifecycle!LifecycleNext]_(Lifecycle!lifecycleVars)
<1>1. CASE \E r \in Requests : Submit(r) \/ CancelMark(r) \/ DiscardMark(r) \/ DiscardTimesOut(r)
  <2>1. PICK r \in Requests : Submit(r) \/ CancelMark(r) \/ DiscardMark(r) \/ DiscardTimesOut(r)
    BY <1>1
  <2>2. CASE DiscardTimesOut(r)
    BY <2>2, Invisible DEF DiscardTimesOut
  <2>3. QED BY <2>1, <2>2, SubmitOpens, MarkUnwants
<1>2. CASE (\E c \in Controls : Control(c)) \/ Close \/ LoopContinues
  <2>1. UNCHANGED <<submitted, terminal, events, cancelled>>
    BY <1>2 DEF Control, Close, LoopContinues, CancelEnqueue, DiscardEnqueue, Wake, CloseExit
  <2>2. QED BY <2>1, Invisible
<1>3. CASE EngineThread
  <2>1. CASE \/ DrainControl \/ ControlsDrained \/ AbortOver \/ AbortsDrained \/ Take \/ TakeMore
             \/ AdmitAccepted \/ AdmitActive \/ NothingActive \/ Step \/ StepRaises
             \/ PublishDeltaRaises \/ DeltasDone \/ PublishFinishedRaises \/ FinishedDone
             \/ MarkFailed \/ FailControls
    <3>1. UNCHANGED <<submitted, terminal, events, cancelled>>
      BY <2>1 DEF DrainControl, ControlsDrained, AbortOver, AbortsDrained, Take, TakeMore,
         AdmitAccepted, AdmitActive, NothingActive, Step, StepRaises, PublishDeltaRaises, DeltasDone,
         PublishFinishedRaises, FinishedDone, MarkFailed, FailControls
    <3>2. QED BY <3>1, Invisible
  <2>2. QED BY <1>3, <2>1, AbortsDrop, AdmitEnds, PublishAnswers, FailQueuedAnswers DEF EngineThread
<1>4. CASE UNCHANGED dispVars
  BY <1>4, Invisible DEF dispVars
<1>5. QED BY <1>1, <1>2, <1>3, <1>4 DEF DispatcherNext

\* Whatever the two threads interleave and whatever fails, a request of the
\* dispatcher is answered at most once, and dropped only by its own client.
THEOREM DispatcherImplementsLifecycle == DispatcherSpec => AnswersImplementLifecycle
<1>1. DispatcherInit => Lifecycle!LifecycleInit
  BY DEF DispatcherInit, Lifecycle!LifecycleInit, Replies
<1>2. QED BY <1>1, StepImplements, OpenInOnePlace, PTL
          DEF DispatcherSpec, AnswersImplementLifecycle, Lifecycle!LifecycleSpec

-----------------------------------------------------------------------------
(* No cancel is lost, the engine runs what the dispatcher publishes for,   *)
(* and a thread that is gone leaves nobody waiting.  DispatcherInv extends *)
(* OnePlace by one named part for each of these promises; each part is     *)
(* preserved by a lemma of its own, which takes the whole invariant before *)
(* the step and OnePlace after it.                                         *)

\* The close marker is not a wake-up.
LEMMA MarkersDiffer == Wakeup # Stop
<1>1. SUFFICES ASSUME Wakeup = Stop PROVE FALSE
  OBVIOUS
<1>2. {None, Wakeup, Stop} = {None} \cup {Stop}
  BY <1>1
<1>3. /\ IsFiniteSet({None}) /\ Cardinality({None}) = 1
      /\ Cardinality({None} \cup {Stop}) \in {Cardinality({None}), Cardinality({None}) + 1}
  BY FS_Singleton, FS_AddElement
<1>4. QED BY <1>2, <1>3

\* popleft, by element
LEMMA TailElements ==
  ASSUME NEW S, NEW q \in Seq(S), q # <<>>
  PROVE  \A x : (\E i \in DOMAIN q : q[i] = x)
                  <=> (x = Head(q) \/ \E i \in DOMAIN Tail(q) : Tail(q)[i] = x)
<1>1. /\ 1 \in DOMAIN q /\ Head(q) = q[1]
      /\ \A i \in DOMAIN Tail(q) : i \in Nat \ {0} /\ i + 1 \in DOMAIN q /\ Tail(q)[i] = q[i + 1]
  BY TailPositions
<1>2. \A i \in DOMAIN q : i = 1 \/ (i - 1 \in DOMAIN Tail(q) /\ Tail(q)[i - 1] = q[i])
  OBVIOUS
<1>3. QED BY <1>1, <1>2

\* append, by element
LEMMA AppendElements ==
  ASSUME NEW S, NEW q \in Seq(S), NEW s \in S
  PROVE  \A x : (\E i \in DOMAIN Append(q, s) : Append(q, s)[i] = x)
                  <=> (x = s \/ \E i \in DOMAIN q : q[i] = x)
<1>1. /\ DOMAIN Append(q, s) = DOMAIN q \cup {Len(q) + 1}
      /\ \A i \in DOMAIN q : Append(q, s)[i] = q[i]
      /\ Append(q, s)[Len(q) + 1] = s /\ Len(q) + 1 \notin DOMAIN q
  BY AppendPositions
<1>2. QED BY <1>1

\* What a put and a get do to the elements of the submission queue.
LEMMA QueueElements ==
  ASSUME OnePlace
  PROVE  /\ \A s \in QueueItem : pending' = Append(pending, s) =>
              \A x : Queued(x)' <=> x = s \/ Queued(x)
         /\ pending # <<>> /\ pending' = Tail(pending) =>
              \A x : Queued(x) <=> x = Head(pending) \/ Queued(x)'
         /\ pending # <<>> => Head(pending) \in QueueItem
         /\ pending = <<>> => \A x : ~Queued(x)
<1>1. pending \in Seq(QueueItem)
  BY DEF OnePlace, DispatcherTypeOK, QueueItem
<1>2. ASSUME NEW s \in QueueItem, pending' = Append(pending, s)
      PROVE  \A x : Queued(x)' <=> x = s \/ Queued(x)
  BY <1>1, <1>2, AppendElements DEF Queued
<1>3. ASSUME pending # <<>>, pending' = Tail(pending)
      PROVE  \A x : Queued(x) <=> x = Head(pending) \/ Queued(x)'
  <2>1. \A x : (\E i \in DOMAIN pending : pending[i] = x)
                 <=> (x = Head(pending) \/ \E i \in DOMAIN Tail(pending) : Tail(pending)[i] = x)
    BY <1>1, <1>3, TailElements, ZenonT(60)
  <2>2. QED BY <1>3, <2>1 DEF Queued
<1>4. pending # <<>> => Head(pending) \in QueueItem
  BY <1>1, TailPositions
<1>5. pending = <<>> => \A x : ~Queued(x)
  BY DEF Queued
<1>6. QED BY <1>2, <1>3, <1>4, <1>5

-----------------------------------------------------------------------------
(* ThreadAgrees *)

\* A step within the loop, which may find a failure but takes nothing from the
\* submission queue.
LEMMA RoundSteps ==
  ASSUME ThreadAgrees, pc \in Running, pc' \in Running \cup {"failing"},
         UNCHANGED <<pending, stopping, closing, failed>>, pc' = "failing" \/ UNCHANGED lost
  PROVE  ThreadAgrees'
BY DEF ThreadAgrees, Running, Queued

\* Every step keeps the thread's flags in line with the place it is at.
LEMMA ThreadStep == ASSUME DispatcherInv, DispatcherNext PROVE ThreadAgrees'
<1> DEFINE Round == /\ pc \in Running /\ pc' \in Running \cup {"failing"}
                    /\ UNCHANGED <<pending, stopping, closing, failed>>
                    /\ pc' = "failing" \/ UNCHANGED lost
           Still == UNCHANGED <<pending, stopping, closing, failed, lost, pc, controls>>
<1>1. OnePlace /\ DispatcherTypeOK /\ ThreadAgrees
  BY DEF DispatcherInv, OnePlace
<1>2. Round => ThreadAgrees'
  BY <1>1, RoundSteps
<1>3. Still => ThreadAgrees'
  BY <1>1 DEF ThreadAgrees, Queued
<1>4. ASSUME NEW r \in Requests, CancelMark(r) \/ DiscardMark(r) \/ DiscardTimesOut(r) PROVE Still
  BY <1>4 DEF CancelMark, DiscardMark, DiscardTimesOut
<1>5. CASE CancelEnqueue \/ DiscardEnqueue \/ CloseExit
  BY <1>3, <1>5 DEF CancelEnqueue, DiscardEnqueue, CloseExit
<1>6. CASE AbortIgnored \/ AbortOver \/ PublishDelta \/ PublishFinished
  BY <1>3, <1>6 DEF AbortIgnored, AbortOver, PublishDelta, PublishFinished
<1>7. ASSUME NEW r \in Requests, Submit(r) PROVE ThreadAgrees'
  <2>1. CASE Unavailable
    BY <1>3, <1>7, <2>1 DEF Submit
  <2>2. CASE ~Unavailable
    <3>1. \A x : Queued(x)' <=> x = r \/ Queued(x)
      BY <1>1, <1>7, <2>2, QueueElements DEF Submit, QueueItem
    <3>2. r # Stop /\ ~failed /\ ~closing
      BY <2>2 DEF Unavailable
    <3>3. QED BY <1>1, <1>7, <2>2, <3>1, <3>2 DEF Submit, ThreadAgrees, Unavailable
  <2>3. QED BY <2>1, <2>2
<1>8. ASSUME NEW c \in Controls, Control(c) PROVE ThreadAgrees'
  <2>1. UNCHANGED <<pending, stopping, closing, failed, lost, pc>>
        /\ (UNCHANGED controls \/ ~Unavailable)
    BY <1>8 DEF Control
  <2>2. QED BY <1>1, <2>1 DEF ThreadAgrees, Unavailable, Queued
<1>9. CASE Wake
  <2>1. \A x : Queued(x)' <=> x = Wakeup \/ Queued(x)
    BY <1>1, <1>9, QueueElements DEF Wake, QueueItem
  <2>2. Wakeup # Stop /\ Wakeup \notin Requests
    BY MarkersDiffer
  <2>3. QED BY <1>1, <1>9, <2>1, <2>2 DEF Wake, ThreadAgrees
<1>10. CASE Close
  <2>1. \A x : Queued(x)' <=> x = Stop \/ Queued(x)
    BY <1>1, <1>10, QueueElements DEF Close, QueueItem
  <2>2. Stop \notin Requests
    OBVIOUS
  <2>3. QED BY <1>1, <1>10, <2>1, <2>2 DEF Close, ThreadAgrees
<1>11. CASE DrainControl \/ ControlsDrained \/ AbortsDrained
  BY <1>2, <1>11 DEF DrainControl, ControlsDrained, AbortsDrained, Running
<1>12. CASE AbortActive
  BY <1>2, <1>12 DEF AbortActive, TakeAbort, Running
<1>13. CASE Take
  <2>1. CASE UNCHANGED pending
    BY <1>2, <1>13, <2>1, QueueElements DEF Take, Running
  <2>2. CASE pending # <<>> /\ pending' = Tail(pending)
    BY <1>1, <1>13, <2>2, QueueElements DEF Take, ThreadAgrees, Running
  <2>3. QED BY <1>13, <2>1, <2>2 DEF Take
<1>14. CASE TakeMore
  <2>1. CASE UNCHANGED <<pending, stopping>>
    BY <1>2, <1>14, <2>1 DEF TakeMore, Running
  <2>2. CASE pending # <<>> /\ pending' = Tail(pending) /\ stopping' = (stopping \/ Head(pending) = Stop)
    BY <1>1, <1>14, <2>2, QueueElements DEF TakeMore, ThreadAgrees, Running
  <2>3. QED BY <1>14, <2>1, <2>2 DEF TakeMore
<1>15. CASE AdmitCheck \/ AdmitAccepted \/ AdmitRefused
  BY <1>2, <1>15 DEF AdmitCheck, AdmitAccepted, AdmitRefused, Running
<1>16. CASE AdmitCancelled \/ AdmitActive \/ AdmitSetupFails
  BY <1>2, <1>16 DEF AdmitCancelled, AdmitActive, AdmitSetupFails, Running
<1>17. CASE Step \/ StepRaises
  BY <1>2, <1>17 DEF Step, StepRaises, Running
<1>18. CASE PublishDeltaRaises \/ DeltasDone \/ PublishFinishedRaises
  BY <1>2, <1>18 DEF PublishDeltaRaises, DeltasDone, PublishFinishedRaises, Running
<1>19. CASE NothingActive \/ FinishedDone
  <2>1. UNCHANGED <<pending, stopping, closing, failed, lost, controls>> /\ pc \in Running
        /\ pc' = (IF stopping THEN "fail_active" ELSE "controls")
    BY <1>19 DEF NothingActive, FinishedDone, NextRound, Running
  <2>2. QED BY <1>1, <2>1 DEF ThreadAgrees, Running, Queued
<1>20. CASE MarkFailed
  BY <1>1, <1>20 DEF MarkFailed, ThreadAgrees, Running, Queued
<1>21. CASE FailActive
  <2>1. UNCHANGED <<pending, stopping, closing, failed, lost, controls>>
        /\ pc = "fail_active" /\ pc' \in {"fail_active", "fail_queued"}
    BY <1>21 DEF FailActive
  <2>2. QED BY <1>1, <2>1 DEF ThreadAgrees, Running, Queued
<1>22. CASE FailQueued
  <2>1. UNCHANGED <<stopping, closing, failed, lost, controls, pc>> /\ pc = "fail_queued"
        /\ pending # <<>> /\ pending' = Tail(pending)
    BY <1>22 DEF FailQueued
  <2>2. QED BY <1>1, <2>1, QueueElements DEF ThreadAgrees
<1>23. CASE FailControls
  <2>1. \A x : ~Queued(x)
    BY <1>1, <1>23, QueueElements DEF FailControls
  <2>2. QED BY <1>1, <1>23, <2>1 DEF FailControls, ThreadAgrees, Running, Queued
<1>24. CASE FailAborts
  <2>1. UNCHANGED <<pending, stopping, closing, failed, lost, controls>>
        /\ pc = "fail_aborts" /\ pc' \in {"fail_aborts", "dead"}
    BY <1>24 DEF FailAborts
  <2>2. QED BY <1>1, <2>1 DEF ThreadAgrees, Running, Queued
<1>25. QED BY <1>3, <1>4, <1>5, <1>6, <1>7, <1>8, <1>9, <1>10, <1>11, <1>12, <1>13, <1>14, <1>15,
              <1>16, <1>17, <1>18, <1>19, <1>20, <1>21, <1>22, <1>23, <1>24
           DEF DispatcherNext, LoopContinues, EngineThread

-----------------------------------------------------------------------------
(* WaitersQueued *)

\* What a put and a get do to the elements of the abort queue.
LEMMA AbortElements ==
  ASSUME OnePlace
  PROVE  /\ \A a \in AbortItem : aborts' = Append(aborts, a) =>
              \A r : /\ Aborting(r)' <=> a.req = r \/ Aborting(r)
                     /\ Forced(r)' <=> (a.req = r /\ a.force) \/ Forced(r)
         /\ aborts # <<>> /\ aborts' = Tail(aborts) =>
              \A r : /\ Aborting(r) <=> Head(aborts).req = r \/ Aborting(r)'
                     /\ Forced(r) <=> (Head(aborts).req = r /\ Head(aborts).force) \/ Forced(r)'
         /\ aborts = <<>> => \A r : ~Forced(r)
<1>1. aborts \in Seq(AbortItem)
  BY DEF OnePlace, DispatcherTypeOK, AbortItem
<1>2. ASSUME NEW a \in AbortItem, aborts' = Append(aborts, a)
      PROVE  \A r : /\ Aborting(r)' <=> a.req = r \/ Aborting(r)
                    /\ Forced(r)' <=> (a.req = r /\ a.force) \/ Forced(r)
  <2>1. /\ DOMAIN aborts' = DOMAIN aborts \cup {Len(aborts) + 1}
        /\ \A i \in DOMAIN aborts : aborts'[i] = aborts[i]
        /\ aborts'[Len(aborts) + 1] = a
    BY <1>1, <1>2, AppendPositions
  <2>2. QED BY <2>1 DEF Aborting, Forced
<1>3. ASSUME aborts # <<>>, aborts' = Tail(aborts)
      PROVE  \A r : /\ Aborting(r) <=> Head(aborts).req = r \/ Aborting(r)'
                    /\ Forced(r) <=> (Head(aborts).req = r /\ Head(aborts).force) \/ Forced(r)'
  <2>1. /\ 1 \in DOMAIN aborts /\ Head(aborts) = aborts[1]
        /\ \A i \in DOMAIN aborts' : i + 1 \in DOMAIN aborts /\ aborts'[i] = aborts[i + 1]
        /\ \A i \in DOMAIN aborts : i = 1 \/ (i - 1 \in DOMAIN aborts' /\ aborts'[i - 1] = aborts[i])
    BY <1>1, <1>3, TailPositions
  <2>2. QED BY <2>1 DEF Aborting, Forced
<1>4. aborts = <<>> => \A r : ~Forced(r)
  BY DEF Forced
<1>5. QED BY <1>2, <1>3, <1>4

\* The head of the abort queue is taken, and the caller of discard() told.
LEMMA TakenAnswers ==
  ASSUME OnePlace, WaitersQueued, aborts # <<>>, aborts' = Tail(aborts),
         Resolve(Head(aborts)) \/ (~Head(aborts).force /\ UNCHANGED discards)
  PROVE  \A r \in Requests : discards'[r] = "waiting" => Forced(r)'
<1> DEFINE a == Head(aborts)
<1>1. a \in AbortItem /\ discards \in [Requests -> {"none", "waiting", "over"}]
  BY TailPositions DEF OnePlace, DispatcherTypeOK, AbortItem
<1>2. SUFFICES ASSUME NEW r \in Requests, discards'[r] = "waiting" PROVE Forced(r)'
  OBVIOUS
<1>3. discards[r] = "waiting" /\ ~(a.req = r /\ a.force)
  BY <1>1, <1>2 DEF Resolve, AbortItem
<1>4. QED BY <1>3, AbortElements DEF WaitersQueued

\* Every step keeps whoever waits for the thread in the queue it will answer.
LEMMA WaitersStep == ASSUME DispatcherInv, DispatcherNext PROVE WaitersQueued'
<1> DEFINE Still == /\ UNCHANGED <<discards, calls, aborts, controls>>
                    /\ pc' = "dead" => pc = "dead"
<1>1. OnePlace /\ DispatcherTypeOK /\ ThreadAgrees /\ WaitersQueued
  BY DEF DispatcherInv, OnePlace
<1>2. Still => WaitersQueued'
  BY <1>1 DEF WaitersQueued, Forced
<1>3. /\ discards \in [Requests -> {"none", "waiting", "over"}]
      /\ calls \in [Controls -> {"none", "waiting", "over"}]
      /\ controls \in Seq(Controls)
  BY <1>1 DEF DispatcherTypeOK
<1>4. ASSUME NEW r \in Requests, Submit(r) \/ CancelMark(r) \/ DiscardMark(r) PROVE Still
  BY <1>4 DEF Submit, CancelMark, DiscardMark
<1>5. ASSUME NEW r \in Requests, DiscardTimesOut(r) PROVE WaitersQueued'
  BY <1>1, <1>3, <1>5 DEF DiscardTimesOut, WaitersQueued, Forced
<1>6. CASE Wake \/ Close \/ CloseExit
  BY <1>2, <1>6 DEF Wake, Close, CloseExit
<1>7. CASE CancelEnqueue
  <2>1. CASE UNCHANGED aborts
    BY <1>2, <1>7, <2>1 DEF CancelEnqueue
  <2>2. CASE aborts' = Append(aborts, Abort(loop.req, FALSE)) /\ seqId[loop.req] # None
    <3>1. loop.req \in Requests
      <4>1. loop.op = "cancel" /\ HandlesAgree
        BY <1>1, <1>7 DEF CancelEnqueue, OnePlace
      <4>2. QED BY <1>1, <4>1 DEF HandlesAgree, DispatcherTypeOK
    <3>2. Abort(loop.req, FALSE) \in AbortItem /\ ~Abort(loop.req, FALSE).force
      BY <3>1 DEF Abort, AbortItem
    <3>3. \A r : Forced(r)' <=> Forced(r)
      BY <1>1, <2>2, <3>2, AbortElements
    <3>4. UNCHANGED <<discards, calls, controls, pc>>
      BY <1>7 DEF CancelEnqueue
    <3>5. QED BY <1>1, <3>3, <3>4 DEF WaitersQueued
  <2>3. QED BY <1>7, <2>1, <2>2 DEF CancelEnqueue
<1>8. CASE DiscardEnqueue
  <2>1. loop.req \in Requests
    <3>1. loop.op = "discard" /\ HandlesAgree
      BY <1>1, <1>8 DEF DiscardEnqueue, OnePlace
    <3>2. QED BY <1>1, <3>1 DEF HandlesAgree, DispatcherTypeOK
  <2>2. UNCHANGED <<calls, controls, pc>>
    BY <1>8 DEF DiscardEnqueue
  <2>3. CASE discards' = [discards EXCEPT ![loop.req] = "over"] /\ UNCHANGED aborts
    BY <1>1, <1>3, <2>1, <2>2, <2>3 DEF WaitersQueued, Forced
  <2>4. CASE /\ discards' = [discards EXCEPT ![loop.req] = "waiting"] /\ ~Unavailable
             /\ aborts' = Append(aborts, Abort(loop.req, TRUE))
    <3>1. Abort(loop.req, TRUE) \in AbortItem /\ Abort(loop.req, TRUE).req = loop.req
          /\ Abort(loop.req, TRUE).force
      BY <2>1 DEF Abort, AbortItem
    <3>2. \A r : Forced(r)' <=> loop.req = r \/ Forced(r)
      BY <1>1, <2>4, <3>1, AbortElements
    <3>3. QED BY <1>1, <1>3, <2>1, <2>2, <2>4, <3>2 DEF WaitersQueued, Unavailable
  <2>5. QED BY <1>8, <2>3, <2>4 DEF DiscardEnqueue
<1>9. ASSUME NEW c \in Controls, Control(c) PROVE WaitersQueued'
  <2>1. UNCHANGED <<discards, aborts, pc>>
    BY <1>9 DEF Control
  <2>2. CASE calls' = [calls EXCEPT ![c] = "over"] /\ UNCHANGED controls
    BY <1>1, <1>3, <2>1, <2>2 DEF WaitersQueued, Forced
  <2>3. CASE calls' = [calls EXCEPT ![c] = "waiting"] /\ controls' = Append(controls, c)
    <3>1. \A x : (\E i \in DOMAIN controls' : controls'[i] = x)
                   <=> (x = c \/ \E i \in DOMAIN controls : controls[i] = x)
      <4>1. /\ DOMAIN controls' = DOMAIN controls \cup {Len(controls) + 1}
            /\ \A i \in DOMAIN controls : controls'[i] = controls[i]
            /\ controls'[Len(controls) + 1] = c
        BY <1>3, <1>9, <2>3, AppendPositions
      <4>2. QED BY <4>1
    <3>2. QED BY <1>1, <1>3, <2>1, <2>3, <3>1 DEF WaitersQueued, Forced
  <2>4. QED BY <1>9, <2>2, <2>3 DEF Control
<1>10. CASE DrainControl
  <2>1. /\ controls # <<>> /\ controls' = Tail(controls) /\ UNCHANGED <<discards, aborts>>
        /\ calls' = [calls EXCEPT ![Head(controls)] = "over"] /\ pc' # "dead"
    BY <1>10 DEF DrainControl
  <2>2. \A x : (\E i \in DOMAIN controls : controls[i] = x)
                 <=> (x = Head(controls) \/ \E i \in DOMAIN controls' : controls'[i] = x)
    <3>1. \A x : (\E i \in DOMAIN controls : controls[i] = x)
                   <=> (x = Head(controls)
                        \/ \E i \in DOMAIN Tail(controls) : Tail(controls)[i] = x)
      <4>1. controls \in Seq(Controls) /\ controls # <<>>
        BY <1>3, <2>1
      <4>2. QED BY <4>1, TailElements
    <3>2. QED BY <2>1, <3>1
  <2>3. Head(controls) \in Controls
    BY <1>3, <2>1, TailPositions
  <2>4. QED BY <1>1, <1>3, <2>1, <2>2, <2>3 DEF WaitersQueued, Forced
<1>11. CASE AbortIgnored \/ AbortActive \/ AbortOver
  <2>1. /\ aborts # <<>> /\ aborts' = Tail(aborts) /\ UNCHANGED <<calls, controls>> /\ pc' # "dead"
        /\ Resolve(Head(aborts)) \/ (~Head(aborts).force /\ UNCHANGED discards)
    BY <1>11 DEF AbortIgnored, AbortActive, AbortOver, TakeAbort
  <2>2. QED BY <1>1, <2>1, TakenAnswers DEF WaitersQueued
<1>12. CASE ControlsDrained \/ AbortsDrained
  BY <1>2, <1>12 DEF ControlsDrained, AbortsDrained
<1>13. CASE Take
  <2>1. UNCHANGED <<discards, calls, aborts, controls>>
    BY <1>13 DEF Take
  <2>2. pc' # "dead"
    BY <1>13 DEF Take
  <2>3. QED BY <1>2, <2>1, <2>2
<1>14. CASE TakeMore
  BY <1>2, <1>14 DEF TakeMore
<1>15. CASE AdmitCheck \/ AdmitAccepted \/ AdmitRefused
  BY <1>2, <1>15 DEF AdmitCheck, AdmitAccepted, AdmitRefused
<1>16. CASE AdmitCancelled \/ AdmitActive \/ AdmitSetupFails
  BY <1>2, <1>16 DEF AdmitCancelled, AdmitActive, AdmitSetupFails
<1>17. CASE NothingActive \/ FinishedDone
  BY <1>2, <1>17 DEF NothingActive, FinishedDone, NextRound
<1>18. CASE Step \/ StepRaises
  BY <1>2, <1>18 DEF Step, StepRaises
<1>19. CASE PublishDelta \/ PublishDeltaRaises \/ DeltasDone
  BY <1>2, <1>19 DEF PublishDelta, PublishDeltaRaises, DeltasDone
<1>20. CASE PublishFinished \/ PublishFinishedRaises
  BY <1>2, <1>20 DEF PublishFinished, PublishFinishedRaises
<1>21. CASE MarkFailed \/ FailActive \/ FailQueued
  BY <1>2, <1>21 DEF MarkFailed, FailActive, FailQueued
<1>22. CASE FailControls
  <2>1. /\ UNCHANGED <<discards, aborts>> /\ pc' # "dead"
        /\ calls' = [c \in Controls |->
                       IF \E i \in DOMAIN controls : controls[i] = c THEN "over" ELSE calls[c]]
    BY <1>22 DEF FailControls
  <2>2. \A c \in Controls : calls'[c] # "waiting"
    BY <1>1, <2>1 DEF WaitersQueued
  <2>3. QED BY <1>1, <2>1, <2>2 DEF WaitersQueued, Forced
<1>23. CASE FailAborts
  <2>1. UNCHANGED <<calls, controls>>
    BY <1>23 DEF FailAborts
  <2>2. CASE aborts # <<>> /\ aborts' = Tail(aborts) /\ Resolve(Head(aborts)) /\ UNCHANGED pc
    BY <1>1, <1>23, <2>1, <2>2, TakenAnswers DEF FailAborts, WaitersQueued
  <2>3. CASE aborts = <<>> /\ UNCHANGED <<aborts, discards>>
    <3>1. \A r : ~Forced(r) /\ ~Forced(r)'
      BY <2>3 DEF Forced
    <3>2. QED BY <1>1, <2>1, <2>3, <3>1 DEF WaitersQueued
  <2>4. QED BY <1>23, <2>2, <2>3 DEF FailAborts
<1>24. QED BY <1>2, <1>4, <1>5, <1>6, <1>7, <1>8, <1>9, <1>10, <1>11, <1>12, <1>13, <1>14, <1>15,
              <1>16, <1>17, <1>18, <1>19, <1>20, <1>21, <1>22, <1>23
           DEF DispatcherNext, LoopContinues, EngineThread

-----------------------------------------------------------------------------
(* NobodyForgotten *)

Admits == {"admit", "admitting", "admitted"}

\* An abort that is taken finds its request over, or active and not stale.
LEMMA AbortFindsRequest ==
  ASSUME DispatcherInv, pc = "aborts", aborts # <<>>
  PROVE  LET r == Head(aborts).req IN
         /\ r \in cancelled /\ r \in Requests /\ seqId[r] \in Requests
         /\ r \in terminal \/ (active[seqId[r]] = r /\ ~Stale(r))
         /\ \A i \in DOMAIN aborts : LET s == aborts[i].req IN s \in terminal \/ active[seqId[s]] = s
<1>1. OnePlace /\ ThreadAgrees /\ NobodyForgotten
  BY DEF DispatcherInv
<1>2. DispatcherTypeOK /\ HandlesAgree /\ QueueAgrees /\ ActiveAgrees
  BY <1>1 DEF OnePlace
<1>3. lost = {}
  BY <1>1 DEF ThreadAgrees, Running
<1>4. \A i \in DOMAIN aborts : aborts[i].req \in cancelled /\ seqId[aborts[i].req] # None
  BY <1>2 DEF HandlesAgree
<1>5. \A s \in cancelled : seqId[s] # None => s \in terminal \/ active[seqId[s]] = s
  BY <1>1, <1>2, <1>3
  DEF NobodyForgotten, HandlesAgree, QueueAgrees, Queued, Admitting, Active, DispatcherTypeOK
<1>6. 1 \in DOMAIN aborts /\ Head(aborts) = aborts[1]
  BY <1>2, TailPositions DEF DispatcherTypeOK
<1> DEFINE r == Head(aborts).req
<1>7. r \in cancelled /\ r \in Requests /\ seqId[r] \in Requests
  BY <1>2, <1>4, <1>6 DEF DispatcherTypeOK
<1>8. active[seqId[r]] = r => ~Stale(r)
  BY <1>2, <1>7 DEF Stale, ActiveAgrees
<1>9. QED BY <1>4, <1>5, <1>6, <1>7, <1>8

\* An active request ends: it is told, or its client cancelled it.
LEMMA EndedTold ==
  ASSUME OnePlace, NobodyForgotten, NEW q \in Requests, active[q] # None, NEW put \in Replied,
         put # <<>> \/ active[q] \in cancelled, Unpublish(q), Conclude(active[q], put),
         UNCHANGED <<submitted, cancelled, seqId, pending, admission, lost>>,
         pc \notin Admits
  PROVE  NobodyForgotten'
<1> DEFINE r == active[q]
<1>1. DispatcherTypeOK /\ ActiveAgrees
  BY DEF OnePlace
<1>2. r \in submitted \ terminal /\ seqId[r] = q /\ r \in Requests
  BY <1>1 DEF ActiveAgrees, DispatcherTypeOK
<1>3. terminal' = terminal \cup {r} /\ events' = [events EXCEPT ![r] = put]
      /\ events \in [Requests -> Replied]
  <2>1. terminal' = terminal \cup {r} /\ events' = [events EXCEPT ![r] = put]
    BY <1>2, ConcludeFacts
  <2>2. events \in [Requests -> Replied]
    BY <1>1 DEF DispatcherTypeOK, Replied
  <2>3. QED BY <2>1, <2>2
<1>4. active' = [active EXCEPT ![q] = None] /\ active \in [Requests -> Requests \cup {None}]
      /\ seqId \in [Requests -> Requests \cup {None}]
  BY <1>1 DEF Unpublish, DispatcherTypeOK
<1>5. \A s \in submitted \ (terminal' \cup lost) : Queued(s)' \/ Active(s)'
  <2>1. SUFFICES ASSUME NEW s \in submitted \ (terminal' \cup lost), ~Queued(s) PROVE Active(s)'
    BY DEF Queued
  <2>2. s # r /\ Active(s) /\ s \in Requests
    BY <1>1, <1>3, <2>1 DEF NobodyForgotten, Admitting, Admits, DispatcherTypeOK
  <2>3. seqId[s] # q /\ seqId[s] \in Requests
    BY <1>4, <2>2 DEF Active
  <2>4. QED BY <1>4, <2>2, <2>3 DEF Active
<1>6. \A s \in terminal' \ lost : Told(s)'
  <2>1. ASSUME NEW s, s = r PROVE Told(s)'
    <3>1. events'[s] = put /\ admission'[s] # "pending"
      BY <1>2, <1>3, <2>1 DEF NobodyForgotten
    <3>2. QED BY <2>1, <3>1 DEF Told
  <2>2. \A s \in terminal : Told(s) => Told(s)'
    BY <1>1, <1>2, <1>3 DEF Told, DispatcherTypeOK
  <2>3. QED BY <1>3, <2>1, <2>2 DEF NobodyForgotten
<1>7. \A p \in Requests : active'[p] # None => admission'[active'[p]] # "pending"
  BY <1>4 DEF NobodyForgotten
<1>8. QED BY <1>5, <1>6, <1>7 DEF NobodyForgotten

\* The request being admitted ends: its admission is resolved and it is told,
\* or its client cancelled it.
LEMMA ItemTold ==
  ASSUME OnePlace, NobodyForgotten, pc \in Admits, NEW put \in Replied,
         put # <<>> \/ item \in cancelled,
         terminal' = terminal \cup {item}, events' = [events EXCEPT ![item] = put],
         admission' = [admission EXCEPT ![item] = "error"],
         UNCHANGED <<submitted, cancelled, seqId, pending, active, lost>>
  PROVE  NobodyForgotten'
<1>1. DispatcherTypeOK /\ ItemAgrees
  BY DEF OnePlace
<1>2. item \in submitted \ terminal /\ item \in Requests /\ \A q \in Requests : active[q] # item
  BY <1>1 DEF ItemAgrees, DispatcherTypeOK, Admits
<1>3. \A s \in submitted \ (terminal' \cup lost) : Queued(s)' \/ Active(s)'
  BY DEF NobodyForgotten, Queued, Active, Admitting
<1>4. \A s \in terminal' \ lost : Told(s)'
  <2>1. ASSUME NEW s, s = item PROVE Told(s)'
    <3>1. events'[s] = put /\ admission'[s] = "error"
      BY <1>1, <1>2, <2>1 DEF DispatcherTypeOK
    <3>2. QED BY <2>1, <3>1 DEF Told
  <2>2. \A s \in terminal : Told(s) => Told(s)'
    BY <1>1, <1>2 DEF Told, DispatcherTypeOK
  <2>3. QED BY <2>1, <2>2 DEF NobodyForgotten
<1>5. \A q \in Requests : active'[q] # None => admission'[active'[q]] # "pending"
  BY <1>1, <1>2 DEF NobodyForgotten, DispatcherTypeOK
<1>6. QED BY <1>3, <1>4, <1>5 DEF NobodyForgotten

\* A step that ends and admits no request.
LEMMA NobodyMoved ==
  ASSUME NobodyForgotten, cancelled \subseteq cancelled',
         UNCHANGED <<submitted, terminal, lost, seqId, active, admission, events>>,
         \A r \in Requests : Queued(r) => Queued(r)', submitted \subseteq Requests,
         pc \notin Admits \/ UNCHANGED <<pc, item>>
  PROVE  NobodyForgotten'
<1>1. \A r \in submitted : Queued(r) \/ Admitting(r) \/ Active(r)
                             => Queued(r)' \/ Admitting(r)' \/ Active(r)'
  BY DEF Admitting, Active, Admits
<1>2. \A r : Told(r) => Told(r)'
  BY DEF Told
<1>3. QED BY <1>1, <1>2 DEF NobodyForgotten

\* Every step leaves a submitted request in some place from which it is answered.
LEMMA ForgottenStep == ASSUME DispatcherInv, DispatcherNext PROVE NobodyForgotten'
<1> DEFINE Quiet1 == /\ cancelled \subseteq cancelled'
                     /\ UNCHANGED <<submitted, terminal, lost, seqId, active, admission, events>>
                     /\ pc \notin Admits \/ UNCHANGED <<pc, item>>
<1>1. OnePlace /\ ThreadAgrees /\ NobodyForgotten /\ EngineHolds
  BY DEF DispatcherInv
<1>2. DispatcherTypeOK /\ HandlesAgree /\ QueueAgrees /\ ItemAgrees /\ ActiveAgrees
  BY <1>1 DEF OnePlace
<1>3. Quiet1 /\ (\A r \in Requests : Queued(r) => Queued(r)') => NobodyForgotten'
  BY <1>1, <1>2, NobodyMoved DEF DispatcherTypeOK
<1>4. Quiet1 /\ UNCHANGED pending => NobodyForgotten'
  BY <1>3 DEF Queued
<1>5. /\ terminal \subseteq Requests /\ submitted \subseteq Requests
      /\ events \in [Requests -> Replied] /\ admission \in [Requests -> {"pending", "ok", "error"}]
      /\ active \in [Requests -> Requests \cup {None}] /\ seqId \in [Requests -> Requests \cup {None}]
  BY <1>2 DEF DispatcherTypeOK, Replied
<1>6. ASSUME NEW r \in Requests, CancelMark(r) \/ DiscardMark(r) \/ DiscardTimesOut(r)
      PROVE  NobodyForgotten'
  BY <1>4, <1>6 DEF CancelMark, DiscardMark, DiscardTimesOut
<1>7. CASE CancelEnqueue \/ DiscardEnqueue \/ CloseExit
  BY <1>4, <1>7 DEF CancelEnqueue, DiscardEnqueue, CloseExit
<1>8. ASSUME NEW c \in Controls, Control(c) PROVE NobodyForgotten'
  BY <1>4, <1>8 DEF Control
<1>9. ASSUME NEW r \in Requests, Submit(r) PROVE NobodyForgotten'
  <2>1. r \notin submitted /\ r \notin terminal /\ events[r] = <<>> /\ submitted' = submitted \cup {r}
        /\ UNCHANGED <<cancelled, seqId, active, pc, item, lost>>
    BY <1>2, <1>9 DEF Submit, HandlesAgree
  <2>2. CASE Unavailable
    <3>1. /\ terminal' = terminal \cup {r} /\ UNCHANGED pending
          /\ events' = [events EXCEPT ![r] = <<"error">>]
          /\ admission' = [admission EXCEPT ![r] = "error"]
      BY <1>9, <2>1, <2>2, FirstEvent DEF Submit
    <3>2. \A s \in submitted \ (terminal \cup lost) : Queued(s)' \/ Admitting(s)' \/ Active(s)'
      BY <1>1, <2>1, <3>1 DEF NobodyForgotten, Queued, Admitting, Active
    <3>3. \A s \in terminal : Told(s) => Told(s)'
      BY <1>5, <2>1, <3>1 DEF Told
    <3>4. Told(r)'
      BY <1>5, <3>1 DEF Told
    <3>5. \A q \in Requests : active'[q] # None => admission'[active'[q]] # "pending"
      BY <1>1, <1>5, <2>1, <3>1 DEF NobodyForgotten
    <3>6. QED BY <1>1, <2>1, <3>1, <3>2, <3>3, <3>4, <3>5 DEF NobodyForgotten
  <2>3. CASE ~Unavailable
    <3>1. UNCHANGED <<terminal, events, admission>> /\ \A x : Queued(x)' <=> x = r \/ Queued(x)
      BY <1>1, <1>9, <2>3, QueueElements DEF Submit, QueueItem
    <3>2. \A s \in submitted : Queued(s) \/ Admitting(s) \/ Active(s)
                                 => Queued(s)' \/ Admitting(s)' \/ Active(s)'
      BY <2>1, <3>1 DEF Admitting, Active
    <3>3. \A s : Told(s) => Told(s)'
      BY <2>1, <3>1 DEF Told
    <3>4. QED BY <1>1, <2>1, <3>1, <3>2, <3>3 DEF NobodyForgotten
  <2>4. QED BY <2>2, <2>3
<1>10. CASE Wake
  <2>1. \A x : Queued(x)' <=> x = Wakeup \/ Queued(x)
    BY <1>1, <1>10, QueueElements DEF Wake, QueueItem
  <2>2. QED BY <1>3, <1>10, <2>1 DEF Wake
<1>11. CASE Close
  <2>1. \A x : Queued(x)' <=> x = Stop \/ Queued(x)
    BY <1>1, <1>11, QueueElements DEF Close, QueueItem
  <2>2. QED BY <1>3, <1>11, <2>1 DEF Close
<1>12. CASE DrainControl \/ ControlsDrained \/ AbortsDrained
  BY <1>4, <1>12 DEF DrainControl, ControlsDrained, AbortsDrained, Admits
<1>13. CASE AbortIgnored
  <2>1. Head(aborts).req \in terminal \/ ~Stale(Head(aborts).req)
    BY <1>13, AbortFindsRequest DEF AbortIgnored, TakeAbort
  <2>2. UNCHANGED terminal
    BY <1>13, <2>1 DEF AbortIgnored
  <2>3. QED BY <1>4, <1>13, <2>2 DEF AbortIgnored
<1>14. CASE AbortActive
  <2> DEFINE a == Head(aborts)
             q == seqId[a.req]
  <2>1. /\ pc = "aborts" /\ aborts # <<>> /\ ~Stale(a.req) /\ active[q] # None
        /\ UNCHANGED <<submitted, cancelled, seqId, admission, pending, lost>>
    BY <1>14 DEF AbortActive, TakeAbort
  <2>2. a.req \in cancelled /\ q \in Requests
    BY <2>1, AbortFindsRequest
  <2>3. active[q] = a.req
    BY <2>1 DEF Stale
  <2>4. CASE Unpublish(q) /\ Conclude(active[q], <<>>)
    BY <1>1, <2>1, <2>2, <2>3, <2>4, EndedTold DEF Replied, Admits
  <2>5. CASE UNCHANGED <<active, latest, terminal, events, left, chains>>
    BY <1>4, <2>1, <2>5 DEF Admits
  <2>6. QED BY <1>14, <2>4, <2>5 DEF AbortActive
<1>15. CASE AbortOver
  BY <1>4, <1>15 DEF AbortOver, TakeAbort, Admits
<1>16. ASSUME pc \notin Admits, pending # <<>>, pending' = Tail(pending),
              IF Head(pending) \in Requests
              THEN item' = Head(pending) /\ pc' = "admit" ELSE pc' \notin Admits,
              UNCHANGED <<submitted, terminal, lost, seqId, active, admission, events, cancelled>>
       PROVE  NobodyForgotten'
  <2>1. \A x : Queued(x) <=> x = Head(pending) \/ Queued(x)'
    BY <1>1, <1>16, QueueElements
  <2>2. \A s \in submitted : Queued(s) \/ Admitting(s) \/ Active(s)
                               => Queued(s)' \/ Admitting(s)' \/ Active(s)'
    BY <1>5, <1>16, <2>1 DEF Admitting, Active, Admits
  <2>3. \A s : Told(s) => Told(s)'
    BY <1>16 DEF Told
  <2>4. QED BY <1>1, <1>16, <2>2, <2>3 DEF NobodyForgotten
<1>17. CASE Take
  <2>1. UNCHANGED <<submitted, terminal, lost, seqId, active, admission, events, cancelled>>
        /\ pc = "take"
    BY <1>17 DEF Take
  <2>2. CASE UNCHANGED pending
    BY <1>4, <2>1, <2>2 DEF Admits
  <2>3. CASE pending # <<>> /\ pending' = Tail(pending)
             /\ item' = (IF Head(pending) \in Requests THEN Head(pending) ELSE item)
             /\ pc' = CASE Head(pending) = Stop -> "fail_active"
                        [] Head(pending) = Wakeup -> "controls"
                        [] OTHER -> "admit"
    <3>1. Head(pending) \in QueueItem /\ Stop \notin Requests /\ Wakeup \notin Requests
      BY <1>1, <2>3, QueueElements
    <3>2. IF Head(pending) \in Requests
          THEN item' = Head(pending) /\ pc' = "admit" ELSE pc' \notin Admits
      BY <2>3, <3>1 DEF QueueItem, Admits
    <3>3. QED BY <1>16, <2>1, <2>3, <3>2 DEF Admits
  <2>4. QED BY <1>17, <2>2, <2>3 DEF Take
<1>18. CASE TakeMore
  <2>1. UNCHANGED <<submitted, terminal, lost, seqId, active, admission, events, cancelled>>
        /\ pc = "batch"
    BY <1>18 DEF TakeMore
  <2>2. CASE UNCHANGED pending
    BY <1>4, <2>1, <2>2 DEF Admits
  <2>3. CASE pending # <<>> /\ pending' = Tail(pending)
             /\ item' = (IF Head(pending) \in Requests THEN Head(pending) ELSE item)
             /\ pc' = (IF Head(pending) \in Requests THEN "admit" ELSE pc)
    BY <1>16, <2>1, <2>3 DEF Admits
  <2>4. QED BY <1>18, <2>2, <2>3 DEF TakeMore
<1>19. pc \in Admits => item \in submitted \ terminal /\ item \in Requests /\ events[item] = <<>>
  BY <1>2, <1>5 DEF ItemAgrees, HandlesAgree, Admits
<1>20. CASE AdmitCheck
  <2>1. CASE item \in cancelled \/ closing
    <3>1. item \in submitted \ terminal /\ item \in Requests /\ events[item] = <<>> /\ pc \in Admits
      BY <1>19, <1>20 DEF AdmitCheck, Admits
    <3>2. PICK put \in Replied : /\ put = <<>> => item \in cancelled
                                 /\ events' = [events EXCEPT ![item] = put]
      BY <1>20, <2>1, <3>1, FirstEvent DEF AdmitCheck, Replied
    <3>3. QED BY <1>1, <1>20, <2>1, <3>1, <3>2, ItemTold DEF AdmitCheck
  <2>2. CASE ~(item \in cancelled \/ closing)
    <3>1. /\ UNCHANGED <<submitted, terminal, lost, seqId, active, admission, events, cancelled,
                         pending, item>>
          /\ pc = "admit" /\ pc' = "admitting"
      BY <1>20, <2>2 DEF AdmitCheck
    <3>2. \A s : Queued(s) \/ Admitting(s) \/ Active(s) => Queued(s)' \/ Admitting(s)' \/ Active(s)'
      BY <3>1 DEF Queued, Admitting, Active
    <3>3. \A s : Told(s) => Told(s)'
      BY <3>1 DEF Told
    <3>4. QED BY <1>1, <3>1, <3>2, <3>3 DEF NobodyForgotten
  <2>3. QED BY <2>1, <2>2
<1>21. CASE AdmitAccepted
  <2>1. PICK q : seqId' = [seqId EXCEPT ![item] = q]
    BY <1>21 DEF AdmitAccepted
  <2>2. /\ UNCHANGED <<submitted, terminal, lost, active, admission, events, cancelled, pending, item>>
        /\ pc = "admitting" /\ pc' = "admitted"
    BY <1>21 DEF AdmitAccepted
  <2>3. \A s \in submitted : Queued(s) \/ Admitting(s) \/ Active(s)
                               => Queued(s)' \/ Admitting(s)' \/ Active(s)'
    BY <1>5, <2>1, <2>2 DEF Queued, Admitting, Active
  <2>4. \A s : Told(s) => Told(s)'
    BY <2>2 DEF Told
  <2>5. QED BY <1>1, <2>2, <2>3, <2>4 DEF NobodyForgotten
<1>22. CASE AdmitRefused \/ AdmitSetupFails
  <2>1. /\ Conclude(item, <<"error">>) /\ pc \in Admits
        /\ admission' = [admission EXCEPT ![item] = "error"]
        /\ UNCHANGED <<submitted, cancelled, seqId, pending, active, lost>>
    BY <1>22 DEF AdmitRefused, AdmitSetupFails, Admits
  <2>2. terminal' = terminal \cup {item} /\ events' = [events EXCEPT ![item] = <<"error">>]
    BY <1>1, <1>19, <2>1, ConcludeFacts DEF Replied
  <2>3. QED BY <1>1, <2>1, <2>2, ItemTold DEF Replied
<1>23. CASE AdmitCancelled
  <2>1. item \in submitted \ terminal /\ item \in Requests /\ events[item] = <<>> /\ pc \in Admits
    BY <1>19, <1>23 DEF AdmitCancelled, Admits
  <2>2. events' = [events EXCEPT ![item] = <<>>]
    BY <1>5, <1>23, <2>1 DEF AdmitCancelled
  <2>3. QED BY <1>1, <1>23, <2>1, <2>2, ItemTold DEF AdmitCancelled, Replied
<1>24. CASE AdmitActive
  <2>1. /\ pc = "admitted" /\ pc' = "batch" /\ active' = [active EXCEPT ![seqId[item]] = item]
        /\ admission' = [admission EXCEPT ![item] = "ok"]
        /\ UNCHANGED <<submitted, terminal, lost, seqId, events, cancelled, pending>>
    BY <1>24 DEF AdmitActive
  <2>2. item \in Requests /\ seqId[item] \in Requests /\ active[seqId[item]] = None
    BY <1>1, <1>2, <1>5, <1>19, <2>1 DEF ItemAgrees, EngineHolds, Running, Admits
  <2>3. \A s \in submitted : Queued(s) \/ Admitting(s) \/ Active(s) => Queued(s)' \/ Active(s)'
    <3>1. ASSUME NEW s \in submitted, Queued(s) PROVE Queued(s)'
      BY <2>1, <3>1 DEF Queued
    <3>2. ASSUME NEW s \in submitted, Admitting(s) PROVE Active(s)'
      BY <1>5, <2>1, <2>2, <3>2 DEF Admitting, Active
    <3>3. ASSUME NEW s \in submitted, Active(s) PROVE Active(s)'
      <4>1. s \in Requests /\ s # None /\ seqId[s] \in Requests
        BY <1>5, <3>3 DEF Active
      <4>2. seqId[s] # seqId[item]
        BY <2>2, <3>3, <4>1 DEF Active
      <4>3. QED BY <1>5, <2>1, <2>2, <3>3, <4>1, <4>2 DEF Active
    <3>4. QED BY <3>1, <3>2, <3>3
  <2>4. \A s \in terminal : Told(s) => Told(s)'
    BY <1>5, <2>1, <2>2 DEF Told
  <2>5. \A q \in Requests : active'[q] # None => admission'[active'[q]] # "pending"
    BY <1>1, <1>5, <2>1, <2>2 DEF NobodyForgotten
  <2>6. QED BY <1>1, <2>1, <2>3, <2>4, <2>5 DEF NobodyForgotten
<1>25. CASE NothingActive \/ FinishedDone
  BY <1>4, <1>25 DEF NothingActive, FinishedDone, NextRound, Admits
<1>26. CASE Step \/ StepRaises
  BY <1>4, <1>26 DEF Step, StepRaises, Admits
<1>27. CASE PublishDelta
  <2>1. /\ pc = "deltas" /\ out \subseteq Requests
        /\ UNCHANGED <<submitted, cancelled, seqId, admission, pending, lost, pc, item>>
    BY <1>2, <1>27 DEF PublishDelta, DispatcherTypeOK
  <2>2. CASE UNCHANGED <<active, latest, terminal, events, left, chains>>
    BY <1>4, <2>1, <2>2 DEF Admits
  <2>3. ASSUME NEW q \in out, active[q] # None, Unpublish(q), Conclude(active[q], <<"final">>)
        PROVE  NobodyForgotten'
    <3>1. q \in Requests /\ <<"final">> \in Replied /\ <<"final">> # <<>>
      BY <2>1, <2>3 DEF Replied
    <3>2. QED BY <1>1, <2>1, <2>3, <3>1, EndedTold DEF Admits
  <2>4. QED BY <1>27, <2>2, <2>3 DEF PublishDelta
<1>28. CASE PublishDeltaRaises \/ DeltasDone
  BY <1>4, <1>28 DEF PublishDeltaRaises, DeltasDone, Admits
<1>29. CASE PublishFinished
  <2>1. /\ pc = "finished" /\ fin \subseteq Requests
        /\ UNCHANGED <<submitted, cancelled, seqId, admission, pending, lost, pc, item>>
    BY <1>2, <1>29 DEF PublishFinished, DispatcherTypeOK
  <2>2. CASE UNCHANGED <<active, latest, terminal, events, left, chains>>
    BY <1>4, <2>1, <2>2 DEF Admits
  <2>3. ASSUME NEW q \in fin, active[q] # None, Unpublish(q), Conclude(active[q], <<"final">>)
        PROVE  NobodyForgotten'
    <3>1. q \in Requests /\ <<"final">> \in Replied /\ <<"final">> # <<>>
      BY <2>1, <2>3 DEF Replied
    <3>2. QED BY <1>1, <2>1, <2>3, <3>1, EndedTold DEF Admits
  <2>4. QED BY <1>29, <2>2, <2>3 DEF PublishFinished
<1>30. CASE PublishFinishedRaises
  <2>1. /\ pc = "finished" /\ fin \subseteq Requests
        /\ UNCHANGED <<submitted, terminal, cancelled, seqId, admission, events, pending, item>>
    BY <1>2, <1>30 DEF PublishFinishedRaises, DispatcherTypeOK
  <2>2. CASE UNCHANGED <<active, left, chains, lost>>
    BY <1>4, <2>1, <2>2 DEF Admits
  <2>3. ASSUME NEW q \in fin, active[q] # None, Unpublish(q), lost' = lost \cup {active[q]}
        PROVE  NobodyForgotten'
    <3>1. /\ q \in Requests /\ active' = [active EXCEPT ![q] = None] /\ seqId[active[q]] = q
      BY <1>2, <2>1, <2>3 DEF Unpublish, ActiveAgrees
    <3>2. \A s \in submitted \ (terminal \cup lost') : Queued(s)' \/ Active(s)'
      <4>1. SUFFICES ASSUME NEW s \in submitted \ (terminal \cup lost'), ~Queued(s) PROVE Active(s)'
        BY <2>1 DEF Queued
      <4>2. s # active[q] /\ Active(s) /\ s \in Requests
        BY <1>1, <1>5, <2>1, <2>3, <4>1 DEF NobodyForgotten, Admitting
      <4>3. seqId[s] # q /\ seqId[s] \in Requests
        BY <1>5, <4>2 DEF Active
      <4>4. QED BY <1>5, <2>1, <3>1, <4>2, <4>3 DEF Active
    <3>3. \A s : Told(s) => Told(s)'
      BY <2>1 DEF Told
    <3>4. \A p \in Requests : active'[p] # None => admission'[active'[p]] # "pending"
      BY <1>1, <1>5, <2>1, <3>1 DEF NobodyForgotten
    <3>5. QED BY <1>1, <2>1, <2>3, <3>2, <3>3, <3>4 DEF NobodyForgotten
  <2>4. QED BY <1>30, <2>2, <2>3 DEF PublishFinishedRaises
<1>31. CASE MarkFailed \/ FailControls
  BY <1>4, <1>31 DEF MarkFailed, FailControls, Admits
<1>32. CASE FailActive
  <2>1. /\ pc = "fail_active"
        /\ UNCHANGED <<submitted, cancelled, seqId, admission, pending, lost, item>>
    BY <1>32 DEF FailActive
  <2>2. CASE UNCHANGED <<active, latest, terminal, events, left, chains, faults>>
    BY <1>4, <2>1, <2>2 DEF Admits
  <2>3. ASSUME NEW q \in Requests, active[q] # None, Unpublish(q), Conclude(active[q], <<"error">>)
        PROVE  NobodyForgotten'
    <3>1. <<"error">> \in Replied /\ <<"error">> # <<>>
      BY DEF Replied
    <3>2. QED BY <1>1, <2>1, <2>3, <3>1, EndedTold DEF Admits
  <2>4. QED BY <1>32, <2>2, <2>3 DEF FailActive
<1>33. CASE FailQueued
  <2> DEFINE told == {r \in Requests : r = Head(pending)}
  <2>1. /\ pc = "fail_queued" /\ pending # <<>> /\ pending' = Tail(pending)
        /\ terminal' = terminal \cup told
        /\ events' = [r \in Requests |-> IF r \in told THEN Append(events[r], "error") ELSE events[r]]
        /\ admission' = [r \in Requests |-> IF r \in told THEN "error" ELSE admission[r]]
        /\ UNCHANGED <<submitted, cancelled, seqId, active, lost, pc, item>>
    BY <1>33 DEF FailQueued
  <2>2. \A x : Queued(x) <=> x = Head(pending) \/ Queued(x)'
    BY <1>1, <2>1, QueueElements
  <2>3. \A r \in told : events[r] = <<>>
    BY <1>1, <1>2, <2>1, TakenItem DEF HandlesAgree
  <2>4. \A s \in submitted \ (terminal' \cup lost) : Queued(s)' \/ Active(s)'
    BY <1>1, <1>5, <2>1, <2>2 DEF NobodyForgotten, Admitting, Active
  <2>5. \A s \in terminal' \ lost : Told(s)'
    <3>1. ASSUME NEW s \in told PROVE Told(s)'
      <4>1. events'[s] = <<"error">> /\ admission'[s] = "error"
        BY <2>1, <2>3, FirstEvent
      <4>2. QED BY <4>1 DEF Told
    <3>2. ASSUME NEW s \in terminal \ told, Told(s) PROVE Told(s)'
      BY <1>5, <2>1, <3>2 DEF Told
    <3>3. QED BY <1>1, <2>1, <3>1, <3>2 DEF NobodyForgotten
  <2>6. \A q \in Requests : active'[q] # None => admission'[active'[q]] # "pending"
    BY <1>1, <1>5, <2>1 DEF NobodyForgotten
  <2>7. QED BY <2>1, <2>4, <2>5, <2>6 DEF NobodyForgotten
<1>34. CASE FailAborts
  <2>1. UNCHANGED <<submitted, cancelled, seqId, active, admission, events, pending, lost, item>>
        /\ pc = "fail_aborts"
    BY <1>34 DEF FailAborts
  <2>2. CASE UNCHANGED terminal
    BY <1>4, <2>1, <2>2 DEF Admits
  <2>3. CASE aborts # <<>> /\ terminal' = terminal \cup {Head(aborts).req}
    <3>1. Head(aborts).req \in submitted
      <4>1. aborts' = Tail(aborts) \/ aborts = <<>>
        BY <1>34 DEF FailAborts
      <4>2. QED BY <1>1, <2>1, <2>3, <4>1, TakenAbort
    <3>2. Head(aborts).req \in terminal \cup lost
      BY <1>1, <1>2, <1>5, <2>1, <3>1
      DEF NobodyForgotten, ThreadAgrees, Admitting, Active, ActiveAgrees, NoneActive
    <3>3. \A s \in submitted : Queued(s) \/ Admitting(s) \/ Active(s) => Queued(s)' \/ Active(s)'
      BY <2>1 DEF Queued, Active, Admitting
    <3>4. \A s : Told(s) => Told(s)'
      BY <2>1 DEF Told
    <3>5. QED BY <1>1, <2>1, <2>3, <3>2, <3>3, <3>4 DEF NobodyForgotten
  <2>4. QED BY <1>34, <2>2, <2>3 DEF FailAborts
<1>35. QED BY <1>6, <1>7, <1>8, <1>9, <1>10, <1>11, <1>12, <1>13, <1>14, <1>15, <1>17, <1>18, <1>20,
              <1>21, <1>22, <1>23, <1>24, <1>25, <1>26, <1>27, <1>28, <1>29, <1>30, <1>31, <1>32,
              <1>33, <1>34
           DEF DispatcherNext, LoopContinues, EngineThread

-----------------------------------------------------------------------------
(* CancelsQueued *)

Marking(r) == loop.op \in {"cancel", "discard"} /\ loop.req = r

\* A step that activates nobody who cancelled and takes no abort of an active
\* request.
LEMMA CancelsKept ==
  ASSUME CancelsQueued, UNCHANGED <<cancelled, closing>>, pc' \in Running => pc \in Running,
         \A r \in cancelled : /\ Active(r)' => Active(r)
                              /\ Aborting(r) /\ Active(r)' => Aborting(r)'
                              /\ Marking(r) => Marking(r)'
  PROVE  CancelsQueued'
BY DEF CancelsQueued, Marking

\* Every step keeps the cancellation of an active request queued or marked.
LEMMA CancelsStep == ASSUME DispatcherInv, DispatcherNext PROVE CancelsQueued'
<1> DEFINE Fewer == \A q \in Requests : active'[q] \in {active[q], None}
           Calm == /\ UNCHANGED <<cancelled, closing, seqId, aborts>> /\ Fewer
                   /\ pc' \in Running => pc \in Running
                   /\ UNCHANGED loop \/ loop.op \notin {"cancel", "discard"}
<1>1. OnePlace /\ ThreadAgrees /\ CancelsQueued
  BY DEF DispatcherInv
<1>2. DispatcherTypeOK /\ HandlesAgree /\ ItemAgrees /\ ActiveAgrees
  BY <1>1 DEF OnePlace
<1>3. /\ cancelled \subseteq Requests /\ None \notin Requests
      /\ active \in [Requests -> Requests \cup {None}] /\ seqId \in [Requests -> Requests \cup {None}]
      /\ \A q \in Requests : active[q] # None => active[q] \notin terminal
  BY <1>2 DEF DispatcherTypeOK, ActiveAgrees
<1>4. ASSUME Calm PROVE CancelsQueued'
  <2>1. ASSUME NEW r \in cancelled PROVE Active(r)' => Active(r)
    BY <1>3, <1>4, <2>1 DEF Active
  <2>2. ASSUME NEW r \in cancelled
        PROVE  (Aborting(r) => Aborting(r)') /\ (Marking(r) => Marking(r)')
    BY <1>4 DEF Aborting, Marking
  <2>3. QED BY <1>1, <1>4, <2>1, <2>2, CancelsKept
<1>5. UNCHANGED active => Fewer
  OBVIOUS
<1>6. \A q \in Requests : Unpublish(q) => Fewer
  BY <1>3 DEF Unpublish
<1>7. ASSUME NEW r \in Requests, Submit(r) \/ DiscardTimesOut(r) PROVE CancelsQueued'
  BY <1>4, <1>5, <1>7 DEF Submit, DiscardTimesOut
<1>8. ASSUME NEW c \in Controls, Control(c) PROVE CancelsQueued'
  BY <1>4, <1>5, <1>8 DEF Control, Idle
<1>9. ASSUME NEW r \in Requests, CancelMark(r) \/ DiscardMark(r) PROVE CancelsQueued'
  <2>1. /\ cancelled' = cancelled \cup {r} /\ loop = Idle
        /\ loop' \in [op : {"cancel", "discard"}, req : {r}]
        /\ UNCHANGED <<seqId, active, closing, pc, aborts>>
    BY <1>9 DEF CancelMark, DiscardMark
  <2>2. \A s : ~Marking(s) /\ Marking(r)'
    BY <2>1 DEF Marking, Idle
  <2>3. \A s : (Active(s)' <=> Active(s)) /\ (Aborting(s)' <=> Aborting(s))
    BY <2>1 DEF Active, Aborting
  <2>4. QED BY <1>1, <2>1, <2>2, <2>3 DEF CancelsQueued, Marking
<1>10. CASE Wake
  BY <1>4, <1>5, <1>10 DEF Wake
<1>11. CASE CloseExit
  BY <1>4, <1>5, <1>11 DEF CloseExit
<1>12. CASE Close
  BY <1>12 DEF Close, CancelsQueued
<1>13. CASE CancelEnqueue
  <2>1. loop.op = "cancel" /\ UNCHANGED <<seqId, active, closing, pc, cancelled>>
    BY <1>13 DEF CancelEnqueue
  <2>2. \A s : Active(s)' <=> Active(s)
    BY <2>1 DEF Active
  <2>3. CASE seqId[loop.req] = None /\ UNCHANGED aborts
    <3>1. \A s : Aborting(s)' <=> Aborting(s)
      BY <2>3 DEF Aborting
    <3>2. \A s : Active(s) => s # loop.req
      BY <2>3 DEF Active
    <3>3. QED BY <1>1, <2>1, <2>2, <3>1, <3>2 DEF CancelsQueued
  <2>4. CASE aborts' = Append(aborts, Abort(loop.req, FALSE))
    <3>1. loop.req \in Requests
      BY <1>2, <2>1 DEF HandlesAgree, DispatcherTypeOK
    <3>2. Abort(loop.req, FALSE) \in AbortItem /\ Abort(loop.req, FALSE).req = loop.req
      BY <3>1 DEF Abort, AbortItem
    <3>3. \A s : Aborting(s)' <=> loop.req = s \/ Aborting(s)
      BY <1>1, <2>4, <3>2, AbortElements
    <3>4. QED BY <1>1, <2>1, <2>2, <3>3 DEF CancelsQueued
  <2>5. QED BY <1>13, <2>3, <2>4 DEF CancelEnqueue
<1>14. CASE DiscardEnqueue
  <2>1. loop.op = "discard" /\ UNCHANGED <<seqId, active, closing, pc, cancelled>>
    BY <1>14 DEF DiscardEnqueue
  <2>2. \A s : Active(s)' <=> Active(s)
    BY <2>1 DEF Active
  <2>3. CASE (seqId[loop.req] = None \/ Unavailable) /\ UNCHANGED aborts
    <3>1. \A s : Aborting(s)' <=> Aborting(s)
      BY <2>3 DEF Aborting
    <3>2. \A s : Active(s) => s # loop.req \/ Unavailable
      BY <2>3 DEF Active
    <3>3. Unavailable => closing \/ pc \notin Running
      BY <1>1 DEF Unavailable, ThreadAgrees, Running
    <3>4. QED BY <1>1, <2>1, <2>2, <3>1, <3>2, <3>3 DEF CancelsQueued
  <2>4. CASE aborts' = Append(aborts, Abort(loop.req, TRUE))
    <3>1. loop.req \in Requests
      BY <1>2, <2>1 DEF HandlesAgree, DispatcherTypeOK
    <3>2. Abort(loop.req, TRUE) \in AbortItem /\ Abort(loop.req, TRUE).req = loop.req
      BY <3>1 DEF Abort, AbortItem
    <3>3. \A s : Aborting(s)' <=> loop.req = s \/ Aborting(s)
      BY <1>1, <2>4, <3>2, AbortElements
    <3>4. QED BY <1>1, <2>1, <2>2, <3>3 DEF CancelsQueued
  <2>5. QED BY <1>14, <2>3, <2>4 DEF DiscardEnqueue
<1>15. CASE AbortIgnored \/ AbortActive \/ AbortOver
  <2> DEFINE a == Head(aborts)
  <2>1. /\ pc = "aborts" /\ aborts # <<>> /\ aborts' = Tail(aborts)
        /\ UNCHANGED <<seqId, closing, cancelled, loop>>
    BY <1>15 DEF AbortIgnored, AbortActive, AbortOver, TakeAbort
  <2>2. \A s : Aborting(s) <=> a.req = s \/ Aborting(s)'
    BY <1>1, <2>1, AbortElements
  <2>3. a.req \in Requests /\ seqId[a.req] \in Requests
        /\ (a.req \in terminal \/ ~Stale(a.req))
    BY <2>1, AbortFindsRequest
  <2>4. pc' \in Running => ~(active'[seqId[a.req]] = a.req)
    <3>1. CASE AbortIgnored
      <4>1. a.req \in terminal /\ UNCHANGED active
        BY <2>3, <3>1 DEF AbortIgnored
      <4>2. QED BY <1>3, <2>3, <4>1
    <3>2. CASE AbortActive
      <4>1. Unpublish(seqId[a.req]) \/ pc' = "failing"
        BY <3>2 DEF AbortActive
      <4>2. QED BY <1>3, <2>3, <4>1 DEF Unpublish, Running
    <3>3. CASE AbortOver
      BY <1>3, <2>3, <3>3 DEF AbortOver
    <3>4. QED BY <1>15, <3>1, <3>2, <3>3
  <2>5. Fewer
    BY <1>5, <1>6, <1>15, <2>3 DEF AbortIgnored, AbortActive, AbortOver
  <2>6. SUFFICES ASSUME pc' \in Running PROVE CancelsQueued'
    BY DEF CancelsQueued
  <2>7. \A s \in cancelled : Active(s)' => Active(s) /\ s # a.req
    BY <1>3, <2>1, <2>4, <2>5, <2>6 DEF Active
  <2>8. QED BY <1>1, <2>1, <2>2, <2>7 DEF CancelsQueued, Running
<1>16. CASE DrainControl \/ ControlsDrained \/ AbortsDrained
  BY <1>4, <1>5, <1>16 DEF DrainControl, ControlsDrained, AbortsDrained, Running
<1>17. CASE Take
  <2>1. UNCHANGED <<cancelled, closing, seqId, aborts, active, loop>> /\ pc \in Running
    BY <1>17 DEF Take, Running
  <2>2. QED BY <1>4, <1>5, <2>1
<1>18. CASE TakeMore
  BY <1>4, <1>5, <1>18 DEF TakeMore, Running
<1>19. CASE AdmitCheck \/ AdmitRefused
  BY <1>4, <1>5, <1>19 DEF AdmitCheck, AdmitRefused, Running
<1>20. CASE AdmitCancelled \/ AdmitSetupFails
  BY <1>4, <1>5, <1>20 DEF AdmitCancelled, AdmitSetupFails, Running
<1>21. CASE AdmitAccepted
  <2>1. PICK q : seqId' = [seqId EXCEPT ![item] = q] /\ q \in EngineSeqIds(item)
    BY <1>21 DEF AdmitAccepted
  <2>2. UNCHANGED <<cancelled, closing, aborts, active, loop>> /\ pc \in Running
        /\ \A p \in Requests : active[p] # item
    BY <1>2, <1>21 DEF AdmitAccepted, Running, ItemAgrees
  <2>3. q \in Requests
    BY <1>2, <1>21, <2>1 DEF EngineSeqIds, DispatcherTypeOK, ItemAgrees, AdmitAccepted
  <2>4. \A s \in cancelled : Active(s)' => Active(s)
    BY <1>3, <2>1, <2>2, <2>3 DEF Active
  <2>5. \A s \in cancelled : (Aborting(s) => Aborting(s)') /\ (Marking(s) => Marking(s)')
    BY <2>2 DEF Aborting, Marking
  <2>6. QED BY <1>1, <2>2, <2>4, <2>5, CancelsKept
<1>22. CASE AdmitActive
  <2>1. UNCHANGED <<cancelled, closing, aborts, seqId, loop>> /\ pc \in Running
        /\ item \notin cancelled /\ active' = [active EXCEPT ![seqId[item]] = item]
    BY <1>22 DEF AdmitActive, Running
  <2>2. \A s \in cancelled : Active(s)' => Active(s)
    BY <1>3, <2>1 DEF Active
  <2>3. \A s \in cancelled : (Aborting(s) => Aborting(s)') /\ (Marking(s) => Marking(s)')
    BY <2>1 DEF Aborting, Marking
  <2>4. QED BY <1>1, <2>1, <2>2, <2>3, CancelsKept
<1>23. CASE NothingActive \/ FinishedDone
  BY <1>4, <1>5, <1>23 DEF NothingActive, FinishedDone, NextRound, Running
<1>24. CASE Step \/ StepRaises
  BY <1>4, <1>5, <1>24 DEF Step, StepRaises, Running
<1>25. CASE PublishDelta
  <2>1. Fewer
    BY <1>2, <1>5, <1>6, <1>25 DEF PublishDelta, DispatcherTypeOK
  <2>2. QED BY <1>4, <1>25, <2>1 DEF PublishDelta
<1>26. CASE PublishFinished
  <2>1. Fewer
    BY <1>2, <1>5, <1>6, <1>26 DEF PublishFinished, DispatcherTypeOK
  <2>2. QED BY <1>4, <1>26, <2>1 DEF PublishFinished
<1>27. CASE PublishDeltaRaises \/ DeltasDone
  BY <1>4, <1>5, <1>27 DEF PublishDeltaRaises, DeltasDone, Running
<1>28. CASE PublishFinishedRaises \/ MarkFailed \/ FailActive \/ FailQueued
  <2>1. pc' \notin Running
    BY <1>28 DEF PublishFinishedRaises, MarkFailed, FailActive, FailQueued, Running
  <2>2. QED BY <2>1 DEF CancelsQueued
<1>29. CASE FailControls \/ FailAborts
  <2>1. pc' \notin Running
    BY <1>29 DEF FailControls, FailAborts, Running
  <2>2. QED BY <2>1 DEF CancelsQueued
<1>30. QED BY <1>7, <1>8, <1>9, <1>10, <1>11, <1>12, <1>13, <1>14, <1>15, <1>16, <1>17, <1>18, <1>19,
              <1>20, <1>21, <1>22, <1>23, <1>24, <1>25, <1>26, <1>27, <1>28, <1>29
           DEF DispatcherNext, LoopContinues, EngineThread

-----------------------------------------------------------------------------
(* SeqIdsRooted *)

\* Only an admission gives a sequence id: the request's own, or that of the
\* idle chain it resumes.
LEMMA Admitted ==
  ASSUME OnePlace, SeqIdsRooted, AdmitAccepted
  PROVE  \E q \in Requests :
           /\ seqId' = [seqId EXCEPT ![item] = q]
           /\ left' = [left EXCEPT ![q] = MaxOutput] /\ chains' = chains \ {q}
           /\ q = item \/ (q \in chains /\ seqId[q] = q /\ q # item)
<1>1. DispatcherTypeOK /\ ItemAgrees
  BY DEF OnePlace
<1>2. item \in Requests /\ seqId[item] = None /\ chains \subseteq Requests
      /\ seqId \in [Requests -> Requests \cup {None}]
  BY <1>1 DEF AdmitAccepted, ItemAgrees, DispatcherTypeOK
<1>3. PICK q \in EngineSeqIds(item) : /\ seqId' = [seqId EXCEPT ![item] = q]
                                      /\ left' = [left EXCEPT ![q] = MaxOutput]
                                      /\ chains' = chains \ {q}
  BY DEF AdmitAccepted
<1>4. CASE Turn[item] = None
  BY <1>2, <1>3, <1>4 DEF EngineSeqIds
<1>5. CASE Turn[item] # None
  <2>1. q \in chains /\ q \in Requests /\ q = seqId[Turn[item]] /\ Turn[item] \in Requests
    BY <1>2, <1>3, <1>5 DEF EngineSeqIds
  <2>2. seqId[q] = q
    BY <1>2, <2>1 DEF SeqIdsRooted
  <2>3. QED BY <1>2, <1>3, <2>1, <2>2
<1>6. QED BY <1>4, <1>5

\* Only an admission the engine accepts gives a request its sequence id.
LEMMA SeqIdKept ==
  ASSUME DispatcherInv, DispatcherNext
  PROVE  UNCHANGED seqId \/ AdmitAccepted
<1>1. CASE \E r \in Requests : Submit(r) \/ CancelMark(r) \/ DiscardMark(r) \/ DiscardTimesOut(r)
  BY <1>1 DEF Submit, CancelMark, DiscardMark, DiscardTimesOut
<1>2. CASE (\E c \in Controls : Control(c)) \/ Close
  BY <1>2 DEF Control, Close
<1>3. CASE LoopContinues
  BY <1>3 DEF LoopContinues, CancelEnqueue, DiscardEnqueue, Wake, CloseExit
<1>4. CASE DrainControl \/ ControlsDrained \/ AbortIgnored \/ AbortActive \/ AbortOver \/ AbortsDrained
  BY <1>4 DEF DrainControl, ControlsDrained, AbortIgnored, AbortActive, AbortOver, AbortsDrained
<1>5. CASE Take \/ TakeMore \/ AdmitCheck \/ AdmitRefused \/ AdmitCancelled \/ AdmitActive
           \/ AdmitSetupFails
  BY <1>5 DEF Take, TakeMore, AdmitCheck, AdmitRefused, AdmitCancelled, AdmitActive, AdmitSetupFails
<1>6. CASE NothingActive \/ Step \/ StepRaises \/ PublishDelta \/ PublishDeltaRaises \/ DeltasDone
           \/ PublishFinished \/ PublishFinishedRaises \/ FinishedDone
  BY <1>6 DEF NothingActive, Step, StepRaises, PublishDelta, PublishDeltaRaises, DeltasDone,
              PublishFinished, PublishFinishedRaises, FinishedDone
<1>7. CASE MarkFailed \/ FailActive \/ FailQueued \/ FailControls \/ FailAborts
  BY <1>7 DEF MarkFailed, FailActive, FailQueued, FailControls, FailAborts
<1>8. QED BY <1>1, <1>2, <1>3, <1>4, <1>5, <1>6, <1>7 DEF DispatcherNext, EngineThread

\* Every step keeps a sequence id that of the request that opened its chain.
LEMMA RootedStep == ASSUME DispatcherInv, DispatcherNext PROVE SeqIdsRooted'
<1>1. OnePlace /\ SeqIdsRooted /\ DispatcherTypeOK
  BY DEF DispatcherInv, OnePlace
<1>2. seqId \in [Requests -> Requests \cup {None}]
  BY <1>1 DEF DispatcherTypeOK
<1>3. CASE UNCHANGED seqId
  BY <1>1, <1>3 DEF SeqIdsRooted
<1>4. CASE AdmitAccepted
  <2>1. item \in Requests /\ seqId[item] = None
    BY <1>1, <1>4 DEF AdmitAccepted, OnePlace, ItemAgrees, DispatcherTypeOK
  <2>2. PICK q \in Requests : /\ seqId' = [seqId EXCEPT ![item] = q]
                              /\ q = item \/ (seqId[q] = q /\ q # item)
    BY <1>1, <1>4, Admitted
  <2>3. ASSUME NEW r \in Requests, seqId'[r] # None PROVE seqId'[seqId'[r]] = seqId'[r]
    <3>1. CASE r = item
      BY <1>2, <2>1, <2>2, <3>1
    <3>2. CASE r # item
      <4>1. seqId'[r] = seqId[r] /\ seqId[r] \in Requests /\ seqId[seqId[r]] = seqId[r]
        BY <1>1, <1>2, <2>2, <2>3, <3>2 DEF SeqIdsRooted
      <4>2. QED BY <1>2, <2>1, <2>2, <4>1
    <3>3. QED BY <3>1, <3>2
  <2>4. QED BY <2>3 DEF SeqIdsRooted
<1>5. QED BY <1>3, <1>4, SeqIdKept

-----------------------------------------------------------------------------
(* EngineHolds *)

\* An abandoned sequence stays one: nobody takes back an error.
LEMMA AbandonedKept ==
  ASSUME OnePlace, submitted \subseteq submitted',
         \A r \in submitted : events[r] # <<>> => events'[r] = events[r],
         \A r \in submitted : seqId[r] # None => seqId'[r] = seqId[r]
  PROVE  \A q \in Requests : Abandoned(q) => Abandoned(q)'
<1>1. SUFFICES ASSUME NEW q \in Requests, Abandoned(q) PROVE Abandoned(q)'
  OBVIOUS
<1>2. PICK r \in submitted : seqId[r] = q /\ events[r] = <<"error">>
  BY <1>1 DEF Abandoned
<1>3. q # None /\ <<"error">> # <<>>
  OBVIOUS
<1>4. QED BY <1>2, <1>3 DEF Abandoned

\* A step of the thread between two calls of the engine.
LEMMA EngineIdle ==
  ASSUME EngineHolds, UNCHANGED <<active, left, chains, seqId>>,
         \A q \in Requests : Abandoned(q) => Abandoned(q)',
         \/ UNCHANGED <<pc, fin, item>>
         \/ pc \in Running \ {"admitted", "deltas", "finished"}
            /\ pc' \notin {"admitted", "deltas", "finished"}
  PROVE  EngineHolds'
<1>1. CASE UNCHANGED <<pc, fin, item>>
  BY <1>1 DEF EngineHolds
<1>2. CASE pc \in Running \ {"admitted", "deltas", "finished"}
           /\ pc' \notin {"admitted", "deltas", "finished"}
  BY <1>2 DEF EngineHolds
<1>3. QED BY <1>1, <1>2

\* A sequence leaves the engine, or has finished, and is active no more.
LEMMA EngineDrops ==
  ASSUME EngineHolds, DispatcherTypeOK, NEW q \in Requests,
         pc \in {"aborts", "deltas", "finished"}, UNCHANGED <<pc, seqId>>,
         active' = [active EXCEPT ![q] = None], left' = [left EXCEPT ![q] = 0],
         chains' \subseteq chains, fin' \in {fin, fin \ {q}},
         \A p \in Requests : Abandoned(p) => Abandoned(p)'
  PROVE  EngineHolds'
<1>1. active \in [Requests -> Requests \cup {None}] /\ left \in [Requests -> 0..MaxOutput]
      /\ chains \subseteq Requests /\ fin \subseteq Requests
  BY DEF DispatcherTypeOK
<1>2. /\ \A p \in Requests :
           /\ active[p] # None => left[p] > 0 \/ (pc \in {"deltas", "finished"} /\ p \in fin)
           /\ left[p] > 0 /\ active[p] = None => Abandoned(p)
      /\ \A p \in chains : left[p] = 0
      /\ pc \in {"deltas", "finished"} => \A p \in fin : left[p] = 0
  BY DEF EngineHolds, Running
<1>3. ASSUME NEW p \in Requests
      PROVE  /\ active'[p] # None => left'[p] > 0 \/ (pc \in {"deltas", "finished"} /\ p \in fin')
             /\ left'[p] > 0 /\ active'[p] = None => Abandoned(p)'
             /\ left[p] = 0 => left'[p] = 0
  BY <1>1, <1>2
<1>4. QED BY <1>1, <1>2, <1>3 DEF EngineHolds

\* Nobody's answer is taken back or changed, and no sequence id once given.
LEMMA AnswersKept ==
  ASSUME DispatcherInv, DispatcherNext
  PROVE  \A q \in Requests : Abandoned(q) => Abandoned(q)'
<1>1. OnePlace /\ SeqIdsRooted /\ DispatcherTypeOK /\ HandlesAgree /\ ActiveAgrees /\ ItemAgrees
  BY DEF DispatcherInv, OnePlace
<1>2. /\ terminal \subseteq Requests /\ submitted \subseteq Requests
      /\ events \in [Requests -> Replied] /\ seqId \in [Requests -> Requests \cup {None}]
      /\ out \subseteq Requests /\ fin \subseteq Requests
  BY <1>1 DEF DispatcherTypeOK, Replied
<1>3. \A r \in submitted : seqId[r] # None => seqId'[r] = seqId[r]
  <2>1. CASE UNCHANGED seqId
    BY <2>1
  <2>2. CASE AdmitAccepted
    <3>1. item \in Requests /\ seqId[item] = None
      BY <1>1, <2>2 DEF AdmitAccepted, ItemAgrees, DispatcherTypeOK
    <3>2. PICK q \in Requests : seqId' = [seqId EXCEPT ![item] = q]
      BY <1>1, <2>2, Admitted
    <3>3. QED BY <1>2, <3>1, <3>2
  <2>3. QED BY <2>1, <2>2, SeqIdKept
<1> DEFINE Same == \A r \in submitted : events[r] # <<>> => events'[r] = events[r]
<1>4. ASSUME NEW r \in submitted \ terminal, NEW put \in Replied, Conclude(r, put) PROVE Same
  BY <1>1, <1>2, <1>4, ConcludeFacts DEF HandlesAgree
<1>5. ASSUME NEW q \in Requests, active[q] # None, NEW put \in Replied, Conclude(active[q], put)
      PROVE  Same
  <2>1. active[q] \in submitted \ terminal
    BY <1>1, <1>5 DEF ActiveAgrees
  <2>2. QED BY <1>4, <1>5, <2>1
<1>6. <<>> \in Replied /\ <<"final">> \in Replied /\ <<"error">> \in Replied
  BY DEF Replied
<1>7. pc \in Admits => item \in submitted \ terminal /\ item \in Requests
  BY <1>1, <1>2 DEF ItemAgrees, Admits
<1>8. submitted \subseteq submitted' /\ Same
  <2>1. ASSUME NEW r \in Requests, Submit(r) PROVE submitted \subseteq submitted' /\ Same
    BY <1>2, <2>1 DEF Submit
  <2>2. ASSUME NEW r \in Requests, CancelMark(r) \/ DiscardMark(r) \/ DiscardTimesOut(r)
        PROVE  UNCHANGED <<submitted, events>>
    BY <2>2 DEF CancelMark, DiscardMark, DiscardTimesOut
  <2>3. CASE (\E c \in Controls : Control(c)) \/ Close \/ LoopContinues
    BY <2>3 DEF Control, Close, LoopContinues, CancelEnqueue, DiscardEnqueue, Wake, CloseExit
  <2>4. CASE DrainControl \/ ControlsDrained \/ AbortIgnored \/ AbortOver \/ AbortsDrained
    BY <2>4 DEF DrainControl, ControlsDrained, AbortIgnored, AbortOver, AbortsDrained
  <2>5. CASE AbortActive
    <3>1. aborts # <<>> /\ pc = "aborts" /\ UNCHANGED submitted
      BY <2>5 DEF AbortActive, TakeAbort
    <3>2. seqId[Head(aborts).req] \in Requests
      BY <3>1, AbortFindsRequest
    <3>3. QED BY <1>5, <1>6, <2>5, <3>1, <3>2 DEF AbortActive
  <2>6. CASE Take \/ TakeMore \/ AdmitAccepted \/ AdmitCancelled \/ AdmitActive
    BY <2>6 DEF Take, TakeMore, AdmitAccepted, AdmitCancelled, AdmitActive
  <2>7. CASE AdmitCheck
    <3>1. item \in submitted \ terminal
      BY <1>7, <2>7 DEF AdmitCheck, Admits
    <3>2. events[item] = <<>>
      BY <1>1, <1>2, <3>1 DEF HandlesAgree
    <3>3. QED BY <1>2, <2>7, <3>1, <3>2 DEF AdmitCheck
  <2>8. CASE AdmitRefused \/ AdmitSetupFails
    BY <1>4, <1>6, <1>7, <2>8 DEF AdmitRefused, AdmitSetupFails, Admits
  <2>9. CASE NothingActive \/ Step \/ StepRaises \/ PublishDeltaRaises \/ DeltasDone
             \/ PublishFinishedRaises \/ FinishedDone
    BY <2>9 DEF NothingActive, Step, StepRaises, PublishDeltaRaises, DeltasDone,
                PublishFinishedRaises, FinishedDone
  <2>10. CASE PublishDelta
    BY <1>2, <1>5, <1>6, <2>10 DEF PublishDelta
  <2>11. CASE PublishFinished
    BY <1>2, <1>5, <1>6, <2>11 DEF PublishFinished
  <2>12. CASE FailActive
    BY <1>5, <1>6, <2>12 DEF FailActive
  <2>13. CASE FailQueued
    <3>1. pending # <<>> /\ pending' = Tail(pending) /\ UNCHANGED submitted
      BY <2>13 DEF FailQueued
    <3>2. Head(pending) \in Requests => events[Head(pending)] = <<>>
      BY <1>1, <3>1, TakenItem DEF HandlesAgree
    <3>3. QED BY <1>2, <2>13, <3>1, <3>2 DEF FailQueued
  <2>14. CASE MarkFailed \/ FailControls \/ FailAborts
    BY <2>14 DEF MarkFailed, FailControls, FailAborts
  <2>15. QED BY <2>1, <2>2, <2>3, <2>4, <2>5, <2>6, <2>7, <2>8, <2>9, <2>10, <2>11, <2>12, <2>13, <2>14
             DEF DispatcherNext, EngineThread
<1>9. QED BY <1>1, <1>3, <1>8, AbandonedKept

\* Every step keeps the engine's sequences those of the active requests and of the item in admission.
LEMMA EngineStep == ASSUME DispatcherInv, DispatcherNext PROVE EngineHolds'
<1>1. OnePlace /\ SeqIdsRooted /\ EngineHolds /\ DispatcherTypeOK /\ ActiveAgrees /\ ItemAgrees
  BY DEF DispatcherInv, OnePlace
<1>2. /\ active \in [Requests -> Requests \cup {None}] /\ left \in [Requests -> 0..MaxOutput]
      /\ chains \subseteq Requests /\ fin \subseteq Requests /\ out \subseteq Requests
      /\ seqId \in [Requests -> Requests \cup {None}] /\ None \notin Requests /\ MaxOutput \in Nat \ {0}
  BY <1>1 DEF DispatcherTypeOK
<1>3. \A q \in Requests : Abandoned(q) => Abandoned(q)'
  BY AnswersKept
<1> DEFINE Calm == /\ UNCHANGED <<active, left, chains, seqId>>
                   /\ \/ UNCHANGED <<pc, fin, item>>
                      \/ pc \in Running \ {"admitted", "deltas", "finished"}
                         /\ pc' \notin {"admitted", "deltas", "finished"}
<1>4. Calm => EngineHolds'
  BY <1>1, <1>3, EngineIdle
<1>5. pc' \notin Running => EngineHolds'
  BY DEF EngineHolds
<1>6. ASSUME NEW r \in Requests, Submit(r) \/ CancelMark(r) \/ DiscardMark(r) \/ DiscardTimesOut(r)
      PROVE  EngineHolds'
  BY <1>4, <1>6 DEF Submit, CancelMark, DiscardMark, DiscardTimesOut
<1>7. CASE (\E c \in Controls : Control(c)) \/ Close \/ LoopContinues
  BY <1>4, <1>7 DEF Control, Close, LoopContinues, CancelEnqueue, DiscardEnqueue, Wake, CloseExit
<1>8. CASE DrainControl \/ ControlsDrained \/ AbortsDrained
  BY <1>4, <1>8 DEF DrainControl, ControlsDrained, AbortsDrained, Running
<1>9. CASE AbortIgnored
  BY <1>4, <1>9 DEF AbortIgnored
<1>10. ASSUME NEW q \in Requests, EngineAbort(q),
              active' = [active EXCEPT ![q] = None],
              pc \in {"aborts", "deltas", "finished"}, fin' \in {fin, fin \ {q}}, UNCHANGED <<pc, seqId>>
       PROVE  EngineHolds'
  BY <1>1, <1>3, <1>10, EngineDrops DEF EngineAbort
<1>11. CASE AbortActive \/ AbortOver
  <2> DEFINE q == seqId[Head(aborts).req]
  <2>1. aborts # <<>> /\ pc = "aborts" /\ UNCHANGED <<seqId, fin, item>>
    BY <1>11 DEF AbortActive, AbortOver, TakeAbort
  <2>2. q \in Requests
    BY <2>1, AbortFindsRequest
  <2>3. CASE AbortActive
    <3>1. (EngineAbort(q) /\ Unpublish(q) /\ pc' = pc) \/ pc' = "failing"
      BY <2>3 DEF AbortActive
    <3>2. QED BY <1>5, <1>10, <2>1, <2>2, <3>1 DEF Unpublish, Running
  <2>4. CASE AbortOver
    <3>1. UNCHANGED <<active, pc>> /\ active[q] = None
          /\ (EngineAbort(q) \/ UNCHANGED <<left, chains>>)
      BY <2>4 DEF AbortOver
    <3>2. active' = [active EXCEPT ![q] = None]
      BY <1>2, <2>2, <3>1
    <3>3. CASE EngineAbort(q)
      BY <1>10, <2>1, <2>2, <3>1, <3>2, <3>3
    <3>4. CASE UNCHANGED <<left, chains>>
      BY <1>4, <2>1, <3>1, <3>4
    <3>5. QED BY <3>1, <3>3, <3>4
  <2>5. QED BY <1>11, <2>3, <2>4
<1>12. CASE Take
  <2>1. UNCHANGED <<active, left, chains, seqId>> /\ pc = "take"
    BY <1>12 DEF Take
  <2>2. pc' \in {"batch", "fail_active", "controls", "admit"}
    BY <1>12 DEF Take
  <2>3. QED BY <1>4, <2>1, <2>2 DEF Running
<1>13. CASE TakeMore \/ AdmitCheck \/ AdmitRefused
  BY <1>4, <1>13 DEF TakeMore, AdmitCheck, AdmitRefused, Running
<1>14. CASE AdmitAccepted
  <2>1. /\ pc = "admitting" /\ pc' = "admitted" /\ UNCHANGED <<item, active>>
        /\ item \in Requests /\ seqId[item] = None
    BY <1>1, <1>14 DEF AdmitAccepted, ItemAgrees, DispatcherTypeOK
  <2>2. PICK q \in Requests : /\ seqId' = [seqId EXCEPT ![item] = q]
                              /\ left' = [left EXCEPT ![q] = MaxOutput] /\ chains' = chains \ {q}
                              /\ q = item \/ q \in chains
    BY <1>1, <1>14, Admitted
  <2>3. active[q] = None
    <3>1. CASE q = item
      BY <1>1, <1>2, <2>1, <3>1 DEF ActiveAgrees, SeqIdsRooted
    <3>2. CASE q \in chains
      <4>1. left[q] = 0
        BY <1>1, <2>1, <3>2 DEF EngineHolds, Running
      <4>2. QED BY <1>1, <2>1, <4>1 DEF EngineHolds, Running
    <3>3. QED BY <2>2, <3>1, <3>2
  <2>4. seqId'[item'] = q
    BY <1>2, <2>1, <2>2
  <2>5. ASSUME NEW p \in Requests
        PROVE  /\ active'[p] # None => left'[p] > 0
               /\ left'[p] > 0 /\ active'[p] = None => Abandoned(p)' \/ q = p
               /\ p \in chains' => left'[p] = 0
    <3>1. /\ active[p] # None => left[p] > 0
          /\ left[p] > 0 /\ active[p] = None => Abandoned(p)
          /\ p \in chains => left[p] = 0
      BY <1>1, <2>1 DEF EngineHolds, Running
    <3>2. p # q => left'[p] = left[p]
      BY <1>2, <2>2
    <3>3. QED BY <1>3, <2>1, <2>2, <2>3, <3>1, <3>2
  <2>6. left'[q] > 0
    BY <1>2, <2>2
  <2>7. chains' \subseteq Requests
    BY <1>2, <2>2
  <2>8. QED BY <2>1, <2>3, <2>4, <2>5, <2>6, <2>7 DEF EngineHolds
<1>15. ASSUME pc = "admitted"
       PROVE  LET q == seqId[item] IN
              /\ item \in Requests /\ q \in Requests /\ active[q] = None /\ left[q] > 0
              /\ \A p \in Requests :
                   /\ active[p] # None => left[p] > 0
                   /\ left[p] > 0 /\ active[p] = None => Abandoned(p) \/ p = q
                   /\ p \in chains => left[p] = 0
  BY <1>1, <1>2, <1>15 DEF EngineHolds, Running, ItemAgrees, DispatcherTypeOK
<1>16. CASE AdmitCancelled
  <2> DEFINE q == seqId[item]
  <2>1. /\ pc = "admitted" /\ pc' = "batch" /\ left' = [left EXCEPT ![q] = 0]
        /\ chains' = chains \ {q} /\ UNCHANGED <<active, seqId>>
    BY <1>16 DEF AdmitCancelled, EngineAbort
  <2>2. ASSUME NEW p \in Requests
        PROVE  /\ active'[p] # None => left'[p] > 0
               /\ left'[p] > 0 /\ active'[p] = None => Abandoned(p)'
               /\ p \in chains' => left'[p] = 0
    BY <1>2, <1>3, <1>15, <2>1
  <2>3. QED BY <1>2, <2>1, <2>2 DEF EngineHolds
<1>17. CASE AdmitSetupFails
  <2> DEFINE q == seqId[item]
  <2>1. /\ pc = "admitted" /\ pc' = "batch" /\ UNCHANGED <<active, seqId, submitted>>
        /\ Conclude(item, <<"error">>)
        /\ (left' = [left EXCEPT ![q] = 0] /\ chains' = chains \ {q}) \/ UNCHANGED <<left, chains>>
    BY <1>17 DEF AdmitSetupFails, EngineAbort
  <2>2. item \in submitted \ terminal
    BY <1>1, <2>1 DEF ItemAgrees
  <2>3. events' = [events EXCEPT ![item] = <<"error">>] /\ events \in [Requests -> Replied]
    <3>1. <<"error">> \in Replied /\ events \in [Requests -> Replied]
      BY <1>1 DEF Replied, DispatcherTypeOK
    <3>2. QED BY <1>1, <2>1, <2>2, <3>1, ConcludeFacts
  <2>4. \A p \in Requests : p = q => Abandoned(p)'
    BY <1>15, <2>1, <2>2, <2>3 DEF Abandoned
  <2>5. ASSUME NEW p \in Requests
        PROVE  /\ active'[p] # None => left'[p] > 0
               /\ left'[p] > 0 /\ active'[p] = None => Abandoned(p)'
               /\ p \in chains' => left'[p] = 0
    BY <1>2, <1>3, <1>15, <2>1, <2>4
  <2>6. QED BY <1>2, <2>1, <2>5 DEF EngineHolds
<1>18. CASE AdmitActive
  <2> DEFINE q == seqId[item]
  <2>1. /\ pc = "admitted" /\ pc' = "batch" /\ UNCHANGED <<left, chains, seqId>>
        /\ active' = [active EXCEPT ![q] = item]
    BY <1>18 DEF AdmitActive
  <2>2. ASSUME NEW p \in Requests
        PROVE  /\ active'[p] # None => left'[p] > 0
               /\ left'[p] > 0 /\ active'[p] = None => Abandoned(p)'
               /\ p \in chains' => left'[p] = 0
    BY <1>2, <1>3, <1>15, <2>1
  <2>3. QED BY <1>2, <2>1, <2>2 DEF EngineHolds
<1>19. CASE NothingActive \/ StepRaises
  BY <1>4, <1>19 DEF NothingActive, NextRound, StepRaises, Running
<1>20. CASE Step
  <2>1. pc = "step" /\ UNCHANGED <<active, seqId, item>> /\ pc' \in {"deltas", "failing"}
    BY <1>20 DEF Step
  <2>2. PICK some, ends :
          /\ some \subseteq Live /\ ends \subseteq some
          /\ LET done == ends \cup {q \in some : left[q] = 1} IN
             /\ left' = [q \in Requests |->
                           CASE q \in done -> 0 [] q \in some \ done -> left[q] - 1 [] OTHER -> left[q]]
             /\ chains' = chains \cup done
             /\ pc' = "deltas" => fin' = done
    BY <1>20 DEF Step
  <2> DEFINE done == ends \cup {q \in some : left[q] = 1}
  <2>3. /\ some \subseteq Requests /\ done \subseteq some
        /\ \A q \in some : left[q] \in Nat /\ left[q] > 0
    BY <1>2, <2>2 DEF Live
  <2>4. ASSUME NEW q \in Requests
        PROVE  /\ q \in done => left'[q] = 0
               /\ q \in some \ done => left'[q] = left[q] - 1 /\ left[q] > 1
               /\ q \notin some => left'[q] = left[q]
    <3>1. left'[q] = CASE q \in done -> 0 [] q \in some \ done -> left[q] - 1 [] OTHER -> left[q]
      BY <2>2
    <3>2. q \in done => left'[q] = 0
      BY <3>1
    <3>3. q \in some \ done => left'[q] = left[q] - 1 /\ left[q] # 1
      BY <3>1
    <3>4. q \notin some => left'[q] = left[q]
      BY <2>3, <3>1
    <3>5. QED BY <2>3, <3>2, <3>3, <3>4
  <2>5. /\ \A q \in Requests : /\ active[q] # None => left[q] > 0
                               /\ left[q] > 0 /\ active[q] = None => Abandoned(q)
        /\ \A q \in chains : left[q] = 0
    BY <1>1, <2>1 DEF EngineHolds, Running
  <2>6. SUFFICES ASSUME pc' = "deltas" PROVE EngineHolds'
    BY <1>5, <2>1 DEF Running
  <2>7. fin' = done /\ chains' = chains \cup done
    BY <2>2, <2>6
  <2>8. ASSUME NEW q \in Requests
        PROVE  /\ active'[q] # None => left'[q] > 0 \/ q \in fin'
               /\ left'[q] > 0 /\ active'[q] = None => Abandoned(q)'
               /\ q \in chains' => left'[q] = 0
               /\ q \in fin' => left'[q] = 0
    <3>1. left[q] \in Nat
      BY <1>2
    <3>2. left'[q] > 0 => left[q] > 0
      BY <2>3, <2>4, <3>1
    <3>3. QED BY <1>3, <2>1, <2>3, <2>4, <2>5, <2>7, <3>1, <3>2
  <2>9. QED BY <1>2, <2>3, <2>6, <2>7, <2>8 DEF EngineHolds
<1>21. CASE PublishDelta
  <2>1. pc = "deltas" /\ UNCHANGED <<pc, seqId, fin, item>>
    BY <1>21 DEF PublishDelta
  <2>2. CASE UNCHANGED <<active, left, chains>>
    BY <1>4, <2>1, <2>2
  <2>3. ASSUME NEW q \in out, EngineAbort(q), Unpublish(q) PROVE EngineHolds'
    BY <1>2, <1>10, <2>1, <2>3 DEF Unpublish
  <2>4. QED BY <1>21, <2>2, <2>3 DEF PublishDelta
<1>22. CASE DeltasDone
  <2>1. pc = "deltas" /\ pc' = "finished" /\ UNCHANGED <<active, left, chains, seqId, fin, item>>
    BY <1>22 DEF DeltasDone
  <2>2. QED BY <1>1, <1>3, <2>1 DEF EngineHolds, Running
<1>23. CASE PublishFinished
  <2>1. pc = "finished" /\ UNCHANGED <<pc, seqId, item>>
    BY <1>23 DEF PublishFinished
  <2>2. PICK q \in fin : /\ fin' = fin \ {q}
                         /\ \/ active[q] = None /\ UNCHANGED <<active, left, chains>>
                            \/ Unpublish(q) /\ (EngineAbort(q) \/ UNCHANGED <<left, chains>>)
    BY <1>23 DEF PublishFinished
  <2>3. q \in Requests /\ left[q] = 0
    BY <1>1, <1>2, <2>1, <2>2 DEF EngineHolds, Running
  <2>4. active' = [active EXCEPT ![q] = None]
    BY <1>2, <2>2, <2>3 DEF Unpublish
  <2>5. left' = [left EXCEPT ![q] = 0] /\ chains' \subseteq chains
    BY <1>2, <2>2, <2>3 DEF EngineAbort
  <2>6. QED BY <1>1, <1>3, <2>1, <2>2, <2>3, <2>4, <2>5, EngineDrops
<1>24. CASE FinishedDone
  <2>1. pc = "finished" /\ fin = {} /\ UNCHANGED <<active, left, chains, seqId>>
        /\ pc' \in {"fail_active", "controls"}
    BY <1>24 DEF FinishedDone, NextRound
  <2>2. QED BY <1>1, <1>3, <2>1 DEF EngineHolds, Running
<1>25. CASE PublishDeltaRaises \/ PublishFinishedRaises
  BY <1>5, <1>25 DEF PublishDeltaRaises, PublishFinishedRaises, Running
<1>26. CASE MarkFailed \/ FailActive \/ FailQueued \/ FailControls \/ FailAborts
  BY <1>5, <1>26 DEF MarkFailed, FailActive, FailQueued, FailControls, FailAborts, Running
<1>27. QED BY <1>6, <1>7, <1>8, <1>9, <1>11, <1>12, <1>13, <1>14, <1>16, <1>17, <1>18, <1>19, <1>20,
              <1>21, <1>22, <1>23, <1>24, <1>25, <1>26
           DEF DispatcherNext, EngineThread

-----------------------------------------------------------------------------
(* The theorems *)

\* The dispatcher starts in the invariant.
LEMMA InitInv == ASSUME DispatcherInit PROVE DispatcherInv
<1>1. OnePlace
  BY StartsInOnePlace
<1>2. ThreadAgrees /\ WaitersQueued /\ NobodyForgotten /\ CancelsQueued /\ SeqIdsRooted
  BY DEF DispatcherInit, ThreadAgrees, WaitersQueued, NobodyForgotten, CancelsQueued, SeqIdsRooted,
         Queued
<1>3. EngineHolds
  BY DEF DispatcherInit, EngineHolds
<1>4. QED BY <1>1, <1>2, <1>3 DEF DispatcherInv

\* Every step of the dispatcher keeps the invariant.
LEMMA StepInv == ASSUME DispatcherInv, [DispatcherNext]_dispVars PROVE DispatcherInv'
<1>1. OnePlace
  BY DEF DispatcherInv
<1>2. OnePlace'
  BY <1>1, StaysInOnePlace
<1>3. CASE DispatcherNext
  BY <1>2, <1>3, ThreadStep, WaitersStep, ForgottenStep, CancelsStep, RootedStep, EngineStep
  DEF DispatcherInv
<1>4. CASE UNCHANGED dispVars
  <2>1. ThreadAgrees' /\ WaitersQueued' /\ NobodyForgotten'
    BY <1>4 DEF DispatcherInv, dispVars, ThreadAgrees, WaitersQueued, NobodyForgotten, Queued, Forced,
                Admitting, Active, Told
  <2>2. CancelsQueued' /\ SeqIdsRooted' /\ EngineHolds'
    BY <1>4 DEF DispatcherInv, dispVars, CancelsQueued, SeqIdsRooted, EngineHolds, Active, Aborting,
                Abandoned
  <2>3. QED BY <1>2, <2>1, <2>2 DEF DispatcherInv
<1>5. QED BY <1>3, <1>4

\* The inductive invariant of the dispatcher, in every behaviour: nobody is
\* forgotten between the two threads, whatever _run fails at.
THEOREM DispatcherInvariance == DispatcherSpec => []DispatcherInv
BY InitInv, StepInv, PTL DEF DispatcherSpec

\* cancel() sets the event and reads seq_id while _admit writes seq_id and reads
\* the event: one of them sees the other, so a cancelled request that runs has
\* an abort queued, and _drain_aborts knows the request of every cancel.
THEOREM NoCancelLost == DispatcherSpec => []CancelNotLost
<1>1. ASSUME DispatcherInv PROVE CancelNotLost
  <2>1. OnePlace /\ CancelsQueued
    BY <1>1 DEF DispatcherInv
  <2>2. \A r \in cancelled :
          /\ seqId[r] # None /\ active[seqId[r]] = r
          /\ loop.req # r /\ ~closing /\ pc \in Running
          => \E i \in DOMAIN aborts : aborts[i].req = r
    BY <2>1 DEF CancelsQueued, Active, Aborting
  <2>3. ASSUME pc = "aborts", NEW i \in DOMAIN aborts
        PROVE  LET r == aborts[i].req IN
               aborts[i].force \/ r \in terminal \/ active[seqId[r]] = r
    <3>1. aborts # <<>>
      BY <2>3
    <3>2. QED BY <1>1, <2>3, <3>1, AbortFindsRequest
  <2>4. QED BY <2>2, <2>3 DEF CancelNotLost
<1>2. QED BY <1>1, DispatcherInvariance, PTL

\* When _run calls engine.step(), the sequences the engine runs are those in
\* active, except what an admission that failed twice left behind.
THEOREM EngineRunsWhatIsActive == DispatcherSpec => []EngineAgrees
<1>1. ASSUME DispatcherInv PROVE EngineAgrees
  <2>1. EngineHolds
    BY <1>1 DEF DispatcherInv
  <2>2. QED BY <2>1 DEF EngineHolds, EngineAgrees, Running, Abandoned
<1>2. QED BY <1>1, DispatcherInvariance, PTL

\* The finally block of _run answers everybody: when the thread is gone every
\* request it was given is over and told, and no discard() or control() waits.
THEOREM DeadThreadAnsweredAll == DispatcherSpec => []DeadLeavesNobodyWaiting
<1>1. ASSUME DispatcherInv PROVE DeadLeavesNobodyWaiting
  <2>1. OnePlace /\ ThreadAgrees /\ WaitersQueued /\ NobodyForgotten
    BY <1>1 DEF DispatcherInv
  <2>2. SUFFICES ASSUME pc = "dead"
                 PROVE  /\ \A r \in submitted \ lost : /\ r \in terminal /\ admission[r] # "pending"
                                                       /\ events[r] # <<>> \/ r \in cancelled
                        /\ \A r \in Requests : discards[r] # "waiting"
                        /\ \A c \in Controls : calls[c] # "waiting"
    BY DEF DeadLeavesNobodyWaiting
  <2>3. \A r \in submitted \ lost : r \in terminal
    <3>1. /\ submitted \subseteq Requests /\ NoneActive
          /\ seqId \in [Requests -> Requests \cup {None}]
      BY <2>1, <2>2 DEF OnePlace, DispatcherTypeOK, ActiveAgrees
    <3>2. \A r \in Requests : ~Queued(r) /\ ~Admitting(r) /\ ~Active(r)
      BY <2>1, <2>2, <3>1 DEF ThreadAgrees, Admitting, Active, NoneActive
    <3>3. QED BY <2>1, <3>1, <3>2 DEF NobodyForgotten
  <2>4. \A r \in submitted \ lost : admission[r] # "pending" /\ (events[r] # <<>> \/ r \in cancelled)
    BY <2>1, <2>3 DEF NobodyForgotten, Told
  <2>5. (\A r \in Requests : discards[r] # "waiting") /\ (\A c \in Controls : calls[c] # "waiting")
    BY <2>1, <2>2 DEF WaitersQueued, ThreadAgrees
  <2>6. QED BY <2>3, <2>4, <2>5
<1>2. QED BY <1>1, DispatcherInvariance, PTL
=============================================================================
