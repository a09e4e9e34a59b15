----------------------------- MODULE Dispatcher -----------------------------
(***************************************************************************)
(* The OpenAI server's dispatcher (entrypoints/openai/dispatcher.py): the  *)
(* event loop submits, cancels and discards requests, sends control calls  *)
(* and closes; one engine thread admits, steps, publishes and aborts.  The *)
(* two share queues, three flags and the fields of each request handle.    *)
(*                                                                         *)
(* Coroutines run on one thread and interleave only where they await, so   *)
(* `loop` holds the call the event loop is in the middle of; between any   *)
(* two of its lines the engine thread may run, and the other way round.    *)
(*                                                                         *)
(* The engine is external: a sequence id is live for some tokens, and a    *)
(* finished one stays resident as an idle chain that a later turn resumes  *)
(* under the same sequence id (chain mode).                                *)
(***************************************************************************)
EXTENDS Naturals, Sequences, FiniteSets

CONSTANTS
  Requests,    \* request handles (request_token)
  Turn,        \* the earlier request whose chain this one resumes, or None
  Controls,    \* control calls
  None, Wakeup, Stop,
  MaxOutput,   \* tokens a turn may produce
  MaxFaults    \* failing calls in one behaviour

ASSUME DispatcherAssumption ==
  /\ IsFiniteSet(Requests) /\ Requests \cap {None, Wakeup, Stop} = {}
  /\ Cardinality({None, Wakeup, Stop}) = 3
  /\ Turn \in [Requests -> Requests \cup {None}]
  /\ MaxOutput \in Nat \ {0} /\ MaxFaults \in Nat

VARIABLES
  \* event loop
  loop,        \* the call in progress and its request
  submitted,   \* requests whose submit() returned
  discards,    \* what the caller of discard() knows
  calls,       \* what the caller of control() knows
  \* handles
  cancelled, terminal,  \* the two events of a handle
  seqId,       \* sequence id of the engine, None before admission
  admission,   \* admission_future: pending, ok or error
  events,      \* final and error events put in output_queue
  \* shared
  pending, aborts, controls,  \* _pending, _aborts, _controls
  closing, failed, exited,    \* _closing, _failed_message, engine.exit()
  \* engine thread
  pc, second,  \* where _run is; second pass of the two drains
  stopping,    \* the close marker was taken
  item,        \* request being admitted
  active,      \* active[seq_id]: the request, or None
  latest,      \* _latest_request_tokens
  out, fin,    \* sequence ids with tokens, and finished, in the last step
  \* engine (external)
  left,        \* tokens a live sequence may still produce
  chains,      \* idle resident chains, by sequence id
  faults,
  lost         \* history: requests a check raised for after active.pop

loopVars   == <<loop, submitted, discards, calls, cancelled>>
handleVars == <<terminal, seqId, admission, events>>
flagVars   == <<closing, failed, exited>>
queueVars  == <<pending, aborts, controls>>
runVars    == <<second, stopping, item, out, fin>>
dispVars   == <<loopVars, handleVars, flagVars, queueVars, pc, runVars, active, latest,
                left, chains, faults, lost>>

Idle == [op |-> "idle", req |-> None]

DispatcherInit ==
  /\ loop = Idle /\ submitted = {} /\ cancelled = {}
  /\ discards = [r \in Requests |-> "none"] /\ calls = [c \in Controls |-> "none"]
  /\ terminal = {} /\ seqId = [r \in Requests |-> None]
  /\ admission = [r \in Requests |-> "pending"] /\ events = [r \in Requests |-> <<>>]
  /\ pending = <<>> /\ aborts = <<>> /\ controls = <<>>
  /\ closing = FALSE /\ failed = FALSE /\ exited = FALSE
  /\ pc = "controls" /\ second = FALSE /\ stopping = FALSE /\ item = None
  /\ active = [q \in Requests |-> None] /\ latest = [q \in Requests |-> None]
  /\ out = {} /\ fin = {}
  /\ left = [q \in Requests |-> 0] /\ chains = {} /\ faults = 0
  /\ lost = {}
-----------------------------------------------------------------------------
(* The event loop *)

\* _terminal_message_locked
Unavailable == failed \/ closing \/ pc = "dead"

\* submit(): its last look at the state and the put are under _state_lock.
\* A turn is sent when the client knows the chain it resumes.
Submit(r) ==
  /\ loop = Idle /\ r \notin submitted
  /\ Turn[r] # None => seqId[Turn[r]] # None
  /\ submitted' = submitted \cup {r}
  /\ IF Unavailable
     THEN /\ terminal' = terminal \cup {r}
          /\ events' = [events EXCEPT ![r] = Append(@, "error")]
          /\ admission' = [admission EXCEPT ![r] = "error"]
          /\ UNCHANGED pending
     ELSE pending' = Append(pending, r) /\ UNCHANGED <<terminal, events, admission>>
  /\ UNCHANGED <<loop, discards, calls, cancelled, seqId, flagVars, aborts, controls, pc,
                 runVars, active, latest, left, chains, faults, lost>>

\* cancel(), first half: set the event, then look at seq_id.
CancelMark(r) ==
  /\ loop = Idle /\ r \in submitted \ (terminal \cup cancelled)
  /\ cancelled' = cancelled \cup {r}
  /\ loop' = [op |-> "cancel", req |-> r]
  /\ UNCHANGED <<submitted, discards, calls, handleVars, flagVars, queueVars, pc, runVars,
                 active, latest, left, chains, faults, lost>>

Abort(r, force) == [req |-> r, force |-> force]

CancelEnqueue ==
  /\ loop.op = "cancel"
  /\ IF seqId[loop.req] = None
     THEN loop' = Idle /\ UNCHANGED aborts
     ELSE /\ aborts' = Append(aborts, Abort(loop.req, FALSE))
          /\ loop' = [loop EXCEPT !.op = "wake"]
  /\ UNCHANGED <<submitted, discards, calls, cancelled, handleVars, flagVars, pending, controls,
                 pc, runVars, active, latest, left, chains, faults, lost>>

\* discard(): like cancel, but also for a request that is over, and awaited.
DiscardMark(r) ==
  /\ loop = Idle /\ r \in submitted /\ discards[r] = "none"
  /\ cancelled' = cancelled \cup {r}
  /\ loop' = [op |-> "discard", req |-> r]
  /\ UNCHANGED <<submitted, discards, calls, handleVars, flagVars, queueVars, pc, runVars,
                 active, latest, left, chains, faults, lost>>

\* Mutant of DiscardEnqueue: the engine thread is not woken.
DiscardWithoutWake ==
  /\ loop.op = "discard"
  /\ LET r == loop.req IN
     IF seqId[r] = None \/ Unavailable
     THEN /\ discards' = [discards EXCEPT ![r] = "over"]
          /\ UNCHANGED aborts
     ELSE /\ discards' = [discards EXCEPT ![r] = "waiting"]
          /\ aborts' = Append(aborts, Abort(r, TRUE))
  /\ loop' = Idle
  /\ UNCHANGED <<submitted, calls, cancelled, handleVars, flagVars, pending, controls, pc,
                 runVars, active, latest, left, chains, faults, lost>>

DiscardEnqueue ==
  /\ loop.op = "discard"
  /\ LET r == loop.req IN
     IF seqId[r] = None \/ Unavailable
     THEN /\ discards' = [discards EXCEPT ![r] = "over"]
          /\ loop' = Idle
          /\ UNCHANGED aborts
     ELSE /\ discards' = [discards EXCEPT ![r] = "waiting"]
          /\ aborts' = Append(aborts, Abort(r, TRUE))
          /\ loop' = [loop EXCEPT !.op = "locked_wake"]
  /\ UNCHANGED <<submitted, calls, cancelled, handleVars, flagVars, pending, controls, pc,
                 runVars, active, latest, left, chains, faults, lost>>

\* control(): refused, or queued and awaited.
Control(c) ==
  /\ loop = Idle /\ calls[c] = "none"
  /\ IF Unavailable
     THEN calls' = [calls EXCEPT ![c] = "over"] /\ UNCHANGED <<controls, loop>>
     ELSE /\ calls' = [calls EXCEPT ![c] = "waiting"]
          /\ controls' = Append(controls, c)
          /\ loop' = [op |-> "locked_wake", req |-> None]
  /\ UNCHANGED <<submitted, discards, cancelled, handleVars, flagVars, pending, aborts, pc,
                 runVars, active, latest, left, chains, faults, lost>>

\* The put of _WAKEUP that follows; discard() and control() still hold the lock.
Wake ==
  /\ loop.op \in {"wake", "locked_wake"}
  /\ pending' = Append(pending, Wakeup)
  /\ loop' = Idle
  /\ UNCHANGED <<submitted, discards, calls, cancelled, handleVars, flagVars, aborts, controls,
                 pc, runVars, active, latest, left, chains, faults, lost>>

\* The 30 s timeout of discard() gives up waiting.
DiscardTimesOut(r) ==
  /\ loop = Idle /\ discards[r] = "waiting"
  /\ discards' = [discards EXCEPT ![r] = "over"]
  /\ UNCHANGED <<loop, submitted, calls, cancelled, handleVars, flagVars, queueVars, pc, runVars,
                 active, latest, left, chains, faults, lost>>

Close ==
  /\ loop = Idle /\ ~closing
  /\ closing' = TRUE
  /\ pending' = Append(pending, Stop)
  /\ loop' = [op |-> "close", req |-> None]
  /\ UNCHANGED <<submitted, discards, calls, cancelled, handleVars, failed, exited, aborts,
                 controls, pc, runVars, active, latest, left, chains, faults, lost>>

\* The join returns, or times out; the engine exits either way.
CloseExit ==
  /\ loop.op = "close"
  /\ exited' = TRUE
  /\ loop' = Idle
  /\ UNCHANGED <<submitted, discards, calls, cancelled, handleVars, closing, failed, queueVars,
                 pc, runVars, active, latest, left, chains, faults, lost>>
-----------------------------------------------------------------------------
(* Calls of the engine *)

CallOk == UNCHANGED faults

\* A call raises: a fault, or the engine has exited under the thread.
CallRaises ==
  \/ exited /\ UNCHANGED faults
  \/ faults < MaxFaults /\ faults' = faults + 1

\* abort_request, discard_chain: the sequence leaves the engine, chain and all.
EngineAbort(q) ==
  /\ left' = [left EXCEPT ![q] = 0]
  /\ chains' = chains \ {q}

\* The request is over: terminal, its token forgotten, at most one event put.
Conclude(r, put) ==
  /\ terminal' = terminal \cup {r}
  /\ events' = [events EXCEPT ![r] = @ \o put]
  /\ latest' = [q \in Requests |-> IF q = seqId[r] /\ latest[q] = r THEN None ELSE latest[q]]

Unpublish(q) == active' = [active EXCEPT ![q] = None]

NoneActive == \A q \in Requests : active[q] = None

\* The while loop of _run: next round, or the finally block.
NextRound ==
  /\ pc' = IF stopping THEN "fail_active" ELSE "controls"
  /\ second' = FALSE
-----------------------------------------------------------------------------
(* _drain_controls and _drain_aborts *)

DrainControl ==
  /\ pc = "controls" /\ controls # <<>>
  /\ controls' = Tail(controls)
  /\ calls' = [calls EXCEPT ![Head(controls)] = "over"]
  /\ \/ pc' = pc /\ CallOk
     \/ ~closing /\ pc' = "failing" /\ CallRaises  \* the snapshot refresh raises
  /\ UNCHANGED <<loop, submitted, discards, cancelled, handleVars, flagVars, pending, aborts,
                 runVars, active, latest, left, chains, lost>>

ControlsDrained ==
  /\ pc = "controls" /\ controls = <<>>
  /\ \/ pc' = "aborts" /\ CallOk
     \/ ~second /\ pc' = "failing" /\ CallRaises   \* run_pending_prefix_prune raises
  /\ UNCHANGED <<loopVars, handleVars, flagVars, queueVars, runVars, active, latest, left, chains,
                 lost>>

Resolve(a) ==
  discards' = IF a.force /\ discards[a.req] = "waiting"
              THEN [discards EXCEPT ![a.req] = "over"] ELSE discards

\* Mutant of Stale: the tokens are not compared.
StaleNever(r) == FALSE

\* Mutant of Stale: any active turn counts as another one.
StaleIfBusy(r) == active[seqId[r]] # None \/ latest[seqId[r]] \notin {None, r}

\* The sequence id of r belongs to another turn by now.
Stale(r) ==
  \/ latest[seqId[r]] \notin {None, r}
  \/ active[seqId[r]] \notin {None, r}

TakeAbort ==
  /\ pc = "aborts" /\ aborts # <<>>
  /\ aborts' = Tail(aborts)

\* A cancel that came too late: the request is over, or its id is reused.
AbortIgnored ==
  /\ TakeAbort
  /\ LET a == Head(aborts) IN
     \/ /\ a.req \in terminal /\ ~a.force
        /\ UNCHANGED <<terminal, discards>>
     \/ /\ a.req \notin terminal \/ a.force
        /\ Stale(a.req)
        /\ terminal' = terminal \cup {a.req}
        /\ Resolve(a)
  /\ UNCHANGED <<loop, submitted, calls, cancelled, seqId, admission, events, flagVars, pending,
                 controls, pc, runVars, active, latest, left, chains, faults, lost>>

AbortActive ==
  /\ TakeAbort
  /\ LET a == Head(aborts)
         r == a.req
         q == seqId[r]
     IN  /\ r \notin terminal \/ a.force
         /\ ~Stale(r) /\ active[q] # None
         /\ \/ EngineAbort(q) /\ Unpublish(q) /\ Conclude(active[q], <<>>) /\ CallOk /\ pc' = pc
            \/ /\ CallRaises /\ pc' = "failing"
               /\ UNCHANGED <<active, latest, terminal, events, left, chains>>
         /\ Resolve(a)
  /\ UNCHANGED <<loop, submitted, calls, cancelled, seqId, admission, flagVars, pending, controls,
                 runVars, lost>>

\* A discard of a request that is over invalidates its idle chain.  (A cancel
\* never gets here: CancelNotLost.)
AbortOver ==
  /\ TakeAbort
  /\ LET a == Head(aborts)
         q == seqId[a.req]
     IN  /\ a.force /\ ~Stale(a.req) /\ active[q] = None
         /\ \/ EngineAbort(q) /\ CallOk
            \/ CallRaises /\ UNCHANGED <<left, chains>>
         /\ Resolve(a)
  /\ UNCHANGED <<loop, submitted, calls, cancelled, handleVars, flagVars, pending, controls, pc,
                 runVars, active, latest, lost>>

AbortsDrained ==
  /\ pc = "aborts" /\ aborts = <<>>
  /\ \/ pc' = (IF second THEN "step" ELSE "take") /\ CallOk
     \/ pc' = "failing" /\ CallRaises              \* the snapshot refresh raises
  /\ UNCHANGED <<loopVars, handleVars, flagVars, queueVars, runVars, active, latest, left, chains,
                 lost>>
-----------------------------------------------------------------------------
(* Taking requests and admitting them *)

\* With nothing active the thread blocks on the queue.
Take ==
  /\ pc = "take"
  /\ \/ ~NoneActive /\ pc' = "batch" /\ UNCHANGED <<pending, item>>
     \/ /\ NoneActive /\ pending # <<>>
        /\ pending' = Tail(pending)
        /\ item' = IF Head(pending) \in Requests THEN Head(pending) ELSE item
        /\ pc' = CASE Head(pending) = Stop -> "fail_active"
                   [] Head(pending) = Wakeup -> "controls"
                   [] OTHER -> "admit"
  /\ UNCHANGED <<loopVars, handleVars, flagVars, aborts, controls, second, stopping, out, fin,
                 active, latest, left, chains, faults, lost>>

\* Mutant of TakeMore: skips the close marker like a wake-up.
TakeMoreForgetsStop ==
  /\ pc = "batch"
  /\ \/ /\ pending = <<>>
        /\ pc' = "controls" /\ second' = TRUE
        /\ UNCHANGED <<pending, item>>
     \/ /\ pending # <<>>
        /\ pending' = Tail(pending)
        /\ item' = IF Head(pending) \in Requests THEN Head(pending) ELSE item
        /\ pc' = IF Head(pending) \in Requests THEN "admit" ELSE pc
        /\ UNCHANGED second
  /\ UNCHANGED <<loopVars, handleVars, flagVars, aborts, controls, stopping, out, fin, active,
                 latest, left, chains, faults, lost>>

TakeMore ==
  /\ pc = "batch"
  /\ \/ /\ pending = <<>>
        /\ pc' = "controls" /\ second' = TRUE
        /\ UNCHANGED <<pending, item, stopping>>
     \/ /\ pending # <<>>
        /\ pending' = Tail(pending)
        /\ stopping' = (stopping \/ Head(pending) = Stop)
        /\ item' = IF Head(pending) \in Requests THEN Head(pending) ELSE item
        /\ pc' = IF Head(pending) \in Requests THEN "admit" ELSE pc
        /\ UNCHANGED second
  /\ UNCHANGED <<loopVars, handleVars, flagVars, aborts, controls, out, fin, active, latest,
                 left, chains, faults, lost>>

\* Mutant of AdmitCheck: a cancelled admission is not resolved.
AdmitCheckUnresolved ==
  /\ pc = "admit"
  /\ IF item \in cancelled
     THEN terminal' = terminal \cup {item} /\ pc' = "batch"
     ELSE pc' = "admitting" /\ UNCHANGED terminal
  /\ UNCHANGED <<loopVars, seqId, events, admission, flagVars, queueVars, runVars, active, latest,
                 left, chains, faults, lost>>

\* _admit looks at the events before it calls the engine.
AdmitCheck ==
  /\ pc = "admit"
  /\ IF item \in cancelled \/ closing
     THEN /\ terminal' = terminal \cup {item}
          /\ events' = [events EXCEPT ![item] =
                          IF item \in cancelled THEN @ ELSE Append(@, "error")]
          /\ admission' = [admission EXCEPT ![item] = "error"]
          /\ pc' = "batch"
     ELSE pc' = "admitting" /\ UNCHANGED <<terminal, events, admission>>
  /\ UNCHANGED <<loopVars, seqId, flagVars, queueVars, runVars, active, latest, left, chains,
                 faults, lost>>

\* The sequence id the engine gives: a new one, or that of an idle chain.
EngineSeqIds(r) ==
  IF Turn[r] = None THEN {r} ELSE {q \in chains : q = seqId[Turn[r]]}

\* admit_request; handle.seq_id is written only after it returned.
AdmitAccepted ==
  /\ pc = "admitting"
  /\ \E q \in EngineSeqIds(item) :
       /\ seqId' = [seqId EXCEPT ![item] = q]
       /\ left' = [left EXCEPT ![q] = MaxOutput]
       /\ chains' = chains \ {q}
  /\ pc' = "admitted"
  /\ UNCHANGED <<loopVars, terminal, admission, events, flagVars, queueVars, runVars, active,
                 latest, faults, lost>>

\* The engine refuses: bad input, unknown or busy chain, failed preparation.
AdmitRefused ==
  /\ pc = "admitting"
  /\ Conclude(item, <<"error">>)
  /\ admission' = [admission EXCEPT ![item] = "error"]
  /\ pc' = "batch"
  /\ UNCHANGED <<loopVars, seqId, flagVars, queueVars, runVars, active, left, chains, faults, lost>>

\* Mutant of AdmitCancelled: the engine is not told.
AdmitCancelledKept ==
  /\ pc = "admitted" /\ item \in cancelled
  /\ terminal' = terminal \cup {item}
  /\ admission' = [admission EXCEPT ![item] = "error"]
  /\ pc' = "batch"
  /\ UNCHANGED <<loopVars, seqId, events, flagVars, queueVars, runVars, active, latest, left,
                 chains, faults, lost>>

\* Cancelled while it was being admitted: no cancel can have seen seq_id
\* before it was written, so look again now.
AdmitCancelled ==
  /\ pc = "admitted" /\ item \in cancelled
  /\ EngineAbort(seqId[item])
  /\ terminal' = terminal \cup {item}
  /\ admission' = [admission EXCEPT ![item] = "error"]
  /\ pc' = "batch"
  /\ UNCHANGED <<loopVars, seqId, events, flagVars, queueVars, runVars, active, latest, faults,
                 lost>>

\* Mutant of AdmitActive: the second look at cancelled is missing.
AdmitWithoutLook ==
  /\ pc = "admitted"
  /\ active' = [active EXCEPT ![seqId[item]] = item]
  /\ latest' = [latest EXCEPT ![seqId[item]] = item]
  /\ admission' = [admission EXCEPT ![item] = "ok"]
  /\ pc' = "batch"
  /\ UNCHANGED <<loopVars, terminal, seqId, events, flagVars, queueVars, runVars, left, chains,
                 faults, lost>>

AdmitActive ==
  /\ pc = "admitted" /\ item \notin cancelled
  /\ active' = [active EXCEPT ![seqId[item]] = item]
  /\ latest' = [latest EXCEPT ![seqId[item]] = item]
  /\ admission' = [admission EXCEPT ![item] = "ok"]
  /\ pc' = "batch"
  /\ UNCHANGED <<loopVars, terminal, seqId, events, flagVars, queueVars, runVars, left, chains,
                 faults, lost>>

\* The set-up after admission, or the abort of a cancelled request, raises:
\* abort (once more), and report the error even if that fails too.
AdmitSetupFails ==
  /\ pc = "admitted"
  /\ CallRaises
  /\ EngineAbort(seqId[item]) \/ UNCHANGED <<left, chains>>
  /\ Conclude(item, <<"error">>)
  /\ admission' = [admission EXCEPT ![item] = "error"]
  /\ pc' = "batch"
  /\ UNCHANGED <<loopVars, seqId, flagVars, queueVars, runVars, active, lost>>
-----------------------------------------------------------------------------
(* One step and its publication *)

NothingActive ==
  /\ pc = "step" /\ NoneActive
  /\ NextRound
  /\ UNCHANGED <<loopVars, handleVars, flagVars, queueVars, stopping, item, out, fin, active,
                 latest, left, chains, faults, lost>>

Live == {q \in Requests : left[q] > 0}

\* engine.step(): some live sequences produce a token, some of them finish.
\* If the refresh after it raises, what it produced is not published.
Step ==
  /\ pc = "step" /\ ~NoneActive
  /\ \E some \in SUBSET Live \ {{}} : \E ends \in SUBSET some :
       LET done == ends \cup {q \in some : left[q] = 1} IN
       /\ left' = [q \in Requests |->
                     CASE q \in done -> 0 [] q \in some \ done -> left[q] - 1 [] OTHER -> left[q]]
       /\ chains' = chains \cup done
       /\ \/ out' = some /\ fin' = done /\ pc' = "deltas" /\ CallOk
          \/ CallRaises /\ pc' = "failing" /\ UNCHANGED <<out, fin>>
  /\ UNCHANGED <<loopVars, handleVars, flagVars, queueVars, second, stopping, item, active, latest,
                 lost>>

StepRaises ==
  /\ pc = "step" /\ ~NoneActive
  /\ CallRaises
  /\ pc' = "failing"
  /\ UNCHANGED <<loopVars, handleVars, flagVars, queueVars, runVars, active, latest, left, chains,
                 lost>>

\* _publish_token_deltas for one sequence: tokens only, or a stop string.
PublishDelta ==
  /\ pc = "deltas"
  /\ \E q \in out :
       /\ out' = out \ {q}
       /\ \/ UNCHANGED <<active, latest, terminal, events, left, chains>>
          \/ /\ active[q] # None
             /\ EngineAbort(q) /\ Unpublish(q) /\ Conclude(active[q], <<"final">>)
  /\ UNCHANGED <<loopVars, seqId, admission, flagVars, queueVars, pc, second, stopping, item, fin,
                 faults, lost>>

\* A check, the abort or the refresh raises: the request is still active.
PublishDeltaRaises ==
  /\ pc = "deltas"
  /\ \E q \in out :
       /\ active[q] # None
       /\ EngineAbort(q) \/ UNCHANGED <<left, chains>>
  /\ CallRaises
  /\ pc' = "failing"
  /\ UNCHANGED <<loopVars, handleVars, flagVars, queueVars, runVars, active, latest, lost>>

DeltasDone ==
  /\ pc = "deltas" /\ out = {}
  /\ pc' = "finished"
  /\ UNCHANGED <<loopVars, handleVars, flagVars, queueVars, runVars, active, latest, left, chains,
                 faults, lost>>

\* _publish_finished for one sequence; a late stop string drops its chain.
PublishFinished ==
  /\ pc = "finished"
  /\ \E q \in fin :
       /\ fin' = fin \ {q}
       /\ \/ active[q] = None /\ UNCHANGED <<active, latest, terminal, events, left, chains>>
          \/ /\ active[q] # None
             /\ Unpublish(q) /\ Conclude(active[q], <<"final">>)
             /\ EngineAbort(q) \/ UNCHANGED <<left, chains>>
  /\ UNCHANGED <<loopVars, seqId, admission, flagVars, queueVars, pc, second, stopping, item, out,
                 faults, lost>>

\* It raises: in finish(), or in what follows active.pop.
PublishFinishedRaises ==
  /\ pc = "finished"
  /\ \E q \in fin :
       /\ active[q] # None
       /\ \/ UNCHANGED <<active, left, chains, lost>>
          \/ /\ Unpublish(q) /\ lost' = lost \cup {active[q]}
             /\ EngineAbort(q) \/ UNCHANGED <<left, chains>>
  /\ CallRaises
  /\ pc' = "failing"
  /\ UNCHANGED <<loopVars, handleVars, flagVars, queueVars, runVars, latest>>

FinishedDone ==
  /\ pc = "finished" /\ fin = {}
  /\ NextRound
  /\ UNCHANGED <<loopVars, handleVars, flagVars, queueVars, stopping, item, out, fin, active,
                 latest, left, chains, faults, lost>>
-----------------------------------------------------------------------------
(* The end of the thread *)

\* _mark_failed needs the lock discard() and control() hold while they put.
MarkFailed ==
  /\ pc = "failing" /\ loop.op # "locked_wake"
  /\ failed' = TRUE
  /\ pc' = "fail_active"
  /\ UNCHANGED <<loopVars, handleVars, closing, exited, queueVars, runVars, active, latest, left,
                 chains, faults, lost>>

\* _fail_active_requests: each is told, then aborted if the engine still can.
FailActive ==
  /\ pc = "fail_active"
  /\ \/ /\ NoneActive
        /\ pc' = "fail_queued"
        /\ UNCHANGED <<active, latest, terminal, events, left, chains, faults>>
     \/ /\ \E q \in Requests :
             /\ active[q] # None
             /\ Unpublish(q) /\ Conclude(active[q], <<"error">>)
             /\ \/ EngineAbort(q) /\ CallOk
                \/ CallRaises /\ UNCHANGED <<left, chains>>
        /\ UNCHANGED pc
  /\ UNCHANGED <<loopVars, seqId, admission, flagVars, queueVars, runVars, lost>>

\* Mutant of FailQueued: queued requests are dropped without being told.
FailQueuedSilently ==
  /\ pc = "fail_queued" /\ pending # <<>>
  /\ pending' = Tail(pending)
  /\ UNCHANGED <<loopVars, handleVars, flagVars, aborts, controls, pc, runVars,
                 active, latest, left, chains, faults, lost>>

\* _drain_queued_requests
FailQueued ==
  /\ pc = "fail_queued" /\ pending # <<>>
  /\ pending' = Tail(pending)
  /\ LET told == {r \in Requests : r = Head(pending)} IN
     /\ terminal' = terminal \cup told
     /\ events' = [r \in Requests |-> IF r \in told THEN Append(events[r], "error") ELSE events[r]]
     /\ admission' = [r \in Requests |-> IF r \in told THEN "error" ELSE admission[r]]
  /\ UNCHANGED <<loopVars, seqId, flagVars, aborts, controls, pc, runVars, active, latest, left,
                 chains, faults, lost>>

FailControls ==
  /\ pc = "fail_queued" /\ pending = <<>>
  /\ calls' = [c \in Controls |->
                 IF \E i \in DOMAIN controls : controls[i] = c THEN "over" ELSE calls[c]]
  /\ controls' = <<>>
  /\ pc' = "fail_aborts"
  /\ UNCHANGED <<loop, submitted, discards, cancelled, handleVars, flagVars, pending, aborts,
                 runVars, active, latest, left, chains, faults, lost>>

\* _fail_pending_aborts; then the thread is gone.
FailAborts ==
  /\ pc = "fail_aborts"
  /\ \/ /\ aborts # <<>>
        /\ aborts' = Tail(aborts)
        /\ terminal' = terminal \cup {Head(aborts).req}
        /\ Resolve(Head(aborts))
        /\ UNCHANGED pc
     \/ /\ aborts = <<>>
        /\ pc' = "dead"
        /\ UNCHANGED <<aborts, terminal, discards>>
  /\ UNCHANGED <<loop, submitted, calls, cancelled, seqId, admission, events, flagVars, pending,
                 controls, runVars, active, latest, left, chains, faults, lost>>
-----------------------------------------------------------------------------
EngineThread ==
  \/ DrainControl \/ ControlsDrained
  \/ AbortIgnored \/ AbortActive \/ AbortOver \/ AbortsDrained
  \/ Take \/ TakeMore
  \/ AdmitCheck \/ AdmitAccepted \/ AdmitRefused
  \/ AdmitCancelled \/ AdmitActive \/ AdmitSetupFails
  \/ NothingActive \/ Step \/ StepRaises
  \/ PublishDelta \/ PublishDeltaRaises \/ DeltasDone
  \/ PublishFinished \/ PublishFinishedRaises \/ FinishedDone
  \/ MarkFailed \/ FailActive \/ FailQueued \/ FailControls \/ FailAborts

\* The rest of a call the event loop has begun.
LoopContinues == CancelEnqueue \/ DiscardEnqueue \/ Wake \/ CloseExit

DispatcherNext ==
  \/ \E r \in Requests : Submit(r) \/ CancelMark(r) \/ DiscardMark(r) \/ DiscardTimesOut(r)
  \/ \E c \in Controls : Control(c)
  \/ Close
  \/ LoopContinues
  \/ EngineThread

DispatcherSpec == DispatcherInit /\ [][DispatcherNext]_dispVars

\* Both threads keep running; nothing is assumed of clients.
FairDispatcherSpec ==
  /\ DispatcherSpec
  /\ WF_dispVars(EngineThread) /\ WF_dispVars(LoopContinues)
-----------------------------------------------------------------------------
(* Properties *)

Replies(r) == CASE events[r] = <<>> -> "none"
                [] Len(events[r]) = 1 -> events[r][1]
                [] OTHER -> "twice"

Lifecycle == INSTANCE RequestLifecycle WITH
  stage <- [r \in Requests |-> CASE r \notin submitted -> "new"
                                [] r \in terminal -> "over"
                                [] OTHER -> "open"],
  reply <- [r \in Requests |-> Replies(r)],
  unwanted <- cancelled

\* Whatever the two threads interleave and whatever fails, a request gets at
\* most one final or error event, none after its handle is terminal, and it
\* ends without one only if its own client cancelled it: a late cancel or
\* discard never ends another turn that reuses the sequence id.
AnswersImplementLifecycle == Lifecycle!LifecycleSpec

Running == {"controls", "aborts", "take", "batch", "admit", "admitting", "admitted", "step",
            "deltas", "finished"}

DispatcherTypeOK ==
  /\ loop \in [op : {"idle", "cancel", "discard", "wake", "locked_wake", "close"},
              req : Requests \cup {None}]
  /\ submitted \subseteq Requests /\ cancelled \subseteq Requests /\ terminal \subseteq Requests
  /\ discards \in [Requests -> {"none", "waiting", "over"}]
  /\ calls \in [Controls -> {"none", "waiting", "over"}]
  /\ seqId \in [Requests -> Requests \cup {None}]
  /\ active \in [Requests -> Requests \cup {None}]
  /\ latest \in [Requests -> Requests \cup {None}]
  /\ admission \in [Requests -> {"pending", "ok", "error"}]
  /\ events \in [Requests -> {<<>>, <<"final">>, <<"error">>}]
  /\ pending \in Seq(Requests \cup {Wakeup, Stop})
  /\ aborts \in Seq([req : Requests, force : BOOLEAN])
  /\ controls \in Seq(Controls)
  /\ closing \in BOOLEAN /\ failed \in BOOLEAN /\ exited \in BOOLEAN
  /\ second \in BOOLEAN /\ stopping \in BOOLEAN
  /\ pc \in Running \cup {"failing", "fail_active", "fail_queued", "fail_aborts", "dead"}
  /\ item \in Requests \cup {None}
  /\ out \subseteq Requests /\ fin \subseteq Requests
  /\ left \in [Requests -> 0..MaxOutput] /\ chains \subseteq Requests
  /\ faults \in 0..MaxFaults /\ lost \subseteq Requests

\* A cancel is never lost between cancel() and _admit: when the call is over
\* and its request runs all the same, an abort for it is queued; and a cancel
\* taken from the queue finds its request active or terminal, so the branch of
\* _drain_aborts that aborts an unknown request is never taken.
CancelNotLost ==
  /\ \A r \in cancelled :
       /\ seqId[r] # None /\ active[seqId[r]] = r
       /\ loop.req # r /\ ~closing /\ pc \in Running
       => \E i \in DOMAIN aborts : aborts[i].req = r
  /\ pc = "aborts" =>
       \A i \in DOMAIN aborts : LET r == aborts[i].req IN
         aborts[i].force \/ r \in terminal \/ active[seqId[r]] = r

\* When the engine steps, it runs exactly what the dispatcher publishes for;
\* only an admission whose clean-up failed leaves a sequence nobody reads.
EngineAgrees ==
  pc = "step" =>
    \A q \in Requests :
      /\ active[q] # None => left[q] > 0
      /\ left[q] > 0 /\ active[q] = None =>
           \E r \in submitted : seqId[r] = q /\ events[r] = <<"error">>

\* A thread that is gone leaves nobody waiting: every request it was given is
\* over, answered unless cancelled, its admission resolved, and no caller of
\* discard() or control() still awaits it.  (Except a request lost in the last
\* checks of _publish_finished: FinalErrorReachesClient.)
DeadLeavesNobodyWaiting ==
  pc = "dead" =>
    /\ \A r \in submitted \ lost : /\ r \in terminal /\ admission[r] # "pending"
                                   /\ events[r] # <<>> \/ r \in cancelled
    /\ \A r \in Requests : discards[r] # "waiting"
    /\ \A c \in Controls : calls[c] # "waiting"

\* "test_final_detokenizer_error_reaches_client",
\* "test_stop_detokenizer_error_reaches_client": an error while the final text
\* is assembled ends the thread and is sent to the client.
FinalErrorReachesClient ==
  pc = "dead" => \A r \in submitted : events[r] # <<>> \/ r \in cancelled

\* Every submitted request ends and every admission is resolved, except a
\* request lost in the last checks of _publish_finished.
EverySubmissionEnds ==
  \A r \in Requests :
    r \in submitted ~> (r \in terminal \/ r \in lost) /\ admission[r] # "pending"

\* Whoever awaits the engine thread is answered, also when it is idle: no
\* wake-up is lost.  (The timeout of discard() is not relied upon.)
AwaitsEnd ==
  /\ \A r \in Requests : discards[r] = "waiting" ~> discards[r] = "over"
  /\ \A c \in Controls : calls[c] = "waiting" ~> calls[c] = "over"

\* close() ends the thread even with requests running.
CloseEnds == closing ~> pc = "dead"
-----------------------------------------------------------------------------
(* The inductive invariant behind AnswersImplementLifecycle *)

\* What the handles say: an open request has no answer yet; only its own
\* client's cancel puts it in the abort queue.
HandlesAgree ==
  /\ terminal \subseteq submitted /\ cancelled \subseteq submitted
  /\ \A r \in Requests \ terminal : events[r] = <<>>
  /\ \A r \in Requests : seqId[r] # None => r \in submitted
  /\ \A i \in DOMAIN aborts : aborts[i].req \in cancelled /\ seqId[aborts[i].req] # None
  /\ loop.op \in {"cancel", "discard"} => loop.req \in cancelled

\* A queued request is open, was not admitted and is queued once.
QueueAgrees ==
  \A i \in DOMAIN pending : pending[i] \in Requests =>
    /\ pending[i] \in submitted \ terminal /\ seqId[pending[i]] = None
    /\ \A j \in DOMAIN pending : pending[j] = pending[i] => j = i

\* The request being admitted is open and nowhere else.
ItemAgrees ==
  pc \in {"admit", "admitting", "admitted"} =>
    /\ item \in submitted \ terminal
    /\ \A i \in DOMAIN pending : pending[i] # item
    /\ seqId[item] = None <=> pc # "admitted"
    /\ \A q \in Requests : active[q] # item

\* An active request is open, runs under its own sequence id and is the latest
\* of that id; a thread that ends keeps none.
ActiveAgrees ==
  /\ \A q \in Requests : active[q] # None =>
       active[q] \in submitted \ terminal /\ seqId[active[q]] = q /\ latest[q] = active[q]
  /\ pc \in {"fail_queued", "fail_aborts", "dead"} => NoneActive

\* An open request is in at most one of the queue, the admission and the active
\* table, unanswered, and only its own client's cancel can be in the abort
\* queue for it: nobody answers it twice or ends another client's request.
OnePlace == DispatcherTypeOK /\ HandlesAgree /\ QueueAgrees /\ ItemAgrees /\ ActiveAgrees
-----------------------------------------------------------------------------
(* The rest of it, behind CancelNotLost, EngineAgrees and the end of the thread *)

Queued(r)    == \E i \in DOMAIN pending : pending[i] = r
Admitting(r) == pc \in {"admit", "admitting", "admitted"} /\ item = r
Active(r)    == seqId[r] # None /\ active[seqId[r]] = r
Aborting(r)  == \E i \in DOMAIN aborts : aborts[i].req = r
Forced(r)    == \E i \in DOMAIN aborts : aborts[i].req = r /\ aborts[i].force

Told(r) == admission[r] # "pending" /\ (events[r] # <<>> \/ r \in cancelled)

\* The thread leaves its loop only when it failed or is being closed, so that
\* nothing is queued behind its back; when the queues are drained it stays so.
ThreadAgrees ==
  /\ Queued(Stop) \/ stopping => closing
  /\ failed \/ lost # {} => pc \notin Running
  /\ failed => pc # "failing"
  /\ pc \in {"fail_active", "fail_queued", "fail_aborts", "dead"} => failed \/ closing
  /\ pc \in {"fail_aborts", "dead"} => controls = <<>> /\ \A r \in Requests : ~Queued(r)

\* Whoever waits for the thread is in a queue it will drain.
WaitersQueued ==
  /\ \A r \in Requests : discards[r] = "waiting" => Forced(r)
  /\ \A c \in Controls : calls[c] = "waiting" => \E i \in DOMAIN controls : controls[i] = c
  /\ pc = "dead" => \A r \in Requests : ~Forced(r)

\* An open request is somewhere; one that is over was told, or its client has
\* cancelled it.
NobodyForgotten ==
  /\ \A r \in submitted \ (terminal \cup lost) : Queued(r) \/ Admitting(r) \/ Active(r)
  /\ \A r \in terminal \ lost : Told(r)
  /\ \A q \in Requests : active[q] # None => admission[active[q]] # "pending"

\* A cancelled request that runs all the same has its abort in the queue, or
\* its cancel() has not come to the queue yet.
CancelsQueued ==
  \A r \in cancelled : Active(r) /\ ~closing /\ pc \in Running =>
    Aborting(r) \/ (loop.op \in {"cancel", "discard"} /\ loop.req = r)

\* A sequence id is that of the request that opened the chain.
SeqIdsRooted == \A r \in Requests : seqId[r] # None => seqId[seqId[r]] = seqId[r]

\* The sequence ran for a request that was told of an error.
Abandoned(q) == \E r \in submitted : seqId[r] = q /\ events[r] = <<"error">>

\* The engine runs what is active, less what the step in publication finished,
\* plus what is being admitted; an idle chain does not run.
EngineHolds ==
  pc \in Running =>
    /\ \A q \in Requests :
         /\ active[q] # None => left[q] > 0 \/ (pc \in {"deltas", "finished"} /\ q \in fin)
         /\ left[q] > 0 /\ active[q] = None => Abandoned(q) \/ (pc = "admitted" /\ seqId[item] = q)
    /\ \A q \in chains : left[q] = 0
    /\ pc \in {"deltas", "finished"} => \A q \in fin : left[q] = 0
    /\ pc = "admitted" => active[seqId[item]] = None /\ left[seqId[item]] > 0

\* The inductive invariant of the dispatcher.
DispatcherInv ==
  /\ OnePlace /\ ThreadAgrees /\ WaitersQueued /\ NobodyForgotten
  /\ CancelsQueued /\ SeqIdsRooted /\ EngineHolds
=============================================================================
