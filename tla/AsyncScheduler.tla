---------------------------- MODULE AsyncScheduler ----------------------------
(***************************************************************************)
(* Asynchronous scheduling (engine/async_scheduling): the driver submits   *)
(* up to MaxInflight forwards before it collects the oldest one, so it     *)
(* schedules with outputs in flight, feeds the device its own last token,  *)
(* and may release a request only when no ticket refers to it any more.    *)
(*                                                                         *)
(* A step is: submit until the pipeline is full or scheduling must wait,   *)
(* then collect the oldest ticket, or fall back to a synchronous step when *)
(* nothing is in flight.  Abort and the end of a step both settle: they    *)
(* drop tickets nobody waits for and release what no ticket refers to.     *)
(***************************************************************************)
EXTENDS LLMEngine, Queues

CONSTANTS
  MaxInflight,    \* async_max_inflight
  NeedsHistory    \* requires_committed_token_history of the sparse method

ASSUME AsyncAssumption == MaxInflight \in Nat \ {0, 1} /\ NeedsHistory \in BOOLEAN

VARIABLES
  pending,     \* deque of tickets: requests, those that publish, token fed to each
  retiring,    \* requests to release once no ticket refers to them
  discarded,   \* requests whose results are ignored
  feedback,    \* last_tokens: which output token the device holds (0: none)
  caller       \* who entered schedule(), or abort

asyncVars == <<pending, retiring, discarded, feedback, caller>>
allVars == <<vars, asyncVars>>

AsyncInit ==
  /\ Init
  /\ pending = <<>> /\ retiring = {} /\ discarded = {}
  /\ feedback = [s \in Seqs |-> 0] /\ caller = "none"

Referenced == UNION {p.seqs : p \in Range(pending)}

EngineFinished == pending = <<>> /\ IsFinished

-----------------------------------------------------------------------------
(* Submission *)

AsyncStep ==
  /\ pc = "idle" /\ pendingReleases = {} /\ ~EngineFinished
  /\ pc' = "fill"
  /\ UNCHANGED <<queueVars, seqVars, memVars, error, scanVars, retVars, engineVars, asyncVars>>

MaySubmit ==
  /\ Len(pending) < MaxInflight
  /\ NeedsHistory => \A p \in Range(pending) : p.publishes = {}
  /\ waiting # <<>> \/ \E s \in Range(decoding) : Submitted(s) < MaxTokens[s]

EnterSchedule ==
  /\ pc = "fill" /\ MaySubmit
  /\ Schedule(Len(pending))
  /\ caller' = "async"
  /\ UNCHANGED <<engineVars, pending, retiring, discarded, feedback>>

StopFilling ==
  /\ pc = "fill" /\ ~MaySubmit
  /\ pc' = "filled"
  /\ UNCHANGED <<queueVars, seqVars, memVars, error, scanVars, retVars, engineVars, asyncVars>>

\* Mutant of SubmitDrain: tries again without collecting first.
DrainRetries ==
  /\ pc = "drain"
  /\ pc' = "fill"
  /\ asyncInflight' = 0
  /\ UNCHANGED <<waiting, decoding, phase, waitOrder, seqVars, memVars, error, scanVars,
                 retVars, engineVars, asyncVars>>

\* AsyncDrainRequired left schedule(): collect before trying again.
SubmitDrain ==
  /\ pc = "drain"
  /\ pc' = "filled"
  /\ asyncInflight' = 0
  /\ UNCHANGED <<waiting, decoding, phase, waitOrder, seqVars, memVars, error, scanVars,
                 retVars, engineVars, asyncVars>>

InSubmit == pc = "returned" /\ caller = "async"

Forget(S) == feedback' = [s \in Seqs |-> IF s \in S THEN 0 ELSE feedback[s]]

\* Nothing selected; what was preempted is released first.
SubmitNothing ==
  /\ InSubmit /\ scheduled = <<>>
  /\ asyncInflight' = 0
  /\ IF preempted = None
     THEN /\ pc' = "filled"
          /\ UNCHANGED <<memVars, pendingReleases, releaseFailed, faults, error, feedback>>
     ELSE \/ ReleaseOk(preempted) /\ Forget({preempted}) /\ pc' = "filled" /\ UNCHANGED error
          \/ ReleaseFails(preempted) /\ Raise("release") /\ UNCHANGED feedback
  /\ preempted' = None
  /\ UNCHANGED <<waiting, decoding, phase, waitOrder, seqVars, scanVars, isPrefill,
                 published, finished, aborted, pending, retiring, discarded, caller>>

\* A replay consumes accepted history, so it is left to a synchronous step.
SubmitReplay ==
  /\ InSubmit /\ \E s \in Range(scheduled) : IsReplay(s)
  /\ waiting' = IF isPrefill THEN scheduled \o waiting ELSE waiting
  /\ pc' = "filled"
  /\ asyncInflight' = 0 /\ scheduled' = <<>> /\ isPrefill' = FALSE
  /\ UNCHANGED <<decoding, phase, waitOrder, seqVars, memVars, error, scan, budget, modes,
                 skipped, free, admit, batchTokens, refused, failure, blocked, preempted,
                 engineVars, asyncVars>>

\* The token the device reads: its own last output, else the accepted history.
Fed(s) == IF feedback[s] # 0 THEN feedback[s] ELSE tokens[s]

Submit ==
  /\ InSubmit /\ scheduled # <<>> /\ \A s \in Range(scheduled) : ~IsReplay(s)
  /\ Allocate(Range(scheduled))
  /\ LET batch == Range(scheduled)
         pub   == {s \in batch : ~isPrefill \/ LastChunk(s)}
         part  == batch \ pub
     IN  /\ pending' = Append(pending,
               [seqs |-> batch, publishes |-> pub,
                fed |-> [s \in batch |-> IF isPrefill THEN 0 ELSE Fed(s)]])
         /\ feedback' = [s \in Seqs |-> IF s \notin pub THEN feedback[s]
                                        ELSE IF isPrefill THEN 1 ELSE Fed(s) + 1]
         /\ inflight' = [s \in Seqs |-> IF s \in pub THEN inflight[s] + 1 ELSE inflight[s]]
         /\ prefilled' = [s \in Seqs |-> IF isPrefill /\ s \in batch
                                         THEN prefilled[s] + chunk[s] ELSE prefilled[s]]
         /\ status' = [s \in Seqs |-> CASE s \in part -> "WAITING"
                                        [] s \in pub -> "RUNNING"
                                        [] OTHER -> status[s]]
         /\ waiting' = Reverse(Keep(scheduled, part)) \o waiting
         /\ decoding' = IF isPrefill THEN decoding \o Keep(scheduled, pub) ELSE decoding
         /\ waitOrder' = waitOrder \o Keep(scheduled, part \ Range(waitOrder))
  /\ pc' = "fill"
  /\ asyncInflight' = 0 /\ scheduled' = <<>> /\ isPrefill' = FALSE
  /\ UNCHANGED <<phase, chunk, tokens, cursor, checkpoint, error, scan, budget, modes,
                 skipped, free, admit, batchTokens, refused, failure, blocked, preempted,
                 engineVars, retiring, discarded, caller>>

\* The submission raises part way; a prefill batch returns to waiting.
SubmitFails ==
  /\ InSubmit /\ scheduled # <<>> /\ \A s \in Range(scheduled) : ~IsReplay(s)
  /\ faults < MaxFaults /\ faults' = faults + 1
  /\ PartlyAllocated
  /\ waiting' = IF isPrefill THEN scheduled \o waiting ELSE waiting
  /\ Raise("submit")
  /\ asyncInflight' = 0 /\ scheduled' = <<>> /\ isPrefill' = FALSE
  /\ UNCHANGED <<decoding, phase, waitOrder, seqVars, scan, budget, modes, skipped, free,
                 admit, batchTokens, refused, failure, blocked, preempted, published,
                 finished, pendingReleases, releaseFailed, aborted, asyncVars>>

\* Nothing in flight after filling: an ordinary step recovers.
FallBack ==
  /\ pc = "filled" /\ pending = <<>>
  /\ Schedule(0)
  /\ caller' = "sync"
  /\ UNCHANGED <<engineVars, pending, retiring, discarded, feedback>>
-----------------------------------------------------------------------------
(* Collection *)

Oldest == Head(pending)

\* The results of the oldest ticket that somebody still waits for.
Accepted == Oldest.publishes \ discarded

\* The oldest result arrives; results of discarded requests are dropped.
Collect ==
  /\ pc = "filled" /\ pending # <<>>
  /\ LET live == Accepted IN
     \E eos \in SUBSET live :
       LET ends == {s \in live : s \in eos \/ tokens[s] + 1 >= MaxTokens[s]} IN
       /\ tokens' = [s \in Seqs |-> IF s \in live THEN tokens[s] + 1 ELSE tokens[s]]
       /\ published' = [s \in Seqs |-> IF s \in live THEN published[s] + 1 ELSE published[s]]
       /\ status' = [s \in Seqs |-> IF s \in ends THEN "FINISHED" ELSE status[s]]
       /\ decoding' = Keep(decoding, Seqs \ ends)
       /\ discarded' = discarded \cup ends
       /\ retiring' = retiring \cup ends
  /\ inflight' = [s \in Seqs |-> IF s \in Oldest.publishes THEN inflight[s] - 1 ELSE inflight[s]]
  /\ pending' = Tail(pending)
  /\ pc' = "settle"
  /\ UNCHANGED <<waiting, phase, waitOrder, asyncInflight, prefilled, chunk, cursor, checkpoint,
                 memVars, error, scanVars, retVars, finished, pendingReleases, releaseFailed,
                 aborted, faults, feedback, caller>>

CollectFails ==
  /\ pc = "filled" /\ pending # <<>>
  /\ faults < MaxFaults /\ faults' = faults + 1
  /\ Raise("collect")
  /\ UNCHANGED <<queueVars, seqVars, memVars, scanVars, retVars, published, finished,
                 pendingReleases, releaseFailed, aborted, asyncVars>>
-----------------------------------------------------------------------------
(* Cancellation and release *)

\* Mutant of MustRetire: only requests in a ticket are released later.
RetiresReferenced(s) == s \in Referenced

\* What abort must release: KV it may own, or that a ticket still uses.
MustRetire(s) == MayOwnSlots(s) \/ s \in Referenced

\* AsyncScheduler.abort; settling follows in the same call.
AsyncAbort(s) ==
  /\ pc \in {"idle", "raised"}
  /\ Queued(s) \/ s \in pendingReleases
  /\ LET gone == {x \in {s} : MustRetire(s)} IN
     /\ discarded' = discarded \cup gone
     /\ retiring' = retiring \cup gone
  /\ Dequeue(s)
  /\ aborted' = aborted \cup {s}
  /\ caller' = "abort"
  /\ pc' = "settle"
  /\ UNCHANGED <<phase, asyncInflight, prefilled, chunk, tokens, inflight, cursor, checkpoint,
                 memVars, error, scanVars, retVars, published, finished, pendingReleases,
                 releaseFailed, faults, pending, feedback>>

Droppable == pending # <<>> /\ Oldest.seqs \subseteq discarded

\* Mutant of DrainDiscarded: the outputs of the dropped ticket stay pending.
DropWithoutCounting ==
  /\ pc = "settle" /\ Droppable
  /\ pending' = Tail(pending)
  /\ UNCHANGED <<queueVars, seqVars, memVars, pc, error, scanVars, retVars, engineVars,
                 retiring, discarded, feedback, caller>>

\* _drain_discarded: one ticket nobody waits for.
DrainDiscarded ==
  /\ pc = "settle" /\ Droppable
  /\ pending' = Tail(pending)
  /\ inflight' = [s \in Seqs |-> IF s \in Oldest.publishes THEN inflight[s] - 1 ELSE inflight[s]]
  /\ UNCHANGED <<queueVars, status, prefilled, chunk, tokens, cursor, checkpoint, memVars, pc,
                 error, scanVars, retVars, engineVars, retiring, discarded, feedback, caller>>

Resume == pc' = IF error = "none" THEN "idle" ELSE "raised"

\* The device reports an error for that ticket: it stays pending.
DrainFails ==
  /\ pc = "settle" /\ Droppable
  /\ faults < MaxFaults /\ faults' = faults + 1
  /\ IF caller = "abort"
     THEN Resume /\ UNCHANGED error
     ELSE Raise("collect")
  /\ UNCHANGED <<queueVars, seqVars, memVars, scanVars, retVars, published, finished,
                 pendingReleases, releaseFailed, aborted, asyncVars>>

\* Mutant of Ready: releases without waiting for the tickets.
ReadyAtOnce == retiring

Ready == retiring \ Referenced

FreeSeqs(S) ==
  /\ kv' = [s \in Seqs |-> IF s \in S THEN 0 ELSE kv[s]]
  /\ freeSlots' = freeSlots + SumFunctionOnSet(kv, S)
  /\ resident' = resident \ S
  /\ resEnd' = [s \in Seqs |-> IF s \in S THEN 0 ELSE resEnd[s]]

\* _retire_ready: release what no ticket refers to, in one call.
RetireReady ==
  /\ pc = "settle" /\ ~Droppable
  /\ Ready \cap releaseFailed = {}
  /\ FreeSeqs(Ready)
  /\ Forget(Ready)
  /\ pendingReleases' = pendingReleases \ Ready
  /\ retiring' = retiring \ Ready
  /\ discarded' = discarded \ Ready
  /\ Resume
  /\ UNCHANGED <<queueVars, seqVars, error, scanVars, retVars, published, finished,
                 releaseFailed, aborted, faults, pending, caller>>

\* The release raises after freeing some of them; all stay owed.  An abort
\* reports the failure and the next step is refused, a step ends with it.
RetireFails ==
  /\ pc = "settle" /\ ~Droppable /\ Ready # {}
  /\ \E done \in SUBSET (Ready \ releaseFailed) :
       /\ FreeSeqs(done)
       /\ \/ /\ Ready \cap releaseFailed # {}
             /\ UNCHANGED <<releaseFailed, faults>>
          \/ /\ faults < MaxFaults /\ faults' = faults + 1
             /\ \E bad \in SUBSET (Ready \ done) :
                  Cardinality(bad) <= 1 /\ releaseFailed' = releaseFailed \cup bad
  /\ pendingReleases' = pendingReleases \cup Ready
  /\ IF caller = "abort"
     THEN Resume /\ UNCHANGED error
     ELSE Raise("release")
  /\ UNCHANGED <<queueVars, seqVars, scanVars, retVars, published, finished, aborted,
                 asyncVars>>
-----------------------------------------------------------------------------
(* The synchronous step as the fallback uses it *)

\* Mutant of SyncRun: the device keeps its stale last tokens.
SyncRunKeepsFeedback == (RunModel \/ RunModelFails) /\ UNCHANGED feedback

\* prepare_synchronous_execution: feedback is seeded again from history.
SyncRun ==
  /\ RunModel \/ RunModelFails
  /\ feedback' = [s \in Seqs |-> 0]

SyncRelease ==
  /\ StepWithoutBatch
  /\ Forget({preempted} \ pendingReleases')

SyncRest ==
  /\ \/ ReclaimOne \/ ReclaimDone
     \/ PostPartialPrefill \/ PostLastPrefill \/ PostDecode
     \/ StartRelease \/ ReleaseFinished \/ StepDone
  /\ UNCHANGED feedback

SyncFallback ==
  /\ caller = "sync"
  /\ SyncRun \/ SyncRelease \/ SyncRest
  /\ UNCHANGED <<pending, retiring, discarded, caller>>

AsyncDriver ==
  \/ AsyncStep \/ EnterSchedule \/ StopFilling \/ SubmitDrain \/ SubmitNothing
  \/ SubmitReplay \/ Submit \/ SubmitFails \/ FallBack \/ Collect \/ CollectFails
  \/ DrainDiscarded \/ DrainFails \/ RetireReady \/ RetireFails
  \/ (Scheduling \/ HookFault \/ StepRefused) /\ UNCHANGED asyncVars
  \/ SyncFallback

AsyncNext ==
  \/ \E s \in Seqs : AdmitRequest(s) /\ UNCHANGED asyncVars
  \/ \E s \in Seqs : AsyncAbort(s)
  \/ AsyncDriver

AsyncSpec == AsyncInit /\ [][AsyncNext]_allVars

FairAsyncSpec == AsyncSpec /\ WF_allVars(AsyncDriver)
-----------------------------------------------------------------------------
(* Properties *)

TicketsOf(s) == {i \in DOMAIN pending : s \in pending[i].publishes}

\* num_pending_outputs is exactly the number of results still to come, through
\* collection, discarding and aborts, and never asks for more than max_tokens.
InflightExact ==
  \A s \in Seqs :
    /\ inflight[s] = Cardinality(TicketsOf(s))
    /\ Submitted(s) <= MaxTokens[s]

\* Storage is never released, or handed to another request, under a ticket
\* that still refers to it: assert_releasable never has to refuse.
NoReleaseInFlight ==
  \A s \in Referenced : kv[s] > 0 /\ (s \in resident)

\* Every decode in flight was fed the output token that precedes the one it
\* computes, also after a synchronous step moved the request on.
FeedbackCurrent ==
  \A i \in DOMAIN pending : \A s \in pending[i].publishes \ discarded :
    pending[i].fed[s] = tokens[s] + Cardinality({j \in TicketsOf(s) : j < i})

\* KV is never orphaned: its owner is queued, in the running call, or waiting
\* for its tickets to retire.
NoOrphanAsyncKV ==
  \A s \in Seqs : (kv[s] > 0 \/ s \in resident \/ resEnd[s] > 0) =>
    \/ MayOwnSlots(s) \/ s \in Popped \/ s = preempted
    \/ s \in retiring \/ s \in pendingReleases

\* A request that is over gives its slots back, unless the driver raised.
EveryReleaseHappens ==
  \A s \in Seqs : status[s] = "FINISHED" ~> (kv[s] = 0 /\ s \notin retiring) \/ pc = "raised"

\* "Abort a queued or running request and release any owned KV slots."
AbortReleases ==
  pc = "raised" /\ caller = "abort" =>
    \A s \in aborted : kv[s] > 0 => s \in retiring
-----------------------------------------------------------------------------
(* The inductive invariant behind these *)

\* Where the driver stands: schedule() knows how many tickets are pending, and
\* the synchronous step, a preemption and a replay see none.
PhaseInv ==
  /\ InCall \/ pc \in {"returned", "drain"} =>
       /\ asyncInflight = Len(pending) /\ error = "none"
       /\ caller = "async" \/ (caller = "sync" /\ pending = <<>>)
  /\ pc = "drain" => asyncInflight # 0
  /\ pc \in {"postprocess", "release", "reclaim"} \/ preempted # None => pending = <<>>
  /\ pc \in {"idle", "postprocess", "release", "fill", "filled"} => error = "none"
  /\ pc = "raised" => error # "none"
  /\ pc \in {"idle", "fill", "filled", "drain", "settle", "raised"} => scheduled = <<>>
  /\ pc \in {"fill", "filled"} => pendingReleases = {}

\* A decode is chosen only if an output is left to ask for.
RoomInv ==
  pc \in {"affinity", "decode"} \/ (pc = "returned" /\ ~isPrefill) =>
    \A s \in Range(scheduled) : Submitted(s) < MaxTokens[s]

\* What a ticket refers to is alive or discarded; what is discarded is over,
\* in no queue, and waits to be released.
TicketInv ==
  /\ pending \in Seq(Range(pending)) /\ feedback \in [Seqs -> Nat]
  /\ discarded = retiring /\ retiring \subseteq Seqs
  /\ \A s \in retiring : status[s] = "FINISHED" /\ s \notin Held
  /\ \A i \in DOMAIN pending : /\ pending[i].publishes \subseteq pending[i].seqs
                               /\ pending[i].seqs \subseteq Seqs
                               /\ \A s \in pending[i].publishes \ discarded : ~IsReplay(s)
  /\ \A s \in Referenced \ discarded : status[s] \in {"WAITING", "RUNNING"}

\* The device holds the last output it was asked for, or nothing; nothing
\* while a synchronous step adds tokens it does not see.
FeedInv ==
  /\ \A s \in Seqs \ discarded : /\ feedback[s] \in {0, Submitted(s)}
                                 /\ inflight[s] > 0 => feedback[s] # 0
  /\ pc = "postprocess" => \A s \in Seqs : feedback[s] = 0

AsyncInv ==
  /\ IInv /\ KVInv(retiring) /\ PhaseInv /\ RoomInv /\ TicketInv
  /\ InflightExact /\ NoReleaseInFlight /\ FeedInv /\ FeedbackCurrent

\* Without a ticket nothing retires any more, but for releases still owed; and
\* a step that fills has something to run or to collect.
SettledInv ==
  /\ pc \notin {"settle", "raised"} /\ pending = <<>> => retiring \subseteq pendingReleases
  /\ pc \in {"fill", "filled"} => pending # <<>> \/ ~IsFinished
=============================================================================
