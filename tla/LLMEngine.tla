------------------------------ MODULE LLMEngine ------------------------------
(***************************************************************************)
(* The synchronous engine (engine/llm_engine.py) around the scheduler:     *)
(* admission, one step (schedule, release what was preempted, run the      *)
(* model, postprocess, release what finished), cancellation, and the       *)
(* ownership of KV when any of these fails half way.                       *)
(*                                                                         *)
(* An exception that leaves step() ends the driver: the dispatcher thread  *)
(* stops stepping and only cancels what it still holds (dispatcher.py,     *)
(* _run), so after "raised" only abort_request is enabled.                 *)
(***************************************************************************)
EXTENDS Scheduler

CONSTANT MaxFaults   \* failing calls in one behaviour

ASSUME FaultAssumption == MaxFaults \in Nat

VARIABLES
  published,        \* tokens of each request put in last_step_token_outputs
  finished,         \* finished_seq_ids of this step, still to be released
  pendingReleases,  \* _pending_slot_releases
  releaseFailed,    \* _slot_release_states = "failed": unknown boundary
  aborted,          \* requests the caller cancelled
  faults            \* failing calls so far

engineVars == <<published, finished, pendingReleases, releaseFailed, aborted, faults>>
vars == <<schedVars, engineVars>>

\* Idle: no request, all slots free.
Init ==
  /\ waiting = <<>> /\ decoding = <<>> /\ phase = "prefill" /\ waitOrder = <<>>
  /\ asyncInflight = 0
  /\ status = [s \in Seqs |-> "NEW"]
  /\ prefilled = [s \in Seqs |-> 0] /\ chunk = [s \in Seqs |-> 0]
  /\ tokens = [s \in Seqs |-> 0] /\ inflight = [s \in Seqs |-> 0]
  /\ cursor = [s \in Seqs |-> NoReplay] /\ checkpoint = [s \in Seqs |-> 0]
  /\ freeSlots = NumSlots /\ kv = [s \in Seqs |-> 0]
  /\ resident = {} /\ resEnd = [s \in Seqs |-> 0]
  /\ pc = "idle" /\ error = "none"
  /\ scan = 1 /\ budget = 0 /\ modes = <<>> /\ scheduled = <<>> /\ skipped = <<>>
  /\ free = 0 /\ admit = 0 /\ batchTokens = 0 /\ refused = {}
  /\ failure = None /\ blocked = None /\ isPrefill = FALSE /\ preempted = None
  /\ published = [s \in Seqs |-> 0] /\ finished = <<>>
  /\ pendingReleases = {} /\ releaseFailed = {} /\ aborted = {} /\ faults = 0
-----------------------------------------------------------------------------
(* Admission *)

\* admit_request and Scheduler.add.
AdmitRequest(s) ==
  /\ pc = "idle" /\ pendingReleases = {} /\ status[s] = "NEW"
  /\ status' = [status EXCEPT ![s] = "WAITING"]
  /\ waiting' = Append(waiting, s)
  /\ waitOrder' = Append(waitOrder, s)
  /\ phase' = IF IsFinished THEN "prefill" ELSE phase
  /\ UNCHANGED <<decoding, asyncInflight, prefilled, chunk, tokens, inflight, cursor,
                 checkpoint, memVars, pc, error, scanVars, retVars, engineVars>>
-----------------------------------------------------------------------------
(* Releasing KV *)

\* Mutants of FreeSeq: returns only the slots of the prompt, or keeps the
\* decode reservation.
FreePromptOnly(s) ==
  /\ kv' = [kv EXCEPT ![s] = 0]
  /\ freeSlots' = freeSlots + prefilled[s]
  /\ resident' = resident \ {s}
  /\ resEnd' = [resEnd EXCEPT ![s] = 0]

FreeKeepsWindow(s) ==
  /\ kv' = [kv EXCEPT ![s] = 0]
  /\ freeSlots' = freeSlots + kv[s]
  /\ resident' = resident \ {s}
  /\ UNCHANGED resEnd

\* RuntimeState.free_seq: reservation, row, slots and residency.
FreeSeq(s) ==
  /\ kv' = [kv EXCEPT ![s] = 0]
  /\ freeSlots' = freeSlots + kv[s]
  /\ resident' = resident \ {s}
  /\ resEnd' = [resEnd EXCEPT ![s] = 0]

\* The release of s succeeds (a worker that failed it before refuses).
ReleaseOk(s) ==
  /\ s \notin releaseFailed
  /\ FreeSeq(s)
  /\ pendingReleases' = pendingReleases \ {s}
  /\ UNCHANGED <<releaseFailed, faults>>

\* Mutant of ReleaseFails: a failed release is not remembered.
ReleaseForgotten(s) ==
  /\ faults < MaxFaults /\ faults' = faults + 1
  /\ UNCHANGED <<memVars, pendingReleases, releaseFailed>>

\* The release raises: before the worker touched anything, or inside free_seq.
ReleaseFails(s) ==
  /\ pendingReleases' = pendingReleases \cup {s}
  /\ \/ /\ s \in releaseFailed
        /\ UNCHANGED <<memVars, releaseFailed, faults>>
     \/ /\ faults < MaxFaults /\ faults' = faults + 1
        /\ UNCHANGED <<memVars, releaseFailed>>
     \/ /\ faults < MaxFaults /\ faults' = faults + 1 /\ s \notin releaseFailed
        /\ releaseFailed' = releaseFailed \cup {s}
        /\ FreeSeq(s) \/ UNCHANGED memVars

\* Mutants of Dequeue: one of the two queues keeps the request.
DequeueWaitingOnly(s) ==
  /\ waiting' = Without(waiting, s)
  /\ decoding' = decoding
  /\ waitOrder' = Without(waitOrder, s)
  /\ status' = [status EXCEPT ![s] = "FINISHED"]

DequeueDecodingOnly(s) ==
  /\ waiting' = waiting
  /\ decoding' = Without(decoding, s)
  /\ waitOrder' = Without(waitOrder, s)
  /\ status' = [status EXCEPT ![s] = "FINISHED"]

\* Scheduler.abort: out of the queues and FINISHED.
Dequeue(s) ==
  /\ waiting' = Without(waiting, s)
  /\ decoding' = Without(decoding, s)
  /\ waitOrder' = Without(waitOrder, s)
  /\ status' = [status EXCEPT ![s] = "FINISHED"]

Queued(s) == s \in Range(waiting) \cup Range(decoding)

\* abort_request: release first, forget the request only if that succeeded.
AbortRequest(s) ==
  /\ pc \in {"idle", "raised"}
  /\ Queued(s) \/ s \in pendingReleases
  /\ IF MayOwnSlots(s) \/ s \in pendingReleases
     THEN \/ ReleaseOk(s) /\ Dequeue(s)
          \/ ReleaseFails(s) /\ UNCHANGED <<waiting, decoding, waitOrder, status>>
     ELSE Dequeue(s) /\ UNCHANGED <<memVars, pendingReleases, releaseFailed, faults>>
  /\ aborted' = aborted \cup {s}
  /\ UNCHANGED <<phase, asyncInflight, prefilled, chunk, tokens, inflight, cursor,
                 checkpoint, pc, error, scanVars, retVars, published, finished>>
-----------------------------------------------------------------------------
(* One synchronous step *)

StepSync ==
  /\ pc = "idle" /\ pendingReleases = {} /\ ~IsFinished
  /\ Schedule(0)
  /\ UNCHANGED engineVars

\* step() refuses to run while a release is owed.
StepRefused ==
  /\ pc = "idle" /\ pendingReleases # {}
  /\ Raise("release_pending")
  /\ UNCHANGED <<queueVars, seqVars, memVars, scanVars, retVars, engineVars>>

HookFault ==
  /\ faults < MaxFaults /\ faults' = faults + 1
  /\ PrefillHookFails
  /\ UNCHANGED <<published, finished, pendingReleases, releaseFailed, aborted>>

\* schedule() selected nothing: _release_preempted_sequences, and the step ends.
\* Without a preemption either the engine would spin, so it raises.
StepWithoutBatch ==
  /\ pc = "returned" /\ scheduled = <<>>
  /\ IF preempted # None
     THEN \/ ReleaseOk(preempted) /\ pc' = "idle" /\ UNCHANGED error
          \/ ReleaseFails(preempted) /\ Raise("release")
     ELSE Raise("no_runnable") /\ UNCHANGED <<memVars, pendingReleases, releaseFailed, faults>>
  /\ preempted' = None
  /\ UNCHANGED <<queueVars, seqVars, scanVars, isPrefill, published, finished, aborted>>

\* The slots the forward of s writes.
StepSlots(s) == IF isPrefill THEN chunk[s] ELSE 1

Allocate(batch) ==
  /\ kv' = [s \in Seqs |-> IF s \in batch THEN kv[s] + StepSlots(s) ELSE kv[s]]
  /\ freeSlots' = freeSlots - SumFunctionOnSet([s \in Seqs |-> StepSlots(s)], batch)
  /\ UNCHANGED <<resident, resEnd>>

RunModel ==
  /\ pc = "returned" /\ scheduled # <<>>
  /\ Allocate(Range(scheduled))
  /\ pc' = "postprocess"
  /\ finished' = <<>>
  /\ UNCHANGED <<queueVars, seqVars, error, scanVars, retVars, published, pendingReleases,
                 releaseFailed, aborted, faults>>

\* A failing run allocated the prefill rows one by one, a decode batch whole.
PartlyAllocated ==
  \E n \in 0..Len(scheduled) :
    /\ ~isPrefill => n \in {0, Len(scheduled)}
    /\ Allocate(Range(SubSeq(scheduled, 1, n)))

\* The run raises; a prefill batch goes back to the front of waiting.
RunModelFails ==
  /\ pc = "returned" /\ scheduled # <<>>
  /\ faults < MaxFaults /\ faults' = faults + 1
  /\ PartlyAllocated
  /\ waiting' = IF isPrefill THEN scheduled \o waiting ELSE waiting
  /\ pc' = "reclaim"
  /\ error' = "model"
  /\ UNCHANGED <<decoding, phase, waitOrder, asyncInflight, seqVars, scanVars, retVars,
                 published, finished, pendingReleases, releaseFailed, aborted>>

\* Cleanup after a failed run, one request at a time: whoever could not be
\* released stays queued.
ReclaimOne ==
  /\ pc = "reclaim" /\ scheduled # <<>>
  /\ LET s == Head(scheduled) IN
     \/ ReleaseOk(s) /\ Dequeue(s)
     \/ ReleaseFails(s) /\ UNCHANGED <<waiting, decoding, waitOrder, status>>
  /\ scheduled' = Tail(scheduled)
  /\ UNCHANGED <<phase, asyncInflight, prefilled, chunk, tokens, inflight, cursor, checkpoint,
                 pc, error, scan, budget, modes, skipped, free, admit, batchTokens, refused,
                 failure, blocked, retVars, published, finished, aborted>>

ReclaimDone ==
  /\ pc = "reclaim" /\ scheduled = <<>>
  /\ Raise("model")
  /\ UNCHANGED <<queueVars, seqVars, memVars, scanVars, retVars, engineVars>>
-----------------------------------------------------------------------------
(* Postprocessing, one request of the batch per action *)

NextPost == pc = "postprocess" /\ scheduled # <<>>

\* Mutant of Publishes: a replayed position is published again.
PublishesReplay(s) == ~isPrefill \/ LastChunk(s)

\* step() publishes the sample of s: no replay, and not a partial prefill.
Publishes(s) == ~IsReplay(s) /\ (~isPrefill \/ LastChunk(s))

PostTail ==
  /\ scheduled' = Tail(scheduled)
  /\ published' = LET s == Head(scheduled)
                  IN  [published EXCEPT ![s] = IF Publishes(s) THEN @ + 1 ELSE @]
  /\ UNCHANGED <<phase, asyncInflight, inflight, memVars, pc, error, scan, budget, modes,
                 skipped, free, admit, batchTokens, refused, failure, blocked, retVars,
                 pendingReleases, releaseFailed, aborted, faults>>

\* append_token, and FINISHED on EOS or at max_tokens.
AppendToken(s) ==
  /\ tokens' = [tokens EXCEPT ![s] = @ + 1]
  /\ \E eos \in BOOLEAN :
       LET ends == eos \/ tokens[s] + 1 = MaxTokens[s]
       IN  /\ status' = [status EXCEPT ![s] = IF ends THEN "FINISHED" ELSE "RUNNING"]
           /\ finished' = IF ends THEN Append(finished, s) ELSE finished

\* Mutants of AdvanceReplay: it stops one position early, or the end of the
\* replay does not count as progress to be made before the next handoff.
ReplayStopsEarly(s, next) ==
  LET done == next + 1 >= ReplayDecodeTokens(s)
  IN  /\ cursor' = [cursor EXCEPT ![s] = IF done THEN NoReplay ELSE next]
      /\ checkpoint' = [checkpoint EXCEPT ![s] = IF done THEN tokens[s] ELSE @]

ReplayWithoutCheckpoint(s, next) ==
  LET done == next >= ReplayDecodeTokens(s)
  IN  /\ cursor' = [cursor EXCEPT ![s] = IF done THEN NoReplay ELSE next]
      /\ checkpoint' = [checkpoint EXCEPT ![s] = IF done THEN 0 ELSE @]

\* finish_recompute_replay, or one more replayed position.
AdvanceReplay(s, next) ==
  LET done == next >= ReplayDecodeTokens(s)
  IN  /\ cursor' = [cursor EXCEPT ![s] = IF done THEN NoReplay ELSE next]
      /\ checkpoint' = [checkpoint EXCEPT ![s] = IF done THEN tokens[s] ELSE @]

PostPartialPrefill ==
  /\ NextPost /\ isPrefill
  /\ LET s == Head(scheduled) IN
     /\ ~LastChunk(s)
     /\ prefilled' = [prefilled EXCEPT ![s] = @ + chunk[s]]
     /\ status' = [status EXCEPT ![s] = "WAITING"]
     /\ waitOrder' = IF s \in Range(waitOrder) THEN waitOrder ELSE Append(waitOrder, s)
     /\ waiting' = <<s>> \o waiting
  /\ PostTail
  /\ UNCHANGED <<decoding, chunk, tokens, cursor, checkpoint, finished>>

PostLastPrefill ==
  /\ NextPost /\ isPrefill
  /\ LET s == Head(scheduled) IN
     /\ LastChunk(s)
     /\ prefilled' = [prefilled EXCEPT ![s] = @ + chunk[s]]
     /\ decoding' = Append(decoding, s)
     /\ \/ /\ IsReplay(s)
           /\ IF ReplayDecodeTokens(s) = 0
              THEN AdvanceReplay(s, 0)
              ELSE UNCHANGED <<cursor, checkpoint>>
           /\ status' = [status EXCEPT ![s] = "RUNNING"]
           /\ UNCHANGED <<tokens, finished>>
        \/ /\ ~IsReplay(s)
           /\ AppendToken(s)
           /\ UNCHANGED <<cursor, checkpoint>>
  /\ PostTail
  /\ UNCHANGED <<waiting, waitOrder, chunk>>

PostDecode ==
  /\ NextPost /\ ~isPrefill
  /\ LET s == Head(scheduled) IN
     \/ /\ IsReplay(s)
        /\ AdvanceReplay(s, cursor[s] + 1)
        /\ UNCHANGED <<tokens, status, finished>>
     \/ /\ ~IsReplay(s)
        /\ AppendToken(s)
        /\ UNCHANGED <<cursor, checkpoint>>
  /\ PostTail
  /\ UNCHANGED <<waiting, decoding, waitOrder, prefilled, chunk>>

StartRelease ==
  /\ pc = "postprocess" /\ scheduled = <<>>
  /\ pc' = "release"
  /\ UNCHANGED <<queueVars, seqVars, memVars, error, scanVars, retVars, engineVars>>

\* Finished requests leave one by one; the first failure ends the step and
\* leaves the rest of them queued.
ReleaseFinished ==
  /\ pc = "release" /\ finished # <<>>
  /\ \/ /\ ReleaseOk(Head(finished)) /\ Dequeue(Head(finished))
        /\ UNCHANGED <<pc, error>>
     \/ /\ ReleaseFails(Head(finished)) /\ Raise("release")
        /\ UNCHANGED <<waiting, decoding, waitOrder, status>>
  /\ finished' = Tail(finished)
  /\ UNCHANGED <<phase, asyncInflight, prefilled, chunk, tokens, inflight, cursor, checkpoint,
                 scanVars, retVars, published, aborted>>

StepDone ==
  /\ pc = "release" /\ finished = <<>>
  /\ pc' = "idle"
  /\ isPrefill' = FALSE
  /\ UNCHANGED <<queueVars, seqVars, memVars, error, scanVars, preempted, engineVars>>
-----------------------------------------------------------------------------
Scheduling == ScheduleStep /\ UNCHANGED engineVars

\* What follows the call of schedule() inside _step_sync.
SyncStep ==
  \/ HookFault \/ StepWithoutBatch
  \/ RunModel \/ RunModelFails \/ ReclaimOne \/ ReclaimDone
  \/ PostPartialPrefill \/ PostLastPrefill \/ PostDecode
  \/ StartRelease \/ ReleaseFinished \/ StepDone

\* The work of the driver thread; requests and cancellations come from outside.
Driver == StepSync \/ StepRefused \/ Scheduling \/ SyncStep

Next ==
  \/ \E s \in Seqs : AdmitRequest(s) \/ AbortRequest(s)
  \/ Driver

Spec == Init /\ [][Next]_vars

\* The driver loop keeps stepping while it has work.
FairSpec == Spec /\ WF_vars(Driver)
-----------------------------------------------------------------------------
(* Properties *)

Errors == {"none", "sole_decode", "hook", "atomic_prefill", "final_window", "all_deferred",
           "release_pending", "no_runnable", "release", "model", "submit", "collect"}

Points == {"idle", "reserve", "affinity", "prefill", "decode", "drain", "returned",
           "postprocess", "release", "reclaim", "raised", "fill", "filled", "settle"}

QueueTypes ==
  /\ {waiting, decoding, scheduled, skipped, finished} \subseteq Seq(Seqs)
  /\ phase \in {"prefill", "decode"} /\ asyncInflight \in Nat

RequestTypes ==
  /\ status \in [Seqs -> Statuses]
  /\ {prefilled, chunk, tokens, inflight, checkpoint, kv, published} \subseteq [Seqs -> Nat]
  /\ \A s \in Seqs : prefilled[s] <= PromptLen[s]
  /\ cursor \in [Seqs -> Nat \cup {NoReplay}]
  /\ resident \subseteq Seqs

CallTypes ==
  /\ pc \in Points /\ error \in Errors
  /\ scan \in Nat \ {0} /\ budget \in Nat /\ batchTokens \in Nat
  /\ refused \subseteq {"atomic", "window", "deferred"}
  /\ {failure, blocked, preempted} \subseteq Seqs \cup {None}
  /\ isPrefill \in BOOLEAN

ReleaseTypes ==
  /\ pendingReleases \subseteq Seqs /\ releaseFailed \subseteq Seqs
  /\ aborted \subseteq Seqs /\ faults \in 0..MaxFaults

\* Types of the queues, of the request state and of the locals of schedule().
\* The slot counters and windows are PoolInv's, with what they add up to.
TypeOK == QueueTypes /\ RequestTypes /\ CallTypes /\ ReleaseTypes

\* Requests a running call has taken out of the queues.
Popped ==
  Range(skipped) \cup
  IF pc \in {"prefill", "decode"} \/ (pc \in {"returned", "postprocess"} /\ isPrefill)
  THEN Range(scheduled) ELSE {}

\* A request is never lost or duplicated: it is once in exactly one queue (or
\* in the hands of the running call) from admission until it is FINISHED,
\* through every rotation, preemption, put-back and failure path.
OwnedOnce ==
  /\ \A q \in {waiting, decoding, scheduled, skipped} : IsInjective(q)
  /\ Range(waiting) \cap Range(decoding) = {}
  /\ Range(scheduled) \cap Range(skipped) = {}
  /\ Popped \cap (Range(waiting) \cup Range(decoding)) = {}
  /\ \A s \in Seqs : status[s] \in {"WAITING", "RUNNING"} =>
       s \in Range(waiting) \cup Range(decoding) \cup Popped

\* KV is never orphaned: whoever holds slots, a row or a reservation is in
\* the running call, owed a release, or visible to abort_request as an owner.
NoOrphanKV ==
  \A s \in Seqs : (kv[s] > 0 \/ s \in resident \/ resEnd[s] > 0) =>
    MayOwnSlots(s) \/ s \in Popped \/ s \in pendingReleases \/ s = preempted

\* The slot pool is never over-allocated and no slot is lost.
SlotsConserved ==
  freeSlots >= 0 /\ freeSlots + SumFunctionOnSet(kv, Seqs) = NumSlots

\* Between steps the KV row of every request ends exactly where its next
\* forward writes, in first generation and in replay alike.
KVMatchesHistory ==
  pc = "idle" /\ pendingReleases = {} =>
    /\ \A s \in Range(decoding) : kv[s] = DecodeInputPosition(s)
    /\ \A s \in Range(waiting) : kv[s] = prefilled[s]

\* Every accepted token was published once; replay publishes nothing.
PublishedOnce == \A s \in Seqs : published[s] = tokens[s] /\ tokens[s] <= MaxTokens[s]

\* Slots promised to live requests as decode windows.
LiveWindows == SumFunctionOnSet(Unused, {s \in Seqs : status[s] # "FINISHED"})

\* Until the first preemption, every decode window promised and every prompt
\* admitted is backed by a free slot, so no decode can run out of slots.  (A
\* replay rebuilds its KV outside the ledger of windows.)
WindowsBacked ==
  pc = "idle" /\ (\A s \in Seqs : ~IsReplay(s) /\ checkpoint[s] = 0) =>
    LiveWindows + ReservedPrefill <= freeSlots

FinalStep ==
  \A s \in Seqs : status[s] = "FINISHED" => status'[s] = "FINISHED" /\ tokens'[s] = tokens[s]

\* A request that is FINISHED stays so and no token is added to it: neither a
\* late postprocess nor a preemption nor a put-back revives it.
FinishedIsFinal == [][FinalStep]_vars

\* Every request could run alone in the configured cache.
EachFitsAlone ==
  \A s \in Seqs :
    /\ PromptLen[s] + MaxTokens[s] - 1 <= NumSlots
    /\ Mode[s] = "full" => PromptLen[s] <= MaxBatchTokens
    /\ MinFinal <= ChunkSize /\ MinFinal <= MaxBatchTokens

\* Sharing the cache never makes the scheduler give up on requests that fit,
\* except when a half computed prompt keeps its slots while a replay waits and
\* suspends prefill.
NoSpuriousFailure ==
  EachFitsAlone /\ faults = 0 =>
    \/ error = "none"
    \/ error = "sole_decode" /\ \E s \in Seqs : prefilled[s] \in 1..(PromptLen[s] - 1)

\* The scheduler either runs something, preempts, or names what does not fit:
\* step() never meets an idle schedule ("this would hang the generation loop").
NeverHangs == error # "no_runnable"

\* A waiting request finishes, unless the driver raised.
EveryRequestEnds ==
  \A s \in Seqs : status[s] = "WAITING" ~> status[s] = "FINISHED" \/ pc = "raised"
-----------------------------------------------------------------------------
(* The inductive invariant behind OwnedOnce, PublishedOnce and FinishedIsFinal *)

Held == Range(waiting) \cup Range(decoding) \cup Range(scheduled) \cup Range(skipped)

\* What the running call remembers of the queues it works on.
CallInv ==
  /\ \A s \in Held : status[s] # "NEW"
  /\ pc # "prefill" \/ modes = <<>> => skipped = <<>>
  /\ pc \in {"idle", "reserve", "release"} => scheduled = <<>>
  /\ pc = "affinity" => \A i \in DOMAIN scheduled : \E j \in DOMAIN decoding :
                           j < scan /\ decoding[j] = scheduled[i]
  /\ pc \in {"returned", "postprocess"} /\ ~isPrefill => Range(scheduled) \subseteq Range(decoding)
  /\ pc \in {"reserve", "affinity", "prefill"} /\ failure # None => failure \in Range(decoding)
  /\ blocked # None => pc = "decode" /\ blocked \in Range(decoding)
  /\ pc = "decode" => budget <= Len(decoding)
  /\ pc = "prefill" \/ (pc \in {"returned", "postprocess"} /\ isPrefill) =>
       \A s \in Range(scheduled) : prefilled[s] + chunk[s] <= PromptLen[s]

\* The driver has stopped, or cleans up before it does.
Broken == pc \in {"reclaim", "raised"} \/ (pc = "settle" /\ error # "none")

\* Where a FINISHED request may still be seen before it is released.
FinishInv ==
  /\ \A s \in Range(waiting) \cup Range(skipped) : status[s] # "FINISHED"
  /\ ~Broken /\ pc # "release" => \A s \in Range(scheduled) : status[s] # "FINISHED"
  /\ ~Broken =>
       \A s \in Range(decoding) : status[s] = "FINISHED" =>
         pc \in {"postprocess", "release"} /\ s \in Range(finished)

\* A request selected to sample has room for one more token.
TokenInv ==
  /\ PublishedOnce
  /\ \A s \in Seqs : status[s] = "NEW" => tokens[s] = 0
  /\ \A s \in Range(waiting) \cup Range(skipped) : ~IsReplay(s) => tokens[s] = 0
  /\ pc \in {"affinity", "decode"} \/ (pc \in {"returned", "postprocess"} /\ ~isPrefill) =>
       \A s \in Range(scheduled) : tokens[s] < MaxTokens[s]
  /\ pc = "prefill" \/ (pc \in {"returned", "postprocess"} /\ isPrefill) =>
       \A s \in Range(scheduled) : ~IsReplay(s) => tokens[s] = 0

IInv == TypeOK /\ OwnedOnce /\ CallInv /\ FinishInv /\ TokenInv
-----------------------------------------------------------------------------
(* The inductive invariant behind NoOrphanKV and KVMatchesHistory *)

\* The batch of a prefill step, from its selection to its postprocessing.
Chosen ==
  {s \in Range(scheduled) : pc = "prefill" \/ (pc \in {"returned", "postprocess"} /\ isPrefill)}

\* Every request with a prompt to compute, and every one that decodes.
Prefills == Range(waiting) \cup Range(skipped) \cup Chosen
Decodes  == Range(decoding) \cup {s \in Range(scheduled) : pc = "decode"}

Holds(s) == kv[s] > 0 \/ s \in resident \/ resEnd[s] > 0

\* A release is owed only between steps and after a failure; the victim of a
\* preemption is owed one from the return of schedule() to the end of the step.
DebtInv ==
  /\ resEnd = [s \in Seqs |-> resEnd[s]]
  /\ releaseFailed \subseteq pendingReleases
  /\ pendingReleases # {} => pc \in {"idle", "settle", "reclaim", "raised"}
  /\ preempted # None => /\ pc = "returned" /\ scheduled = <<>>
                         /\ preempted \in Range(waiting) /\ prefilled[preempted] = 0

\* Whoever holds memory decodes, is being prefilled, or is owed a release; X
\* are the requests somebody else will release.  A row belongs to a resident.
OwnerInv(X) ==
  /\ \A s \in Chosen : status[s] = "RUNNING" /\ chunk[s] >= 1 /\ s \in resident
  /\ \A s \in Seqs : kv[s] > 0 => s \in resident
  /\ \A s \in Seqs : Holds(s) =>
       \/ s \in X \/ s \in pendingReleases \/ s = preempted \/ s \in Decodes
       \/ s \in Prefills /\ (status[s] = "RUNNING" \/ prefilled[s] > 0)

\* The slots the run of this step wrote for s, until s is postprocessed.
Written(s) == IF pc = "postprocess" /\ s \in Range(scheduled) THEN StepSlots(s) ELSE 0

\* A row ends where the next forward writes, past what this step wrote; a
\* replay starts at the first token and ends before the last.
RowInv ==
  ~Broken =>
    /\ \A s \in Prefills : /\ s \in releaseFailed \/ s = preempted \/ kv[s] = prefilled[s] + Written(s)
                           /\ IsReplay(s) => cursor[s] = 0 /\ tokens[s] >= 1
    /\ \A s \in Decodes : /\ s \in releaseFailed \/ kv[s] = DecodeInputPosition(s) + Written(s)
                          /\ Submitted(s) >= 1 /\ (IsReplay(s) => cursor[s] + 1 < tokens[s])

InCall == pc \in {"reserve", "affinity", "prefill", "decode"}

NothingInFlight == \A s \in Seqs : inflight[s] = 0

\* A request makes no progress before it is admitted, and has no token in
\* flight while its prompt is computed; schedule() is told whether any has.
ProgressInv ==
  /\ \A s \in Seqs : status[s] = "NEW" => prefilled[s] = 0 /\ inflight[s] = 0 /\ ~IsReplay(s)
  /\ \A s \in Prefills : inflight[s] = 0
  /\ (InCall /\ asyncInflight = 0) \/ pc = "postprocess" => NothingInFlight

KVInv(X) == DebtInv /\ OwnerInv(X) /\ RowInv /\ ProgressInv

MemoryInv == IInv /\ KVInv({}) /\ NothingInFlight
-----------------------------------------------------------------------------
(* The inductive invariant behind SlotsConserved and WindowsBacked *)

\* The slots the forward of each request takes, while the batch is chosen and
\* until it runs.
Cost == [s \in Seqs |-> IF pc = "prefill" \/ (pc = "returned" /\ isPrefill) THEN chunk[s] ELSE 1]

\* The slots that are free and the ones held are the pool.
PoolInv ==
  /\ freeSlots \in Nat /\ freeSlots + SumFunctionOnSet(kv, Seqs) = NumSlots
  /\ resEnd \in [Seqs -> Nat]

\* The batch so far, and the slots the scan may still give, are free slots.
BatchInv ==
  /\ pc \in {"affinity", "prefill", "decode"} =>
       free \in Nat /\ free + SumFunctionOnSet(Cost, Range(scheduled)) <= freeSlots
  /\ pc = "returned" => SumFunctionOnSet(Cost, Range(scheduled)) <= freeSlots

SlotInv == PoolInv /\ BatchInv

\* No request was preempted so far.
Fresh == \A s \in Seqs : checkpoint[s] = 0

\* Prompt tokens admitted for s and not yet accounted as computed.
Charge(s) ==
  IF s \in Prefills /\ (prefilled[s] > 0 \/ s \in Chosen) THEN Remaining(s) ELSE 0

\* The slots each request may still ask for: its window and its prompt, less
\* what the forward of this step took in advance.
Pledged == [s \in Seqs |-> Unused[s] + Charge(s) - Written(s)]

\* A decode that still samples has a slot left in its window.
Covered(s) == Submitted(s) < MaxTokens[s] => Submitted(s) < resEnd[s]

\* The requests of this call that went through decode-window acquisition.
Renewed ==
  {s \in Range(decoding) \cup Range(scheduled) :
     \/ pc = "reserve" /\ \E i \in DOMAIN decoding : i < scan /\ decoding[i] = s
     \/ pc \in {"affinity", "prefill", "decode"} /\ failure = None /\ s \in Decodes
     \/ pc \in {"returned", "postprocess"} /\ ~isPrefill /\ s \in Range(scheduled)}

\* A replay starts by remembering how far the handoff happened.
HandoffInv == \A s \in Seqs : IsReplay(s) => checkpoint[s] > 0

CoverInv ==
  /\ pc \in {"affinity", "decode"} => failure = None
  /\ ~Broken /\ Fresh => \A s \in Renewed : Covered(s)

\* What the prefill scan may still admit.
Spare == IF pc = "prefill" THEN admit ELSE 0

\* Every slot pledged is free, through the call that pledges it, the forward
\* that takes it and the postprocessing that accounts for it.
PledgeInv ==
  /\ Spare \in Nat
  /\ ~Broken /\ Fresh => SumFunctionOnSet(Pledged, Seqs) + Spare <= freeSlots

WindowInv == HandoffInv /\ CoverInv /\ PledgeInv

-----------------------------------------------------------------------------
(* The inductive invariant behind NeverHangs *)

\* A request that is not FINISHED has a token left to ask for.
RoomLeft == \A s \in Seqs : status[s] # "FINISHED" => tokens[s] < MaxTokens[s]

\* A prompt in the hands of prefill is incomplete and has no decode window.
PromptInv ==
  /\ \A s \in Prefills : prefilled[s] < PromptLen[s]
  /\ ~Broken => \A s \in Prefills : resEnd[s] = 0 \/ s = preempted \/ s \in pendingReleases

\* The prompts that were started, each counted whole.
Underway(s) == s \in Prefills /\ (prefilled[s] > 0 \/ s \in Chosen)
Started == [s \in Seqs |-> IF Underway(s) THEN PromptLen[s] ELSE 0]

\* The prompts that were started would fit in the cache together.
FitInv ==
  /\ Spare \in Nat
  /\ ~Broken => SumFunctionOnSet(Started, Seqs) + Spare <= NumSlots

\* The bucket still has a candidate that runs or whose refusal is recorded.
Promising ==
  /\ batchTokens = 0 /\ budget > 0 /\ free > 0 /\ modes # <<>>
  /\ \E s \in Range(waiting) : InMode(s)

\* A call without tickets in flight that found nothing so far still can.
ScanInv ==
  /\ pc \in {"reserve", "affinity"} => ~IsFinished /\ batchTokens = 0
  /\ asyncInflight = 0 /\ scheduled = <<>> =>
       /\ pc \in {"prefill", "decode"} /\ decoding = <<>> /\ refused = {} =>
            pc = "prefill" /\ Promising
       /\ pc = "decode" => blocked = None /\ budget = Len(decoding)
       /\ pc = "returned" => preempted # None

RunnableInv == RoomLeft /\ PromptInv /\ FitInv /\ ScanInv /\ NeverHangs

CoreInv == MemoryInv /\ SlotInv /\ WindowInv /\ RunnableInv /\ asyncInflight = 0
-----------------------------------------------------------------------------
(* The inductive invariant behind NoSpuriousFailure *)

\* While no call has failed no release is owed, an error is the last thing that
\* happens, and no request that waits is marked as running.
FaultlessInv ==
  /\ pendingReleases = {} /\ releaseFailed = {} /\ pc # "reclaim"
  /\ error # "none" => pc = "raised"
  /\ \A s \in Range(waiting) \cup Range(skipped) : status[s] = "WAITING"

\* The requests that were given a row: a preempted one will ask for its row
\* again, so no other prompt may be admitted in its place.
Claims(s) == s \in Decodes \/ Underway(s) \/ (s \in Prefills /\ IsReplay(s))
Claimants == {s \in Seqs : Claims(s)}
Claimed   == [s \in Seqs |-> IF Claims(s) THEN PromptLen[s] ELSE 0]
NoReplays == \A s \in Prefills : ~IsReplay(s)

\* The whole prompts of the claimants fit in the cache, and they in its rows;
\* a batch that holds a new prompt was chosen while no replay waited.
ClaimInv ==
  ~Broken =>
    /\ SumFunctionOnSet(Claimed, Seqs) + (IF NoReplays THEN Spare ELSE 0) <= NumSlots
    /\ Cardinality(Claimants) <= NumRows
    /\ pc = "prefill" /\ scheduled # <<>> /\ ~IsReplay(scheduled[1]) => NoReplays

\* The scan would take s.
Takable(s) == Candidate(s) /\ HasChunk(s) /\ (prefilled[s] = 0 => AdmissionFits(s))

\* The scan has not tried s yet: s waits for a later bucket, or is in reach of
\* what is left of this one.
ToTry(s) ==
  \E j \in DOMAIN modes :
    /\ modes[j] = Mode[s]
    /\ IF j = 1 THEN \E i \in DOMAIN waiting : i <= budget /\ waiting[i] = s
                ELSE s \in Range(waiting) \cup Range(skipped)

\* A scan with no decode to fall back on has a prompt that it will take.
SureInv ==
  pc \in {"prefill", "decode"} /\ decoding = <<>> /\ scheduled = <<>> /\ EachFitsAlone =>
    /\ pc = "prefill" /\ batchTokens = 0 /\ modes \in Seq({"chunked", "full"})
    /\ \E s \in Seqs : Takable(s) /\ ToTry(s)

\* Some prompt is half computed.
HalfComputed == \E s \in Seqs : prefilled[s] \in 1..(PromptLen[s] - 1)

\* A sole decode is refused its window only beside a half computed prompt.
SoleInv ==
  /\ pc = "prefill" /\ failure # None => Len(decoding) = 1
  /\ pc = "decode" /\ scheduled = <<>> => free = freeSlots
  /\ pc \in {"reserve", "prefill"} /\ failure # None /\ EachFitsAlone => Len(decoding) > 1 \/ HalfComputed

SparingInv ==
  faults = 0 => FaultlessInv /\ ClaimInv /\ SureInv /\ SoleInv /\ NoSpuriousFailure

EngineInv == CoreInv /\ SparingInv
=============================================================================
