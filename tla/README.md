# A TLA+ model of the Sparse-vLLM engine

Sparse-vLLM serves language models with sparse attention. The part of it that is hard to get
right and hard to test is not the numerics but the *control*: a scheduler that shares a small
pool of KV slots between requests, preempts and recomputes them, an engine that must release
every slot exactly once on every failure path, an asynchronous pipeline that schedules while
results are still in flight, caches that keep the KV of finished turns and shared prompts on the
device and the host while copies between them are under way, replicas that are stepped together because
they meet in a collective, and a server whose event loop and engine thread race over every request. This directory models that control in TLA+, checks it with TLC on small instances and
proves the central safety properties with TLAPS for every instance.

Paths below are relative to `src/src/sparseengine/` unless they start with `src/`.

## 1. Inventory

| Component | State | Operations | What is hard | What makes it correct |
|---|---|---|---|---|
| Scheduler (`engine/scheduler.py`) | `waiting` and `decoding` deques, `last_schedule_phase`, `_prefill_wait_since` | `add`, `schedule`, `postprocess`, `abort` | three loops that pop, rotate, skip, block and put back; preemption; replay; exceptions in the middle | no request lost or queued twice; idle only when nothing can run; every request that fits finishes |
| Sequence (`engine/sequence.py`) | status, prefill progress, replay cursor, progress checkpoint, pending outputs | `append_token`, `begin/finish_recompute_replay` | a replay must rebuild exactly the KV of the accepted history | the next forward writes right after the KV held |
| KV accounting (`engine/runtime_state.py`, `engine/cache_manager/decode_reservation.py`) | decode windows, residency, admission budgets | `acquire_many`, admission, `free_seq` | promises to decodes and to admitted prompts share one pool | promised slots never exceed free slots |
| Dense cache manager (`engine/cache_manager/standard.py`) | free slots, rows | allocate, free | allocation can fail half way through a batch | slots are conserved |
| LLMEngine (`engine/llm_engine.py`) | finished list, `_pending_slot_releases`, published outputs | `admit_request`, `step`, `abort_request` | each release may fail; the step may die between any two | no KV without an owner that cancellation can reach; each token published once |
| ModelRunner release protocol (`engine/model_runner.py`) | `_slot_release_states` | `free_slots`, `free_slots_batch` | a failed release has an unknown boundary | never freed twice, never forgotten |
| Asynchronous scheduling (`engine/async_scheduling/`) | ticket queue, retiring and discarded requests, device feedback | `_submit`, `_collect`, `abort`, `_retire_ready` | results for finished or cancelled requests; slots in use by a forward; stale device tokens | nothing is released under a ticket; counts of pending outputs are exact |
| OpenAI dispatcher (`entrypoints/openai/dispatcher.py`) | handles, queues of submissions, cancels, controls; `active` | `submit`, `cancel`, `discard`, `close`, engine thread | event loop and engine thread race | every request gets exactly one terminal answer |
| Chain cache (`engine/chain_cache.py`, the chain RPCs of `engine/runtime_state.py`, `engine/cache_manager/chain_offload.py`) | per rank: chain records, order of use, rows, host snapshots, copies in flight | create, resume, recreate, finish, abort, discard, demote, restore, reclaim | every rank keeps its own index and its own pace of copies; promises to running turns against eviction; a failure between two of its steps | the ranks decide alike; an idle chain is exactly the turn it finished; a running turn is never touched; a copy's source does not change |
| Prefix cache (`engine/prefix_cache.py`, `engine/cache_manager/prefix_cache_mixin.py`) | radix index, reference counts, priorities, incrementally maintained capacity views | lookup, attach, publish, evict, delete, set priority | the scheduler promises capacity from cached views that eviction and copies change; hits are used later than they are looked up | views equal a fresh scan; an admitted batch can be prepared; one owner per slot |
| Prefix offload (`engine/cache_manager/prefix_offload.py`) | host pool, two copy streams, write-through candidates | write through, demote, promote, poll | residency changes under references; order of the copies along a path | paths stay whole on device and host; an idle block stays reclaimable |
| Data-parallel engine (`engine/dp_engine.py`, `engine/dp_step.py`) | global ids, chain owners, active ids per replica; one process and pipe per replica | admit, abort, discard, invalidate, step, control calls, exit | replicas meet in a collective, so one that fails strands the others; the tables follow snapshots of what the replicas forgot | the tables agree with the replicas; no reply is taken for another call's; every call ends |
| Smart router | placement, worker health | route, failover | stale loads, workers that go away | every request reaches a live worker |
| API server, configuration, models, kernels, sparse methods, CUDA graphs, quantization | per-request text or device tensors | - | numerical or I/O | outside the models (section 7) |

How they interact: the dispatcher's engine thread is the only caller of `admit_request`, `step` and
`abort_request`. `step` calls `schedule()` (which asks `RuntimeState` about capacity), releases what
was preempted, runs the model (which allocates slots), calls `postprocess`, and releases what finished.
With asynchronous scheduling `step` is replaced by submit/collect; `schedule()` is the same code and is
told how many tickets are in flight. An exception that leaves `step` ends the driver: the dispatcher
thread stops stepping and only cancels what it still holds.

The caches sit below this: admission asks them for capacity and hits, the model run attaches and
publishes, the release of a request hands its KV to them, and a lack of room is answered by demoting or
evicting what is idle in them.

The hazards that follow from this are listed, each at its line, under `hazards` in `PROJECT.json`.

## 2. Modules

| Module | Models | Extends |
|---|---|---|
| `Scheduler` | `schedule()` with all its loops, the sequence state, the slot accounting | - |
| `LLMEngine` | the synchronous step, admission, cancellation, releases, failures; the properties and the inductive invariant | `Scheduler` |
| `Queues` | what a list comprehension keeps of a queue | - |
| `AsyncScheduler` | submission, collection, discarding, retirement, abort and the synchronous fallback | `LLMEngine`, `Queues` |
| `RequestLifecycle` | abstract: what the server promises to the client of a request | - |
| `Dispatcher` | the server's event loop and engine thread | - (instantiates `RequestLifecycle`) |
| `ChainCache` | chains on every tensor-parallel rank: index, rows, host snapshots, and the driver that admits, steps, finishes and aborts turns | `Queues` |
| `PrefixCache` | the radix index, capacity views, attachment, publication and the copies to and from the host, under the scheduler's admission | `Queues` |
| `DPEngine` | the data-parallel frontend, its replicas' processes and pipes, the collective step | - |
| `MCEngine`, `MCAsync`, `MCDispatcher`, `MCChain`, `MCPrefix`, `MCDP` | instances for TLC | `LLMEngine`, `AsyncScheduler`, `Dispatcher`, `ChainCache`, `PrefixCache`, `DPEngine` |
| `SequenceFacts` | lemmas on sequences without repetition (append, tail, remove, filter, concatenate) and on sums over finite sets | `Queues`, TLAPS |
| `LLMEngine_proof` | the engine's theorems on queues and tokens, and on memory: who holds KV, and where each row ends (section 6) | `LLMEngine`, `SequenceFacts` |
| `LLMEngineSlots_proof` | the engine's theorems on slots: the pool, the promises made from it, why a step never idles, and why it raises only if a call failed or over a sole decode | `LLMEngine_proof` |
| `AsyncScheduler_proof` | the asynchronous engine's theorems on tickets, feedback, late releases, slots and idling | `AsyncScheduler`, `LLMEngineSlots_proof` |
| `Dispatcher_proof` | the dispatcher's refinement of `RequestLifecycle`, and its theorems on cancels, on the engine it drives and on the end of its thread | `Dispatcher`, `SequenceFacts` |
| `ChainCache_proof` | the inductive invariant of chain mode and its theorems | `ChainCache`, `SequenceFacts` |
| `PrefixCache_proof` | the inductive invariant of the prefix cache and its theorems | `PrefixCache`, `SequenceFacts` |
| `DPEngine_proof` | the inductive invariant of the data-parallel engine and its theorems | `DPEngine` |

### Correspondence with the code

*State.* Every variable is named and commented after the attribute it stands for in the `VARIABLES`
block of `Scheduler`, `LLMEngine` and `AsyncScheduler`. Token identities are counts: `tokens[s]` is
`num_completion_tokens`, `kv[s]` the length of the KV row. The locals of a running `schedule()` call
are variables too (`scan`, `budget`, `scheduled`, `skipped`, ...) and are cleared when it returns.

*Scheduler.* `schedule()` is one synchronous call; it is written as one action per loop iteration,
chained by `pc`, and nothing else is enabled while `pc` is inside the call.
`Schedule` is the entry. `AcquireWindow` is one iteration of `DecodeReservations.acquire_many`.
`StartPrefill`, `StartAffinity`, `AffinityScan`, `AffinityDecode` and `AffinityPrefill` are the choice
between prefill and decode affinity. `PrefillSkip`, `PrefillDefer`, `PrefillTake`, `PrefillHookFails`,
`NextBucket` and `PrefillReturn` are the prefill buckets. `DecodeRotate`, `DecodeTake`, `DecodeBlock`,
`DecodePreempt`, `DecodeReturn` and `NothingToRun` are the decode loop. `PreemptDecodeVictim` is
`_preempt_decode_victim` with its three outcomes: ask the asynchronous driver to drain, refuse to
sacrifice a sole decode, or start a replay. The clock is not modelled: a prefill wait *may* be overdue
whenever it exists (`MayBeOverdue`), which contains every timing.

*Engine.* `StepSync` enters `schedule()`, `StepWithoutBatch` is a step that selected nothing (it
releases a preempted request or raises), `RunModel` allocates, `Post*` is `postprocess` for one request
(with its publication), `ReleaseFinished` releases one finished request, `StepDone` ends the step.
`AbortRequest` is the whole of `abort_request`. Faults are chosen nondeterministically, at most
`MaxFaults` of them: the admission hook (`HookFault`), the model run after a partial allocation
(`RunModelFails`, then `ReclaimOne` for each request of the batch), and every release (`ReleaseFails`:
before the worker touched anything, or inside `free_seq`, after which the worker refuses a retry).

*Asynchronous engine.* A ticket records its requests, those whose sample it publishes, and which output
token each was fed. A step fills the pipeline (`EnterSchedule`, `Submit`, `SubmitDrain`, `SubmitNothing`,
`SubmitReplay`), then collects the oldest ticket (`Collect`) or falls back to the synchronous step.
`AsyncAbort` and `Collect` both end in `settle`, the drop of tickets nobody waits for
(`DrainDiscarded`) and the release of what no ticket refers to (`RetireReady`).

*Dispatcher.* Coroutines share one thread and interleave only where they await, so `loop` holds the call
the event loop is in the middle of. `cancel`, `discard`, `control` and `close` are cut where the engine
thread can see the difference: between the event and the look at `seq_id` (`CancelMark`,
`CancelEnqueue`), between the two puts (`Wake`; `discard` and `control` hold the lock there, which
`MarkFailed` needs), between the close marker and `engine.exit()` (`CloseExit`). `submit` publishes in
one locked put. The engine thread is `pc`: the two drains (`DrainControl` to `AbortsDrained`), the
blocking and the non-blocking get (`Take`, `TakeMore`), `_admit` cut at its two looks at `cancelled`
and at the engine call between them, the step, one action per published sequence, and the four loops
of the `finally` block. `Conclude` is `_mark_request_terminal` with the event put. The engine is
external, in chain mode: a finished sequence stays as an idle chain and the next turn is admitted
*under the same sequence id*, which is what makes a late cancel dangerous. Any engine call, snapshot
refresh or check may raise, at most `MaxFaults` times, and at will once `close()` gave up its join and the
engine exited. `lost` is a history variable: the requests
for which a call after `active.pop` in `_publish_finished` raised (finding 2); the other properties
except them. A request is cancelled and
discarded at most once and produces at most `MaxOutput` tokens.

*Chain cache.* `rank[r]` is what one rank keeps: `rec` (the `ChainRecord`s), `lru`, `kv` (rows), `snap`
(`ChainSnapshot`s) and `copies` (submitted copies the device has not finished). The driver plans on its
own copy (`Plan`, from `Deficits`), every rank must make the same plan (`Accepted`, the comparison in
`validate_admission_plan`), and every rank applies it (`ApplyAdmission`, `PrepareResumed`). `CreateChain`,
`ResumeChain` and `RecreateChain` are `admit_request` with a chain; `ReserveWindow`, `NoRoomToDecode` and
`NoRoomToPrefill` are the parts of `schedule()` that reclaim idle chains; `RunPrefill`, `RunDecode` and
`StepFails` are the step with `FinishTurn`; `AbortRequest` and `DiscardChain` are the two ways out. `CopyDone` is
the device of one rank, and `PollDriver` the polls only rank 0 makes. The cache manager is SnapKV with one
layer: a slot per token, the last prefill chunk leaves at most `Budget`. `mode` is "raised" once a step
raised (only aborts follow) and "dead" when a chain RPC failed on one of several ranks, after which the
workers exit. Which runnable request `schedule()` picks is left open (`Scheduler` has the order), as are
batches of several requests. A copy that cannot start fails after the host victims left (`FinishTurn`).
Tombstones are left out: they only choose the error of a refused lookup.

*Prefix cache.* The block size is one token, so a block owns one slot. `cache` is one record: the
index, device and host residency, references, pins and transfer flags, the free slots and the host pool,
the two FIFO streams `down` and `up`, the write-through candidates, the incrementally maintained `free`
and `kids`, and the four memoised views with their epoch (`Stale` when it has passed). `job` is the scheduling
pass or the step being prepared. A pass is `BeginPass`, `Admit` per prompt, then `RunPrefill`, `RunDecode`, `Preempt`
or `EndPass`; preparing a step is `Attach`, `Promote`, `Reclaim` (as often as needed), `TakePrefill` or
`TakeDecode`; `Publish` retires a forward; `EndRequest` and `TearDown` are `free_seq`. `Preempt` is taken when
the decodes' windows (of `Window` tokens each) do not fit beside the promised prompts; a sole decode asks for one
token and yields only to a waiting replay. A poll may find any
number of the oldest copies of each stream complete. A heap may yield any victims that leave no child
behind. With offload the engine is synchronous and `max_blocks` unset; without it up to `Depth` forwards of a
request are in flight. An exception is the field `err`, after which only the requests are torn down. Rows,
layer events, prefix pruning and the eviction of host blocks for an insert are left out.

*Data-parallel engine.* `front` holds the attributes of `DPAttentionEngine`; `worker[r]` is a replica: the
sequences in its scheduler (`run`), its resident chains (`rec`), its tombstones, where it is in a call to all
(`at`) and the replies nobody has read (`out`). The frontend holds a lock over each call and waits for the
reply, so a call that addresses one replica is one action (`AdmitNew`, `AdmitResumed`, `AdmitRecreated`,
`AbortRequest`, `DiscardChain`, `InvalidateUnowned`, `Read`) that ends in `Heard`, the chain snapshot every
successful reply brings: chains the replica has forgotten lose their owner, and their global id if it is not
that of another one. `CallAll` begins a step or a control call on every replica. A replica evicts what its
`schedule()` needs gone (`EnterStep`), waits in `coordinate_dp_step` until all have come (`Collective`; an idle
replica joins with an empty batch) and replies (`LeaveStep`); it may raise before or after the collective
(`StepRaises`) or die at any time (`Dies`). In the radix mode an admission first asks
every candidate for its longest match; the call reads only and is part of `AdmitNew`, unless a candidate is dead:
then it raises after the candidates before it were sent to (`MatchMeetsDead`). An error of a step ends the engine at once, since its peers
may wait in the collective; one of a control call is raised after every reply was read (`Takes`). A dead replica
is noticed by the end of file or while nothing is ready (`NoticeDeath`). `replaced` is a history variable, the
identities of recreated chains: `IdentitiesExact` excepts them, finding 4 is about them. The size of an eviction
is left open, as is which requests a step serves and finishes. A pipe holds at most one unread reply: another call to that
replica is already a mistaken one (`ReadsOldReply`), after which the model stops.

## 3. Properties

| Property | Says | Checked in |
|---|---|---|
| `TypeOK` | types; counts and stacks stay in range (the engine's and the dispatcher's are conjuncts of `EngineInv` and `DispatcherInv`) | `chain_turns`, `prefix_tree` |
| `OwnedOnce` | from admission to FINISHED a request is in exactly one queue, or in the hands of the running call | `engine_sharing` |
| `SlotsConserved` | free plus held slots is the pool, never negative | `engine_sharing` |
| `PublishedOnce` | every accepted token was published once, a replay publishes nothing | `engine_sharing` |
| `WindowsBacked` | until the first preemption, promised windows and admitted prompts are backed by free slots | `engine_sharing` |
| `KVMatchesHistory` | between steps each KV row ends where the next forward writes | `engine_sharing` |
| `NoSpuriousFailure` | requests that each fit alone are never given up on, except when a half-computed prompt keeps its slots while a waiting replay suspends prefill (section 5) | `engine_sharing` |
| `EveryRequestEnds` | an admitted request finishes or the driver raises | `engine_sharing`, `async_limits` |
| `NeverHangs` | `schedule()` never returns an idle step the engine would spin on | `async_limits` |
| `NoOrphanKV`, `NoOrphanAsyncKV` | whoever holds KV can be reached by cancellation or is owed a release | `engine_sharing`, `async_sharing` |
| `EngineInv` | the inductive invariant of the engine's proofs: `MemoryInv` (queues, call locals, tokens, memory), `SlotInv` (the pool), `WindowInv` (the promises), `RunnableInv` (what a call can still find), `SparingInv` (why it finds a request to run while no call has failed) | `engine_sharing` |
| `FinishedIsFinal` | no step revives a finished request or adds a token to it | `async_limits` |
| `InflightExact` | pending outputs equal the results still to come and never ask beyond `max_tokens` | `async_sharing` |
| `NoReleaseInFlight` | nothing is released while a ticket refers to it | `async_sharing` |
| `FeedbackCurrent` | every forward in flight was fed the token that precedes the one it computes | `async_sharing` |
| `EveryReleaseHappens` | a request that is over gives its slots back | `async_limits` |
| `CancelNotLost` | a cancelled request that runs has an abort queued, whatever the order of `cancel` and `_admit`, and a queued cancel finds its request active or terminal | `dispatcher_turns` |
| `EngineAgrees` | the engine steps exactly what the dispatcher publishes for, but for a failed clean-up | `dispatcher_turns` |
| `AnswersImplementLifecycle` | the dispatcher implements `RequestLifecycle`: one answer at most, none after the end, silence only for one's own cancel | `dispatcher_turns` |
| `DeadLeavesNobodyWaiting` | a dead thread leaves no request, admission, discard or control unanswered | `dispatcher_turns` |
| `DispatcherInv` | the inductive invariant of the dispatcher's proofs; its part `OnePlace`: an open request is unanswered and at most one of queued, being admitted and active, and an abort in the queue is its own client's | `dispatcher_turns` |
| `EverySubmissionEnds` | every submission ends and its admission is resolved | `dispatcher_progress` |
| `AwaitsEnd` | `discard` and `control` are answered, without relying on the timeout: no wake-up is lost | `dispatcher_progress` |
| `CloseEnds` | `close()` ends the thread | `dispatcher_progress` |
| `RanksAgree` | ranks whose copies progress independently hold the same index, rows and snapshots and make the same plan for every turn | `chain_turns` |
| `IdleIsComplete` | an idle chain is exactly the turn it finished, on the device or as a complete snapshot | `chain_turns` |
| `NothingOrphaned` | every row and snapshot belongs to one known chain, within device and host; a chain has a writer only while its request can be aborted | `chain_turns` |
| `RunningTurnIntact` | no demotion, eviction, restore or preemption touches the row or the record of a running turn | `chain_turns` |
| `CopySourceStable` | what a copy still reads is neither written nor freed | `chain_turns` |
| `OwnershipExact` | every device slot and host block has one owner, reference counts and transfer flags are exact | `prefix_tree` |
| `PathsResident` | paths are whole in the index, on the device and on the host; what a request holds stays indexed and resident; a memoised hit that passes its two checks is the longest hit | `prefix_tree` |
| `ViewsExact` | incremental freeable set, child counts and current capacity views equal a fresh scan | `prefix_tree` |
| `AdmittedFits` | preparing a batch the scheduler admitted never lacks a block or a slot and never finds a parent missing (one that is only on the host when a block is *published* is finding 3) | `prefix_tree` |
| `IdleIsBacked` | with offload, a device block on an unreferenced path has its host copy or one under way | `prefix_tree` |
| `IdentitiesExact` | between calls every running request and resident chain is found under its global id on its replica, every active id runs, and no id is kept that nothing will release | `dp_steps` |
| `RepliesMatchCalls` | while every replica lives, no reply is taken for the reply to another call | `dp_steps` |
| `CallsEnd` | a call to every replica ends, without the timeout, whoever raised or died before the collective | `dp_steps` |
| `ChainKeepsItsId` | a resident chain has a global id | `dp_chain_ids` (violated, finding 4) |
| `PublishSucceeds` | publishing never meets a parent that is only on the host | `prefix_publish` (violated, finding 3) |

`WindowsBacked` is limited to the time before the first preemption because a replay rebuilds its KV
outside the ledger of windows: after it, windows can exceed the free slots for a while, and the decode
loop (`DecodeBlock`, `DecodePreempt`) is what handles that.

Every property has a mutant of the code it speaks about (listed in `PROJECT.json`, defined next to
their originals and marked `Mutant of`) that TLC finds to violate it.

## 4. Runs

| Run | Instance | States | Shows |
|---|---|---|---|
| `engine_sharing` | 3 requests, prompts 2/2/4, 8 slots, window 2, affinity, one fault | 466 k | ownership, conservation, publication and backing of windows through sharing, preemption, replays of several positions, handoff between sole decodes and every failure path; `EngineInv`; liveness |
| `async_sharing` | 3 requests, 2 tickets in flight, window 1, two faults | 1.34 M | counting, release guard, feedback, late results, no orphan KV when submission, collection or release fails |
| `async_limits` | 4 requests, 2 tickets in flight, 6 slots, minimum last chunk 2, fair driver: a prompt of 7, a "full" one larger than a batch, a "full" one that runs, a decode that outgrows the cache | 26 k | errors are named, the loop never idles, FINISHED is final, progress and release; no call fails here, so that FINISHED stays final through a failed step rests on `AsyncFinality` (section 6) |
| `dispatcher_turns` | two turns of one chain, a control call, 2 tokens, 1 fault | 1.30 M | races of cancel, discard, admission, close and fatal errors; `DispatcherInv`; the refinement |
| `dispatcher_progress` | 1 request, 1 control call, 1 fault, both threads fair | 39 k | progress, no lost wake-up |
| `chain_turns` | 3 ids, 4 slots, 2 rows, budget 2, 3 tokens a turn; three deployments: one rank without offload, one rank with 3 host slots and a history of 6, two ranks with 3 host slots; 1 fault | 134 k | chains through demotion, restore, eviction, preemption, refusal, failure and abort |
| `prefix_tree` | 3 prompts over 5 blocks (two share a path), 3 slots, window 2; deployments: at most 2 blocks with 2 forwards in flight, and 4 host blocks | 223 k | ownership, paths, views and promises through eviction, pinning, deletion, write-through, demotion and promotion |
| `dp_steps` | 2 replicas, 3 ids, 4 chains, 1 tombstone, chain and radix mode, 1 fault, fair processes | 189 k | identities, replies and progress through admission, recreation, eviction, abort, discard, failing and dying replicas |
| `async_abort_release` | 2 requests, 1 fault | - | finding 1 (violation) |
| `dispatcher_late_check` | 1 request, 1 fault | - | finding 2 (violation) |
| `prefix_publish` | 2 prompts, 2 slots, 4 host blocks | - | finding 3 (violation) |
| `dp_chain_ids` | 2 replicas, chain mode, 1 tombstone, no fault | - | finding 4 (violation) |

*Why the bounds are enough.* The cases that matter are relations between small numbers: cache smaller
than the sum of the requests, a prompt of two chunks, a window shorter than `max_tokens`, a decode batch
larger than the free slots, a replay of more than one position, two tickets in flight, two turns that
share a sequence id while the first one's cancel is still queued, a turn that fits only after an idle
chain left, a snapshot that fits the host only after another one left, two hits on one path in one pass,
a host smaller than the tree, a replica that fails while its peer is in the collective, a tombstone that is
forgotten while its successor is resident. Each instance is
the smallest one in which its cases happen, and TLC's coverage confirms that between them the runs fire
every action and every disjunct. `MaxFaults = 2` in `async_sharing`, whose driver falls back to the synchronous step, covers a failure during
the cleanup after a failure; the proofs are for any number.
What the bounds cannot show, section 6 proves for every instance.

*Deadlock* is not checked: an engine with no request, all requests finished, or a dead driver
legitimately stops, and so do a dispatcher thread blocked on an empty queue and a closed data-parallel engine.

*Fairness.* `WF(Driver)` and `WF(AsyncDriver)` say that the engine thread keeps stepping while it has
work. The dispatcher's loop (`_run`) does so: it blocks only when the engine is finished and nothing
is active. For the dispatcher, `WF(EngineThread)` and `WF(LoopContinues)` say that the operating system keeps running
both threads; the timeouts are not fair, so no property leans on them. For the data-parallel engine the frontend
reads what is ready, live replicas run and a collective that all have reached completes; `Timeout` is not fair.
Nothing is assumed of clients: admission and cancellation are unfair. No action inside the
step waits for anything but the device, whose termination is assumed (a call that hangs is not modelled).

## 5. Findings

1. **An asynchronous abort forgets a release that failed** (`async_abort_release`).
   `AsyncScheduler.abort` does not look at `_pending_slot_releases`: a request whose preemption release
   failed has no prefill progress and no ticket, so it is dropped from the queue and reported as aborted
   while it still holds its KV. The synchronous `abort_request` retries that release, and its docstring
   promises to "release any owned KV slots".
2. **A request can die without an answer** (`dispatcher_late_check`). `_publish_finished` removes the
   request from `active` before calls that can raise: the check of the response-parser text, the abort and
   the snapshot refresh of a late stop string. If one raises, the thread dies, `_fail_active_requests` no
   longer finds the request and its client waits for ever. `test_final_detokenizer_error_reaches_client`
   and `test_stop_detokenizer_error_reaches_client` show the intent (the error is sent), and
   `_publish_token_deltas` pops only after its checks.
3. **A recomputed block cannot be extended once its original is on the host** (`prefix_publish`). A hit
   always leaves the last prompt block to compute, and a replay computes all of them, so a request can
   publish a block that is already indexed. `publish_pending_prefix_blocks` then holds the indexed one and
   keeps its payload; when that one was demoted meanwhile, the next block is device-resident below a
   host-only parent and `insert_block` raises. The trace: a prompt finishes, its block is written through,
   another prompt demotes it, the first prompt is asked again and decodes. The test
   `test_standard_duplicate_materialization_holds_parent_until_sequence_free` shows the intent (the child of
   a held duplicate is published).

4. **A recreated chain loses its global id** (`dp_chain_ids`). A prompt that does not extend its chain is
   admitted as a new chain under the sequence id of the old one, so both chain ids map to one global id in
   `_chain_sequences`. When the replica forgets the old chain's tombstone (`chain_cache_max_tombstones`),
   `_receive` drops that global id although the new chain is resident under it. A turn that runs then makes
   `step()` raise `KeyError` while it translates ids; the next turn of an idle chain comes back with another
   `seq_id`, which the docstring of `admit_request` says "remains stable across turns".

Observations, kept as the models' behaviour:

* While a preempted request waits to replay, prefill is suspended. With a half-computed prompt in the queue
  and a sole decode that cannot renew its window, `schedule()` raises "KV cache is too small" although each
  request fits alone (a comment at `engine/scheduler.py:809` wants a partial prefill to get "the opportunity to
  finish before declaring a sole decode unable to run"; the suspension comes first). `NoSpuriousFailure`
  excepts this case.
* `RecreateChain` invalidates the old chain before it plans the new one, so a refusal for lack of room still
  costs the old chain.
* The history budget of chains is checked only when a turn finishes, where exceeding it ends the driver.
* A turn whose snapshot is larger than the whole host budget removes its chain and raises.
* A control call, or the match call of an admission, sends to the replicas in turn, and sending to a dead one
  raises after the earlier ones were sent to. Their replies stay in the pipes, and the next call to one of them reads the old reply
  (`RepliesMatchCalls` excepts dead replicas); only a step or `exit` then ends the engine.
* `ensure_insert_capacity` removes what it can before it finds that this is not enough, and raises without
  returning those blocks' slots (`OwnershipExact` excepts that error); the driver ends with it.

## 6. Proofs

`LLMEngine_proof` proves, for every finite set of requests, every prompt and token limit, every cache
size, every batch limit and every number of faults (from the assumptions `SchedulerAssumption` and
`FaultAssumption` alone):

| Theorem | Statement |
|---|---|
| `Invariance` | `Spec => []IInv` |
| `TypeCorrect` | `Spec => []TypeOK` |
| `Ownership` | `Spec => []OwnedOnce` |
| `Publication` | `Spec => []PublishedOnce` |
| `Finality` | `Spec => FinishedIsFinal` |

*The argument.* `OwnedOnce` is not inductive: it says nothing of what a running call remembers. The
strengthening is `IInv == TypeOK /\ OwnedOnce /\ CallInv /\ FinishInv /\ TokenInv`.
`CallInv` ties the locals of `schedule()` to the queues (the affinity scan has only taken entries before
`scan`, the blocked and the unreserved victim are still in `decoding`, the decode budget never exceeds
the queue, a chunk never exceeds what remains of the prompt).
`FinishInv` says where a FINISHED request may still be seen: in `decoding` between its last token and its
release, and nowhere else until a failure. Without it a preemption could pick a finished request.
`TokenInv` says that a request selected to sample has room for another token, and that whoever waits
without a replay has produced none, so that a prompt's last chunk publishes the first token.
Each action is one step of the induction, each conjunct it can disturb a step below; the facts on queues
(removing, appending or concatenating keeps them free of repetitions and changes their range as expected)
are lemmas of `SequenceFacts`.

The second part of `LLMEngine_proof` goes on from there, under the same assumptions:

| Theorem | Statement |
|---|---|
| `MemoryInvariance` | `Spec => []MemoryInv` |
| `NoKVOrphaned` | `Spec => []NoOrphanKV` |
| `RowsMatchHistory` | `Spec => []KVMatchesHistory` |

*The argument.* `KVMatchesHistory` speaks of the moments between steps; within a step a request is in
one of several queues and the run has written slots that `postprocess` has not counted yet.
`MemoryInv == IInv /\ KVInv({}) /\ NothingInFlight` therefore speaks of two sets, wherever their members are queued: `Prefills`,
who have a prompt to compute, and `Decodes`.
`DebtInv` says when a release may be owed: between steps and after a failure, and to the victim of a
preemption from the return of `schedule()` to the end of the step.
`OwnerInv(X)` says that whoever holds KV, residency or a window (`Holds`) decodes, is being prefilled, is owed
a release, or is in `X`, the requests that somebody else releases (none in the synchronous engine). `RowInv` says that a row ends where the next forward writes, past what this step wrote (`Written`),
and that a replay starts at the first token and ends before the last.
`ProgressInv` excludes progress before admission and tokens in flight during a prefill, and ties what
`schedule()` was told of the pipeline to what is in flight; nothing is in the synchronous engine.
Most steps of `schedule()` only move a request within one of the two sets (`MovesInv`), so the proofs of those
actions show just that. What remains are the steps that take memory (admission, allocation), give it
back (the four places that release) and move the position (`postprocess`, the start and the end of a replay).
`RowInv` claims nothing once the driver has stopped or cleans up before it does (`Broken`), nor of a row that a failed
release has left in an unknown state.

`LLMEngineSlots_proof` counts, still under the same assumptions:

| Theorem | Statement |
|---|---|
| `EngineInvariance` | `Spec => []EngineInv`, from `CoreInvariance` (`Spec => []CoreInv`, all but `SparingInv`) |
| `NoSlotLost` | `Spec => []SlotsConserved` |
| `PromisesAreBacked` | `Spec => []WindowsBacked` |
| `NeverIdle` | `Spec => []NeverHangs` |
| `NothingFailsSpuriously` | `Spec => []NoSpuriousFailure` |

*The argument.* Each part is what the one before cannot say.
`SlotInv` is `SlotsConserved` with what makes it inductive: while a batch is chosen, the slots the scan may still
give (`free`) and the ones the batch will take (`Cost`) are free together; so the run takes no more than the pool has.
`WindowInv` does this for what is promised and not taken: `PledgeInv` says that the unused windows, the prompts
admitted and not computed, and what the prefill scan may still admit are backed by free slots; `CoverInv` that a
decode which samples has a slot left in its window, so a forward consumes a promise it holds; `HandoffInv` that a
replay leaves a trace, which is how the property knows that no preemption happened. As in `WindowsBacked` the claim
ends with the first one.
`RunnableInv` says why a call that runs nothing preempts or raises a named error. `RoomLeft`: a request that is not
FINISHED has a token to ask for, so the first decode of the queue is taken or blocked. `PromptInv`: a prompt in
the hands of prefill is incomplete and has no window. `FitInv`: the prompts that were started, each counted
whole, fit the cache together. So when nothing decodes, whatever is not free is part of a prompt that is not
complete, and at least one slot is left (`SlotToSpare`). `ScanInv` carries this through the scan: as long as it
has taken nothing and recorded no refusal, its bucket has a candidate and a slot to give it (`Promising`), and a
candidate with a slot for which there is no chunk leaves a refusal (`RefusalIsRecorded`).
`SparingInv` says why that refusal does not come, as long as no call has failed and each request would fit alone.
`RunnableInv` cannot: a preempted request gives its slots back, and what it will ask for again is then counted nowhere.
`ClaimInv` counts it: whoever was given a row, decodes, started prompts and waiting replays alike, claims that row and
its whole prompt, and the claims fit the cache. They do because a new prompt is admitted only while no replay waits,
against what is left beside the windows and the started prompts; of those, and of the decodes, whole prompts are held
(`FilledFacts`, `RowsBetween`), and `AdmitClaims`, `TakeClaims` and `PreemptClaims` carry it through admission, the scan
and a preemption. From the claims follows that a scan without a decode beside it opens with a prompt it will take: the
replay or the started prompt that holds a claim, or, when nobody does, any prompt, which fits alone (`AloneRoom`,
`OpenSure`). `SureInv` keeps such a prompt among those not tried yet until the scan takes something: while it has
taken nothing, what that prompt needs is still there. So `NothingToRun` never meets a refusal. The error that is left is that of a decode
without others. `SoleInv` says that it is refused its window, or its slot, only if a prompt is half computed: if
none is, the decode is the only one to hold slots, and the pool has one more than it has used (`SoleRoom`). That is the
exception of `NoSpuriousFailure`, and it is real (section 5). `FaultlessInv` is what "no call has failed" means for
the state: nothing is owed, and no request that waits is marked as running.
`SparingInv` was checked with TLC on the instance of `engine_sharing` before it was proved.
The library defines `SumFunctionOnSet` by a recursion over a finite set. `SequenceFacts` proves by least
counterexample that it is the sum (`SumFacts`: each element can be taken out), and from there what the proofs use:
a sum is monotone, additive, and changes by what one element changes (`SumBelow`, `SumPlus`, `SumChange`).

`AsyncScheduler_proof` proves, in addition for every depth of the pipeline and both kinds of sparse method
(`AsyncAssumption`):

| Theorem | Statement |
|---|---|
| `AsyncInvariance` | `AsyncSpec => []AsyncInv` |
| `PendingOutputsExact` | `AsyncSpec => []InflightExact` |
| `NothingReleasedInFlight` | `AsyncSpec => []NoReleaseInFlight` |
| `FeedbackIsCurrent` | `AsyncSpec => []FeedbackCurrent` |
| `NoAsyncKVOrphaned` | `AsyncSpec => []NoOrphanAsyncKV` |
| `AsyncOwnership` | `AsyncSpec => []OwnedOnce` |
| `AsyncPublication` | `AsyncSpec => []PublishedOnce` |
| `AsyncFinality` | `AsyncSpec => FinishedIsFinal` |
| `NoAsyncSlotLost` | `AsyncSpec => []SlotsConserved` |
| `AsyncNeverIdle` | `AsyncSpec => []NeverHangs` |

*The argument.* `schedule()`, admission and the steps of the fallback are the code of the synchronous engine, so
its lemmas are stated for any set `X` of further owners and used here with `X = retiring`: the first part of
`AsyncInv` is `IInv /\ KVInv(retiring)`. The tickets add four parts.
`PhaseInv` says where the driver stands: `schedule()` is told the number of tickets, and the synchronous step, a
preemption and the end of a failed run see none. This is what makes a replay, which rewrites a request's position,
safe.
`RoomInv` says that a decode is chosen only if an output is left to ask for, counting those in flight.
`TicketInv` says that what a ticket refers to is alive or discarded, that the discarded requests are the retiring
ones, FINISHED and in no queue; so a late result finds nobody to publish for, and nothing else releases the
row it refers to.
`FeedInv` says what the device holds: the last output it was asked for, or nothing, and something while an
output is in flight. `FeedbackCurrent` counts the tickets before a given one; taking the oldest
(`OldestLeaves`) and appending one (`NewTicket`) move this count and the tokens together.
`SlotInv` and `RunnableInv` hold beside it: the lemmas on `schedule()` and on the synchronous step are those of
`LLMEngineSlots_proof`, and the driver only adds what it submits, puts back and retires. A call with tickets in
flight may end without a batch, since it can wait for one. For a call without any, `SettledInv` says that nothing
retires any more either, so that no slot is held which `FitInv` does not count, and that a step which fills has
something to run or to collect.
Each action of `AsyncNext` has one lemma (`AsyncSubmits`, `AsyncCollects`, `AsyncAborts`, ...). `AsyncInv` was
checked with TLC on the instances of `async_sharing` and `async_limits` before it was proved.
`Keep` (`Queues`) filters a queue by a recursive function, since what the library's `SelectSeq` computes is beyond the prover; that
it keeps exactly the members it should and repeats none is `KeepFacts` of `SequenceFacts`, by least counterexample
(`LeastNat`).

`Dispatcher_proof` proves, for every finite set of requests, every chaining of turns, every set of control
calls, every output length and every number of faults (from `DispatcherAssumption` alone):

| Theorem | Statement |
|---|---|
| `OpenInOnePlace` | `DispatcherSpec => []OnePlace` |
| `DispatcherTypeCorrect` | `DispatcherSpec => []DispatcherTypeOK` |
| `DispatcherImplementsLifecycle` | `DispatcherSpec => AnswersImplementLifecycle` |

*The argument.* A step that puts an event must be the first to do so for that request, and a step that
ends a request silently must be its own client's doing. Neither can be seen from the handle alone.
`OnePlace` adds what is needed: `HandlesAgree` (an open handle has no event, whoever is in the abort queue
was cancelled and admitted), `QueueAgrees` (a queued request is open, not yet admitted, queued once),
`ItemAgrees` (the request being admitted is in no other table) and `ActiveAgrees` (an active request is
open, runs under its own sequence id and is the latest of that id). With it a fatal error cannot tell a
request twice on its way through `_fail_active_requests`, `_drain_queued_requests` and
`_fail_pending_aborts`, and the token comparison in `_drain_aborts` makes the request it concludes the
one whose client cancelled. Each action is shown to keep `OnePlace`, then to be a step of
`RequestLifecycle` or invisible in it.

Its second part extends that invariant, under the same assumption:

| Theorem | Statement |
|---|---|
| `DispatcherInvariance` | `DispatcherSpec => []DispatcherInv` |
| `NoCancelLost` | `DispatcherSpec => []CancelNotLost` |
| `EngineRunsWhatIsActive` | `DispatcherSpec => []EngineAgrees` |
| `DeadThreadAnsweredAll` | `DispatcherSpec => []DeadLeavesNobodyWaiting` |

*The argument.* `OnePlace` bounds where a request is from above; the end of the thread needs the bound from
below. `NobodyForgotten`: an open request *is* queued, being admitted or active, and one that is over was told
or cancelled. `WaitersQueued`: whoever waits for the thread is in a queue it will drain. `ThreadAgrees`: the
thread leaves its loop only when `failed` is set or it is being closed, and nothing enters a drained queue
behind its back, because `submit`, `discard` and `control` look at the same flags under the lock.
`CancelsQueued` is the race of `cancel` with `_admit`: the event is set before `seq_id` is read, and `seq_id` is
written before the event is read. `EngineHolds` accounts for what runs in the middle of admission and publication;
it needs `SeqIdsRooted`, since the turns of a chain share a sequence id.

`DPEngine_proof` proves, for every number of replicas, ids, chains, tombstones and faults (from `DPAssumption`
alone):

| Theorem | Statement |
|---|---|
| `DPInvariance` | `Spec => []DPInv` |
| `TablesAreExact` | `Spec => []IdentitiesExact` |
| `RepliesAreMatched` | `Spec => []RepliesMatchCalls` |

*The argument.* `IdentitiesExact` holds between calls only. During a call a replica may have finished a
request the frontend still lists, or evicted a chain whose snapshot is in the pipe. `DPInv` says what holds all
the time. `PipeOK` relates what each pipe holds to the call under way: at most one reply, which carries
the chains the replica knows now; with every replica alive exactly the pending ones owe one (`RepliesOwed`), and
`RepliesMatchCalls` is that statement read from the frontend's side. `TablesOK` is about the tables alone (the
two directions are inverse, ids not handed out appear nowhere, every id is kept for a request or for a chain,
two chains share an id only after one replaced the other). `Agree` relates them to the replicas, where `Running`
also counts what a replica finished and the frontend has not been told. The operations on the tables are lemmas
of their own (`Forget`, `ReleaseIdentity`, `ExpireChains`); each action then only shows which of them it applies.
As in `IdentitiesExact`, identities of recreated chains are excepted (finding 4): without the exception the
invariant is false. `DPInv` was checked with TLC on the instance of `dp_steps` before it was proved.

`ChainCache_proof` proves, for every set of deployments (ranks, host, history), every size of the device, every
budget, chunk, window and prompt, and every number of chains and faults (from `ChainAssumption` and
`NoneIsNoValue`, which says that `None` is no record, row, snapshot or request):

| Theorem | Statement |
|---|---|
| `ChainInvariance` | `Spec => []ChainInv` |
| `ChainTyped` | `Spec => []TypeOK` |
| `ChainRanksAgree` | `Spec => []RanksAgree` |
| `ChainIdleComplete` | `Spec => []IdleIsComplete` |
| `ChainNothingOrphaned` | `Spec => []NothingOrphaned` |
| `ChainTurnIntact` | `Spec => []RunningTurnIntact` |
| `ChainCopiesStable` | `Spec => []CopySourceStable` |

*The argument.* None of the six properties is inductive alone: an idle chain is complete because its copy was not
disturbed, the copy was not disturbed because a row has one owner, and the ranks agree because each of them
applies the same plan to what is the same but for its copies. `ChainInv` has three parts.
`RankInv` is about one rank: `LruInv` and `CopyInv` (the row of a copy in flight is what its snapshot will hold),
`OwnerInv` (a sequence has one chain, a row or snapshot has one), `RoomInv` (rows and snapshots fit, and a row
takes no more slots than `max_model_len`) and `RecordsInv`
(`ChainOK` of every record: an idle one is exactly a finished turn, an active one has no snapshot but a stale one).
`Same` is about two: equal index, order and rows, and snapshots of the same content, whatever their state.
A plan does not look at the state of a snapshot (`PlanSame`), and every operation on a rank takes ranks that are
`Same` to ranks that are (`LeaveSame`, `AdmittedSame`, `HostRoomSame`, `SavedSame`, ...). This is where a rank that
decided by what its own poll has seen would be caught.
`DriverInv` relates the driver's requests to rank 0: `TurnOK` (the chain of a request runs, or is gone after a
failed finish, and its row holds what the scheduler counts) and `KnownTurn` (an active chain has its request).
Almost every operation changes one chain and one sequence, so `OneChain` reduces `RankInv` to what is left of
those (`LeavesWhole`) and to what is used (`FitsAndOrdered`). The loops over victims (`Leave`, `MakeHostRoom`) are recursive functions; what
holds after the n-th victim is shown by least counterexample (`LeaveStates`, `HostStates`), from the facts that
victims are idle chains, each of them once, and that removing one does not disturb the others (`Frame`,
`HostFrame`). Inside the finish of a turn, between `finish_digest` and the new copy, the chain is idle beside the stale
snapshot of the turn before; `RankInv(R, {c})` excepts it for that moment. `ChainInv` was checked with TLC on the
instance of `chain_turns` before it was proved.

`PrefixCache_proof` proves, for every tree of blocks, every set of requests and their paths, every size of device
and host, every limit on blocks and batches and every depth of the pipeline (from `PrefixAssumption` alone):

| Theorem | Statement |
|---|---|
| `PrefixInvariance` | `Spec => []PrefixInv` |
| `PrefixTyped` | `Spec => []TypeOK` |
| `PrefixOwnership` | `Spec => []OwnershipExact` |
| `PrefixPaths` | `Spec => []PathsResident` |
| `PrefixViews` | `Spec => []ViewsExact` |
| `PrefixBacked` | `Spec => []IdleIsBacked` |

*The argument.* `PrefixInv` is about the cache, the requests and the step being prepared together; each of the five
properties needs parts of the others.
`Sound` is about the cache alone. `Sharp`: the freeable set, the child counts and the current views are what a scan
finds. `Resident`: device and host hold whole paths, the index is what either holds, and a block being copied is
resident where the copy reads it. `Queued`: the blocks marked as moving are exactly those of the two streams, each in one
batch, and a batch to the host comes after those its blocks extend; so a batch that completes leaves no hole.
`Anchored` says that what a request holds or is about to attach is in the tree, `Fit` that its position agrees with its
hit, its published blocks and its forwards in flight, `Steady` that the step fits the batch it was planned for, and
`Ledger` that slots, host blocks and reference counts add up. `Backed` is what write-through leaves behind: with
offload, every idle device block has its copy or one under way.
Two things need induction over the tree, and are done by least counterexample over the length of a block
(`TreeInduction` towards the leaves, `LeafInduction` towards the root). One is what a path and a subtree are
(`UpFacts`, `DescFacts`, `FreeableStep`). The other is the incremental view: `_refresh_freeable_path` corrects one block
and climbs while the correction changes what its parent sees. While it climbs, every block but the next one agrees
with its count (`ClimbInv`, `ClimbStep`), and a set in which every block agrees with its count is the freeable set
(`AllFit`); hence one climb from the changed block is enough (`RefreshRepairs`), for any single change. The operations on several
blocks apply the one on a single block along a walk, from the root or from the leaves (`Walks`); what holds after
the n-th block is again shown by least counterexample (`AcquireAllSharp`, `RemoveAllSharp`, `SubmitD2HSharp`, ...),
which is where the order of the walk matters: a removal that met a parent first would leave a hole. Each
operation has one lemma on `Sound` and on the sums of slots, each action one on `PrefixInv` (`AttachStep`,
`PublishedStep`, `TakeDecodeStep`, ...).

*Only model-checked.* Liveness (`EveryRequestEnds`, `EveryReleaseHappens`, `EverySubmissionEnds`,
`AwaitsEnd`, `CloseEnds`, `CallsEnd`) is out of the prover's reach.
`AdmittedFits` is checked on the instance of `prefix_tree`: that the promises of a scheduling pass cover what its batch will
take needs a ledger of promises beside the views, which is not proved. `NoSpuriousFailure` is proved for the synchronous engine; of the asynchronous one it
is not claimed.

## 7. Not modelled

* In the modelled files: the `RAW_OFFLOAD` prefill bucket; the pause for prefix pruning and pruning itself;
  the branches that only page-granular cache managers reach; the multi-rank commit of plain slot releases;
  sampling penalties, log-probabilities and multimodal inputs. The scheduler's order and the caches are
  modelled apart: `Scheduler` has the order without caches, `ChainCache` and `PrefixCache` leave it open.
* The prefix coordinator and offload of hybrid (recurrent) models, and the routing snapshots.
* The smart router: control worth modelling, next in the plan. Of the data-parallel engine, start-up and what
  is only reported (loads, prefix snapshots).
* The sparse methods decide *which* tokens are kept; that is numerical. What they ask of the scheduler
  (execution mode, minimum last chunk, committed history) are constants.
* In the dispatcher: the text of events, log-probabilities and usage; the content of the routing snapshots
  (their refresh is a call that may raise); a closed event loop under `call_soon_threadsafe`; the branches
  for engines without `admit_request`. The pruning of the prefix cache is a call that may raise.
* HTTP, rendering, configuration, start-up sizing, models, kernels, quantization and CUDA graphs.

Most of the repository's lines are in that last group and in what surrounds it: kernels, model definitions,
research baselines, quantization, benchmarks. They transform tensors or drive experiments and hold no
protocol a state machine could say something about, so the models cover a small share of the repository's lines and
most of the control that the engine, its caches and its server consist of.

## 8. Plan

1. `Scheduler`, `LLMEngine` and their proofs: done.
2. `AsyncScheduler` and its proofs: done.
3. `Dispatcher`, `RequestLifecycle`, the refinement theorem and the safety invariants: done.
4. `ChainCache` and `PrefixCache` with their offload and their proofs: done but for `AdmittedFits`.
5. `DPEngine` and its proofs: done. The smart router's failover is the next component.
6. The multi-rank release protocol (prepare, commit, retry) and the prefix coordinator of hybrid models.
