------------------------------ MODULE Scheduler ------------------------------
(***************************************************************************)
(* The batch scheduler of SparseEngine (engine/scheduler.py), the request  *)
(* state it drives (engine/sequence.py) and the KV-slot accounting it asks *)
(* (engine/runtime_state.py, cache_manager/decode_reservation.py, and the  *)
(* dense cache manager).                                                   *)
(*                                                                         *)
(* schedule() is one synchronous call.  Its three loops (decode-window     *)
(* acquisition, prefill buckets, decode selection) are written as one      *)
(* action per iteration, chained by pc; nothing else is enabled while pc   *)
(* is inside the call, so the call stays atomic for every other component. *)
(*                                                                         *)
(* Token identities are abstracted to counts; the instance modelled is the *)
(* dense cache manager without a prefix cache, where one token costs one   *)
(* slot and a prompt that cannot be admitted is deferred.                  *)
(***************************************************************************)
EXTENDS Integers, Sequences, FiniteSets, SequencesExt

CONSTANTS
  Seqs,            \* requests (seq_id)
  None,            \* no sequence
  PromptLen,       \* num_prompt_tokens of each request
  MaxTokens,       \* max_tokens of each request
  Mode,            \* prefill execution mode of each request
  NumSlots,        \* KV slots of the cache manager
  NumRows,         \* max_num_seqs_in_gpu
  MaxBatchTokens,  \* max_num_batched_tokens
  MaxBatchSeqs,    \* max_num_seqs_in_batch
  MaxDecoding,     \* max_decoding_seqs
  ChunkSize,       \* engine_prefill_chunk_size
  MinFinal,        \* min_final_prefill_chunk_size of the sparse method
  Window,          \* decode_reservation_tokens
  FavorMin         \* favor_min_decoding_seqs

ASSUME SchedulerAssumption ==
  /\ IsFiniteSet(Seqs) /\ None \notin Seqs
  /\ PromptLen \in [Seqs -> Nat \ {0}]
  /\ MaxTokens \in [Seqs -> Nat \ {0}]
  /\ Mode \in [Seqs -> {"chunked", "full"}]
  /\ {NumSlots, NumRows, MaxBatchTokens, MaxBatchSeqs, MaxDecoding,
      ChunkSize, Window} \subseteq Nat \ {0}
  /\ MinFinal \in Nat
  /\ FavorMin \in 0..MaxDecoding
  /\ MaxDecoding <= NumRows /\ MaxBatchSeqs <= NumRows

VARIABLES
  \* Scheduler
  waiting, decoding,   \* the two deques
  phase,               \* "prefill" or "decode": what the last batch was
  waitOrder,           \* _prefill_wait_since, as its keys in time order
  asyncInflight,       \* _async_inflight: tickets in flight during this call
  \* Sequence
  status,              \* NEW (not admitted), WAITING, RUNNING, FINISHED
  prefilled,           \* num_prefilled_tokens
  chunk,               \* current_chunk_size (0 for None)
  tokens,              \* num_completion_tokens
  inflight,            \* num_pending_outputs
  cursor,              \* recompute_replay_cursor (NoReplay for None)
  checkpoint,          \* decode_progress_checkpoint
  \* RuntimeState and the cache manager
  freeSlots,           \* _num_free_slots
  kv,                  \* row_seq_lens: slots held by each request
  resident,            \* _resident_seq_ids
  resEnd,              \* end of each decode reservation (0: none)
  \* the running schedule() call
  pc, error,           \* where the call stands; what it raised
  scan, budget,        \* loop index; *_scan_budget
  modes,               \* prefill modes not tried yet
  scheduled, skipped,  \* scheduled_seqs; skipped_prefill
  free,                \* step_free_count, then decode_logical_free_count
  admit,               \* admission_budgets["slots"]
  batchTokens,         \* num_batched_tokens
  refused,             \* which prefill refusals were recorded
  failure,             \* decode_reservation_failure
  blocked,             \* blocked_decode_victim
  isPrefill, preempted \* the rest of the returned triple

queueVars == <<waiting, decoding, phase, waitOrder, asyncInflight>>
seqVars   == <<status, prefilled, chunk, tokens, inflight, cursor, checkpoint>>
memVars   == <<freeSlots, kv, resident, resEnd>>
scanVars  == <<scan, budget, modes, scheduled, skipped, free, admit, batchTokens,
               refused, failure, blocked>>
retVars   == <<isPrefill, preempted>>
schedVars == <<queueVars, seqVars, memVars, pc, error, scanVars, retVars>>

NoReplay == -1

Statuses == {"NEW", "WAITING", "RUNNING", "FINISHED"}
-----------------------------------------------------------------------------
(* Sequence *)

IsReplay(s)     == cursor[s] # NoReplay
Submitted(s)    == tokens[s] + inflight[s]
Remaining(s)    == PromptLen[s] - prefilled[s]
LastChunk(s)    == prefilled[s] + chunk[s] >= PromptLen[s]
ReplayDecodeTokens(s) == IF tokens[s] > 0 THEN tokens[s] - 1 ELSE 0

\* The KV position the next decode forward of s writes.
DecodeInputPosition(s) ==
  PromptLen[s] + (IF IsReplay(s) THEN cursor[s] ELSE Submitted(s) - 1)

IsFinished == waiting = <<>> /\ decoding = <<>>

\* request_may_own_slots: what abort_request asks before it releases KV.
MayOwnSlots(s) ==
  \/ s \in Range(decoding)
  \/ s \in Range(waiting) /\ (status[s] = "RUNNING" \/ prefilled[s] > 0)
-----------------------------------------------------------------------------
(* RuntimeState: decode windows and prefill capacity *)

Positive(n) == IF n > 0 THEN n ELSE 0

\* What each request has not used of its decode window.
Unused == [s \in Seqs |-> Positive(resEnd[s] - Submitted(s))]

Outstanding == SumFunctionOnSet(Unused, Seqs)

ReservedPrefill ==
  SumFunctionOnSet([s \in Seqs |-> Remaining(s)],
                   {s \in Range(waiting) : prefilled[s] \in 1..(PromptLen[s] - 1)})

NeedsAcquisition(s) ==
  /\ Submitted(s) >= resEnd[s]
  /\ Submitted(s) < MaxTokens[s]
  /\ ~IsReplay(s)

\* Mutant of WindowFits: forgets the prompts admitted but not yet computed.
WindowIgnoresPrefill(n) == n + Outstanding <= freeSlots

WindowFits(n) == n + Outstanding + Min({freeSlots, ReservedPrefill}) <= freeSlots

\* The windows s may take: the whole one, or for a sole decode any that fits.
WindowChoices(s) ==
  LET whole == Min({Window, MaxTokens[s] - Submitted(s)})
  IN  {n \in 1..whole : WindowFits(n) /\ (n = whole \/ Len(decoding) = 1)}

FreeRows == NumRows - Cardinality({s \in Seqs : kv[s] > 0})
                    - Cardinality({s \in Range(scheduled) : prefilled[s] = 0})

\* prompt_admission_costs against admission_budgets: slots, rows, residents.
AdmissionFits(s) ==
  /\ PromptLen[s] <= admit
  /\ FreeRows >= 1
  /\ s \in resident \/ Cardinality(resident) < NumRows
-----------------------------------------------------------------------------
(* Prefill selection *)

ReplayWaiting == \E s \in Range(waiting) \cup Range(skipped) : IsReplay(s)

Candidate(s) ==
  /\ ReplayWaiting => IsReplay(s)
  /\ ~(Len(decoding) >= MaxDecoding /\ prefilled[s] = 0)

\* _prefill_mode_order: the modes of the candidates by first occurrence.
ModeOrder(queue) ==
  LET cand  == {i \in DOMAIN queue : Candidate(queue[i])}
      first == Mode[queue[Min(cand)]]
      other == IF first = "full" THEN "chunked" ELSE "full"
  IN  CASE cand = {} -> <<>>
        [] \E i \in cand : Mode[queue[i]] = other -> <<first, other>>
        [] OTHER -> <<first>>

\* _prefill_step_tokens
ProposedTokens(s) ==
  LET available == Min({MaxBatchTokens - batchTokens, free})
  IN  IF Mode[s] = "full"
      THEN IF Remaining(s) <= available THEN Remaining(s) ELSE 0
      ELSE Min({Remaining(s), ChunkSize, available})

\* _respect_min_final_prefill_chunk
PrefillTokens(s) ==
  LET after == Remaining(s) - ProposedTokens(s)
  IN  IF MinFinal = 0 \/ after <= 0 \/ after >= MinFinal
      THEN ProposedTokens(s)
      ELSE Positive(Remaining(s) - MinFinal)

CanContinuePrefillBatch ==
  /\ waiting # <<>>
  /\ scheduled # <<>> => ~IsReplay(scheduled[1])
  /\ batchTokens <= MaxBatchTokens
  /\ Len(scheduled) < MaxBatchSeqs
-----------------------------------------------------------------------------
(* Leaving the call *)

Raise(e) == pc' = "raised" /\ error' = e

\* The locals of schedule() die with the call.
ClearLocals ==
  /\ scan' = 1 /\ budget' = 0 /\ modes' = <<>> /\ skipped' = <<>>
  /\ free' = 0 /\ admit' = 0 /\ batchTokens' = 0 /\ refused' = {}
  /\ failure' = None /\ blocked' = None

\* Mutant of Without: the request stays in the queue.
KeptInQueue(q, s) == q

\* Without(q, s): deque.remove on a queue that holds s at most once.
Without(q, s) == RemoveFirst(q, s)

Return(seqs, prefill) ==
  /\ pc' = "returned"
  /\ isPrefill' = prefill
  /\ scheduled' = seqs
  /\ preempted' = None
  /\ phase' = IF prefill THEN "prefill" ELSE "decode"
  /\ ClearLocals
  /\ UNCHANGED error

\* _preempt_decode_victim: v was taken out of decoding, others are left.
DrainRequired(v, others) ==
  /\ asyncInflight > 0
  /\ decoding' = <<v>> \o others
  /\ pc' = "drain"
  /\ UNCHANGED <<waiting, waitOrder, status, prefilled, chunk, cursor, checkpoint,
                 error, preempted>>

\* A sole decode may only yield to a waiting replay, and only after it has
\* produced a token since the last handoff.
MustNotPreempt(v, others) ==
  /\ tokens[v] > 0
  /\ others = <<>>
  /\ ~( /\ \E s \in Range(waiting) : IsReplay(s)
        /\ tokens[v] > checkpoint[v] )

RejectPreemption(v, others) ==
  /\ asyncInflight = 0
  /\ MustNotPreempt(v, others)
  /\ decoding' = <<v>> \o others
  /\ Raise("sole_decode")
  /\ UNCHANGED <<waiting, waitOrder, status, prefilled, chunk, cursor, checkpoint,
                 preempted>>

StartReplay(v, others) ==
  /\ asyncInflight = 0
  /\ ~MustNotPreempt(v, others)
  /\ status' = [status EXCEPT ![v] = "WAITING"]
  /\ prefilled' = [prefilled EXCEPT ![v] = 0]
  /\ cursor' = [cursor EXCEPT ![v] = IF tokens[v] > 0 THEN 0 ELSE @]
  /\ chunk' = [chunk EXCEPT ![v] = IF tokens[v] > 0 THEN 0 ELSE @]
  /\ checkpoint' = [s \in Seqs |->
                      IF s \in Range(others) \/ (s = v /\ tokens[v] > 0)
                      THEN tokens[s] ELSE checkpoint[s]]
  /\ waiting' = Append(waiting, v)
  /\ waitOrder' = IF v \in Range(waitOrder) THEN waitOrder ELSE Append(waitOrder, v)
  /\ decoding' = others
  /\ preempted' = v
  /\ pc' = "returned"
  /\ UNCHANGED error

PreemptDecodeVictim(v, others) ==
  /\ \/ DrainRequired(v, others)
     \/ RejectPreemption(v, others)
     \/ StartReplay(v, others)
  /\ scheduled' = <<>>
  /\ isPrefill' = FALSE
  /\ ClearLocals
  /\ UNCHANGED <<phase, asyncInflight, tokens, inflight, memVars>>
-----------------------------------------------------------------------------
(* schedule(): entry and decode-window acquisition *)

\* Entered with n asynchronous tickets in flight.
Schedule(n) ==
  /\ asyncInflight' = n
  /\ waitOrder' = waitOrder \o SelectSeq(waiting, LAMBDA s : s \notin Range(waitOrder))
  /\ pc' = "reserve"
  /\ scheduled' = <<>> /\ preempted' = None
  /\ ClearLocals
  /\ UNCHANGED <<waiting, decoding, phase, seqVars, memVars, error, isPrefill>>

\* One iteration of DecodeReservations.acquire_many.
AcquireWindow ==
  /\ pc = "reserve" /\ failure = None /\ scan <= Len(decoding)
  /\ LET s == decoding[scan] IN
     \/ /\ ~NeedsAcquisition(s)
        /\ scan' = scan + 1
        /\ UNCHANGED <<resEnd, failure>>
     \/ /\ NeedsAcquisition(s) /\ WindowChoices(s) # {}
        /\ resEnd' = [resEnd EXCEPT ![s] = Submitted(s) + Max(WindowChoices(s))]
        /\ scan' = scan + 1
        /\ UNCHANGED failure
     \/ /\ NeedsAcquisition(s) /\ WindowChoices(s) = {}
        /\ failure' = s
        /\ UNCHANGED <<resEnd, scan>>
  /\ UNCHANGED <<queueVars, seqVars, freeSlots, kv, resident, pc, error, budget, modes,
                 scheduled, skipped, free, admit, batchTokens, refused, blocked, retVars>>

Acquired == pc = "reserve" /\ (failure # None \/ scan > Len(decoding))

\* Several decodes and one that cannot renew its window: preempt that one now.
PreemptUnreserved ==
  /\ Acquired
  /\ failure # None /\ Len(decoding) > 1
  /\ PreemptDecodeVictim(failure, Without(decoding, failure))

\* Some prefill wait reached the 60 s deadline.
MayBeOverdue == FavorMin > 0 /\ waitOrder # <<>>

WaitRank(s) == CHOOSE i \in DOMAIN waitOrder : waitOrder[i] = s

SortedByWait(q) == \A i, j \in DOMAIN q : i < j => WaitRank(q[i]) < WaitRank(q[j])

\* The waiting queue sorted by _prefill_wait_since.
Reordered(p) == [i \in DOMAIN waiting |-> waiting[p[i]]]

WaitSorts ==
  {p \in Bijection(DOMAIN waiting, DOMAIN waiting) : SortedByWait(Reordered(p))}

\* No prefill while a replay waits for the surviving decodes to drain.
PrefillSuspended ==
  waiting = <<>> \/ (decoding # <<>> /\ \E s \in Range(waiting) : IsReplay(s))

\* Fix the budgets of this call and the buckets to scan.
OpenPrefill(queue) ==
  /\ pc' = "prefill"
  /\ waiting' = queue
  /\ modes' = IF PrefillSuspended THEN <<>> ELSE ModeOrder(queue)
  /\ budget' = Len(queue)
  /\ free' = Positive(freeSlots - Outstanding)
  /\ admit' = Positive(freeSlots - ReservedPrefill - Outstanding)
  /\ scheduled' = <<>>
  /\ UNCHANGED <<decoding, phase, waitOrder, asyncInflight, seqVars, memVars, error, scan,
                 skipped, batchTokens, refused, failure, blocked, retVars>>

\* Prefill first: a wait is overdue, or decode affinity does not apply.
StartPrefill ==
  /\ Acquired
  /\ ~(failure # None /\ Len(decoding) > 1)
  /\ \/ MayBeOverdue /\ \E p \in WaitSorts : OpenPrefill(Reordered(p))
     \/ (FavorMin = 0 \/ phase = "prefill" \/ failure # None) /\ OpenPrefill(waiting)

-----------------------------------------------------------------------------
(* Decode affinity: keep decoding while the batch is large enough *)

StartAffinity ==
  /\ Acquired
  /\ failure = None /\ FavorMin > 0 /\ phase = "decode"
  /\ pc' = "affinity"
  /\ scan' = 1
  /\ free' = freeSlots
  /\ UNCHANGED <<queueVars, seqVars, memVars, error, budget, modes, scheduled, skipped,
                 admit, batchTokens, refused, failure, blocked, retVars>>

\* The scan of _eligible_decode_batch ends: whole queue, no slot, batch full.
AffinityScanned ==
  \/ scan > Len(decoding)
  \/ Len(scheduled) = MaxDecoding
  \/ /\ free = 0 /\ scan <= Len(decoding)
     /\ Submitted(decoding[scan]) < MaxTokens[decoding[scan]]

AffinityScan ==
  /\ pc = "affinity" /\ ~AffinityScanned
  /\ LET s == decoding[scan]
         takes == Submitted(s) < MaxTokens[s]
     IN  /\ scheduled' = IF takes THEN Append(scheduled, s) ELSE scheduled
         /\ free' = IF takes THEN free - 1 ELSE free
  /\ scan' = scan + 1
  /\ UNCHANGED <<queueVars, seqVars, memVars, pc, error, budget, modes, skipped, admit,
                 batchTokens, refused, failure, blocked, retVars>>

AffinityHolds ==
  scheduled # <<>> /\ (waiting = <<>> \/ Len(scheduled) >= FavorMin)

\* The batch is taken without popping it from decoding.
AffinityDecode ==
  /\ pc = "affinity" /\ AffinityScanned /\ AffinityHolds
  /\ Return(scheduled, FALSE)
  /\ UNCHANGED <<waiting, decoding, waitOrder, asyncInflight, seqVars, memVars>>

AffinityPrefill ==
  /\ pc = "affinity" /\ AffinityScanned /\ ~AffinityHolds
  /\ OpenPrefill(waiting)
-----------------------------------------------------------------------------
(* Prefill buckets *)

InBucket ==
  pc = "prefill" /\ modes # <<>> /\ budget > 0 /\ CanContinuePrefillBatch

InMode(s) == Candidate(s) /\ Mode[s] = Head(modes)

\* A chunk the step can run: PrefillTokens never exceeds what remains.
HasChunk(s) == PrefillTokens(s) \in 1..Remaining(s)

\* _pop_next_prefill_seq passes over a request of another bucket.
PrefillSkip ==
  /\ InBucket
  /\ ~InMode(Head(waiting))
  /\ skipped' = Append(skipped, Head(waiting))
  /\ waiting' = Tail(waiting)
  /\ UNCHANGED <<decoding, phase, waitOrder, asyncInflight, seqVars, memVars, pc, error, scan,
                 budget, modes, scheduled, free, admit, batchTokens, refused, failure,
                 blocked, retVars>>

\* Mutant of ChunkRefusals: a chunk that can never run is not remembered.
NoChunkRefusals(s) == {}

\* The refusals that later turn an idle scheduler into an error.
ChunkRefusals(s) ==
  {r \in {"atomic", "window"} :
     \/ r = "atomic" /\ Mode[s] = "full"
     \/ /\ r = "window" /\ MinFinal > 0 /\ Remaining(s) <= MinFinal
        /\ ProposedTokens(s) < Remaining(s)}

\* The candidate goes to the tail: no chunk fits, or its admission is deferred.
PrefillDefer ==
  /\ InBucket
  /\ LET s == Head(waiting) IN
     /\ InMode(s)
     /\ \/ /\ ~HasChunk(s)
           /\ refused' = refused \cup ChunkRefusals(s)
        \/ /\ HasChunk(s) /\ prefilled[s] = 0 /\ ~AdmissionFits(s)
           /\ refused' = refused \cup {"deferred"}
     /\ waiting' = Append(Tail(waiting), s)
  /\ budget' = budget - 1
  /\ UNCHANGED <<decoding, phase, waitOrder, asyncInflight, seqVars, memVars, pc, error, scan,
                 modes, scheduled, skipped, free, admit, batchTokens, failure, blocked,
                 retVars>>

\* The candidate joins the batch; a first chunk is admitted with its whole
\* prompt charged.
PrefillTake ==
  /\ InBucket
  /\ LET s == Head(waiting)
         n == PrefillTokens(s)
     IN  /\ InMode(s) /\ HasChunk(s)
         /\ prefilled[s] = 0 => AdmissionFits(s)
         /\ admit' = IF prefilled[s] = 0 THEN admit - PromptLen[s] ELSE admit
         /\ resident' = resident \cup {x \in {s} : prefilled[s] = 0}
         /\ chunk' = [chunk EXCEPT ![s] = n]
         /\ status' = [status EXCEPT ![s] = "RUNNING"]
         /\ batchTokens' = batchTokens + n
         /\ free' = Positive(free - n)
         /\ scheduled' = Append(scheduled, s)
  /\ waiting' = Tail(waiting)
  /\ budget' = budget - 1
  /\ UNCHANGED <<decoding, phase, waitOrder, asyncInflight, prefilled, tokens, inflight,
                 cursor, checkpoint, freeSlots, kv, resEnd, pc, error, scan, modes, skipped,
                 refused, failure, blocked, retVars>>

\* on_prompt_admitted raises, before or after residency was taken.  schedule()
\* hands every popped request back; their order is that of the old queue,
\* which nobody reads after the driver has stopped.
PrefillHookFails ==
  /\ InBucket
  /\ LET s == Head(waiting) IN
     /\ InMode(s) /\ HasChunk(s) /\ prefilled[s] = 0 /\ AdmissionFits(s)
     /\ status' = [status EXCEPT ![s] = "RUNNING"]
     /\ resident' \in {resident, resident \cup {s}}
     /\ waiting' = skipped \o Tail(waiting) \o scheduled \o <<s>>
  /\ scheduled' = <<>>
  /\ ClearLocals
  /\ Raise("hook")
  /\ UNCHANGED <<decoding, phase, waitOrder, asyncInflight, prefilled, chunk, tokens, inflight,
                 cursor, checkpoint, freeSlots, kv, resEnd, retVars>>

\* The bucket is exhausted: skipped requests return to the front.
NextBucket ==
  /\ pc = "prefill" /\ modes # <<>> /\ ~InBucket
  /\ waiting' = skipped \o waiting
  /\ skipped' = <<>>
  /\ modes' = IF scheduled # <<>> THEN <<>> ELSE Tail(modes)
  /\ budget' = Len(skipped) + Len(waiting)
  /\ UNCHANGED <<decoding, phase, waitOrder, asyncInflight, seqVars, memVars, pc, error, scan,
                 scheduled, free, admit, batchTokens, refused, failure, blocked, retVars>>

PrefillOver == pc = "prefill" /\ modes = <<>>

PrefillReturn ==
  /\ PrefillOver /\ scheduled # <<>>
  /\ Return(scheduled, TRUE)
  /\ waitOrder' = SelectSeq(waitOrder, LAMBDA s : s \notin Range(scheduled))
  /\ UNCHANGED <<waiting, decoding, asyncInflight, seqVars, memVars>>

\* No prefill ran and the sole decode could not renew its window.
PreemptSoleUnreserved ==
  /\ PrefillOver /\ scheduled = <<>> /\ failure # None
  /\ PreemptDecodeVictim(failure, Without(decoding, failure))

StartDecode ==
  /\ PrefillOver /\ scheduled = <<>> /\ failure = None
  /\ pc' = "decode"
  /\ budget' = Len(decoding)
  /\ free' = freeSlots
  /\ UNCHANGED <<queueVars, seqVars, memVars, error, scan, modes, scheduled, skipped, admit,
                 batchTokens, refused, failure, blocked, retVars>>
-----------------------------------------------------------------------------
(* Decode selection *)

InDecode ==
  pc = "decode" /\ blocked = None /\ budget > 0 /\ Len(scheduled) < MaxDecoding

\* Its last token is in flight: rotate it to the tail.
DecodeRotate ==
  /\ InDecode
  /\ Submitted(Head(decoding)) >= MaxTokens[Head(decoding)]
  /\ decoding' = Append(Tail(decoding), Head(decoding))
  /\ budget' = budget - 1
  /\ UNCHANGED <<waiting, phase, waitOrder, asyncInflight, seqVars, memVars, pc, error, scan,
                 modes, scheduled, skipped, free, admit, batchTokens, refused, failure,
                 blocked, retVars>>

DecodeTake ==
  /\ InDecode
  /\ Submitted(Head(decoding)) < MaxTokens[Head(decoding)]
  /\ free >= 1
  /\ scheduled' = Append(scheduled, Head(decoding))
  /\ decoding' = Tail(decoding)
  /\ free' = free - 1
  /\ budget' = budget - 1
  /\ UNCHANGED <<waiting, phase, waitOrder, asyncInflight, seqVars, memVars, pc, error, scan,
                 modes, skipped, admit, batchTokens, refused, failure, blocked, retVars>>

\* Out of slots with a partial batch: run it, and retry this request first.
DecodeBlock ==
  /\ InDecode
  /\ Submitted(Head(decoding)) < MaxTokens[Head(decoding)]
  /\ free < 1 /\ scheduled # <<>>
  /\ blocked' = Head(decoding)
  /\ decoding' = Append(Tail(decoding), Head(decoding))
  /\ budget' = budget - 1
  /\ UNCHANGED <<waiting, phase, waitOrder, asyncInflight, seqVars, memVars, pc, error, scan,
                 modes, scheduled, skipped, free, admit, batchTokens, refused, failure,
                 retVars>>

\* Out of slots with nothing scheduled: sacrifice this request.
DecodePreempt ==
  /\ InDecode
  /\ Submitted(Head(decoding)) < MaxTokens[Head(decoding)]
  /\ free < 1 /\ scheduled = <<>>
  /\ PreemptDecodeVictim(Head(decoding), Tail(decoding))

DecodeOver == pc = "decode" /\ ~InDecode

\* The batch returns to the front of decoding, a blocked request before it.
DecodeReturn ==
  /\ DecodeOver /\ scheduled # <<>>
  /\ Return(scheduled, FALSE)
  /\ decoding' = IF blocked = None
                 THEN scheduled \o decoding
                 ELSE <<blocked>> \o Without(scheduled \o decoding, blocked)
  /\ UNCHANGED <<waiting, waitOrder, asyncInflight, seqVars, memVars>>

\* Nothing can run, and tickets in flight may still give slots back.
ReclaimNeedsDrain ==
  /\ asyncInflight > 0 /\ decoding = <<>> /\ waiting # <<>>
  /\ "deferred" \in refused \/ freeSlots <= Outstanding

\* Nothing can run: wait for tickets to give slots back; else, with no decode
\* left, a recorded refusal is fatal.
NothingToRun ==
  /\ DecodeOver /\ scheduled = <<>>
  /\ IF ReclaimNeedsDrain
     THEN pc' = "drain" /\ UNCHANGED error
     ELSE IF decoding = <<>> /\ refused # {}
     THEN Raise(IF "atomic" \in refused THEN "atomic_prefill"
                ELSE IF "window" \in refused THEN "final_window"
                ELSE "all_deferred")
     ELSE pc' = "returned" /\ UNCHANGED error
  /\ isPrefill' = FALSE
  /\ ClearLocals
  /\ UNCHANGED <<queueVars, seqVars, memVars, scheduled, preempted>>

\* Every step of a running schedule() call.
ScheduleStep ==
  \/ AcquireWindow \/ PreemptUnreserved \/ StartPrefill
  \/ StartAffinity \/ AffinityScan \/ AffinityDecode \/ AffinityPrefill
  \/ PrefillSkip \/ PrefillDefer \/ PrefillTake \/ NextBucket
  \/ PrefillReturn \/ PreemptSoleUnreserved \/ StartDecode
  \/ DecodeRotate \/ DecodeTake \/ DecodeBlock \/ DecodePreempt
  \/ DecodeReturn \/ NothingToRun
=============================================================================
