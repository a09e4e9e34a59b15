----------------------------- MODULE ChainCache -----------------------------
(***************************************************************************)
(* Chain mode: the KV of a finished turn stays resident as an idle chain   *)
(* and the next turn of the conversation resumes it under the same         *)
(* sequence id.  engine/chain_cache.py (index and coordinator),            *)
(* cache_manager/chain_offload.py (whole-turn host snapshots),             *)
(* engine/runtime_state.py (the chain RPCs a rank executes) and the parts  *)
(* of engine/llm_engine.py that admit, step, finish and abort a chain.     *)
(*                                                                         *)
(* Every tensor-parallel rank keeps its own index, rows and snapshots; the *)
(* driver (rank 0) plans on its copy and sends each decision to all ranks. *)
(* Only the device-to-host copies progress at a pace of their own on each  *)
(* rank.  A chain RPC that fails on any rank of several ends the workers   *)
(* (mode "dead"); on one rank it raises into the caller.                   *)
(*                                                                         *)
(* The cache manager is SnapKV with one KV layer: one slot per token, the  *)
(* last prefill chunk compacts a row to Budget slots.  Contents are a pair *)
(* of the chain and the number of its tokens.  Left out: which request the *)
(* scheduler picks (any that may run; Scheduler has the order), batches of *)
(* several requests, tombstones (they choose the error of a refused lookup *)
(* and nothing else), and chain_invalidate after a failed scheduler.add,   *)
(* which only appends to a deque.                                          *)
(***************************************************************************)
EXTENDS Integers, FiniteSets, Queues

CONSTANTS
  None,
  MaxIds,        \* bound: chain ids and sequence ids handed out
  Confs,         \* deployments: number of ranks, snapshot slots of the host (0 for no
                 \* offload), and max_token_history_tokens, scaled down with the rest
  NumSlots,      \* KV slots of a rank
  NumRows,       \* max_num_seqs_in_gpu
  Budget,        \* slots a row keeps after its last prefill chunk
  MaxLen,        \* max_model_len
  ChunkSize,     \* engine_prefill_chunk_size
  Window,        \* decode_reservation_tokens
  MaxTokens,     \* max_tokens of every request
  NewTokens,     \* how many tokens a prompt adds to what is cached
  MaxFaults      \* bound: device failures

ASSUME ChainAssumption ==
  /\ {MaxIds, NumSlots, NumRows, Budget, MaxLen, ChunkSize,
      Window, MaxTokens} \subseteq Nat \ {0}
  /\ NewTokens \subseteq Nat \ {0}
  /\ MaxFaults \in Nat
  /\ Confs \subseteq [tp : Nat \ {0}, host : Nat, history : Nat]

Ids == 1..MaxIds

\* ChainRecord, the row of a sequence, ChainSnapshot, and a request of the scheduler.
Record == [seq : Ids, state : {"ACTIVE", "IDLE"}, processed : 0..MaxLen, physical : 0..MaxLen,
           resident_rows : 0..1, reserved_slots : 0..(2 * MaxLen), reserved_rows : 0..1]
Row      == [chain : Ids, toks : 0..MaxLen, slots : 0..MaxLen]
Snapshot == [state : {"copying", "valid", "stale"}, chain : Ids, toks : 0..MaxLen,
             slots : 0..MaxLen]
Request  == [chain : Ids, prompt : 1..MaxLen, done : 0..MaxLen, gen : 0..MaxTokens,
             window : 0..Window]

ASSUME NoneIsNoValue ==
  None \notin Record /\ None \notin Row /\ None \notin Snapshot /\ None \notin Request

VARIABLES
  conf,      \* the deployment, fixed at start-up
  rank,      \* per rank: the index, the offload controller and the rows
  req,       \* per sequence id: the request in the scheduler, or None
  active,    \* keys of LLMEngine._active_chain_sequences
  next,      \* the next chain id and the next sequence id
  mode,      \* "up"; "raised" after a step raised; "dead" when workers exited
  faults

vars == <<conf, rank, req, active, next, mode, faults>>

Ranks == 0..(conf.tp - 1)
Offload == conf.host > 0

-----------------------------------------------------------------------------
(* A rank R: R.rec (chain -> ChainRecord), R.lru (chains by last_access),  *)
(* R.kv (sequence -> its row), R.snap (sequence -> ChainSnapshot),         *)
(* R.copies (submitted copies the device has not finished, oldest first).  *)

EmptyRank == [rec |-> [c \in Ids |-> None], lru |-> <<>>,
              kv |-> [s \in Ids |-> None], snap |-> [s \in Ids |-> None],
              copies |-> <<>>]

NewRecord(s) == [seq |-> s, state |-> "ACTIVE", processed |-> 0, physical |-> 0,
                 resident_rows |-> 1, reserved_slots |-> 0, reserved_rows |-> 0]

Chains(R) == {c \in Ids : R.rec[c] # None}
Rows(R)   == {s \in Ids : R.kv[s] # None}
Snaps(R)  == {s \in Ids : R.snap[s] # None}

Positive(n) == IF n > 0 THEN n ELSE 0

\* The slots that rows, or snapshots, take together.
Used(f) == SumFunctionOnSet([s \in Ids |-> IF f[s] = None THEN 0 ELSE f[s].slots], Ids)

Free(R)     == NumSlots - Used(R.kv)
FreeRows(R) == NumRows - Cardinality(Rows(R))
HostUsed(R) == Used(R.snap)

Touch(R, c) == [R EXCEPT !.lru = Append(RemoveFirst(@, c), c)]

-----------------------------------------------------------------------------
(* ChainOffloadController *)

\* wait: the copy of s is over; the stream is a FIFO, so older ones are too.
Wait(R, s) ==
  IF R.snap[s].state # "copying" THEN R
  ELSE LET done == {i \in DOMAIN R.copies : R.copies[i] = s}
       IN  [R EXCEPT !.snap[s].state = "valid",
                     !.copies = IF done = {} THEN @ ELSE SubSeq(@, Max(done) + 1, Len(@))]

\* poll: notice every copy the device has finished.
Poll(R) ==
  [R EXCEPT !.snap = [s \in Ids |->
     IF R.snap[s] # None /\ R.snap[s].state = "copying" /\ s \notin Range(R.copies)
     THEN [R.snap[s] EXCEPT !.state = "valid"] ELSE R.snap[s]]]

Drop(R, s) == IF R.snap[s] = None THEN R ELSE [Wait(R, s) EXCEPT !.snap[s] = None]

\* invalidate: the snapshot becomes an allocation kept only for reuse.
Invalidate(R, s) == IF R.snap[s] = None THEN R ELSE [Wait(R, s) EXCEPT !.snap[s].state = "stale"]

\* save: the row as it is now starts its way to the host.
Save(R, s) ==
  LET fresh == Drop(Poll(R), s)
  IN  [fresh EXCEPT !.snap[s] = [state |-> "copying", chain |-> R.kv[s].chain,
                                 toks |-> R.kv[s].toks, slots |-> R.kv[s].slots],
                    !.copies = Append(@, s)]

CanRestore(R, s) == FreeRows(R) > 0 /\ Free(R) >= R.snap[s].slots

-----------------------------------------------------------------------------
(* ChainCacheIndex and ChainCacheCoordinator *)

FreeSeq(R, s) == [R EXCEPT !.kv[s] = None]

\* index.evict and index.invalidate.
Forget(R, c) == [R EXCEPT !.rec[c] = None, !.lru = RemoveFirst(@, c)]

\* chain_invalidate, and the eviction of a victim: snapshot, record, row.
RemoveChain(R, c) == FreeSeq(Forget(Drop(R, R.rec[c].seq), c), R.rec[c].seq)

\* Mutant of Demote: frees the row a copy may still be reading.
DemoteWithoutWait(R, c) ==
  [FreeSeq(R, R.rec[c].seq) EXCEPT !.rec[c].resident_rows = 0]

\* The row leaves once its snapshot is complete.
Demote(R, c) ==
  [FreeSeq(Wait(R, R.rec[c].seq), R.rec[c].seq) EXCEPT !.rec[c].resident_rows = 0]

\* Mutant of IdleLRU: forgets that a running chain is pinned.
AnyLRU(R) ==
  Keep(R.lru, {c \in Chains(R) : R.rec[c].resident_rows > 0 /\ R.kv[R.rec[c].seq] # None})

\* idle_resident_lru.
IdleLRU(R) ==
  Keep(R.lru, {c \in Chains(R) : R.rec[c].state = "IDLE" /\ R.rec[c].resident_rows > 0})

\* chain_reclaim_idle on one rank; the driver decides whether it is a demotion.
ReclaimIdle(R, c, demote) == IF demote THEN Demote(R, c) ELSE RemoveChain(R, c)

\* The victims leave one after the other, those of demote for the host.
Leave(R, victims, demote) ==
  LET after[n \in 0..Len(victims)] ==
        IF n = 0 THEN R ELSE ReclaimIdle(after[n - 1], victims[n], victims[n] \in demote)
  IN  after[Len(victims)]

\* _outstanding_active_reservations: what admitted chains have not realised.
Owing(R, except) ==
  {c \in Chains(R) : R.rec[c].state = "ACTIVE" /\ R.rec[c].seq \notin except
                       /\ (R.rec[c].reserved_slots > 0 \/ R.rec[c].reserved_rows > 0)}

Realized(R, c) ==
  LET s == R.rec[c].seq
  IN  IF R.kv[s] = None THEN 0 ELSE Positive(R.kv[s].slots - R.rec[c].physical)

OutstandingSlots(R, except) ==
  LET owing == Owing(R, except)
  IN  SumFunctionOnSet([c \in owing |-> Positive(R.rec[c].reserved_slots - Realized(R, c))], owing)

OutstandingRows(R) ==
  Cardinality({c \in Owing(R, {}) : R.rec[c].reserved_rows = 1 /\ R.kv[R.rec[c].seq] = None})

\* Mutant of HasSnapshot: asks whether the copy is over, which each rank learns
\* at its own pace.
HasValidSnapshot(R, s) == R.snap[s] # None /\ R.snap[s].state = "valid"

\* "seq_id in offload.snapshots": present, finished or not.
HasSnapshot(R, s) == R.snap[s] # None

Resident(R, c, s) == IF R.rec[c] = None THEN [NewRecord(s) EXCEPT !.resident_rows = 0] ELSE R.rec[c]

\* chain_capacity_deficits: what a turn needs, and how much of it is not free.
Deficits(R, windows, c, s, prompt) ==
  LET old      == Resident(R, c, s)
      row      == IF old.resident_rows = 0 THEN 1 ELSE 0
      required == Positive(prompt - old.processed) + row * old.physical
  IN  [required |-> required, row |-> row,
       slots    |-> Positive(required - Positive(Free(R) - OutstandingSlots(R, {}) - windows)),
       rows     |-> Positive(row - Positive(FreeRows(R) - OutstandingRows(R)))]

\* plan_admission: the shortest run of least recently used idle chains whose
\* departure makes room for the turn.
Plan(R, windows, c, s, prompt) ==
  LET need     == Deficits(R, windows, c, s, prompt)
      lru      == Keep(IdleLRU(R), Ids \ {c})
      Freed(n) == SumFunctionOnSet([i \in 1..n |-> R.rec[lru[i]].physical], 1..n)
      enough   == {n \in 0..Len(lru) : n >= need.rows /\ Freed(n) >= need.slots}
      victims  == IF enough = {} THEN <<>> ELSE SubSeq(lru, 1, Min(enough))
      onHost   == {v \in Chains(R) : HasSnapshot(R, R.rec[v].seq)}
  IN  [fits   |-> enough # {}, chain |-> c, seq |-> s,
       reused |-> Resident(R, c, s).processed, required |-> need.required, rows |-> need.row,
       demote |-> Keep(victims, onHost), evict |-> Keep(victims, Ids \ onHost)]

\* apply_admission: victims leave, the record gets its writer and its promise.
ApplyAdmission(R, p) ==
  LET room   == Leave(Leave(R, p.demote, Ids), p.evict, {})
      record == IF room.rec[p.chain] = None THEN NewRecord(p.seq) ELSE room.rec[p.chain]
  IN  Touch([room EXCEPT !.rec[p.chain] =
               [record EXCEPT !.state = "ACTIVE", !.reserved_slots = p.required,
                              !.reserved_rows = p.rows]], p.chain)

\* restore: the row of a chain that lives on the host alone comes back, and the
\* promise shrinks by what that used.
Restored(R, c) ==
  LET s == R.rec[c].seq
      w == Wait(R, s)
  IN  IF R.rec[c].resident_rows > 0 THEN R
      ELSE [w EXCEPT !.kv[s] = [chain |-> w.snap[s].chain, toks |-> w.snap[s].toks,
                                slots |-> w.snap[s].slots],
                     !.rec[c].resident_rows = 1, !.rec[c].reserved_rows = 0,
                     !.rec[c].reserved_slots = @ - R.rec[c].physical]

\* Mutant of PrepareResumed: lets the new writer run beside the last turn's copy.
PrepareWithoutWait(R, c) == Restored(R, c)

\* Mutant of PrepareResumed: takes a row that never left for a restored one.
PrepareCountsTwice(R, c) ==
  Invalidate([Restored(R, c) EXCEPT !.rec[c].reserved_slots =
                R.rec[c].reserved_slots - R.rec[c].physical], R.rec[c].seq)

\* prepare_resumed_chain: the snapshot stops being one before a writer runs.
PrepareResumed(R, c) == Invalidate(Restored(R, c), R.rec[c].seq)

\* Mutant of RestoreFailed: leaves the writer that can never run.
RestoreFailedStaysActive(R, c) == Wait(R, R.rec[c].seq)

\* A restore that fails gives the chain back as it was.
RestoreFailed(R, c) ==
  [Wait(R, R.rec[c].seq) EXCEPT !.rec[c].state = "IDLE", !.rec[c].reserved_slots = 0,
                                !.rec[c].reserved_rows = 0]

\* index.finish_digest: the turn's boundary becomes the chain's.
FinishRecord(R, c, processed) ==
  Touch([R EXCEPT !.rec[c] = [@ EXCEPT !.state = "IDLE", !.processed = processed,
           !.physical = R.kv[R.rec[c].seq].slots, !.resident_rows = 1,
           !.reserved_slots = 0, !.reserved_rows = 0]], c)

\* One victim of save_finished_chain.
DropHost(R, v) ==
  LET dropped == Drop(R, R.rec[v].seq)
  IN  IF R.rec[v].resident_rows = 0 THEN Forget(dropped, v) ELSE dropped

\* save_finished_chain: obsolete snapshots of running chains go first, then the
\* least recently used, until the new one fits.
MakeHostRoom(R, c) ==
  LET s     == R.rec[c].seq
      Others(state) == Keep(R.lru, {v \in Chains(R) \ {c} : R.rec[v].state = state
                                                      /\ HasSnapshot(R, R.rec[v].seq)})
      order == Others("ACTIVE") \o Others("IDLE")
      after[n \in 0..Len(order)] == IF n = 0 THEN R ELSE DropHost(after[n - 1], order[n])
      Fits(n) == HostUsed(Drop(after[n], s)) + R.kv[s].slots <= conf.host
  IN  after[Min({n \in 0..Len(order) : Fits(n) \/ n = Len(order)})]

-----------------------------------------------------------------------------
(* The driver: LLMEngine, its scheduler and the decode windows.  done is   *)
(* the number of tokens whose KV the driver counts as computed             *)
(* (num_prefilled_tokens, then the replay cursor and the decodes).         *)

Requests == {s \in Ids : req[s] # None}

Waiting   == {s \in Requests : req[s].done < req[s].prompt}
Decoding  == Requests \ Waiting
Partial   == {s \in Waiting : req[s].done > 0}
Replaying == {s \in Requests : req[s].gen > 0 /\ req[s].done < req[s].prompt + req[s].gen - 1}

Remaining(s) == req[s].prompt - req[s].done
Windows == SumFunctionOnSet([s \in Ids |-> IF req[s] = None THEN 0 ELSE req[s].window], Ids)
ReservedPrefill == SumFunctionOnSet([s \in Partial |-> Remaining(s)], Partial)

NewRequest(c, prompt, reused) ==
  [chain |-> c, prompt |-> prompt, done |-> reused, gen |-> 0, window |-> 0]

Init ==
  /\ conf \in Confs
  /\ rank = [r \in Ranks |-> EmptyRank]
  /\ req = [s \in Ids |-> None]
  /\ active = {} /\ next = 1 /\ mode = "up" /\ faults = 0

\* A failure inside a chain RPC: the workers of several ranks exit.
Dies == mode' = "dead" /\ UNCHANGED <<rank, req, active, next>>

-----------------------------------------------------------------------------
(* admit_request *)

\* The plan made by rank 0 holds on every rank, or the request is refused.
Accepted(ranks, c, s, prompt) ==
  LET plan == Plan(ranks[0], Windows, c, s, prompt)
  IN  plan.fits /\ \A r \in Ranks : Plan(ranks[r], Windows, c, s, prompt) = plan

\* chain_apply_admission on every rank, and the request enters the scheduler.
\* failing: the ranks whose restore from the host fails.
Admit(ranks, c, s, prompt, id) ==
  LET plan    == Plan(ranks[0], Windows, c, s, prompt)
      applied == [r \in Ranks |-> ApplyAdmission(ranks[r], plan)]
      Restores(r) == applied[r].rec[c].resident_rows = 0
      short   == {r \in Ranks : Restores(r) /\ ~CanRestore(applied[r], s)}
  IN  \E failing \in SUBSET {r \in Ranks : Restores(r)} :
        /\ short \subseteq failing
        /\ IF failing = short THEN UNCHANGED faults
           ELSE faults < MaxFaults /\ faults' = faults + 1
        /\ \/ /\ failing = {}
              /\ rank' = [r \in Ranks |-> PrepareResumed(applied[r], c)]
              /\ req' = [req EXCEPT ![s] = NewRequest(c, prompt, plan.reused)]
              /\ active' = active \cup {s}
              /\ next' = id /\ UNCHANGED mode
           \/ /\ failing # {} /\ conf.tp = 1
              /\ rank' = [r \in Ranks |-> RestoreFailed(applied[r], c)]
              /\ UNCHANGED <<req, active, next, mode>>
           \/ failing # {} /\ conf.tp > 1 /\ Dies

Polled == [r \in Ranks |-> Poll(rank[r])]

CreateChain(prompt) ==
  /\ mode = "up" /\ next <= MaxIds /\ prompt + MaxTokens <= MaxLen
  /\ Accepted(Polled, next, next, prompt)
  /\ Admit(Polled, next, next, prompt, next + 1)
  /\ UNCHANGED conf

IdleChains == {c \in Chains(rank[0]) : rank[0].rec[c].state = "IDLE"}

ResumeChain(c, suffix) ==
  LET prompt == rank[0].rec[c].processed + suffix
  IN  /\ mode = "up" /\ c \in IdleChains /\ prompt + MaxTokens <= MaxLen
      /\ Accepted(Polled, c, rank[0].rec[c].seq, prompt)
      /\ Admit(Polled, c, rank[0].rec[c].seq, prompt, next)
      /\ UNCHANGED conf

\* A prompt that does not extend the chain replaces it, under the same sequence
\* id: the old chain is invalidated before the new plan is made, and is gone
\* even if there is no room for the new one.
RecreateChain(c, prompt) ==
  LET s    == rank[0].rec[c].seq
      base == [r \in Ranks |-> RemoveChain(Polled[r], c)]
  IN  /\ mode = "up" /\ c \in IdleChains /\ next <= MaxIds /\ prompt + MaxTokens <= MaxLen
      /\ \/ Accepted(base, next, s, prompt) /\ Admit(base, next, s, prompt, next + 1)
         \/ /\ ~Accepted(base, next, s, prompt)
            /\ rank' = base /\ UNCHANGED <<req, active, next, mode, faults>>
      /\ UNCHANGED conf

-----------------------------------------------------------------------------
(* schedule(): decode windows, and room made at the expense of idle chains *)

\* The driver picks victims on rank 0; every rank executes the same calls.
Reclaimed(n) ==
  LET victims == SubSeq(IdleLRU(rank[0]), 1, n)
      demote  == {c \in Range(victims) : HasSnapshot(rank[0], rank[0].rec[c].seq)}
  IN  [r \in Ranks |-> Leave(rank[r], victims, demote)]

IdleCount == Len(IdleLRU(rank[0]))

NeedsWindow == {s \in Decoding \ Replaying : req[s].window = 0 /\ req[s].gen < MaxTokens}

WindowFits(R, n) ==
  n + Windows + ReservedPrefill + OutstandingSlots(R, Partial) <= Free(R)

\* The windows s may take on R: a whole one, or for a sole decode any that fits.
WindowChoices(R, s) ==
  LET whole == Min({Window, MaxTokens - req[s].gen})
  IN  {n \in 1..whole : WindowFits(R, n) /\ (n = whole \/ Decoding = {s})}

\* How many idle chains must leave before s gets a window.
EnoughForWindow(s) == {n \in 0..IdleCount : WindowChoices(Reclaimed(n)[0], s) # {}}

ReserveWindow(s) ==
  /\ mode = "up" /\ s \in NeedsWindow /\ EnoughForWindow(s) # {}
  /\ LET ranks == Reclaimed(Min(EnoughForWindow(s)))
     IN  /\ rank' = ranks
         /\ req' = [req EXCEPT ![s].window = Max(WindowChoices(ranks[0], s))]
  /\ UNCHANGED <<conf, active, next, mode, faults>>

\* A preempted request gives up its row and computes it again from the start.
Preempted(ranks, s) ==
  /\ rank' = [r \in Ranks |-> FreeSeq(ranks[r], s)]
  /\ req' = [req EXCEPT ![s].done = 0, ![s].window = 0]
  /\ UNCHANGED <<conf, active, next, mode, faults>>

Raises(ranks) ==
  /\ rank' = ranks /\ mode' = "raised"
  /\ UNCHANGED <<conf, req, active, next, faults>>

StepFree(R) == Positive(Free(R) - Windows)

\* prompt_admission_costs against prompt_admission_budgets: slots and a row.
PromptFits(R, s) ==
  LET hit == IF req[s].gen = 0 THEN rank[0].rec[req[s].chain].processed ELSE 0
  IN  /\ req[s].prompt - hit <= Positive(Free(R) - ReservedPrefill) - Windows
      /\ FreeRows(R) > 0 \/ R.kv[s] # None

\* The prefills that can run on R: replays first and only when nothing decodes;
\* a prompt under way needs a slot, a new one room for all of it.
CanPrefill(R) ==
  LET replays == Waiting \cap Replaying
  IN  {s \in IF replays = {} THEN Waiting ELSE replays :
         /\ replays = {} \/ Decoding = {}
         /\ StepFree(R) > 0
         /\ s \in Partial \/ PromptFits(R, s)}

\* A decode that gets no window (or no slot) although every idle chain left.
Stuck(s) ==
  \/ s \in NeedsWindow /\ EnoughForWindow(s) = {}
  \/ s \in Decoding /\ NeedsWindow = {} /\ Free(rank[0]) = 0

\* The victim is preempted, unless it is the sole decode: then a prefill may
\* still run, and otherwise the step raises (whether a sole decode that made
\* progress may yield to a waiting replay is left open).
NoRoomToDecode(s) ==
  LET ranks == IF s \in NeedsWindow THEN Reclaimed(IdleCount) ELSE rank
  IN  /\ mode = "up" /\ Stuck(s)
      /\ \/ Decoding # {s} /\ Preempted(ranks, s)
         \/ /\ Decoding = {s} /\ CanPrefill(ranks[0]) # {} /\ IdleCount > 0
            /\ rank' = ranks
            /\ UNCHANGED <<conf, req, active, next, mode, faults>>
         \/ /\ Decoding = {s} /\ CanPrefill(ranks[0]) = {}
            /\ \/ Waiting \cap Replaying # {} /\ Preempted(ranks, s)
               \/ Raises(ranks)

\* Nothing decodes and no prompt fits: idle chains leave until prompt s does;
\* if it never does, or still nothing can run, the step raises.
NoRoomToPrefill(s) ==
  LET enough == {n \in 1..IdleCount : PromptFits(Reclaimed(n)[0], s)}
      ranks  == Reclaimed(IF enough = {} THEN IdleCount ELSE Min(enough))
  IN  /\ mode = "up" /\ Decoding = {} /\ s \in Waiting /\ CanPrefill(rank[0]) = {}
      /\ \/ /\ enough # {} /\ CanPrefill(ranks[0]) # {} /\ rank' = ranks
            /\ UNCHANGED <<conf, req, active, next, mode, faults>>
         \/ (enough = {} \/ CanPrefill(ranks[0]) = {}) /\ Raises(ranks)

-----------------------------------------------------------------------------
(* _step_sync: one chunk or one token, and the end of a turn *)

\* The row of s after n more tokens on rank R; the last chunk of a prompt
\* compacts it and clears the chain's promise (on_forward_end).
Grown(R, s, n, last) ==
  LET c   == req[s].chain
      row == IF R.kv[s] = None THEN [chain |-> c, toks |-> 0, slots |-> 0] ELSE R.kv[s]
      kv  == [row EXCEPT !.toks = @ + n, !.slots = IF last THEN Min({@ + n, Budget}) ELSE @ + n]
  IN  [R EXCEPT !.kv[s] = kv,
                !.rec[c] = IF last THEN [@ EXCEPT !.reserved_slots = 0, !.reserved_rows = 0] ELSE @]

\* _token_history_tokens of rank 0 if the chain of s kept total tokens.
HistoryWith(s, total) ==
  LET others == Chains(rank[0]) \ {req[s].chain}
      kept    == [c \in others |-> IF rank[0].rec[c].processed = 0 THEN 0
                                   ELSE rank[0].rec[c].processed + 1]
  IN  total + SumFunctionOnSet(kept, others)

\* The turn of s ends with total tokens, its rows as in ranks: the history is
\* checked, every rank publishes the boundary and starts the copy to the host.
\* A snapshot that does not fit the host, or a copy that cannot start (the host
\* victims have left by then), removes the chain and raises: the request stays
\* where the abort path looks for it.
FinishTurn(ranks, s, total) ==
  LET c        == req[s].chain
      kept     == [req EXCEPT ![s].gen = @ + 1, ![s].done = total - 1, ![s].window = 0]
      finished == [r \in Ranks |-> FinishRecord(ranks[r], c, total - 1)]
      tooLarge == Offload /\ finished[0].kv[s].slots > conf.host
      Fails(left) == IF conf.tp > 1 THEN Dies
                     ELSE /\ rank' = [r \in Ranks |-> RemoveChain(left[r], c)]
                          /\ req' = kept /\ mode' = "raised" /\ UNCHANGED <<active, next>>
  IN  \/ /\ HistoryWith(s, total) > conf.history
         /\ rank' = ranks /\ mode' = "raised"
         /\ req' = [req EXCEPT ![s].gen = @ + 1, ![s].done = total - 1]
         /\ UNCHANGED <<active, next, faults>>
      \/ HistoryWith(s, total) <= conf.history /\ tooLarge /\ Fails(finished) /\ UNCHANGED faults
      \/ /\ HistoryWith(s, total) <= conf.history /\ Offload /\ ~tooLarge
         /\ faults < MaxFaults /\ faults' = faults + 1
         /\ Fails([r \in Ranks |-> MakeHostRoom(finished[r], c)])
      \/ /\ HistoryWith(s, total) <= conf.history /\ ~tooLarge
         /\ rank' = [r \in Ranks |-> IF Offload THEN Save(MakeHostRoom(finished[r], c), s)
                                     ELSE finished[r]]
         /\ req' = [req EXCEPT ![s] = None]
         /\ active' = active \ {s}
         /\ UNCHANGED <<next, mode, faults>>

\* A sampled token of s: an end-of-sequence token or the last one ends the turn.
Sampled(ranks, s, window) ==
  LET total == req[s].prompt + req[s].gen + 1
  IN  \/ FinishTurn(ranks, s, total)
      \/ /\ req[s].gen + 1 < MaxTokens
         /\ rank' = ranks
         /\ req' = [req EXCEPT ![s].gen = @ + 1, ![s].done = total - 1, ![s].window = window]
         /\ UNCHANGED <<active, next, mode, faults>>

WindowsSettled == \A s \in NeedsWindow : Stuck(s) /\ Decoding = {s} /\ IdleCount = 0

RunPrefill(s) ==
  LET chunk == Min({ChunkSize, Remaining(s), StepFree(rank[0])})
      last  == chunk = Remaining(s)
      ranks == [r \in Ranks |-> Grown(rank[r], s, chunk, last)]
  IN  /\ mode = "up" /\ s \in CanPrefill(rank[0]) /\ WindowsSettled
      /\ \/ last /\ req[s].gen = 0 /\ Sampled(ranks, s, 0)
         \/ /\ ~(last /\ req[s].gen = 0)
            /\ rank' = ranks /\ req' = [req EXCEPT ![s].done = @ + chunk]
            /\ UNCHANGED <<active, next, mode, faults>>
      /\ UNCHANGED conf

RunDecode(s) ==
  LET ranks == [r \in Ranks |-> Grown(rank[r], s, 1, FALSE)]
  IN  /\ mode = "up" /\ s \in Decoding /\ NeedsWindow = {} /\ Free(rank[0]) > 0
      /\ \/ s \notin Replaying /\ Sampled(ranks, s, req[s].window - 1)
         \/ /\ s \in Replaying
            /\ rank' = ranks /\ req' = [req EXCEPT ![s].done = @ + 1]
            /\ UNCHANGED <<active, next, mode, faults>>
      /\ UNCHANGED conf

\* The model run raises: the chain and the request of s are removed.
StepFails(s) ==
  /\ mode = "up" /\ s \in CanPrefill(rank[0]) \cup Decoding
  /\ faults < MaxFaults /\ faults' = faults + 1
  /\ \/ conf.tp > 1 /\ Dies
     \/ /\ conf.tp = 1 /\ rank' = [r \in Ranks |-> RemoveChain(rank[r], req[s].chain)]
        /\ req' = [req EXCEPT ![s] = None] /\ active' = active \ {s}
        /\ mode' = "raised" /\ UNCHANGED next
  /\ UNCHANGED conf

-----------------------------------------------------------------------------
(* Aborts, and the copies' own progress *)

\* abort_request and discard_chain of a running turn.  Once a failed finish
\* has removed the chain, chain_invalidate raises and nothing changes.
AbortRequest(s) ==
  /\ mode \in {"up", "raised"} /\ s \in active /\ req[s].chain \in Chains(rank[0])
  /\ rank' = [r \in Ranks |-> RemoveChain(rank[r], req[s].chain)]
  /\ req' = [req EXCEPT ![s] = None] /\ active' = active \ {s}
  /\ UNCHANGED <<conf, next, mode, faults>>

\* discard_chain, or an abort that arrives after its turn ended.
DiscardChain(c) ==
  /\ mode = "up" /\ c \in IdleChains
  /\ rank' = [r \in Ranks |-> RemoveChain(rank[r], c)]
  /\ UNCHANGED <<conf, req, active, next, mode, faults>>

\* The device of rank r finishes its oldest copy.
CopyDone(r) ==
  /\ mode # "dead" /\ rank[r].copies # <<>>
  /\ rank' = [rank EXCEPT ![r].copies = Tail(@)]
  /\ UNCHANGED <<conf, req, active, next, mode, faults>>

\* stats(), and an admission that rank 0 refuses, poll on the driver only.
PollDriver ==
  /\ mode = "up" /\ Poll(rank[0]) # rank[0]
  /\ rank' = [rank EXCEPT ![0] = Poll(@)]
  /\ UNCHANGED <<conf, req, active, next, mode, faults>>

Next ==
  \/ \E n \in NewTokens : CreateChain(n)
  \/ \E c \in Ids, n \in NewTokens : ResumeChain(c, n) \/ RecreateChain(c, n)
  \/ \E s \in Ids : \/ ReserveWindow(s) \/ NoRoomToDecode(s) \/ NoRoomToPrefill(s)
                    \/ RunPrefill(s) \/ RunDecode(s) \/ StepFails(s) \/ AbortRequest(s)
  \/ \E c \in Ids : DiscardChain(c)
  \/ \E r \in Ranks : CopyDone(r)
  \/ PollDriver

Spec == Init /\ [][Next]_vars

-----------------------------------------------------------------------------
\* Every value stays in its range; the order of use lists each chain once.
TypeOK ==
  /\ conf \in Confs /\ DOMAIN rank = Ranks
  /\ \A r \in Ranks :
       /\ \A i \in Ids : /\ rank[r].rec[i] \in Record \cup {None}
                         /\ rank[r].kv[i] \in Row \cup {None}
                         /\ rank[r].snap[i] \in Snapshot \cup {None}
       /\ IsInjective(rank[r].lru) /\ Range(rank[r].lru) = Chains(rank[r])
       /\ IsInjective(rank[r].copies) /\ Range(rank[r].copies) \subseteq Snaps(rank[r])
  /\ \A s \in Ids : req[s] \in Request \cup {None}
  /\ active \subseteq Ids /\ next \in 1..(MaxIds + 1)
  /\ mode \in {"up", "raised", "dead"} /\ faults \in 0..MaxFaults

\* While the workers live, the ranks hold the same index, the same rows and
\* snapshots of the same chains, and would make the same plan for any turn,
\* although their copies to the host progress independently (the contract of
\* validate_admission_plan: a rank that plans otherwise refuses the admission,
\* and would refuse it again).
RanksAgree ==
  mode # "dead" => \A r \in Ranks \ {0} :
    /\ rank[r].rec = rank[0].rec /\ rank[r].lru = rank[0].lru /\ rank[r].kv = rank[0].kv
    /\ Snaps(rank[r]) = Snaps(rank[0])
    /\ \A c \in IdleChains, n \in NewTokens :
         LET q == rank[0].rec[c]
         IN  Plan(Polled[r], Windows, c, q.seq, q.processed + n)
               = Plan(Polled[0], Windows, c, q.seq, q.processed + n)
    /\ \A n \in NewTokens : next <= MaxIds =>
         Plan(Polled[r], Windows, next, next, n) = Plan(Polled[0], Windows, next, next, n)

\* What an idle chain offers the next turn is the turn it finished: its row is
\* on the device with exactly the processed tokens, or it has none and its
\* snapshot is complete.  A snapshot an idle chain keeps is never an old one.
IdleIsComplete ==
  mode # "dead" => \A r \in Ranks : \A c \in Chains(rank[r]) :
    LET q == rank[r].rec[c]
        boundary == [chain |-> c, toks |-> q.processed, slots |-> q.physical]
        snap == rank[r].snap[q.seq]
    IN  q.state = "IDLE" =>
          /\ rank[r].kv[q.seq] = IF q.resident_rows = 1 THEN boundary ELSE None
          /\ q.resident_rows = 0 => snap # None /\ snap.state = "valid"
          /\ snap # None => /\ snap.state # "stale"
                            /\ [chain |-> snap.chain, toks |-> snap.toks,
                                slots |-> snap.slots] = boundary
          /\ q.reserved_slots = 0 /\ q.reserved_rows = 0

\* Rows and snapshots belong to exactly one known chain and stay within the
\* device and the host; a chain has a writer only while its request can still
\* be aborted.  Refused, failed and aborted turns leave nothing behind.
NothingOrphaned ==
  mode # "dead" => \A r \in Ranks :
    /\ \A s \in Rows(rank[r]) \cup Snaps(rank[r]) :
         Cardinality({c \in Chains(rank[r]) : rank[r].rec[c].seq = s}) = 1
    /\ Free(rank[r]) >= 0 /\ FreeRows(rank[r]) >= 0 /\ HostUsed(rank[r]) <= conf.host
    /\ \A c \in Chains(rank[r]) : rank[r].rec[c].state = "ACTIVE" =>
         \E s \in active : s = rank[r].rec[c].seq /\ req[s] # None /\ req[s].chain = c

\* Pressure never touches a running turn: its chain keeps its writer and its
\* row holds the tokens the scheduler counts as computed, through demotions,
\* restores, evictions and preemptions of anyone.
RunningTurnIntact ==
  mode = "up" => \A r \in Ranks, s \in Requests :
    /\ s \in active
    /\ req[s].chain \in Chains(rank[r])
    /\ rank[r].rec[req[s].chain].state = "ACTIVE" /\ rank[r].rec[req[s].chain].seq = s
    /\ IF req[s].done = 0 THEN rank[r].kv[s] = None
       ELSE /\ rank[r].kv[s] # None
            /\ rank[r].kv[s].chain = req[s].chain /\ rank[r].kv[s].toks = req[s].done

\* No slot a copy still reads is written or freed: the row of every unfinished
\* copy is the one that was saved ("the next writer must not race the previous
\* turn's D2H reader").
CopySourceStable ==
  mode # "dead" => \A r \in Ranks : \A s \in Range(rank[r].copies) :
    /\ rank[r].kv[s] # None
    /\ rank[r].kv[s] = [chain |-> rank[r].snap[s].chain, toks |-> rank[r].snap[s].toks,
                        slots |-> rank[r].snap[s].slots]
=============================================================================
