---------------------------- MODULE PrefixCache ----------------------------
(***************************************************************************)
(* Prefix mode: the KV of a prompt's blocks is kept in a radix tree and    *)
(* shared by requests whose prompts start alike.  engine/prefix_cache.py   *)
(* (the index and its capacity views), cache_manager/prefix_cache_mixin.py *)
(* (attachment and publication), cache_manager/prefix_offload.py (copies   *)
(* to and from host memory) and the dense cache manager                    *)
(* cache_manager/standard.py, driven by the scheduler's admission.         *)
(*                                                                         *)
(* The block size is one token, so every token whose KV is written fills   *)
(* one block and a block owns one slot.  Left out: which victim a heap     *)
(* yields (any that it may yield), rows, prefix pruning, and waiting for   *)
(* layer events.  With offload the engine is synchronous and max_blocks is *)
(* unset (host eviction for an insert is not modelled); without it a       *)
(* forward may still be in flight when the next one is planned.            *)
(***************************************************************************)
EXTENDS Integers, Sequences, FiniteSets, Queues

CONSTANTS
  Root, Stale,
  Blocks,      \* logical blocks: a chained hash of the tokens up to their end
  Parent,      \* the block a block extends, Root for a first block
  Requests,
  Path,        \* per request: the blocks of its prompt, then of its completion
  Prompt,      \* per request: num_prompt_tokens
  NumSlots,    \* device slots
  Chunk,       \* engine_prefill_chunk_size
  MaxBatch,    \* max_num_seqs_in_batch and max_decoding_seqs
  Window,      \* decode_reservation_tokens: a decode's window
  Depth,       \* bound: forwards of one request in flight
  Selectors,   \* bound: blocks whose subtree control calls name
  Confs        \* deployments: host blocks (0 for no offload) and max_blocks (0 for none)

ASSUME PrefixAssumption ==
  /\ IsFiniteSet(Blocks) /\ IsFiniteSet(Requests)
  /\ Root \notin Blocks
  /\ Parent \in [Blocks -> Blocks \cup {Root}]
  /\ \E level \in [Blocks -> 1..Cardinality(Blocks)] :   \* a block is longer than its parent
       \A b \in Blocks : Parent[b] # Root => level[Parent[b]] < level[b]
  /\ Path \in [Requests -> Seq(Blocks)]
  /\ \A r \in Requests : \A i \in DOMAIN Path[r] :
        Parent[Path[r][i]] = (IF i = 1 THEN Root ELSE Path[r][i - 1])
  /\ Prompt \in [Requests -> Nat]
  /\ \A r \in Requests : Prompt[r] \in 1..Len(Path[r])
  /\ {NumSlots, Chunk, MaxBatch, Window, Depth} \subseteq Nat \ {0}
  /\ Selectors \subseteq Blocks
  /\ Confs \subseteq [host : Nat, max : Nat]
  /\ \A c \in Confs : c.host = 0 \/ c.max = 0

VARIABLES
  conf,        \* the deployment, fixed at start-up
  cache,       \* index, residency, capacity views, slot stack, host pool, copies
  req,         \* per request: scheduler state and what it owns in the cache
  job          \* the scheduling pass or the step being prepared

vars == <<conf, cache, req, job>>

Offload == conf.host > 0
Kinds == {"freeable", "evictable", "demotable", "reclaimable"}

(* Up[b]: b and its ancestors, b first.  Desc[b]: b and what extends it.   *)
Up[b \in Blocks] == <<b>> \o (IF Parent[b] = Root THEN <<>> ELSE Up[Parent[b]])
Desc == [b \in Blocks |-> {x \in Blocks : b \in Range(Up[x])}]

(* The blocks in an order in which each comes after the one it extends.    *)
RootFirst ==
  CHOOSE q \in Bijection(1..Cardinality(Blocks), Blocks) :
    \A i, j \in DOMAIN q : Parent[q[j]] = q[i] => i < j
LeafFirst == [i \in DOMAIN RootFirst |-> RootFirst[Len(RootFirst) + 1 - i]]

(* What op makes of x along the sequence s.                                *)
Along(op(_, _), x, s) ==
  LET at[i \in 0..Len(s)] == IF i = 0 THEN x ELSE op(at[i - 1], s[i])
  IN  at[Len(s)]

----------------------------------------------------------------------------
(* Capacity: which blocks could be taken from the tree.                    *)

Moving(C) == C.out \cup C.in
Blocked(C, b) == C.ref[b] # 0 \/ b \in C.pinned \cup Moving(C)
Children(C, b) == {x \in C.index : Parent[x] = b}

(* Removable by removing leaves again and again.                           *)
FreeableIn(C) == {b \in C.index : \A x \in Desc[b] \cap C.index : ~Blocked(C, x)}

EvictableIn(C) == {b \in C.index : Children(C, b) = {} /\ ~Blocked(C, b)}

(* Device copies that repeated demotion of device leaves gives back, now   *)
(* or (pending) once the copies to the host that are in flight are done.   *)
ReclaimableIn(C, pending) ==
  {b \in C.dev : \A x \in Desc[b] \cap C.dev :
      /\ C.ref[x] = 0
      /\ x \notin C.pinned
      /\ (x \in C.host \ Moving(C)) \/ (pending /\ x \in C.out)}

(* Host-only blocks that repeated removal of host leaves gives back.       *)
HostOnlyIn(C) == {b \in FreeableIn(C) : Desc[b] \cap C.dev = {}}

Scan(C, kind) ==
  CASE kind = "freeable"    -> FreeableIn(C)
    [] kind = "evictable"   -> EvictableIn(C)
    [] kind = "demotable"   -> ReclaimableIn(C, FALSE)
    [] kind = "reclaimable" -> ReclaimableIn(C, TRUE)

(* _mark_capacity_mutated: a new epoch, no cached view is current.         *)
Mutated(C) == [C EXCEPT !.view = [k \in Kinds |-> Stale]]

(* The freeable set is maintained block by block once it has been built:   *)
(* climb while membership changes, telling each parent.                    *)
Climb(C, S, b) ==
  LET now == S.kids[b] = 0 /\ ~Blocked(C, b)
  IN  IF ~S.go \/ now = (b \in S.free) THEN [S EXCEPT !.go = FALSE]
      ELSE [free |-> IF now THEN S.free \cup {b} ELSE S.free \ {b},
            kids |-> IF Parent[b] = Root THEN S.kids
                     ELSE [S.kids EXCEPT ![Parent[b]] = IF now THEN @ - 1 ELSE @ + 1],
            go   |-> TRUE]

Refresh(C, b) ==
  IF ~C.built \/ b = Root THEN C
  ELSE LET top == Along(LAMBDA S, x : Climb(C, S, x),
                        [free |-> C.free, kids |-> C.kids, go |-> TRUE], Up[b])
       IN  [C EXCEPT !.free = top.free, !.kids = top.kids]

Built(C) ==
  IF C.built THEN C
  ELSE [C EXCEPT !.built = TRUE,
                 !.free = FreeableIn(C),
                 !.kids = [b \in Blocks |-> Cardinality(Children(C, b) \ FreeableIn(C))]]

Query(C, kind) ==
  IF C.view[kind] # Stale THEN C
  ELSE IF kind = "freeable" THEN LET B == Built(C) IN [B EXCEPT !.view[kind] = B.free]
  ELSE [C EXCEPT !.view[kind] = Scan(C, kind)]

----------------------------------------------------------------------------
(* References, insertion and removal.                                      *)

SetRef(C, b, n) ==
  LET D == [C EXCEPT !.ref[b] = n]
  IN IF (C.ref[b] = 0) = (n = 0) THEN D ELSE Mutated(Refresh(D, b))

Acquire(C, b) == SetRef(C, b, C.ref[b] + 1)
Release(C, b) == SetRef(C, b, C.ref[b] - 1)
AcquireAll(C, s) == Along(Acquire, C, s)
ReleaseAll(C, s) == Along(Release, C, s)

(* A published block enters with one reference, so the capacity epoch may  *)
(* stay when its parent could not be taken either.                         *)
Insert(C, b) ==
  LET p == Parent[b]
      D == [C EXCEPT !.index = @ \cup {b}, !.dev = @ \cup {b}, !.ref[b] = 1,
                     !.kids = IF C.built /\ p # Root THEN [C.kids EXCEPT ![p] = @ + 1] ELSE @]
      E == Refresh(Refresh(D, b), p)
  IN IF p = Root \/ Blocked(C, p) THEN E ELSE Mutated(E)

RemoveBlock(C, b) ==
  LET p == Parent[b]
      told == C.built /\ b \notin C.free /\ p # Root
      D == [C EXCEPT !.index = @ \ {b}, !.free = @ \ {b}, !.wt = @ \ {b},
                     !.kids = [x \in Blocks |-> CASE x = b -> 0
                                                  [] x = p /\ told -> C.kids[x] - 1
                                                  [] OTHER -> C.kids[x]]]
  IN Mutated(IF told THEN Refresh(D, p) ELSE D)

(* Mutant of FreePayloads: a host-only block gives a device slot back too. *)
FreePayloadsTwice(C, V) ==
  [C EXCEPT !.slots = @ + Cardinality(V), !.dev = @ \ V,
            !.pool = @ + Cardinality(V \cap C.host), !.host = @ \ V]

(* Return the payloads of blocks that left the index.                      *)
FreePayloads(C, V) ==
  [C EXCEPT !.slots = @ + Cardinality(V \cap C.dev), !.dev = @ \ V,
            !.pool = @ + Cardinality(V \cap C.host), !.host = @ \ V]

RemoveAll(C, V) == Along(RemoveBlock, C, Keep(LeafFirst, V))
Evict(C, V) == FreePayloads(RemoveAll(C, V), V)

(* Mutant of Victims: a parent may be taken before its children.           *)
AnyVictims(F, scope, n) ==
  {V \in SUBSET F : Cardinality(V) = (IF n < Cardinality(F) THEN n ELSE Cardinality(F))}

(* What a heap of leaves may yield: n of F (all of F if it has fewer), a   *)
(* block never before those in scope that extend it.                       *)
Victims(F, scope, n) ==
  {V \in SUBSET F :
      /\ Cardinality(V) = (IF n < Cardinality(F) THEN n ELSE Cardinality(F))
      /\ \A b \in V : Desc[b] \cap scope \subseteq V}

Demote(C, V) ==
  IF V = {} THEN C
  ELSE Mutated([C EXCEPT !.dev = @ \ V, !.slots = @ + Cardinality(V)])

----------------------------------------------------------------------------
(* Copies between device and host.                                         *)

Fail(C, e) == [C EXCEPT !.err = e]

BeginD2H(C, b) ==
  IF Parent[b] = Root \/ Parent[b] \in C.host \cup C.out
  THEN Mutated(Refresh([C EXCEPT !.out = @ \cup {b}], b))
  ELSE Fail(C, "order")

SubmitD2H(C, S) ==
  Along(BeginD2H,
        [C EXCEPT !.pool = @ - Cardinality(S), !.down = Append(@, S)], Keep(RootFirst, S))

(* Mutant of EndD2H: the freeable set is not told that the copy ended.     *)
EndD2HQuietly(C, b) ==
  IF Parent[b] = Root \/ Parent[b] \in C.host
  THEN Mutated([C EXCEPT !.host = @ \cup {b}, !.out = @ \ {b}])
  ELSE Fail(C, "order")

EndD2H(C, b) ==
  IF Parent[b] = Root \/ Parent[b] \in C.host
  THEN Mutated(Refresh([C EXCEPT !.host = @ \cup {b}, !.out = @ \ {b}], b))
  ELSE Fail(C, "order")

FinishD2H(C) ==
  Along(EndD2H, [C EXCEPT !.down = Tail(@)], Keep(RootFirst, Head(C.down)))

BeginH2D(C, b) ==
  IF Parent[b] = Root \/ Parent[b] \in C.dev
  THEN Mutated(Refresh([C EXCEPT !.dev = @ \cup {b}, !.in = @ \cup {b}], b))
  ELSE Fail(C, "gap")

SubmitH2D(C, S) ==
  Along(BeginH2D,
        [C EXCEPT !.slots = @ - Cardinality(S), !.up = Append(@, S)], Keep(RootFirst, S))

EndH2D(C, b) == Mutated(Refresh([C EXCEPT !.in = @ \ {b}], b))

FinishH2D(C) ==
  Along(EndH2D, [C EXCEPT !.up = Tail(@)], Keep(RootFirst, Head(C.up)))

(* The first i copies of one stream and the first j of the other are done. *)
Retire(C, i, j) ==
  LET D == Along(LAMBDA X, k : FinishD2H(X), C, [k \in 1..i |-> k])
  IN Along(LAMBDA X, k : FinishH2D(X), D, [k \in 1..j |-> k])

(* A poll finds any number of the oldest copies of each stream complete.   *)
Poll(C) == {Retire(C, i, j) : i \in 0..Len(C.down), j \in 0..Len(C.up)}

SynchronizeAll(C) == Retire(C, Len(C.down), Len(C.up))

(* Mutant of Candidates: a block skipped once is not offered again.        *)
CandidatesOnce(C, released) ==
  {b \in released : b \in C.dev \ (C.host \cup Moving(C)) /\ C.ref[b] = 0}

(* select_write_through_candidates: idle device blocks without a host copy *)
(* that earlier calls left over or this one released, and those of them    *)
(* whose parent is, or is about to be, on the host.                        *)
Candidates(C, released) ==
  {b \in C.wt \cup released :
      b \in C.dev \ (C.host \cup Moving(C)) /\ C.ref[b] = 0}

Selected(C, cand) ==
  LET sel[b \in Blocks] == /\ b \in cand
                           /\ \/ Parent[b] = Root
                              \/ Parent[b] \in C.host \cup C.out
                              \/ sel[Parent[b]]
  IN {b \in Blocks : sel[b]}

(* _schedule_write_through_prefix_blocks after the blocks of a request     *)
(* were released: make room on the host, then copy them there.             *)
WriteThrough(C, released) ==
  LET cand == Candidates(C, released)
      sel  == Selected(C, cand)
      need == Cardinality(sel)
      D    == [C EXCEPT !.wt = cand]
      room == IF C.pool >= need THEN {D}
              ELSE {Evict(D, V) : V \in Victims(HostOnlyIn(D), D.index, need - C.pool)}
  IN {IF sel = {} THEN E
      ELSE IF E.pool < need THEN Fail(E, "host")
      ELSE SubmitD2H([E EXCEPT !.wt = @ \ sel], sel) : E \in room}

----------------------------------------------------------------------------
(* Requests.  A request holds references on the first att blocks of its    *)
(* path (attached) and on held (published); priv counts the slots only it  *)
(* owns, fwd the tokens of each forward that has not been retired.         *)

NoRequest == [st |-> "idle", replay |-> FALSE, hit |-> 0, att |-> 0, pos |-> 0,
              held |-> {}, priv |-> 0, fwd |-> <<>>]

NoJob == [pc |-> "idle", batch |-> <<>>, i |-> 1, budget |-> 0, step |-> 0,
          charged |-> {}]

Init ==
  /\ conf \in Confs
  /\ cache = [index |-> {}, dev |-> {}, host |-> {}, pinned |-> {}, out |-> {},
              in |-> {}, ref |-> [b \in Blocks |-> 0], slots |-> NumSlots,
              pool |-> conf.host, down |-> <<>>, up |-> <<>>, wt |-> {},
              built |-> FALSE, free |-> {}, kids |-> [b \in Blocks |-> 0],
              view |-> [k \in Kinds |-> Stale], err |-> "none"]
  /\ req = [r \in Requests |-> NoRequest]
  /\ job = NoJob

Waiting == {r \in Requests : req[r].st = "wait"}
Decoding == {r \in Requests : req[r].st = "decode"}
Replays == {r \in Waiting : req[r].replay}

(* The blocks a request has references on.                                 *)
Attached(r) == Range(SubSeq(Path[r], 1, req[r].att))
HeldBy(r) == req[r].held \cup Attached(r)
InPathOrder(r, S) == Keep(Path[r], S)

InFlight(r) == Along(LAMBDA a, n : a + n, 0, req[r].fwd)

(* No handler runs inside a step; with offload a step ends by publishing.  *)
Running == cache.err = "none"
BetweenSteps ==
  /\ Running
  /\ job.pc = "idle"
  /\ Offload => \A r \in Requests : req[r].fwd = <<>>

Submit(r) ==
  /\ Running
  /\ job.pc = "idle"
  /\ req[r].st = "idle"
  /\ req' = [req EXCEPT ![r].st = "wait"]
  /\ UNCHANGED <<conf, cache, job>>

----------------------------------------------------------------------------
(* A scheduling pass.                                                      *)

Capacity == IF Offload THEN "reclaimable" ELSE "freeable"

(* decode_step_free_slots: leaves first, the whole view when they are few. *)
DecodeQuery(C) ==
  IF C.slots >= MaxBatch THEN C
  ELSE IF Offload THEN Query(C, "reclaimable")
  ELSE LET E == Query(C, "evictable")
       IN IF E.slots + Cardinality(E.view["evictable"]) >= MaxBatch THEN E
          ELSE Query(E, "freeable")

(* The capacity a pass works with, from views that are current.            *)
FreeWith(C) == C.slots + Cardinality(C.view[Capacity])

(* Slots promised to prompts that are partly prefilled.                    *)
ReservedPrefill ==
  FoldSet(LAMBDA r, a : a + Prompt[r] - req[r].pos, 0,
          {r \in Waiting : req[r].pos > 0})

BeginPass ==
  /\ BetweenSteps
  /\ Waiting \cup Decoding # {}
  /\ LET Q == Query(DecodeQuery(cache), Capacity)
         left == FreeWith(Q) - ReservedPrefill
     IN /\ cache' = Q
        /\ job' = [NoJob EXCEPT !.pc = "plan", !.step = FreeWith(Q),
                                !.budget = IF left > 0 THEN left ELSE 0]
  /\ UNCHANGED <<conf, req>>

(* lookup: the longest indexed prefix that leaves one prompt token to run. *)
LongestHit(C, r) ==
  CHOOSE k \in 0..(Prompt[r] - 1) :
    /\ \A i \in 1..k : Path[r][i] \in C.index
    /\ k < Prompt[r] - 1 => Path[r][k + 1] \notin C.index

(* Mutant of HitCharge: only blocks to be promoted are charged.            *)
PromotionCharge(C, hit, r) == {b \in Range(SubSeq(Path[r], 1, hit)) : b \notin C.dev}

(* Attaching pins blocks that the budget counts as free and takes slots    *)
(* for the ones that are only on the host.                                 *)
HitCharge(C, hit, r) ==
  {b \in Range(SubSeq(Path[r], 1, hit)) : b \in C.view[Capacity] \/ b \notin C.dev}

(* A prompt that enters is charged for all of its tokens, once per shared  *)
(* block of the pass; a partly prefilled one was charged when it entered.  *)
Admit(r) ==
  /\ job.pc = "plan"
  /\ r \in Waiting
  /\ Len(job.batch) < MaxBatch
  /\ \A k \in DOMAIN job.batch : job.batch[k].r # r
  /\ Len(req[r].fwd) < Depth
  /\ Replays # {} => Decoding = {} /\ r \in Replays /\ job.batch = <<>>
  /\ \E P \in Poll(cache) :
       LET fresh == req[r].pos = 0
           hit == IF fresh /\ ~req[r].replay THEN LongestHit(P, r) ELSE 0
           Q == IF fresh THEN Query(P, Capacity) ELSE P
           start == req[r].pos + hit
           n == Min({Prompt[r] - start, Chunk, job.step})
           charge == IF fresh THEN HitCharge(Q, hit, r) ELSE {}
           cost == IF fresh THEN Prompt[r] - hit + Cardinality(charge \ job.charged) ELSE 0
       IN /\ n > 0
          /\ cost <= job.budget
          /\ cache' = Q
          /\ req' = IF fresh THEN [req EXCEPT ![r].hit = hit, ![r].pos = hit] ELSE req
          /\ job' = [job EXCEPT !.batch = Append(@, [r |-> r, n |-> n]),
                                !.budget = @ - cost, !.step = @ - n,
                                !.charged = @ \cup charge]
  /\ UNCHANGED conf

RunPrefill ==
  /\ job.pc = "plan"
  /\ job.batch # <<>>
  /\ job' = [job EXCEPT !.pc = "attach"]
  /\ UNCHANGED <<conf, cache, req>>

RunDecode(S) ==
  /\ job.pc = "plan"
  /\ job.batch = <<>>
  /\ \A r \in S : Len(req[r].fwd) < Depth /\ req[r].pos < Len(Path[r])
  /\ Cardinality(S) <= MaxBatch
  /\ Cardinality(S) <= job.step
  /\ job' = [job EXCEPT !.pc = "decode",
                        !.batch = SetToSeq({[r |-> r, n |-> 1] : r \in S})]
  /\ UNCHANGED <<conf, cache, req>>

EndPass ==
  /\ job.pc = "plan"
  /\ job.batch = <<>>
  /\ job' = NoJob
  /\ UNCHANGED <<conf, cache, req>>

----------------------------------------------------------------------------
(* Preparing a step: attach every hit, then take slots.                    *)

Item == job.batch[job.i]
Chain(r) == SubSeq(Path[r], 1, req[r].hit)
HostOnly(C, r) == {b \in Range(Chain(r)) : b \notin C.dev}

(* The step goes on to the next request of the batch, then to "take".      *)
NextAttach == IF job.i < Len(job.batch) THEN [job EXCEPT !.i = @ + 1]
              ELSE [job EXCEPT !.i = 1, !.pc = "take"]

(* The checks of an attachment, then its references.                       *)
Attaching(C, r) ==
  LET chain == Chain(r)
      absent == HostOnly(C, r)
  IN IF ~(Range(chain) \subseteq C.index) THEN Fail(C, "chain")
     ELSE IF \/ ~(absent \subseteq C.host \ Moving(C))
             \/ \E i, j \in DOMAIN chain :
                  i < j /\ chain[i] \in absent /\ chain[j] \notin absent
     THEN Fail(C, "gap")
     ELSE AcquireAll(C, chain)

NothingToAttach ==
  /\ Running
  /\ job.pc = "attach"
  /\ req[Item.r].hit = req[Item.r].att
  /\ job' = NextAttach
  /\ UNCHANGED <<conf, cache, req>>

Attach ==
  /\ Running
  /\ job.pc = "attach"
  /\ req[Item.r].hit # req[Item.r].att
  /\ \E C \in Poll(cache) :
       /\ cache' = Attaching(C, Item.r)
       /\ job' = IF HostOnly(C, Item.r) = {} THEN NextAttach ELSE [job EXCEPT !.pc = "promote"]
  /\ req' = [req EXCEPT ![Item.r].att = req[Item.r].hit]
  /\ UNCHANGED conf

(* Slots the step asks for next.                                           *)
Need ==
  CASE job.pc = "promote" -> Cardinality(HostOnly(cache, Item.r))
    [] job.pc = "take"    -> Item.n
    [] job.pc = "decode"  -> Len(job.batch)
    [] OTHER              -> 0

(* _evict_prefix_cache_until_free: without offload evict once; with it     *)
(* poll, demote, and wait for the oldest copy as long as there is one.     *)
Reclaim ==
  /\ Running
  /\ cache.slots < Need
  /\ \/ /\ ~Offload
        /\ \E V \in Victims(FreeableIn(cache), cache.index, Need - cache.slots) :
             LET E == Evict(cache, V)
             IN cache' = IF E.slots < Need THEN Fail(E, "slots") ELSE E
     \/ /\ Offload
        /\ \E P \in Poll(cache) :
           \E V \in Victims(ReclaimableIn(P, FALSE), P.dev, Need - cache.slots) :
             LET D == Demote(P, V)
             IN cache' = IF D.slots >= Need THEN D
                         ELSE IF D.down # <<>> THEN FinishD2H(D) ELSE Fail(D, "slots")
  /\ UNCHANGED <<conf, req, job>>

Promote ==
  /\ Running
  /\ job.pc = "promote"
  /\ cache.slots >= Need
  /\ cache' = SubmitH2D(cache, HostOnly(cache, Item.r))
  /\ job' = [NextAttach EXCEPT !.pc = IF job.i < Len(job.batch) THEN "attach" ELSE "take"]
  /\ UNCHANGED <<conf, req>>

(* A request after n tokens were written to slots of its own.              *)
Advance(q, r, n) ==
  LET done == q.pos + n >= Prompt[r]
  IN [q EXCEPT !.pos = @ + n, !.priv = @ + n, !.fwd = Append(@, n),
               !.st = IF done THEN "decode" ELSE "wait",
               !.replay = @ /\ ~done]

TakePrefill ==
  /\ Running
  /\ job.pc = "take"
  /\ cache.slots >= Need
  /\ cache' = [cache EXCEPT !.slots = @ - Item.n]
  /\ req' = [req EXCEPT ![Item.r] = Advance(@, Item.r, Item.n)]
  /\ job' = IF job.i < Len(job.batch) THEN [job EXCEPT !.i = @ + 1] ELSE NoJob
  /\ UNCHANGED conf

TakeDecode ==
  /\ Running
  /\ job.pc = "decode"
  /\ cache.slots >= Need
  /\ cache' = [cache EXCEPT !.slots = @ - Need]
  /\ req' = [r \in Requests |->
               IF \E k \in DOMAIN job.batch : job.batch[k].r = r
               THEN Advance(req[r], r, 1) ELSE req[r]]
  /\ job' = NoJob
  /\ UNCHANGED conf

----------------------------------------------------------------------------
(* Retiring a forward: its full blocks enter the index.                    *)

(* Mutant of PublishBlock: a duplicate's slot is taken for the index's.    *)
PublishDuplicateAsOwn(S, b) ==
  IF S.c.err # "none" THEN S
  ELSE IF b \in S.c.index THEN [c |-> Acquire(S.c, b),
                                q |-> [S.q EXCEPT !.held = @ \cup {b}, !.priv = @ - 1]]
  ELSE IF Parent[b] # Root /\ Parent[b] \notin S.c.index THEN [S EXCEPT !.c = Fail(@, "missing")]
  ELSE IF Parent[b] # Root /\ Parent[b] \notin S.c.dev THEN [S EXCEPT !.c = Fail(@, "parent")]
  ELSE [c |-> Insert(S.c, b),
        q |-> [S.q EXCEPT !.held = @ \cup {b}, !.priv = @ - 1]]

(* One block: a duplicate is held and keeps its payload (the slot just     *)
(* written stays private), a new one takes the slot over.                  *)
PublishBlock(S, b) ==
  IF S.c.err # "none" THEN S
  ELSE IF b \in S.c.index THEN [c |-> Acquire(S.c, b), q |-> [S.q EXCEPT !.held = @ \cup {b}]]
  ELSE IF Parent[b] # Root /\ Parent[b] \notin S.c.index THEN [S EXCEPT !.c = Fail(@, "missing")]
  ELSE IF Parent[b] # Root /\ Parent[b] \notin S.c.dev THEN [S EXCEPT !.c = Fail(@, "parent")]
  ELSE [c |-> Insert(S.c, b),
        q |-> [S.q EXCEPT !.held = @ \cup {b}, !.priv = @ - 1]]

(* ensure_insert_capacity: when too few blocks can be evicted, those that  *)
(* were have left the index and the error drops their payloads.            *)
RoomFor(C, n) ==
  LET over == IF conf.max = 0 THEN 0 ELSE Cardinality(C.index) + n - conf.max
  IN IF over <= 0 THEN {C}
     ELSE {IF Cardinality(V) = over THEN Evict(C, V) ELSE Fail(RemoveAll(C, V), "room") :
             V \in Victims(FreeableIn(C), C.index, over)}

Publish(r) ==
  /\ Running
  /\ job.pc = "idle"
  /\ req[r].fwd # <<>>
  /\ \E P \in Poll(cache) :
       LET first == req[r].pos - InFlight(r) + 1
           new == SubSeq(Path[r], first, first + Head(req[r].fwd) - 1)
           near == Range(new) \cup {Parent[b] : b \in Range(new)}
           protected == Keep(RootFirst, near \cap P.index)
           q == [req[r] EXCEPT !.fwd = Tail(@)]
       IN \E C \in RoomFor(AcquireAll(P, protected), Cardinality(Range(new) \ P.index)) :
            LET S == Along(PublishBlock, [c |-> C, q |-> q], new)
            IN /\ cache' = ReleaseAll(S.c, protected)
               /\ req' = [req EXCEPT ![r] = S.q]
  /\ UNCHANGED <<conf, job>>

----------------------------------------------------------------------------
(* Giving a request's KV back, and the control operations.                 *)

(* free_seq: private slots, references, then the copies to the host.  Its  *)
(* two polls are one here: copies end and references go in any order.      *)
FreeSeq(r) ==
  \E P \in Poll(cache) :
    LET C == ReleaseAll([P EXCEPT !.slots = @ + req[r].priv], InPathOrder(r, HeldBy(r)))
    IN IF Offload /\ req[r].pos > 0
       THEN cache' \in WriteThrough(C, HeldBy(r))
       ELSE cache' = C

(* A request finishes or is aborted, never while a forward of it runs.     *)
EndRequest(r) ==
  /\ BetweenSteps
  /\ req[r].st # "idle"
  /\ req[r].fwd = <<>>
  /\ FreeSeq(r)
  /\ req' = [req EXCEPT ![r] = NoRequest]
  /\ UNCHANGED <<conf, job>>

(* A decode is preempted for lack of slots and will replay its tokens: the *)
(* windows of all decodes (at most Window tokens each; who holds one is    *)
(* left open) do not fit beside the promised prompts.  A sole decode takes *)
(* a window of one token, and yields only to a waiting replay (whether it  *)
(* made progress since its last turn is left open); otherwise schedule()   *)
(* raises and nothing changes.                                             *)
Preempt(r) ==
  /\ Running
  /\ job.pc = "plan"
  /\ job.batch = <<>>
  /\ r \in Decoding
  /\ job.step - ReservedPrefill < IF Decoding = {r} THEN 1 ELSE Window * Cardinality(Decoding)
  /\ Decoding = {r} => Replays # {}
  /\ req[r].fwd = <<>>
  /\ FreeSeq(r)
  /\ req' = [req EXCEPT ![r] = [NoRequest EXCEPT !.st = "wait", !.replay = TRUE]]
  /\ job' = NoJob
  /\ UNCHANGED conf

(* After an error only the requests are torn down.                         *)
TearDown(r) ==
  /\ ~Running
  /\ req[r].st # "idle"
  /\ FreeSeq(r)
  /\ req' = [req EXCEPT ![r] = NoRequest]
  /\ UNCHANGED <<conf, job>>

DeleteSubtree(b) ==
  /\ BetweenSteps
  /\ b \in cache.index
  /\ LET C == SynchronizeAll(cache) IN cache' = Evict(C, FreeableIn(C) \cap Desc[b])
  /\ UNCHANGED <<conf, req, job>>

SetPin(C, x, pin) ==
  Refresh([C EXCEPT !.pinned = IF pin THEN @ \cup {x} ELSE @ \ {x}], x)

(* set_subtree_eviction_priority with a negative or another priority.      *)
SetPriority(b, pin) ==
  /\ BetweenSteps
  /\ b \in cache.index
  /\ LET changed == {x \in Desc[b] \cap cache.index : (x \in cache.pinned) # pin}
         D == Along(LAMBDA C, x : SetPin(C, x, pin), cache, Keep(RootFirst, changed))
     IN cache' = IF changed = {} THEN D ELSE Mutated(D)
  /\ UNCHANGED <<conf, req, job>>

(* free_slot_stats.                                                        *)
Stats ==
  /\ BetweenSteps
  /\ \E P \in Poll(cache) : cache' = Query(Query(P, "demotable"), "freeable")
  /\ UNCHANGED <<conf, req, job>>

Next ==
  \/ \E r \in Requests :
       \/ Submit(r) \/ Admit(r) \/ Publish(r) \/ EndRequest(r) \/ Preempt(r) \/ TearDown(r)
  \/ \E S \in SUBSET Decoding \ {{}} : RunDecode(S)
  \/ \E b \in Selectors : DeleteSubtree(b) \/ \E pin \in BOOLEAN : SetPriority(b, pin)
  \/ BeginPass \/ RunPrefill \/ EndPass
  \/ NothingToAttach \/ Attach \/ Reclaim \/ Promote \/ TakePrefill \/ TakeDecode
  \/ Stats

Spec == Init /\ [][Next]_vars

----------------------------------------------------------------------------
(* Every field of the cache, the requests and the step has its type; the   *)
(* slot and host stacks and the reference counts never pass their bounds.  *)
TypeOK ==
  /\ conf \in Confs
  /\ \A f \in {cache.index, cache.dev, cache.host, cache.pinned, cache.out, cache.in,
               cache.wt, cache.free} : f \subseteq Blocks
  /\ cache.ref \in [Blocks -> 0..Cardinality(Requests)]
  /\ cache.kids \in [Blocks -> 0..Cardinality(Blocks)]
  /\ cache.slots \in 0..NumSlots
  /\ cache.pool \in 0..conf.host
  /\ {cache.down, cache.up} \subseteq Seq(SUBSET Blocks)
  /\ \A k \in Kinds : cache.view[k] = Stale \/ cache.view[k] \subseteq Blocks
  /\ \A r \in Requests :
       /\ req[r].st \in {"idle", "wait", "decode"}
       /\ req[r].pos \in 0..Len(Path[r])
       /\ req[r].priv \in 0..req[r].pos
       /\ req[r].att \in 0..req[r].hit
  /\ job.i \in 1..MaxBatch


(* Every device slot is on the free stack, owned by exactly one indexed    *)
(* block or private to one request, every host block is in the pool, in a  *)
(* copy or holds a payload, a block's reference count is the number of     *)
(* requests that hold it, and its transfer flag says that a copy of it is  *)
(* queued (_free_device_prefix_blocks, host_pool, set_block_ref_count,     *)
(* PrefixBlockResidency).                                                  *)
OwnershipExact ==
  /\ cache.err # "room" =>
       cache.slots + Cardinality(cache.dev)
         + SumFunctionOnSet([r \in Requests |-> req[r].priv], Requests) = NumSlots
  /\ cache.pool + Cardinality(cache.host \cup cache.out) = conf.host
  /\ cache.host \cap cache.out = {}
  /\ \A b \in Blocks : cache.ref[b] = Cardinality({r \in Requests : b \in HeldBy(r)})
  /\ cache.out = UNION Range(cache.down)
  /\ cache.in = UNION Range(cache.up)
  /\ Cardinality(cache.out) = Along(LAMBDA a, S : a + Cardinality(S), 0, cache.down)

(* Paths stay whole: the parent of an indexed block is indexed, that of a  *)
(* device block on the device, that of a host block on the host; what a    *)
(* request holds is indexed and, once attached, on the device up to its    *)
(* attached length.  A memoised hit that passes the two membership checks  *)
(* of lookup_prefix_cache_hit is the longest hit.                          *)
PathsResident ==
  /\ \A S \in {cache.index, cache.dev, cache.host} :
       \A b \in S : Parent[b] = Root \/ Parent[b] \in S
  /\ cache.err # "room" => cache.index = cache.dev \cup cache.host
  /\ \A r \in Requests :
       /\ HeldBy(r) \subseteq cache.index
       /\ job.pc # "promote" => Attached(r) \subseteq cache.dev
       /\ \A k \in 0..(Prompt[r] - 1) :
            /\ k = 0 \/ Path[r][k] \in cache.index
            /\ k = Prompt[r] - 1 \/ Path[r][k + 1] \notin cache.index
            => k = LongestHit(cache, r)

(* What _refresh_freeable_path maintains: the freeable set and the number  *)
(* of children outside it.                                                 *)
FreeExact(C) ==
  C.built =>
    /\ C.free = FreeableIn(C)
    /\ \A b \in Blocks : C.kids[b] = Cardinality(Children(C, b) \ C.free)

(* The memoised views whose epoch has not passed.                          *)
ViewsCurrent(C) == \A k \in Kinds : C.view[k] # Stale => C.view[k] = Scan(C, k)

(* The freeable set and child counts maintained by _refresh_freeable_path, *)
(* and every capacity view that the epoch says is current, are what a      *)
(* fresh scan of the tree gives.                                           *)
ViewsExact == FreeExact(cache) /\ ViewsCurrent(cache)

(* A batch the scheduler admitted can be prepared: its hits are still      *)
(* indexed and promotable, reclaiming finds the slots it was promised, and *)
(* copies keep the order the tree needs.                                   *)
AdmittedFits == cache.err \notin {"slots", "chain", "gap", "order", "missing"}

(* With offload a device block whose whole path is unreferenced has a copy *)
(* on the host or one under way: otherwise its slot could never be taken   *)
(* back by demotion (_schedule_write_through_prefix_blocks).               *)
IdleIsBacked ==
  Offload /\ Running =>
    \A b \in cache.dev :
      (\A x \in Range(Up[b]) : cache.ref[x] = 0) => b \in cache.host \cup cache.out

(* Publishing the blocks of a retired forward does not fail on a parent    *)
(* that is only on the host (publish_pending_prefix_blocks, insert_block). *)
PublishSucceeds == cache.err # "parent"
=============================================================================
