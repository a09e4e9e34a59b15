------------------------ MODULE LLMEngineSlots_proof ------------------------
(***************************************************************************)
(* The slot pool of the cache manager and the slots promised to requests,  *)
(* in the synchronous engine, for every set of requests and every cache,   *)
(* batch and window size.                                                  *)
(*                                                                         *)
(* SlotInv follows the slots through a step: what the scan of schedule()   *)
(* may still give away and what the batch takes is free, so the run never  *)
(* takes more than the pool has.  WindowInv does the same for what is      *)
(* promised and not taken yet, the decode windows and the admitted prompts.*)
(* RunnableInv adds why a call that runs nothing never ends in silence: the*)
(* prompts that were started fit the cache together, so while nothing      *)
(* decodes a slot is left for one of them, or its refusal is recorded.     *)
(* SparingInv adds why that refusal needs a failed call, or a sole decode: *)
(* whoever was given a row claims its whole prompt until it ends, replays  *)
(* included, so a scan with no decode beside it has a prompt it will take. *)
(***************************************************************************)
EXTENDS LLMEngine_proof

USE DEF queueVars, seqVars, memVars, scanVars, retVars, engineVars, NoReplay, Statuses

\* A queue without duplicates does not hold the request that joins it.
LEMMA JoinsOnce ==
  ASSUME NEW S, NEW q \in Seq(S), NEW s \in S, IsInjective(Append(q, s))
  PROVE  s \notin Range(q) /\ Range(Append(q, s)) = Range(q) \cup {s}
<1>1. /\ DOMAIN Append(q, s) = DOMAIN q \cup {Len(q) + 1} /\ Len(q) + 1 \notin DOMAIN q
      /\ \A i \in DOMAIN q : Append(q, s)[i] = q[i]
      /\ Append(q, s)[Len(q) + 1] = s
  BY AppendPositions
<1>2. ASSUME NEW i \in DOMAIN q, q[i] = s PROVE FALSE
  BY <1>1, <1>2 DEF IsInjective
<1>3. s \notin Range(q)
  BY <1>2 DEF Range
<1>4. QED BY <1>3, AppendFacts

\* The smaller of two, and of three, integers.
LEMMA MinFacts ==
  /\ \A a, b \in Int : Min({a, b}) \in Int /\ Min({a, b}) <= a /\ Min({a, b}) <= b
                       /\ (Min({a, b}) = a \/ Min({a, b}) = b)
  /\ \A a, b, c \in Int : Min({a, b, c}) \in Int /\ Min({a, b, c}) <= a /\ Min({a, b, c}) <= b
                          /\ Min({a, b, c}) <= c /\ Min({a, b, c}) \in {a, b, c}
<1>1. ASSUME NEW a \in Int, NEW b \in Int
      PROVE  Min({a, b}) \in Int /\ Min({a, b}) <= a /\ Min({a, b}) <= b
             /\ (Min({a, b}) = a \/ Min({a, b}) = b)
  <2>1. \E x \in {a, b} : \A y \in {a, b} : x <= y
    OBVIOUS
  <2>2. Min({a, b}) \in {a, b} /\ \A y \in {a, b} : Min({a, b}) <= y
    BY <2>1 DEF Min
  <2>3. QED BY <2>2
<1>2. ASSUME NEW a \in Int, NEW b \in Int, NEW c \in Int
      PROVE  Min({a, b, c}) \in Int /\ Min({a, b, c}) <= a /\ Min({a, b, c}) <= b
             /\ Min({a, b, c}) <= c /\ Min({a, b, c}) \in {a, b, c}
  <2>1. \E x \in {a, b, c} : \A y \in {a, b, c} : x <= y
    OBVIOUS
  <2>2. Min({a, b, c}) \in {a, b, c} /\ \A y \in {a, b, c} : Min({a, b, c}) <= y
    BY <2>1 DEF Min
  <2>3. QED BY <2>2
<1>3. QED BY <1>1, <1>2

\* A nonempty bounded set of integers has a greatest element.
LEMMA MaxFacts ==
  ASSUME NEW k \in Int, NEW S \in SUBSET (1..k), S # {}
  PROVE  Max(S) \in S
<1> DEFINE T == {n \in Nat : \E m \in S : n = k - m}
<1>1. T # {}
  <2>1. PICK m \in S : TRUE
    OBVIOUS
  <2>2. k - m \in Nat
    OBVIOUS
  <2>3. QED BY <2>2
<1>2. PICK n \in T : \A m \in T : n <= m
  BY <1>1, LeastNat
<1>3. PICK x \in S : n = k - x
  BY <1>2
<1>4. ASSUME NEW y \in S PROVE x >= y
  <2>1. k - y \in T
    OBVIOUS
  <2>2. k - x <= k - y /\ x \in Int /\ y \in Int
    BY <1>2, <1>3, <2>1
  <2>3. QED BY <2>2
<1>5. QED BY <1>4 DEF Max
-----------------------------------------------------------------------------
(* The pool *)

\* Requests are finite, and each weighs what it holds.
LEMMA PoolFacts ==
  ASSUME TypeOK, PoolInv
  PROVE  /\ IsFiniteSet(Seqs) /\ Weights(kv, Seqs) /\ kv \in [Seqs -> Nat]
         /\ SumFunctionOnSet(kv, Seqs) \in Int /\ freeSlots \in Nat /\ NumSlots \in Nat
         /\ freeSlots + SumFunctionOnSet(kv, Seqs) = NumSlots
<1>1. IsFiniteSet(Seqs) /\ kv \in [Seqs -> Nat] /\ NumSlots \in Nat
  BY SchedulerAssumption DEF TypeOK, RequestTypes
<1>2. Weights(kv, Seqs)
  BY <1>1 DEF Weights
<1>3. SumFunctionOnSet(kv, Seqs) \in Int
  BY <1>1, <1>2, SumFacts
<1>4. QED BY <1>1, <1>2, <1>3 DEF PoolInv

\* free_seq puts the slots of a row back, and nothing else.
LEMMA FreePool ==
  ASSUME TypeOK, PoolInv, NEW s \in Seqs, FreeSeq(s)
  PROVE  PoolInv'
<1>1. /\ IsFiniteSet(Seqs) /\ Weights(kv, Seqs) /\ kv \in [Seqs -> Nat] /\ freeSlots \in Nat
      /\ SumFunctionOnSet(kv, Seqs) \in Int /\ NumSlots \in Nat
      /\ freeSlots + SumFunctionOnSet(kv, Seqs) = NumSlots
  BY PoolFacts
<1>2. PICK h : h = [kv EXCEPT ![s] = 0]
  OBVIOUS
<1>3. h[s] = 0 /\ \A x \in Seqs : x # s => h[x] = kv[x]
  BY <1>1, <1>2
<1>4. kv' = h /\ freeSlots' = freeSlots + kv[s] /\ resEnd' = [resEnd EXCEPT ![s] = 0]
  BY <1>2 DEF FreeSeq
<1>5. SumFunctionOnSet(h, Seqs) = SumFunctionOnSet(kv, Seqs) - kv[s] + h[s]
  BY <1>1, <1>3, SumChange
<1>6. kv[s] \in Nat
  BY <1>1
<1>7. freeSlots' + SumFunctionOnSet(h, Seqs) = NumSlots /\ freeSlots' \in Nat
  BY <1>1, <1>3, <1>4, <1>5, <1>6
<1>8. resEnd' \in [Seqs -> Nat]
  BY <1>4 DEF PoolInv
<1>9. QED BY <1>4, <1>7, <1>8 DEF PoolInv

\* Freeing, failing to free, or half freeing a request keeps the pool whole.
LEMMA ReleasePool ==
  ASSUME TypeOK, PoolInv, NEW s \in Seqs, ReleaseOk(s) \/ ReleaseFails(s)
  PROVE  PoolInv'
<1>1. FreeSeq(s) \/ UNCHANGED memVars
  BY DEF ReleaseOk, ReleaseFails
<1>2. CASE FreeSeq(s)
  BY <1>2, FreePool
<1>3. CASE UNCHANGED memVars
  BY <1>3 DEF PoolInv
<1>4. QED BY <1>1, <1>2, <1>3

\* A batch whose cost is covered by free slots moves them from the pool to rows.
LEMMA AllocatePool ==
  ASSUME TypeOK, PoolInv, NEW B \in SUBSET Seqs, Allocate(B),
         SumFunctionOnSet([s \in Seqs |-> StepSlots(s)], B) <= freeSlots
  PROVE  PoolInv'
<1>1. /\ IsFiniteSet(Seqs) /\ Weights(kv, Seqs) /\ kv \in [Seqs -> Nat] /\ freeSlots \in Nat
      /\ SumFunctionOnSet(kv, Seqs) \in Int /\ NumSlots \in Nat
      /\ freeSlots + SumFunctionOnSet(kv, Seqs) = NumSlots
  BY PoolFacts
<1>2. PICK g : g = [s \in Seqs |-> StepSlots(s)]
  OBVIOUS
<1>3. \A s \in Seqs : StepSlots(s) \in Nat
  BY DEF StepSlots, TypeOK, RequestTypes
<1>4. Weights(g, B) /\ IsFiniteSet(B) /\ \A s \in Seqs : g[s] = StepSlots(s)
  BY <1>1, <1>2, <1>3, FS_Subset DEF Weights
<1>5. PICK h : h = [s \in Seqs |-> IF s \in B THEN kv[s] + StepSlots(s) ELSE kv[s]]
  OBVIOUS
<1>6. (\A x \in B : h[x] = kv[x] + g[x]) /\ (\A x \in Seqs \ B : h[x] = kv[x])
  BY <1>4, <1>5
<1>7. SumFunctionOnSet(h, Seqs) = SumFunctionOnSet(kv, Seqs) + SumFunctionOnSet(g, B)
  BY <1>1, <1>4, <1>6, SumPlus
<1>8. SumFunctionOnSet(g, B) \in Int /\ SumFunctionOnSet(g, B) <= freeSlots
  BY <1>2, <1>4, SumFacts
<1>9. kv' = h /\ freeSlots' = freeSlots - SumFunctionOnSet(g, B) /\ resEnd' = resEnd
  BY <1>2, <1>5 DEF Allocate
<1>10. freeSlots' \in Nat /\ freeSlots' + SumFunctionOnSet(h, Seqs) = NumSlots
  BY <1>1, <1>7, <1>8, <1>9
<1>11. QED BY <1>9, <1>10 DEF PoolInv
-----------------------------------------------------------------------------
(* The batch that schedule() chooses *)

\* The cost of a batch is a sum of naturals.
LEMMA CostFacts ==
  ASSUME TypeOK, NEW B \in SUBSET Seqs
  PROVE  /\ IsFiniteSet(B) /\ Weights(Cost, B) /\ SumFunctionOnSet(Cost, B) \in Nat
         /\ B = {} => SumFunctionOnSet(Cost, B) = 0
<1>1. IsFiniteSet(B)
  BY SchedulerAssumption, FS_Subset
<1>2. \A s \in B : Cost[s] \in Nat
  BY DEF Cost, TypeOK, RequestTypes
<1>3. Weights(Cost, B)
  BY <1>2 DEF Weights
<1>4. SumFunctionOnSet(Cost, B) \in Nat
  BY <1>1, <1>2, SumNat
<1>5. B = {} => SumFunctionOnSet(Cost, B) = 0
  BY <1>1, <1>3, SumFacts
<1>6. QED BY <1>1, <1>3, <1>4, <1>5

\* Outside the scans and the return of schedule() only the pool matters.
LEMMA OutsideScans ==
  ASSUME PoolInv', pc' \notin {"affinity", "prefill", "decode", "returned"}
  PROVE  SlotInv'
BY DEF SlotInv, BatchInv

\* An empty batch costs nothing.
LEMMA EmptyBatch ==
  ASSUME TypeOK, scheduled' = <<>>, freeSlots' \in Nat, PoolInv',
         pc' \in {"affinity", "prefill", "decode"} => free' \in Nat /\ free' <= freeSlots'
  PROVE  SlotInv'
<1>1. Range(scheduled') = {}
  BY EmptyFacts
<1>2. PICK c : c = Cost'
  OBVIOUS
<1>3. Weights(c, {}) /\ IsFiniteSet({})
  BY FS_EmptySet DEF Weights
<1>4. SumFunctionOnSet(c, {}) = 0
  BY <1>3, SumFacts
<1>5. BatchInv'
  BY <1>1, <1>2, <1>4 DEF BatchInv
<1>6. QED BY <1>5 DEF SlotInv

\* The batch stays, and so does what its requests cost.
LEMMA SameBatch ==
  ASSUME TypeOK, SlotInv, UNCHANGED <<kv, freeSlots, resEnd>>, scheduled \in Seq(Seqs),
         Range(scheduled') = Range(scheduled), Cost' = Cost,
         pc \in {"affinity", "prefill", "decode"},
         \/ pc' \in {"affinity", "prefill", "decode"} /\ free' = free
         \/ pc' = "returned"
  PROVE  SlotInv'
<1>1. PoolInv'
  BY DEF SlotInv, PoolInv
<1>2. Range(scheduled) \subseteq Seqs
  BY RangeFacts
<1>3. SumFunctionOnSet(Cost, Range(scheduled)) \in Nat
  BY <1>2, CostFacts
<1>4. SumFunctionOnSet(Cost', Range(scheduled')) = SumFunctionOnSet(Cost, Range(scheduled))
  OBVIOUS
<1>5. free \in Nat /\ free + SumFunctionOnSet(Cost, Range(scheduled)) <= freeSlots /\ freeSlots \in Nat
  BY DEF SlotInv, BatchInv, PoolInv
<1>6. SumFunctionOnSet(Cost, Range(scheduled)) <= freeSlots
  BY <1>3, <1>5
<1>7. QED BY <1>1, <1>4, <1>5, <1>6 DEF SlotInv, BatchInv

\* One more request joins the batch, for no more than the scan may give.
LEMMA JoinBatch ==
  ASSUME TypeOK, SlotInv, UNCHANGED <<kv, freeSlots, resEnd, pc>>, scheduled \in Seq(Seqs),
         pc \in {"affinity", "prefill", "decode"}, NEW s \in Seqs, NEW n \in Nat,
         scheduled' = Append(scheduled, s), IsInjective(scheduled'),
         Cost'[s] = n, \A x \in Range(scheduled) : Cost'[x] = Cost[x],
         n <= free, free' = free - n
  PROVE  SlotInv'
<1>1. PoolInv'
  BY DEF SlotInv, PoolInv
<1>2. Range(scheduled) \in SUBSET Seqs
  BY RangeFacts
<1>3. s \notin Range(scheduled) /\ Range(scheduled') = Range(scheduled) \cup {s}
  BY JoinsOnce
<1>4. PICK c, B : c = Cost' /\ B = Range(scheduled)
  OBVIOUS
<1>5. IsFiniteSet(B) /\ Weights(Cost, B) /\ SumFunctionOnSet(Cost, B) \in Nat
  BY <1>2, <1>4, CostFacts
<1>6. \A x \in B : c[x] = Cost[x]
  BY <1>4
<1>7. SumFunctionOnSet(c, B) = SumFunctionOnSet(Cost, B)
  BY <1>5, <1>6, SumSame
<1>8. Weights(c, B) /\ c[s] = n
  BY <1>4, <1>5, <1>6 DEF Weights
<1>9. SumFunctionOnSet(c, B \cup {s}) = SumFunctionOnSet(c, B) + c[s]
  BY <1>3, <1>4, <1>5, <1>8, SumAdd
<1>10. free \in Nat /\ free + SumFunctionOnSet(Cost, B) <= freeSlots /\ freeSlots \in Nat
  BY <1>4 DEF SlotInv, BatchInv, PoolInv
<1>11. free' \in Nat /\ free' + SumFunctionOnSet(c, B \cup {s}) <= freeSlots
  BY <1>5, <1>7, <1>8, <1>9, <1>10
<1>12. free' \in Nat /\ free' + SumFunctionOnSet(Cost', Range(scheduled')) <= freeSlots'
  BY <1>3, <1>4, <1>11
<1>13. BatchInv'
  BY <1>12 DEF BatchInv
<1>14. QED BY <1>1, <1>13 DEF SlotInv

\* A chunk is no larger than what the prefill scan may still give.
LEMMA ChunkFits ==
  ASSUME TypeOK, free \in Nat, NEW s \in Seqs, HasChunk(s)
  PROVE  PrefillTokens(s) \in Nat /\ PrefillTokens(s) <= free
<1>1. Remaining(s) \in Int /\ MinFinal \in Nat /\ ChunkSize \in Int
  BY SchedulerAssumption DEF Remaining, TypeOK, RequestTypes
<1>2. PICK r : r = Remaining(s)
  OBVIOUS
<1>3. MaxBatchTokens - batchTokens \in Int
  BY SchedulerAssumption DEF TypeOK, CallTypes
<1>4. PICK a : a = Min({MaxBatchTokens - batchTokens, free})
  OBVIOUS
<1>5. a \in Int /\ a <= free
  <2>1. PICK m, f : m = MaxBatchTokens - batchTokens /\ f = free
    OBVIOUS
  <2>2. m \in Int /\ f \in Int
    BY <1>3, <2>1
  <2>3. Min({m, f}) \in Int /\ Min({m, f}) <= f
    BY <2>2, MinFacts
  <2>4. QED BY <1>4, <2>1, <2>3
<1>6. PICK p : p = ProposedTokens(s)
  OBVIOUS
<1>7. p = IF Mode[s] = "full" THEN IF r <= a THEN r ELSE 0 ELSE Min({r, ChunkSize, a})
  BY <1>2, <1>4, <1>6 DEF ProposedTokens
<1>8. p \in Int /\ (p <= a \/ p = 0)
  <2>1. Min({r, ChunkSize, a}) \in Int /\ Min({r, ChunkSize, a}) <= a
    BY <1>1, <1>2, <1>5, MinFacts
  <2>2. QED BY <1>1, <1>2, <1>5, <1>7, <2>1
<1>9. PrefillTokens(s) = IF MinFinal = 0 \/ r - p <= 0 \/ r - p >= MinFinal
                         THEN p ELSE Positive(r - MinFinal)
  BY <1>2, <1>6 DEF PrefillTokens
<1>10. PrefillTokens(s) \in 1..r
  BY <1>2 DEF HasChunk
<1>11. PrefillTokens(s) <= p /\ PrefillTokens(s) \in Int /\ PrefillTokens(s) >= 1
  BY <1>1, <1>2, <1>8, <1>9, <1>10 DEF Positive
<1>12. QED BY <1>5, <1>8, <1>11

\* What is unused of the windows is a sum of naturals.
LEMMA OutstandingNat == ASSUME TypeOK, PoolInv PROVE Outstanding \in Nat
<1>1. \A s \in Seqs : Unused[s] \in Nat
  <2>1. SUFFICES ASSUME NEW s \in Seqs PROVE Unused[s] \in Nat
    OBVIOUS
  <2>2. resEnd[s] - Submitted(s) \in Int
    BY DEF TypeOK, RequestTypes, PoolInv, Submitted
  <2>3. QED BY <2>2 DEF Unused, Positive
<1>2. QED BY <1>1, SchedulerAssumption, SumNat DEF Outstanding

\* Acquisition changes the end of a window, to a natural.
LEMMA AcquireSlots ==
  ASSUME IInv, SlotInv, AcquireWindow
  PROVE  SlotInv'
<1>1. Parts /\ PoolInv /\ pc = "reserve" /\ scan \in 1..Len(decoding)
  BY PartsOfInv DEF AcquireWindow, Parts, TypeOK, CallTypes, SlotInv
<1>2. PICK s : s = decoding[scan]
  OBVIOUS
<1>3. s \in Seqs
  BY <1>1, <1>2 DEF Parts
<1>4. UNCHANGED <<kv, freeSlots, pc>>
  BY DEF AcquireWindow
<1>5. CASE resEnd' = resEnd
  <2>1. PoolInv'
    BY <1>1, <1>4, <1>5 DEF PoolInv
  <2>2. QED BY <1>1, <1>4, <2>1, OutsideScans
<1>6. CASE WindowChoices(s) # {} /\ resEnd' = [resEnd EXCEPT ![s] = Submitted(s) + Max(WindowChoices(s))]
  <2>1. Submitted(s) \in Nat /\ MaxTokens[s] \in Nat /\ Window \in Nat
    <3>1. tokens \in [Seqs -> Nat] /\ inflight \in [Seqs -> Nat]
      BY <1>1 DEF Parts, TypeOK, RequestTypes
    <3>2. MaxTokens[s] \in Nat /\ Window \in Nat
      BY <1>3, SchedulerAssumption
    <3>3. QED BY <1>3, <3>1, <3>2 DEF Submitted
  <2>2. PICK k : k = Min({Window, MaxTokens[s] - Submitted(s)})
    OBVIOUS
  <2>3. k \in Int
    <3>1. PICK w, m : w = Window /\ m = MaxTokens[s] - Submitted(s)
      OBVIOUS
    <3>2. w \in Int /\ m \in Int
      BY <2>1, <3>1
    <3>3. Min({w, m}) \in Int
      BY <3>2, MinFacts
    <3>4. QED BY <2>2, <3>1, <3>3
  <2>4. PICK C : C = WindowChoices(s)
    OBVIOUS
  <2>5. C \in SUBSET (1..k)
    BY <2>2, <2>4 DEF WindowChoices
  <2>6. Max(C) \in C
    BY <1>6, <2>3, <2>4, <2>5, MaxFacts
  <2>7. Submitted(s) + Max(WindowChoices(s)) \in Nat
    BY <2>1, <2>3, <2>4, <2>5, <2>6
  <2>8. resEnd' \in [Seqs -> Nat]
    BY <1>1, <1>3, <1>6, <2>7 DEF PoolInv
  <2>9. PoolInv'
    BY <1>1, <1>4, <2>8 DEF PoolInv
  <2>10. QED BY <1>1, <1>4, <2>9, OutsideScans
<1>7. QED
  BY <1>2, <1>5, <1>6 DEF AcquireWindow

\* A preemption leaves the call with no batch.
LEMMA PreemptSlots ==
  ASSUME IInv, SlotInv, NEW v, NEW others, PreemptDecodeVictim(v, others)
  PROVE  SlotInv'
<1>1. UNCHANGED <<kv, freeSlots, resEnd>> /\ scheduled' = <<>> /\ pc' \in {"drain", "raised", "returned"}
  BY DEF PreemptDecodeVictim, DrainRequired, RejectPreemption, StartReplay, Raise
<1>2. PoolInv' /\ freeSlots' \in Nat
  BY <1>1 DEF SlotInv, PoolInv
<1>3. QED BY <1>1, <1>2, EmptyBatch DEF IInv

\* Every scan starts with no batch and with at most the free slots to give.
LEMMA ScanStarts ==
  ASSUME IInv, SlotInv, StartPrefill \/ AffinityPrefill \/ StartAffinity \/ StartDecode
  PROVE  SlotInv'
<1>1. TypeOK /\ CallInv /\ PoolInv
  BY DEF IInv, SlotInv
<1>2. /\ UNCHANGED <<kv, freeSlots, resEnd>> /\ scheduled' = <<>>
      /\ free' = freeSlots \/ free' = Positive(freeSlots - Outstanding)
  <2>1. CASE StartPrefill \/ AffinityPrefill
    BY <2>1 DEF StartPrefill, AffinityPrefill, OpenPrefill
  <2>2. CASE StartAffinity \/ StartDecode
    BY <1>1, <2>2 DEF StartAffinity, StartDecode, Acquired, PrefillOver, CallInv
  <2>3. QED BY <2>1, <2>2
<1>3. PoolInv' /\ freeSlots' \in Nat /\ freeSlots \in Nat
  BY <1>1, <1>2 DEF PoolInv
<1>4. free' \in Nat /\ free' <= freeSlots'
  <2>1. Outstanding \in Nat
    BY <1>1, OutstandingNat
  <2>2. QED BY <1>2, <1>3, <2>1 DEF Positive
<1>5. QED BY <1>1, <1>2, <1>3, <1>4, EmptyBatch

\* These steps of the scans leave the batch alone, or return it.
LEMMA ScanPasses ==
  ASSUME IInv, SlotInv,
         \/ PrefillSkip \/ PrefillDefer \/ NextBucket \/ DecodeRotate \/ DecodeBlock
         \/ AffinityDecode \/ PrefillReturn \/ DecodeReturn
  PROVE  SlotInv'
<1>1. Parts
  BY PartsOfInv
<1>2. CASE PrefillSkip \/ PrefillDefer \/ NextBucket \/ DecodeRotate \/ DecodeBlock
  <2>1. /\ UNCHANGED <<kv, freeSlots, resEnd, scheduled, chunk, pc, isPrefill, free>>
        /\ pc \in {"prefill", "decode"}
    BY <1>2 DEF PrefillSkip, PrefillDefer, NextBucket, DecodeRotate, DecodeBlock, InBucket, InDecode
  <2>2. Cost' = Cost
    BY <2>1 DEF Cost
  <2>3. QED BY <1>1, <2>1, <2>2, SameBatch DEF Parts
<1>3. CASE AffinityDecode \/ PrefillReturn \/ DecodeReturn
  <2>1. /\ UNCHANGED <<kv, freeSlots, resEnd, scheduled, chunk>>
        /\ pc \in {"affinity", "prefill", "decode"} /\ pc' = "returned" /\ isPrefill' = (pc = "prefill")
    BY <1>3 DEF AffinityDecode, PrefillReturn, DecodeReturn, Return, PrefillOver, DecodeOver
  <2>2. Cost' = Cost
    BY <2>1 DEF Cost
  <2>3. QED BY <1>1, <2>1, <2>2, SameBatch DEF Parts
<1>4. QED BY <1>2, <1>3

\* A decode is taken for one slot the scan still has.
LEMMA TakeDecode ==
  ASSUME IInv, IInv', SlotInv, AffinityScan \/ DecodeTake
  PROVE  SlotInv'
<1>1. Parts /\ IsInjective(scheduled')
  BY PartsOfInv DEF IInv, OwnedOnce
<1>2. free \in Nat /\ pc \in {"affinity", "decode"}
  BY DEF AffinityScan, DecodeTake, InDecode, SlotInv, BatchInv
<1>3. UNCHANGED <<kv, freeSlots, resEnd, chunk, pc, isPrefill>>
  BY DEF AffinityScan, DecodeTake
<1>4. Cost' = Cost /\ \A s \in Seqs : Cost[s] = 1
  BY <1>2, <1>3 DEF Cost
<1>5. CASE UNCHANGED <<scheduled, free>>
  BY <1>1, <1>2, <1>3, <1>4, <1>5, SameBatch DEF Parts
<1>6. ASSUME NEW s \in Seqs, scheduled' = Append(scheduled, s), free' = free - 1, free >= 1
      PROVE  SlotInv'
  <2>1. 1 \in Nat /\ Cost'[s] = 1 /\ \A x \in Range(scheduled) : Cost'[x] = Cost[x]
    BY <1>4
  <2>2. QED BY <1>1, <1>2, <1>3, <1>6, <2>1, JoinBatch DEF Parts
<1>7. CASE DecodeTake
  <2>1. /\ scheduled' = Append(scheduled, Head(decoding)) /\ free' = free - 1 /\ free >= 1
        /\ budget > 0 /\ pc = "decode"
    BY <1>7 DEF DecodeTake, InDecode
  <2>2. decoding # <<>>
    BY <1>1, <2>1 DEF Parts, CallInv, TypeOK, CallTypes
  <2>3. Head(decoding) \in Seqs
    BY <1>1, <2>2, HeadTailFacts DEF Parts
  <2>4. QED BY <1>6, <2>1, <2>3
<1>8. CASE AffinityScan
  <2>1. PICK s : s = decoding[scan]
    OBVIOUS
  <2>2. scan \in DOMAIN decoding
    BY <1>1, <1>8 DEF AffinityScan, AffinityScanned, Parts, TypeOK, CallTypes
  <2>3. s \in Seqs
    BY <1>1, <2>1, <2>2 DEF Parts
  <2>4. CASE Submitted(s) < MaxTokens[s]
    <3>1. scheduled' = Append(scheduled, s) /\ free' = free - 1
      BY <1>8, <2>1, <2>4 DEF AffinityScan
    <3>2. free # 0
      BY <1>1, <1>8, <2>1, <2>2, <2>4 DEF AffinityScan, AffinityScanned, Parts
    <3>3. QED BY <1>2, <1>6, <2>3, <3>1, <3>2
  <2>5. CASE ~(Submitted(s) < MaxTokens[s])
    BY <1>5, <1>8, <2>1, <2>5 DEF AffinityScan
  <2>6. QED BY <2>4, <2>5
<1>9. QED BY <1>7, <1>8

\* A chunk is taken out of what the scan still has.
LEMMA TakePrefill ==
  ASSUME IInv, IInv', SlotInv, PrefillTake
  PROVE  SlotInv'
<1>1. Parts /\ IsInjective(scheduled') /\ TypeOK
  BY PartsOfInv DEF IInv, OwnedOnce
<1>2. pc = "prefill" /\ waiting # <<>>
  BY DEF PrefillTake, InBucket, CanContinuePrefillBatch
<1>3. free \in Nat
  BY <1>2 DEF SlotInv, BatchInv
<1>4. PICK s, n : s = Head(waiting) /\ n = PrefillTokens(s)
  OBVIOUS
<1>5. s \in Seqs
  BY <1>1, <1>2, <1>4, HeadTailFacts DEF Parts
<1>6. /\ HasChunk(s) /\ chunk' = [chunk EXCEPT ![s] = n] /\ free' = Positive(free - n)
      /\ scheduled' = Append(scheduled, s) /\ UNCHANGED <<kv, freeSlots, resEnd, pc>>
  BY <1>4 DEF PrefillTake
<1>7. n \in Nat /\ n <= free
  BY <1>1, <1>3, <1>4, <1>5, <1>6, ChunkFits
<1>8. free' = free - n
  BY <1>3, <1>6, <1>7 DEF Positive
<1>9. chunk \in [Seqs -> Nat]
  BY <1>1 DEF TypeOK, RequestTypes
<1>10. \A x \in Seqs : Cost'[x] = IF x = s THEN n ELSE Cost[x]
  BY <1>2, <1>5, <1>6, <1>9 DEF Cost
<1>11. s \notin Range(scheduled)
  BY <1>1, <1>5, <1>6, JoinsOnce DEF Parts
<1>12. Cost'[s] = n /\ \A x \in Range(scheduled) : Cost'[x] = Cost[x]
  BY <1>1, <1>5, <1>10, <1>11 DEF Parts
<1>13. QED BY <1>1, <1>2, <1>5, <1>6, <1>7, <1>8, <1>12, JoinBatch DEF Parts

\* Every step of schedule() keeps its promises within the free slots.
LEMMA SchedulingSlots == ASSUME IInv, SlotInv, Scheduling PROVE SlotInv'
<1>1. ScheduleStep /\ IInv'
  BY SchedulingInv DEF Scheduling
<1>2. CASE AcquireWindow
  BY <1>2, AcquireSlots
<1>3. CASE PreemptUnreserved \/ PreemptSoleUnreserved \/ DecodePreempt
  BY <1>3, PreemptSlots DEF PreemptUnreserved, PreemptSoleUnreserved, DecodePreempt
<1>4. CASE StartPrefill \/ AffinityPrefill \/ StartAffinity \/ StartDecode
  BY <1>4, ScanStarts
<1>5. CASE \/ PrefillSkip \/ PrefillDefer \/ NextBucket \/ DecodeRotate \/ DecodeBlock
           \/ AffinityDecode \/ PrefillReturn \/ DecodeReturn
  BY <1>5, ScanPasses
<1>6. CASE AffinityScan \/ DecodeTake
  BY <1>1, <1>6, TakeDecode
<1>7. CASE PrefillTake
  BY <1>1, <1>7, TakePrefill
<1>8. CASE NothingToRun
  <2>1. UNCHANGED <<kv, freeSlots, resEnd>> /\ scheduled' = <<>> /\ pc' \in {"drain", "raised", "returned"}
    BY <1>8 DEF NothingToRun, Raise
  <2>2. PoolInv' /\ freeSlots' \in Nat
    BY <2>1 DEF SlotInv, PoolInv
  <2>3. QED BY <2>1, <2>2, EmptyBatch DEF IInv
<1>9. QED
  BY <1>1, <1>2, <1>3, <1>4, <1>5, <1>6, <1>7, <1>8 DEF ScheduleStep
-----------------------------------------------------------------------------
(* The rest of a step *)

\* The run takes what the batch costs, which is free.
LEMMA RunSlots ==
  ASSUME IInv, SlotInv, pc = "returned", NEW B \in SUBSET Range(scheduled), Allocate(B)
  PROVE  PoolInv'
<1>1. Parts /\ TypeOK /\ PoolInv
  BY PartsOfInv DEF IInv, SlotInv
<1>2. PICK A, g : A = Range(scheduled) /\ g = [s \in Seqs |-> StepSlots(s)]
  OBVIOUS
<1>3. A \in SUBSET Seqs /\ B \in SUBSET A /\ B \in SUBSET Seqs
  BY <1>1, <1>2 DEF Parts
<1>4. \A s \in Seqs : g[s] = Cost[s] /\ Cost[s] \in Nat
  BY <1>1, <1>2 DEF StepSlots, Cost, TypeOK, RequestTypes
<1>5. IsFiniteSet(A) /\ Weights(Cost, A) /\ SumFunctionOnSet(Cost, A) \in Nat
  BY <1>1, <1>3, CostFacts
<1>6. Weights(g, B) /\ (\A x \in B : g[x] <= Cost[x]) /\ (\A x \in A \ B : 0 <= Cost[x])
  BY <1>3, <1>4 DEF Weights
<1>7. SumFunctionOnSet(g, B) <= SumFunctionOnSet(Cost, A)
  BY <1>3, <1>5, <1>6, SumBelow
<1>8. SumFunctionOnSet(Cost, A) <= freeSlots /\ freeSlots \in Nat
  BY <1>2 DEF SlotInv, BatchInv, PoolInv
<1>9. SumFunctionOnSet(g, B) \in Int
  <2>1. IsFiniteSet(B)
    BY <1>3, <1>5, FS_Subset
  <2>2. QED BY <1>6, <2>1, SumFacts
<1>10. SumFunctionOnSet(g, B) <= freeSlots
  BY <1>5, <1>7, <1>8, <1>9
<1>11. QED BY <1>1, <1>2, <1>3, <1>10, AllocatePool

\* A failing run took slots for a prefix of the batch.
LEMMA PartSlots ==
  ASSUME IInv, SlotInv, pc = "returned", PartlyAllocated
  PROVE  PoolInv'
<1>1. Parts
  BY PartsOfInv
<1>2. PICK n \in 0..Len(scheduled) : Allocate(Range(SubSeq(scheduled, 1, n)))
  BY DEF PartlyAllocated
<1>3. Range(SubSeq(scheduled, 1, n)) \in SUBSET Range(scheduled)
  <2>1. scheduled \in Seq(Seqs)
    BY <1>1 DEF Parts
  <2>2. /\ DOMAIN SubSeq(scheduled, 1, n) = 1..n /\ 1..n \subseteq DOMAIN scheduled
        /\ \A i \in 1..n : SubSeq(scheduled, 1, n)[i] = scheduled[i]
    BY <2>1
  <2>3. QED BY <2>2 DEF Range
<1>4. QED BY <1>2, <1>3, RunSlots

\* Everything around schedule(): admission, the run, postprocessing, releases.
LEMMA StepSlotsInv ==
  ASSUME NEW X, MemInv(X), SlotInv,
         \/ StepSync \/ StepRefused \/ SyncStep
         \/ \E s \in Seqs : AdmitRequest(s) \/ AbortRequest(s)
  PROVE  SlotInv'
<1>1. IInv /\ TypeOK /\ Parts /\ PoolInv /\ DebtInv
  BY PartsOfInv DEF MemInv, IInv, SlotInv, KVInv
<1>2. ASSUME UNCHANGED <<kv, freeSlots, resEnd>> PROVE PoolInv'
  BY <1>1, <1>2 DEF PoolInv
<1>3. ASSUME NEW s \in Seqs, AdmitRequest(s) \/ AbortRequest(s) PROVE SlotInv'
  <2>1. PoolInv'
    <3>1. CASE UNCHANGED memVars
      BY <1>2, <3>1
    <3>2. CASE ReleaseOk(s) \/ ReleaseFails(s)
      BY <1>1, <3>2, ReleasePool
    <3>3. QED BY <1>3, <3>1, <3>2 DEF AdmitRequest, AbortRequest
  <2>2. pc' \in {"idle", "raised"}
    BY <1>3 DEF AdmitRequest, AbortRequest
  <2>3. QED BY <2>1, <2>2, OutsideScans
<1>4. CASE StepSync \/ StepRefused \/ HookFault \/ ReclaimDone \/ StartRelease \/ StepDone
           \/ PostPartialPrefill \/ PostLastPrefill \/ PostDecode
  <2>1. /\ UNCHANGED <<kv, freeSlots, resEnd>>
        /\ pc' \in {"reserve", "raised", "release", "idle", "postprocess"}
    BY <1>4 DEF StepSync, Schedule, StepRefused, Raise, HookFault, PrefillHookFails, ReclaimDone,
                StartRelease, StepDone, PostPartialPrefill, PostLastPrefill, PostDecode, PostTail,
                NextPost
  <2>2. QED BY <1>2, <2>1, OutsideScans
<1>5. CASE StepWithoutBatch
  <2>1. PoolInv'
    <3>1. CASE preempted # None
      <4>1. preempted \in Seqs
        BY <1>1, <3>1 DEF TypeOK, CallTypes
      <4>2. ReleaseOk(preempted) \/ ReleaseFails(preempted)
        BY <1>5, <3>1 DEF StepWithoutBatch
      <4>3. QED BY <1>1, <4>1, <4>2, ReleasePool
    <3>2. CASE preempted = None
      BY <1>2, <1>5, <3>2 DEF StepWithoutBatch
    <3>3. QED BY <3>1, <3>2
  <2>2. pc' \in {"idle", "raised"}
    BY <1>5 DEF StepWithoutBatch, Raise
  <2>3. QED BY <2>1, <2>2, OutsideScans
<1>6. CASE RunModel
  <2>1. pc = "returned" /\ Allocate(Range(scheduled)) /\ pc' = "postprocess"
    BY <1>6 DEF RunModel
  <2>2. PoolInv'
    BY <1>1, <2>1, RunSlots
  <2>3. QED BY <2>1, <2>2, OutsideScans
<1>7. CASE RunModelFails
  <2>1. pc = "returned" /\ PartlyAllocated /\ pc' = "reclaim"
    BY <1>7 DEF RunModelFails
  <2>2. PoolInv'
    BY <1>1, <2>1, PartSlots
  <2>3. QED BY <2>1, <2>2, OutsideScans
<1>8. CASE ReclaimOne
  <2>1. /\ scheduled # <<>> /\ pc' = "reclaim"
        /\ ReleaseOk(Head(scheduled)) \/ ReleaseFails(Head(scheduled))
    BY <1>8 DEF ReclaimOne
  <2>2. Head(scheduled) \in Seqs
    BY <1>1, <2>1, HeadTailFacts DEF Parts
  <2>3. PoolInv'
    BY <1>1, <2>1, <2>2, ReleasePool
  <2>4. QED BY <2>1, <2>3, OutsideScans
<1>9. CASE ReleaseFinished
  <2>1. /\ finished # <<>> /\ pc' \in {"release", "raised"}
        /\ ReleaseOk(Head(finished)) \/ ReleaseFails(Head(finished))
    BY <1>9 DEF ReleaseFinished, Raise
  <2>2. Head(finished) \in Seqs
    BY <1>1, <2>1, HeadTailFacts DEF Parts
  <2>3. PoolInv'
    BY <1>1, <2>1, <2>2, ReleasePool
  <2>4. QED BY <2>1, <2>3, OutsideScans
<1>10. QED
  BY <1>3, <1>4, <1>5, <1>6, <1>7, <1>8, <1>9 DEF SyncStep

\* Every step of the synchronous engine keeps the pool whole.
LEMMA NextSlots == ASSUME MemInv({}), SlotInv, [Next]_vars PROVE SlotInv'
<1>1. CASE Scheduling
  BY <1>1, SchedulingSlots DEF MemInv
<1>2. CASE Next /\ ~Scheduling
  BY <1>2, StepSlotsInv DEF Next, Driver
<1>3. CASE UNCHANGED vars
  BY <1>3 DEF vars, schedVars, SlotInv, PoolInv, BatchInv, Cost
<1>4. QED BY <1>1, <1>2, <1>3

\* The pool starts full.
LEMMA InitSlots == Init => SlotInv
<1>1. SUFFICES ASSUME Init PROVE SlotInv
  OBVIOUS
<1>2. IsFiniteSet(Seqs) /\ NumSlots \in Nat
  BY SchedulerAssumption
<1>3. kv = [s \in Seqs |-> 0] /\ freeSlots = NumSlots /\ resEnd = [s \in Seqs |-> 0] /\ pc = "idle"
  BY <1>1 DEF Init
<1>4. SumFunctionOnSet(kv, Seqs) = 0
  <2>1. {} \in SUBSET Seqs /\ Weights(kv, {}) /\ IsFiniteSet({})
    BY FS_EmptySet DEF Weights
  <2>2. (\A x \in {} : kv[x] = kv[x]) /\ (\A x \in Seqs \ {} : kv[x] = 0)
    BY <1>3
  <2>3. SumFunctionOnSet(kv, Seqs) = SumFunctionOnSet(kv, {})
    BY <1>2, <2>1, <2>2, SumSupport
  <2>4. QED BY <2>1, <2>3, SumFacts
<1>5. PoolInv
  BY <1>2, <1>3, <1>4 DEF PoolInv
<1>6. BatchInv
  BY <1>3 DEF BatchInv
<1>7. QED BY <1>5, <1>6 DEF SlotInv
-----------------------------------------------------------------------------
(* The slots promised: windows and admitted prompts *)

\* The pledges of a state are integers, and what they are made of naturals.
PledgeFacts ==
  /\ \A s \in Seqs : /\ Unused[s] \in Nat /\ Charge(s) \in Nat /\ Written(s) \in Nat
                     /\ Remaining(s) \in Nat /\ Submitted(s) \in Nat
                     /\ Pledged[s] = Unused[s] + Charge(s) - Written(s)
  /\ Weights(Unused, Seqs) /\ Weights(Pledged, Seqs) /\ IsFiniteSet(Seqs)
  /\ SumFunctionOnSet(Pledged, Seqs) \in Int /\ SumFunctionOnSet(Unused, Seqs) \in Nat

\* In every well-typed state.
LEMMA PledgeTypes == TypeOK /\ PoolInv => PledgeFacts
<1>1. SUFFICES ASSUME TypeOK, PoolInv PROVE PledgeFacts
  OBVIOUS
<1>2. ASSUME NEW s \in Seqs
      PROVE  /\ Unused[s] \in Nat /\ Charge(s) \in Nat /\ Written(s) \in Nat
             /\ Remaining(s) \in Nat /\ Submitted(s) \in Nat
             /\ Pledged[s] = Unused[s] + Charge(s) - Written(s)
  <2>1. /\ prefilled[s] \in Nat /\ chunk[s] \in Nat /\ tokens[s] \in Nat /\ inflight[s] \in Nat
        /\ resEnd[s] \in Nat /\ prefilled[s] <= PromptLen[s] /\ PromptLen[s] \in Nat
    BY <1>1, SchedulerAssumption DEF TypeOK, RequestTypes, PoolInv
  <2>2. Remaining(s) \in Nat /\ Submitted(s) \in Nat
    BY <2>1 DEF Remaining, Submitted
  <2>3. Unused[s] \in Nat
    <3>1. resEnd[s] - Submitted(s) \in Int
      BY <2>1, <2>2
    <3>2. QED BY <3>1 DEF Unused, Positive
  <2>4. Charge(s) \in Nat
    BY <2>2 DEF Charge
  <2>5. Written(s) \in Nat
    BY <2>1 DEF Written, StepSlots
  <2>6. QED BY <2>2, <2>3, <2>4, <2>5 DEF Pledged
<1>3. IsFiniteSet(Seqs)
  BY SchedulerAssumption
<1>4. Weights(Unused, Seqs)
  BY <1>2 DEF Weights
<1>5. Weights(Pledged, Seqs)
  <2>1. \A s \in Seqs : Pledged[s] \in Int
    BY <1>2
  <2>2. QED BY <2>1 DEF Weights
<1>6. SumFunctionOnSet(Pledged, Seqs) \in Int
  BY <1>3, <1>5, SumFacts
<1>7. SumFunctionOnSet(Unused, Seqs) \in Nat
  BY <1>2, <1>3, SumNat
<1>8. QED BY <1>2, <1>3, <1>4, <1>5, <1>6, <1>7 DEF PledgeFacts

\* Where no batch is out, the pledges are the open windows and the prompts
\* that reserved_prefill counts.
LEMMA PledgedBetween ==
  ASSUME IInv, PoolInv, pc \in {"idle", "reserve", "affinity"}
  PROVE  /\ SumFunctionOnSet(Pledged, Seqs) = Outstanding + ReservedPrefill
         /\ Outstanding \in Nat /\ ReservedPrefill \in Nat
<1>1. Parts /\ TypeOK /\ PledgeFacts
  BY PartsOfInv, PledgeTypes DEF IInv
<1>2. skipped = <<>> /\ Range(skipped) = {}
  BY <1>1, EmptyFacts DEF Parts, CallInv
<1>3. Prefills = Range(waiting) /\ Chosen = {} /\ \A s : Written(s) = 0
  BY <1>2 DEF Prefills, Chosen, Written
<1>4. PICK g, B : /\ g = [s \in Seqs |-> Remaining(s)]
                  /\ B = {s \in Range(waiting) : prefilled[s] \in 1..(PromptLen[s] - 1)}
  OBVIOUS
<1>5. /\ B \in SUBSET Seqs /\ Weights(g, B) /\ IsFiniteSet(Seqs) /\ IsFiniteSet(B)
      /\ \A s \in Seqs : g[s] = Remaining(s) /\ Remaining(s) \in Nat
  <2>1. B \in SUBSET Seqs
    BY <1>1, <1>4 DEF Parts
  <2>2. \A s \in Seqs : g[s] = Remaining(s) /\ Remaining(s) \in Nat
    BY <1>1, <1>4 DEF PledgeFacts
  <2>3. Weights(g, B)
    BY <2>1, <2>2 DEF Weights
  <2>4. QED BY <1>1, <2>1, <2>2, <2>3, FS_Subset DEF PledgeFacts
<1>6. ASSUME NEW s \in Seqs
      PROVE  Pledged[s] = IF s \in B THEN Unused[s] + g[s] ELSE Unused[s]
  <2>1. /\ prefilled[s] \in Nat /\ PromptLen[s] \in Nat /\ prefilled[s] <= PromptLen[s]
    BY <1>1, SchedulerAssumption DEF TypeOK, RequestTypes
  <2>2. Charge(s) = IF s \in Range(waiting) /\ prefilled[s] > 0 THEN Remaining(s) ELSE 0
    BY <1>3 DEF Charge
  <2>3. Charge(s) = IF s \in B THEN Remaining(s) ELSE 0
    BY <1>4, <2>1, <2>2 DEF Remaining
  <2>4. Pledged[s] = Unused[s] + Charge(s) - 0 /\ Unused[s] \in Nat /\ Remaining(s) \in Nat
    BY <1>1, <1>3 DEF PledgeFacts
  <2>5. QED BY <1>5, <2>3, <2>4
<1>7. SumFunctionOnSet(Pledged, Seqs) = SumFunctionOnSet(Unused, Seqs) + SumFunctionOnSet(g, B)
  <2>1. (\A x \in B : Pledged[x] = Unused[x] + g[x]) /\ (\A x \in Seqs \ B : Pledged[x] = Unused[x])
    BY <1>5, <1>6
  <2>2. Weights(Unused, Seqs)
    BY <1>1 DEF PledgeFacts
  <2>3. QED BY <1>5, <2>1, <2>2, SumPlus
<1>8. SumFunctionOnSet(g, B) \in Nat
  <2>1. \A x \in B : g[x] \in Nat
    BY <1>5
  <2>2. QED BY <1>5, <2>1, SumNat
<1>9. ReservedPrefill = SumFunctionOnSet(g, B) /\ Outstanding = SumFunctionOnSet(Unused, Seqs)
  BY <1>4 DEF ReservedPrefill, Outstanding
<1>10. QED BY <1>1, <1>7, <1>8, <1>9 DEF PledgeFacts

\* Nothing is pledged that was not pledged before, and no slot is taken.
Shrinks ==
  /\ UNCHANGED <<prefilled, tokens, inflight, cursor, checkpoint>>
  /\ freeSlots' >= freeSlots /\ \A s \in Seqs : resEnd'[s] <= resEnd[s]
  /\ \A s \in Seqs : Written(s) = 0 /\ Written(s)' = 0
  /\ \A s \in Prefills' : s \in Chosen' \/ prefilled[s] > 0 =>
       s \in Prefills /\ (s \in Chosen \/ prefilled[s] > 0)

\* The sum of the pledges does not grow.
LEMMA ShrinkPledges ==
  ASSUME TypeOK, PoolInv, TypeOK', PoolInv', Shrinks
  PROVE  SumFunctionOnSet(Pledged, Seqs)' <= SumFunctionOnSet(Pledged, Seqs)
<1>1. PledgeFacts /\ PledgeFacts'
  <2>1. (TypeOK /\ PoolInv => PledgeFacts)'
    BY PledgeTypes, PTL
  <2>2. QED BY <2>1, PledgeTypes
<1>2. PICK P : P = Pledged'
  OBVIOUS
<1>3. ASSUME NEW s \in Seqs PROVE P[s] <= Pledged[s]
  <2>1. /\ Pledged[s] = Unused[s] + Charge(s) - Written(s)
        /\ Unused[s] \in Nat /\ Charge(s) \in Nat /\ Written(s) = 0 /\ Remaining(s) \in Nat
    BY <1>1 DEF PledgeFacts, Shrinks
  <2>2. /\ P[s] = Unused'[s] + Charge(s)' - Written(s)'
        /\ Unused'[s] \in Nat /\ Charge(s)' \in Nat /\ Written(s)' = 0
    BY <1>1, <1>2 DEF PledgeFacts, Shrinks
  <2>3. Charge(s)' <= Charge(s)
    BY <2>1 DEF Charge, Shrinks, Remaining
  <2>4. Unused'[s] <= Unused[s]
    <3>1. resEnd[s] \in Nat /\ resEnd'[s] \in Nat /\ Submitted(s) \in Nat /\ Submitted(s)' = Submitted(s)
      BY <1>1 DEF PoolInv, PledgeFacts, Shrinks, Submitted
    <3>2. resEnd'[s] <= resEnd[s]
      BY DEF Shrinks
    <3>3. Unused[s] = Positive(resEnd[s] - Submitted(s)) /\ Unused'[s] = Positive(resEnd'[s] - Submitted(s))
      BY <3>1 DEF Unused
    <3>4. QED BY <3>1, <3>2, <3>3 DEF Positive
  <2>5. QED BY <2>1, <2>2, <2>3, <2>4
<1>4. Weights(P, Seqs) /\ Weights(Pledged, Seqs) /\ IsFiniteSet(Seqs)
  BY <1>1, <1>2 DEF PledgeFacts
<1>5. SumFunctionOnSet(P, Seqs) <= SumFunctionOnSet(Pledged, Seqs)
  <2>1. (\A x \in Seqs : P[x] <= Pledged[x]) /\ (\A x \in Seqs \ Seqs : 0 <= Pledged[x])
    BY <1>3
  <2>2. QED BY <1>4, <2>1, SumBelow
<1>6. QED BY <1>2, <1>5

\* Nobody joins the requests whose window was renewed.
Quiet ==
  /\ pc' \in {"affinity", "decode"} => failure' = None
  /\ ~Broken' => ~Broken
  /\ \A s \in Renewed' : s \in Renewed /\ resEnd'[s] = resEnd[s]

\* The windows of a step that only shrinks stay backed.
LEMMA ShrinkWindow ==
  ASSUME CoreInv, TypeOK', PoolInv', Shrinks, Quiet, pc' # "prefill" \/ (pc = "prefill" /\ admit' = admit)
  PROVE  WindowInv'
<1>1. TypeOK /\ PoolInv /\ HandoffInv /\ CoverInv /\ PledgeInv
  BY DEF CoreInv, MemoryInv, IInv, SlotInv, WindowInv
<1>2. HandoffInv'
  BY <1>1 DEF Shrinks, HandoffInv, IsReplay
<1>3. Fresh' => Fresh
  BY DEF Fresh, Shrinks
<1>4. CoverInv'
  BY <1>1, <1>3 DEF CoverInv, Covered, Quiet, Shrinks, Submitted
<1>5. PledgeInv'
  <2>1. Spare \in Nat /\ Spare' \in Nat /\ Spare' <= Spare
    BY <1>1 DEF PledgeInv, Spare
  <2>2. PICK p, q : p = SumFunctionOnSet(Pledged, Seqs) /\ q = SumFunctionOnSet(Pledged, Seqs)'
    OBVIOUS
  <2>3. q <= p
    BY <1>1, <2>2, ShrinkPledges
  <2>4. p \in Int /\ q \in Int
    <3>1. PledgeFacts
      BY <1>1, PledgeTypes
    <3>2. (TypeOK /\ PoolInv => PledgeFacts)'
      BY PledgeTypes, PTL
    <3>3. QED BY <2>2, <3>1, <3>2 DEF PledgeFacts
  <2>5. freeSlots \in Nat /\ freeSlots' \in Nat /\ freeSlots' >= freeSlots
    BY <1>1 DEF PoolInv, Shrinks
  <2>6. ASSUME ~Broken', Fresh' PROVE q + Spare' <= freeSlots'
    <3>1. p + Spare <= freeSlots
      BY <1>1, <1>3, <2>2, <2>6 DEF PledgeInv, Quiet
    <3>2. PICK a, b : a = Spare /\ b = Spare'
      OBVIOUS
    <3>3. a \in Nat /\ b \in Nat /\ b <= a /\ p + a <= freeSlots
      BY <2>1, <3>1, <3>2
    <3>4. q + b <= freeSlots'
      BY <2>3, <2>4, <2>5, <3>3
    <3>5. QED BY <3>2, <3>4
  <2>7. QED BY <2>1, <2>2, <2>6 DEF PledgeInv
<1>6. QED BY <1>2, <1>4, <1>5 DEF WindowInv

\* Where no decode batch is being chosen or run.
NoDecodeBatch ==
  \/ pc \notin {"reserve", "affinity", "prefill", "decode", "returned", "postprocess"}
  \/ pc \in {"returned", "postprocess"} /\ (isPrefill \/ scheduled = <<>>)

\* There, no window is in question.
LEMMA NotRenewed == NoDecodeBatch => Renewed = {}
<1>1. scheduled = <<>> => Range(scheduled) = {}
  BY EmptyFacts
<1>2. QED BY <1>1 DEF Renewed, NoDecodeBatch

\* After such a step.
LEMMA NotRenewedNext == NoDecodeBatch' => Renewed' = {}
<1>1. (NoDecodeBatch => Renewed = {})'
  BY NotRenewed, PTL
<1>2. QED BY <1>1

\* A step that stops the driver promises nothing more.
LEMMA BreakWindow ==
  ASSUME HandoffInv', pc' \in {"raised", "reclaim"}
  PROVE  WindowInv'
BY DEF WindowInv, CoverInv, PledgeInv, Broken, Spare

\* Moving requests between queues of one kind pledges nothing.
LEMMA MovesShrink ==
  ASSUME TypeOK, PoolInv, Moves, UNCHANGED <<freeSlots, checkpoint>>
  PROVE  Shrinks /\ (~Broken' => ~Broken)
<1>1. UNCHANGED <<prefilled, tokens, inflight, cursor, checkpoint, resEnd>>
  BY DEF Moves, Untouched
<1>2. freeSlots' >= freeSlots /\ \A s \in Seqs : resEnd'[s] <= resEnd[s]
  BY <1>1 DEF PoolInv
<1>3. \A s \in Seqs : Written(s) = 0 /\ Written(s)' = 0
  BY DEF Moves, Written
<1>4. ~Broken /\ Prefills' = Prefills /\ Chosen' \subseteq Chosen
  BY DEF Moves
<1>5. QED BY <1>1, <1>2, <1>3, <1>4 DEF Shrinks

\* The steps of the scans that only move requests keep the promises.
LEMMA ScanWindow ==
  ASSUME CoreInv, TypeOK', PoolInv', UNCHANGED engineVars,
         \/ AffinityScan \/ PrefillSkip \/ PrefillDefer \/ NextBucket \/ StartDecode
         \/ DecodeRotate \/ DecodeTake \/ DecodeBlock
  PROVE  WindowInv'
<1>1. MemInv({}) /\ TypeOK /\ PoolInv /\ CoverInv
  BY DEF CoreInv, MemoryInv, MemInv, IInv, SlotInv, WindowInv
<1>2. Moves
  BY <1>1, AffinityMoves, PassOverMoves, BucketMoves, DecodeScanMoves
<1>3. /\ UNCHANGED <<freeSlots, checkpoint, failure, admit, resEnd>>
      /\ pc \in {"affinity", "prefill", "decode"} /\ pc' \in {"affinity", "prefill", "decode"}
      /\ pc' = "prefill" => pc = "prefill"
      /\ pc' = "affinity" => pc = "affinity"
      /\ pc' = "decode" => pc = "decode" \/ failure = None
  BY DEF AffinityScan, PrefillSkip, PrefillDefer, NextBucket, StartDecode, DecodeRotate, DecodeTake,
         DecodeBlock, InBucket, InDecode, PrefillOver
<1>4. Shrinks /\ (~Broken' => ~Broken)
  BY <1>1, <1>2, <1>3, MovesShrink
<1>5. Quiet
  <2>1. pc' \in {"affinity", "decode"} => failure' = None
    BY <1>1, <1>3 DEF CoverInv
  <2>2. Decodes' = Decodes /\ Decodes \subseteq Range(decoding) \cup Range(scheduled)
    BY <1>2 DEF Moves, Decodes
  <2>3. ASSUME NEW s \in Renewed' PROVE s \in Renewed
    BY <1>3, <2>2, <2>3 DEF Renewed
  <2>4. QED BY <1>3, <1>4, <2>1, <2>3 DEF Quiet
<1>6. QED BY <1>3, <1>4, <1>5, ShrinkWindow

\* A decode batch is returned out of the decodes, whose windows are renewed.
LEMMA ReturnDecodeWindow ==
  ASSUME CoreInv, TypeOK', PoolInv', UNCHANGED engineVars, AffinityDecode \/ DecodeReturn
  PROVE  WindowInv'
<1>1. MemInv({}) /\ TypeOK /\ PoolInv /\ CoverInv /\ Parts
  BY PartsOfInv DEF CoreInv, MemoryInv, MemInv, IInv, SlotInv, WindowInv
<1>2. Moves
  BY <1>1, AffinityMoves, DecodeReturnMoves
<1>3. /\ UNCHANGED <<freeSlots, checkpoint, resEnd, scheduled>>
      /\ pc \in {"affinity", "decode"} /\ pc' = "returned" /\ isPrefill' = FALSE
  BY DEF AffinityDecode, DecodeReturn, Return, DecodeOver
<1>4. Shrinks /\ (~Broken' => ~Broken)
  BY <1>1, <1>2, <1>3, MovesShrink
<1>5. Range(scheduled) \subseteq Decodes /\ failure = None
  <2>1. CASE pc = "affinity"
    <3>1. \A i \in DOMAIN scheduled : \E j \in DOMAIN decoding : decoding[j] = scheduled[i]
      BY <1>1, <2>1 DEF Parts, CallInv
    <3>2. Range(scheduled) \subseteq Range(decoding)
      BY <3>1 DEF Range
    <3>3. QED BY <1>1, <2>1, <3>2 DEF CoverInv, Decodes
  <2>2. CASE pc = "decode"
    BY <1>1, <2>2 DEF CoverInv, Decodes
  <2>3. QED BY <1>3, <2>1, <2>2
<1>6. Quiet
  <2>1. ASSUME NEW s \in Renewed' PROVE s \in Renewed
    BY <1>3, <1>5, <2>1 DEF Renewed
  <2>2. QED BY <1>3, <1>4, <2>1 DEF Quiet
<1>7. QED BY <1>3, <1>4, <1>6, ShrinkWindow

\* schedule() is entered with no window looked at; it returns a prefill batch,
\* or nothing.
LEMMA EdgeWindow ==
  ASSUME CoreInv, TypeOK', PoolInv', StepSync \/ (UNCHANGED engineVars /\ (PrefillReturn \/ NothingToRun))
  PROVE  WindowInv'
<1>1. MemInv({}) /\ TypeOK /\ PoolInv /\ CoverInv /\ NothingInFlight
  BY DEF CoreInv, MemoryInv, MemInv, IInv, SlotInv, WindowInv
<1>2. Moves
  <2>1. CASE StepSync
    <3>1. Schedule(0) /\ UNCHANGED engineVars /\ pc = "idle" /\ pendingReleases = {}
      BY <2>1 DEF StepSync
    <3>2. QED BY <1>1, <3>1, EnterMoves
  <2>2. CASE UNCHANGED engineVars /\ (PrefillReturn \/ NothingToRun)
    BY <1>1, <2>2, BucketMoves, DecodeReturnMoves
  <2>3. QED BY <2>1, <2>2
<1>3. /\ UNCHANGED <<freeSlots, checkpoint, resEnd>>
      /\ \/ pc' = "reserve" /\ scan' = 1 /\ scheduled' = <<>>
         \/ pc' \in {"drain", "raised"}
         \/ pc' = "returned" /\ (isPrefill' \/ scheduled' = <<>>)
  BY DEF StepSync, Schedule, ClearLocals, PrefillReturn, NothingToRun, Return, Raise
<1>4. Shrinks /\ (~Broken' => ~Broken)
  BY <1>1, <1>2, <1>3, MovesShrink
<1>5. Renewed' = {}
  <2>1. CASE pc' = "reserve"
    <3>1. scan' = 1
      BY <1>3, <2>1
    <3>2. decoding' \in Seq(Seqs)
      BY DEF TypeOK, QueueTypes
    <3>3. \A i \in DOMAIN decoding' : ~(i < 1)
      BY <3>2
    <3>4. QED BY <2>1, <3>1, <3>3 DEF Renewed
  <2>2. CASE pc' # "reserve"
    BY <1>3, <2>2, NotRenewedNext DEF NoDecodeBatch
  <2>3. QED BY <2>1, <2>2
<1>6. Quiet
  BY <1>3, <1>4, <1>5 DEF Quiet
<1>7. QED BY <1>3, <1>4, <1>6, ShrinkWindow

\* When acquisition went through, every decode was looked at.
LEMMA AllRenewed ==
  ASSUME Parts, Acquired, failure = None
  PROVE  Decodes \subseteq Renewed
<1>1. pc = "reserve" /\ scan > Len(decoding) /\ decoding \in Seq(Seqs) /\ scan \in Nat
  BY DEF Acquired, Parts, TypeOK, CallTypes
<1>2. SUFFICES ASSUME NEW s \in Decodes PROVE s \in Renewed
  OBVIOUS
<1>3. s \in Range(decoding)
  BY <1>1 DEF Decodes
<1>4. PICK i \in DOMAIN decoding : decoding[i] = s
  BY <1>3 DEF Range
<1>5. i < scan
  BY <1>1, <1>4
<1>6. QED BY <1>1, <1>3, <1>4, <1>5 DEF Renewed

\* Before the scans, the decodes of a call without failure are renewed.
LEMMA OpeningRenewed ==
  ASSUME CoreInv, StartPrefill \/ AffinityPrefill \/ StartAffinity, failure = None
  PROVE  Decodes \subseteq Renewed
<1>1. Parts
  BY PartsOfInv DEF CoreInv, MemoryInv
<1>2. CASE Acquired
  BY <1>1, <1>2, AllRenewed
<1>3. CASE AffinityPrefill
  <2>1. pc = "affinity"
    BY <1>3 DEF AffinityPrefill
  <2>2. Decodes \subseteq Range(decoding)
    BY <2>1 DEF Decodes
  <2>3. QED BY <2>1, <2>2 DEF Renewed
<1>4. QED BY <1>2, <1>3 DEF StartPrefill, StartAffinity

\* The affinity scan starts when every window was renewed.
LEMMA StartAffinityWindow ==
  ASSUME CoreInv, TypeOK', PoolInv', UNCHANGED engineVars, StartAffinity
  PROVE  WindowInv'
<1>1. MemInv({}) /\ TypeOK /\ PoolInv
  BY DEF CoreInv, MemoryInv, MemInv, IInv, SlotInv
<1>2. Moves
  BY <1>1, AffinityMoves
<1>3. /\ UNCHANGED <<freeSlots, checkpoint, resEnd, failure>> /\ failure = None
      /\ pc' = "affinity"
  BY DEF StartAffinity
<1>4. Shrinks /\ (~Broken' => ~Broken)
  BY <1>1, <1>2, <1>3, MovesShrink
<1>5. Quiet
  <2>1. Renewed' \subseteq Decodes'
    BY <1>3 DEF Renewed
  <2>2. Decodes' = Decodes /\ Decodes \subseteq Renewed
    BY <1>2, <1>3, OpeningRenewed DEF Moves
  <2>3. QED BY <1>3, <1>4, <2>1, <2>2 DEF Quiet
<1>6. QED BY <1>3, <1>4, <1>5, ShrinkWindow

\* The prefill scan may admit what no window and no admitted prompt claims.
LEMMA OpenPrefillWindow ==
  ASSUME CoreInv, TypeOK', PoolInv', UNCHANGED engineVars, StartPrefill \/ AffinityPrefill
  PROVE  WindowInv'
<1>1. MemInv({}) /\ IInv /\ TypeOK /\ PoolInv /\ HandoffInv /\ CoverInv /\ PledgeInv
  BY DEF CoreInv, MemoryInv, MemInv, IInv, SlotInv, WindowInv
<1>2. Moves
  BY <1>1, StartPrefillMoves
<1>3. /\ UNCHANGED <<freeSlots, checkpoint, resEnd, failure, cursor, tokens, inflight>>
      /\ pc' = "prefill" /\ pc \in {"reserve", "affinity"}
      /\ admit' = Positive(freeSlots - ReservedPrefill - Outstanding)
  BY DEF StartPrefill, AffinityPrefill, OpenPrefill, Acquired
<1>4. Shrinks /\ ~Broken /\ (Fresh' => Fresh)
  BY <1>1, <1>2, <1>3, MovesShrink DEF Broken, Fresh
<1>5. HandoffInv'
  BY <1>1, <1>3 DEF HandoffInv, IsReplay
<1>6. CoverInv'
  <2>1. SUFFICES ASSUME Fresh', NEW s \in Renewed' PROVE Covered(s)'
    BY <1>3 DEF CoverInv
  <2>2. s \in Decodes /\ failure = None
    BY <1>2, <1>3, <2>1 DEF Renewed, Moves
  <2>3. s \in Renewed
    BY <2>2, OpeningRenewed
  <2>4. Covered(s)
    BY <1>1, <1>4, <2>1, <2>3 DEF CoverInv
  <2>5. QED BY <1>3, <2>4 DEF Covered, Submitted
<1>7. PledgeInv'
  <2>1. PICK p, q, o, r : /\ p = SumFunctionOnSet(Pledged, Seqs) /\ q = SumFunctionOnSet(Pledged, Seqs)'
                          /\ o = Outstanding /\ r = ReservedPrefill
    OBVIOUS
  <2>2. p = o + r /\ o \in Nat /\ r \in Nat
    BY <1>1, <1>3, <2>1, PledgedBetween
  <2>3. q <= p
    BY <1>1, <1>4, <2>1, ShrinkPledges
  <2>4. q \in Int
    <3>1. (TypeOK /\ PoolInv => PledgeFacts)'
      BY PledgeTypes, PTL
    <3>2. QED BY <2>1, <3>1 DEF PledgeFacts
  <2>5. Spare' = Positive(freeSlots - r - o) /\ Spare = 0 /\ freeSlots' = freeSlots /\ freeSlots \in Nat
    BY <1>1, <1>3, <2>1 DEF Spare, PoolInv
  <2>6. Positive(freeSlots - r - o) \in Nat
    BY <2>2, <2>5 DEF Positive
  <2>7. ASSUME Fresh' PROVE q + Positive(freeSlots - r - o) <= freeSlots
    <3>1. p + 0 <= freeSlots
      BY <1>1, <1>4, <2>1, <2>5, <2>7 DEF PledgeInv
    <3>2. Positive(freeSlots - r - o) = freeSlots - r - o
      BY <2>2, <2>5, <3>1 DEF Positive
    <3>3. QED BY <2>2, <2>3, <2>4, <2>5, <3>1, <3>2
  <2>8. QED BY <2>1, <2>5, <2>6, <2>7 DEF PledgeInv
<1>8. QED BY <1>5, <1>6, <1>7 DEF WindowInv

\* A window is taken out of what is free and not promised.
LEMMA AcquireWindowInv ==
  ASSUME CoreInv, TypeOK', PoolInv', UNCHANGED engineVars, AcquireWindow
  PROVE  WindowInv'
<1>1. Parts /\ IInv /\ TypeOK /\ PoolInv /\ HandoffInv /\ CoverInv /\ PledgeInv /\ PledgeFacts
  BY PartsOfInv, PledgeTypes DEF CoreInv, MemoryInv, IInv, SlotInv, WindowInv
<1>2. PICK s : s = decoding[scan]
  OBVIOUS
<1>3. /\ pc = "reserve" /\ pc' = "reserve" /\ scan \in DOMAIN decoding
      /\ UNCHANGED <<decoding, waiting, scheduled, skipped, isPrefill, prefilled, tokens, inflight, cursor,
                     checkpoint, freeSlots, chunk>>
  BY <1>1 DEF AcquireWindow, Parts, TypeOK, CallTypes
<1>4. /\ s \in Seqs /\ Submitted(s) \in Nat /\ resEnd[s] \in Nat /\ freeSlots \in Nat
      /\ MaxTokens[s] \in Nat /\ \A x : Submitted(x)' = Submitted(x)
  BY <1>1, <1>2, <1>3, SchedulerAssumption, SMTT(60) DEF Parts, PledgeFacts, PoolInv, Submitted
<1>5. /\ Prefills' = Prefills /\ Chosen' = Chosen /\ Fresh' = Fresh /\ ~Broken
      /\ \A x \in Seqs : Written(x) = 0 /\ Written(x)' = 0
  BY <1>3 DEF Prefills, Chosen, Fresh, Broken, Written
<1>6. HandoffInv'
  BY <1>1, <1>3 DEF HandoffInv, IsReplay
<1>7. \/ resEnd' = resEnd /\ (scan' = scan \/ (scan' = scan + 1 /\ ~NeedsAcquisition(s)))
      \/ \E n \in Nat : /\ n >= 1 /\ NeedsAcquisition(s) /\ WindowFits(n) /\ scan' = scan + 1
                        /\ resEnd' = [resEnd EXCEPT ![s] = Submitted(s) + n]
  <2>1. ASSUME WindowChoices(s) # {}
        PROVE  Max(WindowChoices(s)) \in Nat /\ Max(WindowChoices(s)) >= 1 /\ WindowFits(Max(WindowChoices(s)))
    <3>1. PICK k : k = Min({Window, MaxTokens[s] - Submitted(s)})
      OBVIOUS
    <3>2. k \in Int
      <4>1. PICK w, m : w = Window /\ m = MaxTokens[s] - Submitted(s)
        OBVIOUS
      <4>2. w \in Int /\ m \in Int
        BY <1>4, <4>1, SchedulerAssumption
      <4>3. Min({w, m}) \in Int
        BY <4>2, MinFacts
      <4>4. QED BY <3>1, <4>1, <4>3
    <3>3. PICK C : C = WindowChoices(s)
      OBVIOUS
    <3>4. C \in SUBSET (1..k) /\ \A n \in C : WindowFits(n)
      BY <3>1, <3>3 DEF WindowChoices
    <3>5. Max(C) \in C
      BY <2>1, <3>2, <3>3, <3>4, MaxFacts
    <3>6. QED BY <3>2, <3>3, <3>4, <3>5
  <2>2. QED BY <1>2, <2>1 DEF AcquireWindow
<1>8. /\ \A x \in Seqs : x # s => resEnd'[x] = resEnd[x]
      /\ resEnd'[s] >= resEnd[s]
      /\ scan' = scan + 1 => resEnd'[s] > Submitted(s) \/ ~NeedsAcquisition(s)
      /\ scan' \in {scan, scan + 1}
  <2>1. resEnd \in [Seqs -> Nat]
    BY <1>1 DEF PoolInv
  <2>2. CASE resEnd' = resEnd /\ (scan' = scan \/ (scan' = scan + 1 /\ ~NeedsAcquisition(s)))
    <3>1. scan \in Nat
      BY <1>1 DEF TypeOK, CallTypes
    <3>2. scan' = scan + 1 => ~NeedsAcquisition(s)
      BY <2>2, <3>1
    <3>3. QED BY <1>4, <2>1, <2>2, <3>2
  <2>3. ASSUME NEW n \in Nat, n >= 1, NeedsAcquisition(s), resEnd' = [resEnd EXCEPT ![s] = Submitted(s) + n],
               scan' = scan + 1
        PROVE  /\ \A x \in Seqs : x # s => resEnd'[x] = resEnd[x]
               /\ resEnd'[s] >= resEnd[s] /\ resEnd'[s] > Submitted(s)
    <3>1. resEnd'[s] = Submitted(s) + n /\ Submitted(s) >= resEnd[s]
      BY <1>4, <2>1, <2>3 DEF NeedsAcquisition
    <3>2. QED BY <1>4, <2>1, <2>3, <3>1
  <2>4. QED BY <1>7, <2>2, <2>3
<1>9. CoverInv'
  <2>1. SUFFICES ASSUME Fresh, NEW x \in Renewed' PROVE Covered(x)'
    BY <1>3, <1>5 DEF CoverInv
  <2>2. PICK i \in DOMAIN decoding : i < scan' /\ decoding[i] = x
    BY <1>3, <2>1 DEF Renewed
  <2>3. x \in Seqs /\ x \in Range(decoding) /\ i \in Nat /\ scan \in Nat
    BY <1>1, <2>2 DEF Parts, Range, TypeOK, CallTypes
  <2>4. Submitted(x) \in Nat /\ resEnd[x] \in Nat /\ resEnd'[x] \in Nat /\ MaxTokens[x] \in Nat
        /\ resEnd'[x] >= resEnd[x]
    BY <1>1, <1>4, <1>8, <2>3, SchedulerAssumption DEF PledgeFacts, PoolInv
  <2>5. CASE i < scan
    <3>1. x \in Renewed
      BY <1>3, <2>2, <2>3, <2>5 DEF Renewed
    <3>2. Covered(x)
      BY <1>1, <1>5, <2>1, <3>1 DEF CoverInv
    <3>3. QED BY <1>4, <2>4, <3>2 DEF Covered
  <2>6. CASE ~(i < scan)
    <3>1. x = s /\ scan' = scan + 1
      BY <1>2, <1>8, <2>2, <2>3, <2>6
    <3>2. ~IsReplay(s)
      BY <1>1, <1>4, <2>1 DEF HandoffInv, Fresh
    <3>3. resEnd'[s] > Submitted(s) \/ Submitted(s) < resEnd[s] \/ ~(Submitted(s) < MaxTokens[s])
      BY <1>4, <1>8, <3>1, <3>2 DEF NeedsAcquisition
    <3>4. QED BY <1>4, <2>4, <3>1, <3>3 DEF Covered
  <2>7. QED BY <2>5, <2>6
<1>10. PledgeInv'
  <2>1. Spare = 0 /\ Spare' = 0
    BY <1>3 DEF Spare
  <2>2. PICK p, q, o, r : /\ p = SumFunctionOnSet(Pledged, Seqs) /\ q = SumFunctionOnSet(Pledged, Seqs)'
                          /\ o = Outstanding /\ r = ReservedPrefill
    OBVIOUS
  <2>3. p = o + r /\ o \in Nat /\ r \in Nat
    BY <1>1, <1>3, <2>2, PledgedBetween
  <2>4. SUFFICES ASSUME Fresh PROVE q + 0 <= freeSlots
    BY <1>3, <1>5, <2>1, <2>2 DEF PledgeInv
  <2>5. p + 0 <= freeSlots
    BY <1>1, <1>5, <2>1, <2>2, <2>4 DEF PledgeInv
  <2>6. CASE resEnd' = resEnd
    <3>1. Pledged' = Pledged
      BY <1>3, <1>5, <2>6 DEF Pledged, Unused, Submitted, Charge, Remaining, Written
    <3>2. q = p
      BY <2>2, <3>1
    <3>3. QED BY <2>5, <3>2
  <2>7. ASSUME NEW n \in Nat, n >= 1, NeedsAcquisition(s), WindowFits(n),
               resEnd' = [resEnd EXCEPT ![s] = Submitted(s) + n]
        PROVE  q + 0 <= freeSlots
    <3>1. PICK P : P = Pledged'
      OBVIOUS
    <3>2. ASSUME NEW x \in Seqs, x # s PROVE P[x] = Pledged[x]
      <4>1. resEnd'[x] = resEnd[x] /\ Written(x)' = Written(x) /\ Submitted(x)' = Submitted(x)
        BY <1>4, <1>5, <1>8, <3>2
      <4>2. Charge(x)' = Charge(x)
        BY <1>3, <1>5 DEF Charge, Remaining
      <4>3. Unused'[x] = Unused[x]
        BY <4>1 DEF Unused
      <4>4. QED BY <3>1, <4>1, <4>2, <4>3 DEF Pledged
    <3>3. P[s] = Pledged[s] + n
      <4>1. resEnd'[s] = Submitted(s) + n /\ Submitted(s) >= resEnd[s]
        BY <1>1, <1>4, <2>7 DEF NeedsAcquisition, PoolInv
      <4>2. Unused[s] = Positive(resEnd[s] - Submitted(s)) /\ Unused'[s] = Positive(resEnd'[s] - Submitted(s))
        BY <1>4 DEF Unused
      <4>3. Unused[s] = 0 /\ Unused'[s] = n
        BY <1>4, <4>1, <4>2 DEF Positive
      <4>4. Charge(s)' = Charge(s) /\ Charge(s) \in Nat /\ Written(s) = 0 /\ Written(s)' = 0
        BY <1>1, <1>3, <1>4, <1>5 DEF Charge, Remaining, PledgeFacts
      <4>5. Pledged[s] = Unused[s] + Charge(s) - Written(s) /\ P[s] = Unused'[s] + Charge(s)' - Written(s)'
        BY <1>4, <3>1 DEF Pledged
      <4>6. QED BY <4>3, <4>4, <4>5
    <3>4. Weights(Pledged, Seqs) /\ IsFiniteSet(Seqs) /\ Pledged[s] \in Int
      BY <1>1, <1>4 DEF PledgeFacts, Weights
    <3>5. SumFunctionOnSet(P, Seqs) = SumFunctionOnSet(Pledged, Seqs) - Pledged[s] + P[s]
      <4>1. P[s] \in Int /\ \A x \in Seqs : x # s => P[x] = Pledged[x]
        BY <3>2, <3>3, <3>4
      <4>2. QED BY <1>4, <3>4, <4>1, SumChange
    <3>6. q = p + n
      <4>1. q = p - Pledged[s] + P[s]
        BY <2>2, <3>1, <3>5
      <4>2. QED BY <2>3, <3>3, <3>4, <4>1
    <3>7. Min({freeSlots, r}) = r
      <4>1. r \in Int /\ freeSlots \in Int /\ r <= freeSlots
        BY <1>4, <2>3, <2>5
      <4>2. PICK f : f = freeSlots
        OBVIOUS
      <4>3. f \in Int
        BY <4>1, <4>2
      <4>4. Min({f, r}) <= r /\ (Min({f, r}) = f \/ Min({f, r}) = r)
        BY <4>1, <4>3, MinFacts
      <4>5. Min({f, r}) = r
        BY <4>1, <4>2, <4>3, <4>4
      <4>6. QED BY <4>2, <4>5
    <3>8. n + o + r <= freeSlots
      BY <2>2, <2>7, <3>7 DEF WindowFits
    <3>9. QED BY <1>4, <2>3, <3>6, <3>8
  <2>8. QED BY <1>7, <2>6, <2>7
<1>11. QED BY <1>6, <1>9, <1>10 DEF WindowInv

\* A chunk joins the batch; the first one pledges its whole prompt, out of what
\* the scan may admit.
LEMMA PrefillTakeWindow ==
  ASSUME CoreInv, TypeOK', PoolInv', UNCHANGED engineVars, PrefillTake
  PROVE  WindowInv'
<1>1. Parts /\ IInv /\ TypeOK /\ PoolInv /\ HandoffInv /\ CoverInv /\ PledgeInv /\ PledgeFacts
  BY PartsOfInv, PledgeTypes DEF CoreInv, MemoryInv, IInv, SlotInv, WindowInv
<1>2. PICK s : s = Head(waiting)
  OBVIOUS
<1>3. /\ pc = "prefill" /\ pc' = "prefill" /\ waiting # <<>>
      /\ waiting' = Tail(waiting) /\ scheduled' = Append(scheduled, s)
      /\ prefilled[s] = 0 => PromptLen[s] <= admit
      /\ admit' = IF prefilled[s] = 0 THEN admit - PromptLen[s] ELSE admit
      /\ UNCHANGED <<decoding, skipped, isPrefill, prefilled, tokens, inflight, cursor, checkpoint,
                     freeSlots, resEnd, failure>>
  BY <1>2 DEF PrefillTake, InBucket, CanContinuePrefillBatch, AdmissionFits
<1>4. s \in Seqs /\ s \in Range(waiting) /\ Range(waiting') = Range(waiting) \ {s}
      /\ Range(scheduled') = Range(scheduled) \cup {s}
  <2>1. /\ Head(waiting) \in Seqs /\ Head(waiting) \in Range(waiting)
        /\ Range(Tail(waiting)) = Range(waiting) \ {Head(waiting)}
    BY <1>1, <1>3, HeadTailFacts DEF Parts
  <2>2. Range(Append(scheduled, s)) = Range(scheduled) \cup {s}
    BY <1>1, <1>2, <2>1, AppendFacts DEF Parts
  <2>3. QED BY <1>2, <1>3, <2>1, <2>2
<1>5. Chosen = Range(scheduled) /\ Chosen' = Chosen \cup {s} /\ Prefills' = Prefills /\ s \in Prefills
      /\ s \notin Chosen /\ Decodes' = Decodes
  <2>1. s \notin Range(scheduled)
    BY <1>1, <1>3, <1>4 DEF Parts, OwnedOnce, Popped
  <2>2. QED BY <1>3, <1>4, <2>1 DEF Chosen, Prefills, Decodes
<1>6. HandoffInv' /\ Fresh' = Fresh /\ ~Broken
  BY <1>1, <1>3 DEF HandoffInv, IsReplay, Fresh, Broken
<1>7. CoverInv'
  <2>1. SUFFICES ASSUME Fresh, NEW x \in Renewed' PROVE Covered(x)'
    BY <1>3, <1>6 DEF CoverInv
  <2>2. x \in Renewed
    BY <1>3, <1>5, <2>1 DEF Renewed, Decodes
  <2>3. Covered(x)
    BY <1>1, <1>6, <2>1, <2>2 DEF CoverInv
  <2>4. QED BY <1>3, <2>3 DEF Covered, Submitted
<1>8. /\ PromptLen[s] \in Nat /\ admit \in Nat /\ prefilled[s] \in Nat /\ freeSlots \in Nat
      /\ Spare = admit /\ Spare' = admit'
  BY <1>1, <1>3, <1>4, SchedulerAssumption DEF PledgeInv, Spare, TypeOK, RequestTypes, PoolInv
<1>9. PICK c \in Nat : c = IF prefilled[s] = 0 THEN PromptLen[s] ELSE 0
  BY <1>8
<1>10. admit' = admit - c /\ c <= admit
  BY <1>3, <1>8, <1>9
<1>11. PICK P : P = Pledged'
  OBVIOUS
<1>12. \A x \in Seqs : Written(x)' = 0 /\ Written(x) = 0 /\ Unused'[x] = Unused[x] /\ Unused[x] \in Nat
  BY <1>1, <1>3 DEF Written, Unused, Submitted, PledgeFacts
<1>13. ASSUME NEW x \in Seqs, x # s PROVE P[x] = Pledged[x]
  <2>1. Charge(x)' = Charge(x)
    BY <1>3, <1>5, <1>13 DEF Charge, Remaining
  <2>2. QED BY <1>11, <1>12, <2>1 DEF Pledged
<1>14. P[s] = Pledged[s] + c
  <2>1. Charge(s)' = Remaining(s) /\ Charge(s) = IF prefilled[s] > 0 THEN Remaining(s) ELSE 0
    BY <1>3, <1>5 DEF Charge, Remaining
  <2>2. Remaining(s) \in Nat /\ (prefilled[s] = 0 => Remaining(s) = PromptLen[s])
    BY <1>1, <1>4, <1>8 DEF PledgeFacts, Remaining
  <2>3. Charge(s)' = Charge(s) + c /\ Charge(s) \in Nat
    BY <1>8, <1>9, <2>1, <2>2
  <2>4. Pledged[s] = Unused[s] + Charge(s) - 0 /\ P[s] = Unused[s] + Charge(s)' - 0
    BY <1>4, <1>11, <1>12 DEF Pledged
  <2>5. QED BY <1>4, <1>12, <2>3, <2>4
<1>15. Weights(Pledged, Seqs) /\ IsFiniteSet(Seqs) /\ Pledged[s] \in Int
       /\ SumFunctionOnSet(Pledged, Seqs) \in Int
  BY <1>1, <1>4 DEF PledgeFacts, Weights
<1>16. SumFunctionOnSet(P, Seqs) = SumFunctionOnSet(Pledged, Seqs) - Pledged[s] + P[s]
  <2>1. P[s] \in Int /\ \A x \in Seqs : x # s => P[x] = Pledged[x]
    BY <1>13, <1>14, <1>15
  <2>2. QED BY <1>4, <1>15, <2>1, SumChange
<1>17. SumFunctionOnSet(P, Seqs) = SumFunctionOnSet(Pledged, Seqs) + c
  BY <1>14, <1>15, <1>16
<1>18. PledgeInv'
  <2>1. Spare' \in Nat
    BY <1>8, <1>10
  <2>2. ASSUME Fresh PROVE SumFunctionOnSet(P, Seqs) + Spare' <= freeSlots
    <3>1. SumFunctionOnSet(Pledged, Seqs) + admit <= freeSlots
      BY <1>1, <1>6, <1>8, <2>2 DEF PledgeInv
    <3>2. SumFunctionOnSet(P, Seqs) + (admit - c) <= freeSlots
      BY <1>8, <1>10, <1>15, <1>17, <3>1
    <3>3. QED BY <1>8, <1>10, <3>2
  <2>3. QED BY <1>3, <1>6, <1>11, <2>1, <2>2 DEF PledgeInv
<1>19. QED BY <1>6, <1>7, <1>18 DEF WindowInv

\* A request in replay was preempted, and still is after a step of the replay.
LEMMA ReplayRemembers ==
  ASSUME TypeOK, HandoffInv, NEW h \in Seqs, IsReplay(h), tokens[h] >= 1,
         \/ \E n : AdvanceReplay(h, n)
         \/ UNCHANGED <<cursor, checkpoint>>
  PROVE  HandoffInv' /\ ~Fresh'
<1>1. checkpoint \in [Seqs -> Nat] /\ cursor \in [Seqs -> Nat \cup {NoReplay}] /\ tokens[h] \in Nat
  BY DEF TypeOK, RequestTypes
<1>2. checkpoint[h] > 0
  BY DEF HandoffInv
<1>3. CASE UNCHANGED <<cursor, checkpoint>>
  BY <1>1, <1>2, <1>3 DEF HandoffInv, IsReplay, Fresh
<1>4. ASSUME NEW n, AdvanceReplay(h, n) PROVE HandoffInv' /\ ~Fresh'
  <2>1. /\ \A x \in Seqs : x # h => cursor'[x] = cursor[x] /\ checkpoint'[x] = checkpoint[x]
        /\ checkpoint'[h] \in {tokens[h], checkpoint[h]}
    BY <1>1, <1>4 DEF AdvanceReplay
  <2>2. checkpoint'[h] > 0
    BY <1>1, <1>2, <2>1
  <2>3. ~Fresh'
    BY <1>1, <2>1, <2>2 DEF Fresh
  <2>4. \A x \in Seqs : x # h => (IsReplay(x)' => checkpoint'[x] > 0)
    BY <2>1 DEF HandoffInv, IsReplay
  <2>5. QED BY <2>2, <2>3, <2>4 DEF HandoffInv
<1>5. QED BY <1>3, <1>4

\* A preemption is remembered; while none happened it was put off or refused.
LEMMA PreemptWindow ==
  ASSUME CoreInv, TypeOK', PoolInv', UNCHANGED engineVars, Preempts
  PROVE  WindowInv'
<1>1. /\ IInv /\ Parts /\ TypeOK /\ PoolInv /\ HandoffInv /\ CoverInv /\ PledgeInv /\ RowInv
      /\ NothingInFlight
  BY PartsOfInv DEF CoreInv, MemoryInv, IInv, SlotInv, WindowInv, KVInv
<1>2. PICK v, others : Victim(v, others)
  BY <1>1, VictimFacts
<1>3. /\ v \in Range(decoding) /\ Range(others) = Range(decoding) \ {v}
      /\ pc \in {"reserve", "prefill", "decode"} /\ scheduled = <<>> /\ skipped = <<>>
      /\ scheduled' = <<>> /\ isPrefill' = FALSE /\ ClearLocals
      /\ UNCHANGED <<tokens, inflight, memVars>>
      /\ DrainRequired(v, others) \/ RejectPreemption(v, others) \/ StartReplay(v, others)
  BY <1>2 DEF Victim, PreemptDecodeVictim
<1>4. \A x \in Range(decoding) : x \in Seqs /\ tokens[x] >= 1 /\ tokens[x] \in Nat
  <2>1. SUFFICES ASSUME NEW x \in Range(decoding) PROVE x \in Seqs /\ tokens[x] >= 1 /\ tokens[x] \in Nat
    OBVIOUS
  <2>2. x \in Seqs /\ tokens[x] \in Nat /\ inflight[x] = 0
    BY <1>1 DEF Parts, TypeOK, RequestTypes, NothingInFlight
  <2>3. Submitted(x) >= 1
    BY <1>1, <1>3 DEF RowInv, Broken, Decodes
  <2>4. QED BY <2>2, <2>3 DEF Submitted
<1>5. CASE StartReplay(v, others)
  <2>1. /\ cursor' = [cursor EXCEPT ![v] = 0] /\ pc' = "returned"
        /\ checkpoint' = [s \in Seqs |-> IF s \in Range(others) \/ s = v THEN tokens[s] ELSE checkpoint[s]]
    <3>1. tokens[v] > 0
      BY <1>3, <1>4
    <3>2. (tokens[v] > 0) = TRUE
      BY <3>1
    <3>3. QED BY <1>5, <3>1, <3>2 DEF StartReplay
  <2>2. checkpoint'[v] = tokens[v] /\ tokens[v] >= 1 /\ v \in Seqs
    BY <1>3, <1>4, <2>1
  <2>3. ~Fresh'
    BY <1>3, <1>4, <2>2 DEF Fresh
  <2>4. HandoffInv'
    <3>1. SUFFICES ASSUME NEW s \in Seqs, IsReplay(s)' PROVE checkpoint'[s] > 0
      BY DEF HandoffInv
    <3>2. CASE s \in Range(others) \/ s = v
      <4>1. checkpoint'[s] = tokens[s]
        BY <2>1, <3>2
      <4>2. s \in Range(decoding)
        BY <1>3, <3>2
      <4>3. QED BY <1>4, <4>1, <4>2
    <3>3. CASE ~(s \in Range(others) \/ s = v)
      <4>1. checkpoint'[s] = checkpoint[s] /\ cursor'[s] = cursor[s]
        BY <1>1, <2>1, <3>3 DEF TypeOK, RequestTypes
      <4>2. QED BY <1>1, <3>1, <4>1 DEF HandoffInv, IsReplay
    <3>4. QED BY <3>2, <3>3
  <2>5. QED BY <2>1, <2>3, <2>4 DEF WindowInv, CoverInv, PledgeInv, Spare
<1>6. CASE RejectPreemption(v, others)
  <2>1. UNCHANGED <<cursor, checkpoint>> /\ pc' = "raised"
    BY <1>6 DEF RejectPreemption, Raise
  <2>2. HandoffInv'
    BY <1>1, <2>1 DEF HandoffInv, IsReplay
  <2>3. QED BY <2>1, <2>2, BreakWindow
<1>7. CASE DrainRequired(v, others)
  <2>1. UNCHANGED <<cursor, checkpoint, prefilled, waiting>> /\ pc' = "drain"
    BY <1>7 DEF DrainRequired
  <2>2. skipped' = <<>> /\ Range(scheduled') = {}
    BY <1>3, EmptyFacts DEF ClearLocals
  <2>3. Chosen' = {} /\ Prefills' \subseteq Prefills /\ \A s \in Seqs : Written(s) = 0 /\ Written(s)' = 0
    BY <1>3, <2>1, <2>2 DEF Chosen, Prefills, Written
  <2>4. Shrinks
    BY <1>1, <1>3, <2>1, <2>3 DEF Shrinks, PoolInv
  <2>5. Renewed' = {}
    BY <2>1, NotRenewedNext DEF NoDecodeBatch
  <2>6. Quiet
    BY <1>3, <2>1, <2>5 DEF Quiet, Broken
  <2>7. QED BY <2>1, <2>4, <2>6, ShrinkWindow
<1>8. QED BY <1>3, <1>5, <1>6, <1>7

\* Every step of schedule() keeps the promises backed.
LEMMA SchedulingWindow ==
  ASSUME CoreInv, TypeOK', PoolInv', Scheduling
  PROVE  WindowInv'
<1>1. ScheduleStep /\ UNCHANGED engineVars
  BY DEF Scheduling
<1>2. CASE AcquireWindow
  BY <1>1, <1>2, AcquireWindowInv
<1>3. CASE Preempts
  BY <1>1, <1>3, PreemptWindow
<1>4. CASE StartPrefill \/ AffinityPrefill
  BY <1>1, <1>4, OpenPrefillWindow
<1>5. CASE StartAffinity
  BY <1>1, <1>5, StartAffinityWindow
<1>6. CASE \/ AffinityScan \/ PrefillSkip \/ PrefillDefer \/ NextBucket \/ StartDecode
           \/ DecodeRotate \/ DecodeTake \/ DecodeBlock
  BY <1>1, <1>6, ScanWindow
<1>7. CASE AffinityDecode \/ DecodeReturn
  BY <1>1, <1>7, ReturnDecodeWindow
<1>8. CASE PrefillReturn \/ NothingToRun
  BY <1>1, <1>8, EdgeWindow
<1>9. CASE PrefillTake
  BY <1>1, <1>9, PrefillTakeWindow
<1>10. QED
  BY <1>1, <1>2, <1>3, <1>4, <1>5, <1>6, <1>7, <1>8, <1>9 DEF ScheduleStep, Preempts
-----------------------------------------------------------------------------
(* The promises in the rest of a step *)

\* The run takes in advance what postprocessing will account for.
LEMMA RunWindow ==
  ASSUME CoreInv, TypeOK', PoolInv', RunModel
  PROVE  WindowInv'
<1>1. Parts /\ IInv /\ TypeOK /\ PoolInv /\ HandoffInv /\ CoverInv /\ PledgeInv /\ PledgeFacts
  BY PartsOfInv, PledgeTypes DEF CoreInv, MemoryInv, IInv, SlotInv, WindowInv
<1>2. PICK B, g, P : B = Range(scheduled) /\ g = [s \in Seqs |-> StepSlots(s)] /\ P = Pledged'
  OBVIOUS
<1>3. /\ pc = "returned" /\ pc' = "postprocess"
      /\ freeSlots' = freeSlots - SumFunctionOnSet(g, B)
      /\ UNCHANGED <<waiting, decoding, scheduled, skipped, isPrefill, chunk, prefilled, tokens, inflight,
                     cursor, checkpoint, resEnd>>
  BY <1>2 DEF RunModel, Allocate
<1>4. B \in SUBSET Seqs /\ \A s \in Seqs : g[s] = StepSlots(s) /\ StepSlots(s) \in Nat
  BY <1>1, <1>2 DEF Parts, StepSlots, TypeOK, RequestTypes
<1>5. Weights(g, B) /\ IsFiniteSet(B) /\ IsFiniteSet(Seqs) /\ SumFunctionOnSet(g, B) \in Int
  <2>1. Weights(g, B) /\ IsFiniteSet(B) /\ IsFiniteSet(Seqs)
    BY <1>1, <1>4, FS_Subset DEF Weights, PledgeFacts
  <2>2. QED BY <2>1, SumFacts
<1>6. (TypeOK /\ PoolInv => PledgeFacts)'
  BY PledgeTypes, PTL
<1>7. Weights(P, Seqs) /\ SumFunctionOnSet(P, Seqs) \in Int
  BY <1>2, <1>6 DEF PledgeFacts
<1>8. ASSUME NEW x \in Seqs
      PROVE  Pledged[x] = IF x \in B THEN P[x] + g[x] ELSE P[x]
  <2>1. Charge(x)' = Charge(x) /\ Unused'[x] = Unused[x]
    BY <1>3 DEF Charge, Prefills, Chosen, Remaining, Unused, Submitted
  <2>2. Written(x) = 0 /\ Written(x)' = IF x \in B THEN g[x] ELSE 0
    BY <1>2, <1>3, <1>4 DEF Written, StepSlots
  <2>3. Unused[x] \in Nat /\ Charge(x) \in Nat /\ g[x] \in Nat /\ Pledged[x] = Unused[x] + Charge(x) - Written(x)
    BY <1>1, <1>4 DEF PledgeFacts
  <2>4. P[x] = Unused'[x] + Charge(x)' - Written(x)'
    BY <1>2 DEF Pledged
  <2>5. PICK a, b : a = Unused[x] /\ b = Charge(x)
    OBVIOUS
  <2>6. a \in Nat /\ b \in Nat /\ g[x] \in Nat /\ Pledged[x] = a + b - 0
    BY <2>2, <2>3, <2>5
  <2>7. CASE x \in B
    <3>1. P[x] = a + b - g[x]
      BY <2>1, <2>2, <2>4, <2>5, <2>7
    <3>2. Pledged[x] = P[x] + g[x]
      BY <2>6, <3>1
    <3>3. QED BY <2>7, <3>2
  <2>8. CASE x \notin B
    <3>1. P[x] = a + b - 0
      BY <2>1, <2>2, <2>4, <2>5, <2>8
    <3>2. QED BY <2>6, <2>8, <3>1
  <2>9. QED BY <2>7, <2>8
<1>9. SumFunctionOnSet(Pledged, Seqs) = SumFunctionOnSet(P, Seqs) + SumFunctionOnSet(g, B)
  <2>1. (\A x \in B : Pledged[x] = P[x] + g[x]) /\ (\A x \in Seqs \ B : Pledged[x] = P[x])
    BY <1>4, <1>8
  <2>2. PICK Q : Q = Pledged
    OBVIOUS
  <2>3. /\ IsFiniteSet(Seqs) /\ B \in SUBSET Seqs /\ Weights(P, Seqs) /\ Weights(g, B)
        /\ (\A x \in B : Q[x] = P[x] + g[x]) /\ (\A x \in Seqs \ B : Q[x] = P[x])
    BY <1>4, <1>5, <1>7, <2>1, <2>2
  <2>4. SumFunctionOnSet(Q, Seqs) = SumFunctionOnSet(P, Seqs) + SumFunctionOnSet(g, B)
    BY <2>3, SumPlus
  <2>5. QED BY <2>2, <2>4
<1>10. HandoffInv' /\ Fresh' = Fresh /\ ~Broken /\ Spare = 0 /\ Spare' = 0
  BY <1>1, <1>3 DEF HandoffInv, IsReplay, Fresh, Broken, Spare
<1>11. CoverInv'
  <2>1. Renewed' = Renewed
    BY <1>3 DEF Renewed
  <2>2. QED BY <1>1, <1>3, <1>10, <2>1 DEF CoverInv, Covered, Submitted
<1>12. PledgeInv'
  <2>1. ASSUME Fresh PROVE SumFunctionOnSet(P, Seqs) + 0 <= freeSlots'
    <3>1. SumFunctionOnSet(Pledged, Seqs) + 0 <= freeSlots /\ freeSlots \in Nat
      BY <1>1, <1>10, <2>1 DEF PledgeInv, PoolInv
    <3>2. PICK a, b, c : a = SumFunctionOnSet(P, Seqs) /\ b = SumFunctionOnSet(g, B)
                         /\ c = SumFunctionOnSet(Pledged, Seqs)
      OBVIOUS
    <3>3. a \in Int /\ b \in Int /\ c = a + b /\ c + 0 <= freeSlots /\ freeSlots' = freeSlots - b
      BY <1>3, <1>5, <1>7, <1>9, <3>1, <3>2
    <3>4. a + 0 <= freeSlots'
      BY <3>1, <3>3
    <3>5. QED BY <3>2, <3>4
  <2>2. QED BY <1>2, <1>10, <2>1 DEF PledgeInv
<1>13. QED BY <1>10, <1>11, <1>12 DEF WindowInv

\* What each step of postprocessing leaves alone.
Accounts(h) ==
  /\ Due(h) /\ freeSlots' = freeSlots
  /\ \A x \in Seqs : x # h => prefilled'[x] = prefilled[x] /\ tokens'[x] = tokens[x]
  /\ \A x \in Seqs : x # h => (x \in Prefills' <=> x \in Prefills)

\* A request that gives back what was written in advance keeps the promises.
LEMMA PostWindow ==
  ASSUME CoreInv, TypeOK', PoolInv', NEW h, Accounts(h), HandoffInv',
         Fresh' => Fresh /\ Pledged'[h] <= Pledged[h]
  PROVE  WindowInv'
<1>1. Parts /\ TypeOK /\ PoolInv /\ CoverInv /\ PledgeInv /\ PledgeFacts
  BY PartsOfInv, PledgeTypes DEF CoreInv, MemoryInv, IInv, SlotInv, WindowInv
<1>2. /\ pc = "postprocess" /\ pc' = "postprocess" /\ h \in Seqs /\ h \in Range(scheduled)
      /\ Range(scheduled') = Range(scheduled) \ {h} /\ freeSlots' = freeSlots
      /\ UNCHANGED <<isPrefill, chunk, inflight, resEnd>>
  BY DEF Accounts, Due
<1>3. ~Broken /\ ~Broken' /\ Spare = 0 /\ Spare' = 0
  BY <1>2 DEF Broken, Spare
<1>4. CoverInv'
  <2>1. SUFFICES ASSUME Fresh', NEW x \in Renewed' PROVE Covered(x)'
    BY <1>2 DEF CoverInv
  <2>2. x \in Renewed /\ x \in Seqs /\ x # h
    BY <1>1, <1>2, <2>1 DEF Renewed, Parts
  <2>3. Covered(x)
    BY <1>1, <1>3, <2>1, <2>2 DEF CoverInv
  <2>4. QED BY <1>2, <2>2, <2>3 DEF Covered, Submitted, Accounts
<1>5. PledgeInv'
  <2>1. SUFFICES ASSUME Fresh' PROVE SumFunctionOnSet(Pledged, Seqs)' + 0 <= freeSlots
    BY <1>2, <1>3 DEF PledgeInv
  <2>2. PICK P : P = Pledged'
    OBVIOUS
  <2>3. ASSUME NEW x \in Seqs PROVE P[x] <= Pledged[x]
    <3>1. CASE x = h
      BY <2>1, <2>2, <3>1
    <3>2. CASE x # h
      <4>1. /\ prefilled'[x] = prefilled[x] /\ tokens'[x] = tokens[x] /\ (x \in Prefills' <=> x \in Prefills)
            /\ (x \in Range(scheduled') <=> x \in Range(scheduled))
        BY <1>2, <3>2 DEF Accounts
      <4>2. Charge(x)' = Charge(x)
        BY <1>2, <4>1 DEF Charge, Chosen, Remaining
      <4>3. Unused'[x] = Unused[x] /\ Written(x)' = Written(x)
        BY <1>2, <4>1 DEF Unused, Submitted, Written, StepSlots
      <4>4. P[x] = Pledged[x] /\ Pledged[x] \in Int
        BY <1>1, <2>2, <4>2, <4>3 DEF Pledged, PledgeFacts
      <4>5. QED BY <4>4
    <3>3. QED BY <3>1, <3>2
  <2>4. (TypeOK /\ PoolInv => PledgeFacts)'
    BY PledgeTypes, PTL
  <2>5. Weights(P, Seqs) /\ Weights(Pledged, Seqs) /\ IsFiniteSet(Seqs)
        /\ SumFunctionOnSet(P, Seqs) \in Int /\ SumFunctionOnSet(Pledged, Seqs) \in Int
    BY <1>1, <2>2, <2>4 DEF PledgeFacts
  <2>6. SumFunctionOnSet(P, Seqs) <= SumFunctionOnSet(Pledged, Seqs)
    <3>1. (\A x \in Seqs : P[x] <= Pledged[x]) /\ (\A x \in Seqs \ Seqs : 0 <= Pledged[x])
      BY <2>3
    <3>2. QED BY <2>5, <3>1, SumBelow
  <2>7. SumFunctionOnSet(Pledged, Seqs) + 0 <= freeSlots /\ freeSlots \in Nat
    BY <1>1, <1>3, <2>1 DEF PledgeInv, PoolInv
  <2>8. SumFunctionOnSet(P, Seqs) + 0 <= freeSlots
    BY <2>5, <2>6, <2>7
  <2>9. QED BY <2>2, <2>8
<1>6. QED BY <1>4, <1>5 DEF WindowInv

\* A chunk is accounted: the prompt owes less by what the run wrote.
LEMMA PartialWindow ==
  ASSUME CoreInv, TypeOK', PoolInv', PostPartialPrefill
  PROVE  WindowInv'
<1>1. MemInv({}) /\ TypeOK /\ PoolInv /\ HandoffInv /\ PledgeFacts
  BY PledgeTypes DEF CoreInv, MemoryInv, MemInv, IInv, SlotInv, WindowInv
<1>2. PICK h : h = Head(scheduled)
  OBVIOUS
<1>3. Due(h)
  BY <1>1, <1>2, HeadIsDue DEF PostPartialPrefill
<1>4. /\ isPrefill /\ UNCHANGED <<decoding, tokens, cursor, checkpoint, freeSlots>>
      /\ prefilled' = [prefilled EXCEPT ![h] = prefilled[h] + chunk[h]]
      /\ waiting' = <<h>> \o waiting
  BY <1>2 DEF PostPartialPrefill, PostTail
<1>5. h \in Seqs /\ Range(waiting') = Range(waiting) \cup {h}
  <2>1. h \in Seqs /\ waiting \in Seq(Seqs)
    BY <1>3 DEF Due, Parts
  <2>2. Range(<<h>> \o waiting) = Range(waiting) \cup {h}
    BY <2>1, PrependFacts
  <2>3. QED BY <1>4, <2>1, <2>2
<1>6. prefilled'[h] = prefilled[h] + chunk[h] /\ \A x \in Seqs : x # h => prefilled'[x] = prefilled[x]
  BY <1>1, <1>4, <1>5 DEF TypeOK, RequestTypes
<1>7. /\ h \in Prefills /\ h \in Chosen /\ h \in Prefills'
      /\ \A x \in Seqs : x # h => (x \in Prefills' <=> x \in Prefills)
  BY <1>3, <1>4, <1>5 DEF Due, Prefills, Chosen
<1>8. Accounts(h)
  BY <1>3, <1>4, <1>6, <1>7 DEF Accounts
<1>9. HandoffInv' /\ (Fresh' => Fresh)
  BY <1>1, <1>4 DEF HandoffInv, IsReplay, Fresh
<1>10. Pledged'[h] <= Pledged[h]
  <2>1. prefilled[h] \in Nat /\ chunk[h] \in Nat /\ chunk[h] >= 1 /\ PromptLen[h] \in Nat
    BY <1>3, <1>4 DEF Due
  <2>2. Charge(h) = PromptLen[h] - prefilled[h] /\ Written(h) = chunk[h]
    BY <1>3, <1>4, <1>7 DEF Charge, Remaining, Written, StepSlots, Due
  <2>3. Charge(h)' = PromptLen[h] - (prefilled[h] + chunk[h]) /\ Written(h)' = 0
    <3>1. prefilled'[h] > 0
      BY <1>6, <2>1
    <3>2. Charge(h)' = PromptLen[h] - prefilled'[h]
      BY <1>7, <3>1 DEF Charge, Remaining
    <3>3. QED BY <1>3, <1>6, <3>2 DEF Written, Due
  <2>4. Unused'[h] = Unused[h] /\ Unused[h] \in Nat
    BY <1>1, <1>3, <1>4, <1>5 DEF Unused, Submitted, Due, PledgeFacts
  <2>5. Pledged[h] = Unused[h] + Charge(h) - Written(h) /\ Pledged'[h] = Unused'[h] + Charge(h)' - Written(h)'
    BY <1>5 DEF Pledged
  <2>6. Pledged'[h] = Pledged[h] /\ Pledged[h] \in Int
    BY <2>1, <2>2, <2>3, <2>4, <2>5
  <2>7. QED BY <2>6
<1>11. QED BY <1>8, <1>9, <1>10, PostWindow

\* A request that sampled uses its window.
LEMMA SampleUses ==
  ASSUME TypeOK, PoolInv, PoolInv', NEW h, Due(h), AppendToken(h)
  PROVE  /\ Unused[h] \in Nat /\ Unused'[h] \in Nat /\ Unused'[h] <= Unused[h]
         /\ Submitted(h) < resEnd[h] => Unused'[h] = Unused[h] - 1
<1>1. /\ h \in Seqs /\ tokens[h] \in Nat /\ inflight[h] = 0 /\ inflight' = inflight /\ resEnd' = resEnd
      /\ resEnd[h] \in Nat
  BY DEF Due, PoolInv
<1>2. tokens'[h] = tokens[h] + 1
  BY <1>1 DEF AppendToken, TypeOK, RequestTypes
<1>3. Submitted(h) = tokens[h] /\ Submitted(h)' = tokens[h] + 1
  BY <1>1, <1>2 DEF Submitted
<1>4. Unused[h] = Positive(resEnd[h] - tokens[h]) /\ Unused'[h] = Positive(resEnd[h] - (tokens[h] + 1))
  BY <1>1, <1>3 DEF Unused
<1>5. QED BY <1>1, <1>3, <1>4 DEF Positive

\* The last chunk is accounted, and its sample uses the window, if there is one.
LEMMA LastWindow ==
  ASSUME CoreInv, TypeOK', PoolInv', PostLastPrefill
  PROVE  WindowInv'
<1>1. MemInv({}) /\ TypeOK /\ PoolInv /\ HandoffInv /\ PledgeFacts
  BY PledgeTypes DEF CoreInv, MemoryInv, MemInv, IInv, SlotInv, WindowInv
<1>2. PICK h : h = Head(scheduled)
  OBVIOUS
<1>3. Due(h)
  BY <1>1, <1>2, HeadIsDue DEF PostLastPrefill
<1>4. /\ isPrefill /\ LastChunk(h) /\ UNCHANGED <<waiting, freeSlots>>
      /\ prefilled' = [prefilled EXCEPT ![h] = prefilled[h] + chunk[h]]
      /\ \/ /\ IsReplay(h) /\ UNCHANGED tokens
            /\ AdvanceReplay(h, 0) \/ UNCHANGED <<cursor, checkpoint>>
         \/ ~IsReplay(h) /\ AppendToken(h) /\ UNCHANGED <<cursor, checkpoint>>
  BY <1>2 DEF PostLastPrefill, PostTail
<1>5. h \in Seqs
  BY <1>3 DEF Due
<1>6. \A x \in Seqs : x # h => prefilled'[x] = prefilled[x] /\ tokens'[x] = tokens[x]
  BY <1>1, <1>4, <1>5 DEF TypeOK, RequestTypes, AppendToken
<1>7. /\ h \in Prefills /\ h \in Chosen /\ h \notin Prefills'
      /\ \A x \in Seqs : x # h => (x \in Prefills' <=> x \in Prefills)
  BY <1>3, <1>4 DEF Due, Prefills, Chosen
<1>8. Accounts(h)
  BY <1>3, <1>4, <1>6, <1>7 DEF Accounts
<1>9. CASE IsReplay(h)
  <2>1. tokens[h] >= 1 /\ ((\E n : AdvanceReplay(h, n)) \/ UNCHANGED <<cursor, checkpoint>>)
    BY <1>3, <1>4, <1>9 DEF Due
  <2>2. HandoffInv' /\ ~Fresh'
    BY <1>1, <1>5, <1>9, <2>1, ReplayRemembers
  <2>3. QED BY <1>8, <2>2, PostWindow
<1>10. CASE ~IsReplay(h)
  <2>1. AppendToken(h) /\ HandoffInv' /\ (Fresh' => Fresh)
    BY <1>1, <1>4, <1>10 DEF HandoffInv, IsReplay, Fresh
  <2>2. prefilled[h] \in Nat /\ chunk[h] \in Nat /\ PromptLen[h] \in Nat /\ prefilled[h] + chunk[h] = PromptLen[h]
    BY <1>3, <1>4 DEF Due, LastChunk
  <2>3. Charge(h) = PromptLen[h] - prefilled[h] /\ Written(h) = chunk[h]
    BY <1>3, <1>4, <1>7 DEF Charge, Remaining, Written, StepSlots, Due
  <2>4. Charge(h)' = 0 /\ Written(h)' = 0
    BY <1>3, <1>7 DEF Charge, Written, Due
  <2>5. Unused[h] \in Nat /\ Unused'[h] \in Nat /\ Unused'[h] <= Unused[h]
    BY <1>1, <1>3, <2>1, SampleUses
  <2>6. Pledged[h] = Unused[h] + Charge(h) - Written(h) /\ Pledged'[h] = Unused'[h] + Charge(h)' - Written(h)'
    BY <1>5 DEF Pledged
  <2>7. Pledged[h] = Unused[h] /\ Pledged'[h] = Unused'[h]
    BY <2>2, <2>3, <2>4, <2>5, <2>6
  <2>8. Pledged'[h] <= Pledged[h]
    BY <2>5, <2>7
  <2>9. QED BY <1>8, <2>1, <2>8, PostWindow
<1>11. QED BY <1>9, <1>10

\* A decode that sampled used one slot of its window, the one the run took.
LEMMA DecodeWindow ==
  ASSUME CoreInv, TypeOK', PoolInv', PostDecode
  PROVE  WindowInv'
<1>1. MemInv({}) /\ TypeOK /\ PoolInv /\ HandoffInv /\ CoverInv /\ PledgeFacts /\ Parts
  BY PledgeTypes, PartsOfInv DEF CoreInv, MemoryInv, MemInv, IInv, SlotInv, WindowInv
<1>2. PICK h : h = Head(scheduled)
  OBVIOUS
<1>3. Due(h)
  BY <1>1, <1>2, HeadIsDue DEF PostDecode
<1>4. /\ ~isPrefill /\ UNCHANGED <<waiting, decoding, prefilled, freeSlots>>
      /\ \/ IsReplay(h) /\ AdvanceReplay(h, cursor[h] + 1) /\ UNCHANGED tokens
         \/ ~IsReplay(h) /\ AppendToken(h) /\ UNCHANGED <<cursor, checkpoint>>
  BY <1>2 DEF PostDecode, PostTail
<1>5. h \in Seqs /\ h \in Range(scheduled) /\ pc = "postprocess"
  BY <1>3 DEF Due
<1>6. \A x \in Seqs : x # h => prefilled'[x] = prefilled[x] /\ tokens'[x] = tokens[x]
  BY <1>1, <1>4, <1>5 DEF TypeOK, RequestTypes, AppendToken
<1>7. Prefills' = Prefills /\ Chosen = {} /\ Chosen' = {}
  BY <1>3, <1>4 DEF Due, Prefills, Chosen
<1>8. Accounts(h)
  BY <1>3, <1>4, <1>6, <1>7 DEF Accounts
<1>9. CASE IsReplay(h)
  <2>1. tokens[h] >= 1 /\ (\E n : AdvanceReplay(h, n))
    BY <1>3, <1>4, <1>9 DEF Due
  <2>2. HandoffInv' /\ ~Fresh'
    BY <1>1, <1>5, <1>9, <2>1, ReplayRemembers
  <2>3. QED BY <1>8, <2>2, PostWindow
<1>10. CASE ~IsReplay(h)
  <2>1. AppendToken(h) /\ HandoffInv' /\ (Fresh' => Fresh)
    BY <1>1, <1>4, <1>10 DEF HandoffInv, IsReplay, Fresh
  <2>2. ASSUME Fresh PROVE Pledged'[h] <= Pledged[h]
    <3>1. h \in Renewed /\ ~Broken
      BY <1>4, <1>5 DEF Renewed, Broken
    <3>2. Covered(h)
      BY <1>1, <2>2, <3>1 DEF CoverInv
    <3>3. Submitted(h) < MaxTokens[h]
      <4>1. tokens[h] < MaxTokens[h] /\ tokens[h] \in Nat /\ inflight[h] = 0
        BY <1>1, <1>3, <1>4, <1>5 DEF Parts, TokenInv, Due
      <4>2. QED BY <4>1 DEF Submitted
    <3>4. Submitted(h) < resEnd[h]
      BY <3>2, <3>3 DEF Covered
    <3>5. Unused[h] \in Nat /\ Unused'[h] = Unused[h] - 1
      BY <1>1, <1>3, <2>1, <3>4, SampleUses
    <3>6. Charge(h)' = Charge(h) /\ Charge(h) \in Nat
      BY <1>1, <1>4, <1>5, <1>7 DEF Charge, Remaining, PledgeFacts
    <3>7. Written(h) = 1 /\ Written(h)' = 0
      BY <1>3, <1>4 DEF Written, StepSlots, Due
    <3>8. Pledged[h] = Unused[h] + Charge(h) - Written(h) /\ Pledged'[h] = Unused'[h] + Charge(h)' - Written(h)'
      BY <1>5 DEF Pledged
    <3>9. Pledged[h] \in Int /\ Pledged'[h] = Pledged[h]
      BY <3>5, <3>6, <3>7, <3>8
    <3>10. QED BY <3>9
  <2>3. QED BY <1>8, <2>1, <2>2, PostWindow
<1>11. QED BY <1>9, <1>10

\* What steps with no batch out leave alone: the progress of every request, and
\* which half computed prompts wait.
Between ==
  /\ scheduled = <<>> /\ scheduled' = <<>> /\ skipped = <<>> /\ skipped' = <<>>
  /\ UNCHANGED <<prefilled, tokens, inflight, cursor, checkpoint>>
  /\ freeSlots' >= freeSlots /\ \A s \in Seqs : resEnd'[s] <= resEnd[s]
  /\ \A s \in Range(waiting') : s \in Range(waiting) \/ prefilled[s] = 0
  /\ pc \notin {"raised", "reclaim", "settle"} \/ pc' \in {"raised", "reclaim"}
  /\ pc' \notin {"reserve", "affinity", "prefill", "decode"}

\* Such a step keeps the promises backed.
LEMMA BetweenWindow ==
  ASSUME CoreInv, TypeOK', PoolInv', Between
  PROVE  WindowInv'
<1>1. Range(scheduled) = {} /\ Range(scheduled') = {} /\ Range(skipped) = {} /\ Range(skipped') = {}
  BY EmptyFacts DEF Between
<1>2. Chosen = {} /\ Chosen' = {} /\ Prefills = Range(waiting) /\ Prefills' = Range(waiting')
  BY <1>1 DEF Chosen, Prefills
<1>3. \A s \in Seqs : Written(s) = 0 /\ Written(s)' = 0
  BY <1>1 DEF Written
<1>4. \A s \in Prefills' : s \in Chosen' \/ prefilled[s] > 0 => s \in Prefills /\ (s \in Chosen \/ prefilled[s] > 0)
  BY <1>2 DEF Between
<1>5. Shrinks
  BY <1>3, <1>4 DEF Shrinks, Between
<1>6. Renewed' = {}
  BY NotRenewedNext DEF NoDecodeBatch, Between
<1>7. Quiet
  BY <1>6 DEF Quiet, Between, Broken
<1>8. QED BY <1>5, <1>7, ShrinkWindow DEF Between

\* A release takes no slot and opens no window, whether it succeeds or not.
LEMMA ReleaseShrinks ==
  ASSUME TypeOK, PoolInv, NEW s \in Seqs, ReleaseOk(s) \/ ReleaseFails(s) \/ UNCHANGED memVars
  PROVE  freeSlots' >= freeSlots /\ \A x \in Seqs : resEnd'[x] <= resEnd[x]
<1>1. freeSlots \in Nat /\ resEnd \in [Seqs -> Nat] /\ kv[s] \in Nat
  BY DEF PoolInv, TypeOK, RequestTypes
<1>2. FreeSeq(s) \/ UNCHANGED memVars
  BY DEF ReleaseOk, ReleaseFails
<1>3. CASE UNCHANGED memVars
  BY <1>1, <1>3
<1>4. CASE FreeSeq(s)
  <2>1. freeSlots' = freeSlots + kv[s] /\ resEnd' = [resEnd EXCEPT ![s] = 0]
    BY <1>4 DEF FreeSeq
  <2>2. QED BY <1>1, <2>1
<1>5. QED BY <1>2, <1>3, <1>4

\* A request that leaves the queues leaves the rest of waiting.
LEMMA DequeueShrinks ==
  ASSUME Parts, NEW s, Dequeue(s) \/ waiting' = waiting
  PROVE  Range(waiting') \subseteq Range(waiting)
<1>1. Range(Without(waiting, s)) = Range(waiting) \ {s}
  BY RemoveFacts DEF Parts, Without
<1>2. QED BY <1>1 DEF Dequeue

\* Steps that stop the driver, or happen after it stopped.
LEMMA StoppedWindow ==
  ASSUME CoreInv, pc' \in {"raised", "reclaim"}, UNCHANGED <<cursor, checkpoint>>
  PROVE  WindowInv'
<1>1. HandoffInv
  BY DEF CoreInv, WindowInv
<1>2. HandoffInv'
  BY <1>1 DEF HandoffInv, IsReplay
<1>3. QED BY <1>2, BreakWindow

\* Admission and cancellation.
LEMMA RequestWindow ==
  ASSUME CoreInv, TypeOK', PoolInv', NEW s \in Seqs, AdmitRequest(s) \/ AbortRequest(s)
  PROVE  WindowInv'
<1>1. Parts /\ TypeOK /\ PoolInv /\ ProgressInv
  BY PartsOfInv DEF CoreInv, MemoryInv, IInv, SlotInv, KVInv
<1>2. /\ pc \in {"idle", "raised"} /\ pc' = pc
      /\ UNCHANGED <<scheduled, skipped, prefilled, tokens, inflight, cursor, checkpoint>>
  BY DEF AdmitRequest, AbortRequest
<1>3. CASE pc = "raised"
  BY <1>2, <1>3, StoppedWindow
<1>4. CASE pc = "idle"
  <2>1. scheduled = <<>> /\ skipped = <<>>
    BY <1>1, <1>4 DEF Parts, CallInv
  <2>2. CASE AdmitRequest(s)
    <3>1. /\ status[s] = "NEW" /\ waiting' = Append(waiting, s) /\ UNCHANGED memVars
      BY <2>2 DEF AdmitRequest
    <3>2. Range(waiting') = Range(waiting) \cup {s}
      BY <1>1, <3>1, AppendFacts DEF Parts
    <3>3. prefilled[s] = 0
      BY <1>1, <3>1 DEF ProgressInv
    <3>4. freeSlots' >= freeSlots /\ \A x \in Seqs : resEnd'[x] <= resEnd[x]
      BY <1>1, <3>1, ReleaseShrinks
    <3>5. Between
      BY <1>2, <1>4, <2>1, <3>2, <3>3, <3>4 DEF Between
    <3>6. QED BY <3>5, BetweenWindow
  <2>3. CASE AbortRequest(s)
    <3>1. /\ ReleaseOk(s) \/ ReleaseFails(s) \/ UNCHANGED memVars
          /\ Dequeue(s) \/ waiting' = waiting
      BY <2>3 DEF AbortRequest
    <3>2. freeSlots' >= freeSlots /\ \A x \in Seqs : resEnd'[x] <= resEnd[x]
      BY <1>1, <3>1, ReleaseShrinks
    <3>3. Range(waiting') \subseteq Range(waiting)
      BY <1>1, <3>1, DequeueShrinks
    <3>4. Between
      BY <1>2, <1>4, <2>1, <3>2, <3>3 DEF Between
    <3>5. QED BY <3>4, BetweenWindow
  <2>4. QED BY <2>2, <2>3
<1>5. QED BY <1>2, <1>3, <1>4

\* The ends of a step: nothing was scheduled, or what finished is released.
LEMMA EndWindow ==
  ASSUME CoreInv, TypeOK', PoolInv', StepWithoutBatch \/ StartRelease \/ ReleaseFinished \/ StepDone
  PROVE  WindowInv'
<1>1. Parts /\ TypeOK /\ PoolInv
  BY PartsOfInv DEF CoreInv, MemoryInv, IInv, SlotInv
<1>2. /\ UNCHANGED <<scheduled, skipped, prefilled, tokens, inflight, cursor, checkpoint>>
      /\ pc \in {"returned", "postprocess", "release"} /\ pc' \in {"idle", "raised", "release"}
      /\ pc # "release" => scheduled = <<>>
  BY DEF StepWithoutBatch, StartRelease, ReleaseFinished, StepDone, Raise
<1>3. scheduled = <<>> /\ skipped = <<>>
  BY <1>1, <1>2 DEF Parts, CallInv
<1>4. /\ freeSlots' >= freeSlots /\ \A x \in Seqs : resEnd'[x] <= resEnd[x]
      /\ Range(waiting') \subseteq Range(waiting)
  <2>1. CASE UNCHANGED <<memVars, waiting>>
    BY <1>1, <2>1 DEF PoolInv
  <2>2. ASSUME NEW s \in Seqs, ReleaseOk(s) \/ ReleaseFails(s), Dequeue(s) \/ waiting' = waiting
        PROVE  /\ freeSlots' >= freeSlots /\ \A x \in Seqs : resEnd'[x] <= resEnd[x]
               /\ Range(waiting') \subseteq Range(waiting)
    BY <1>1, <2>2, ReleaseShrinks, DequeueShrinks
  <2>3. CASE StepWithoutBatch /\ preempted # None
    <3>1. preempted \in Seqs
      BY <1>1, <2>3 DEF TypeOK, CallTypes
    <3>2. (ReleaseOk(preempted) \/ ReleaseFails(preempted)) /\ waiting' = waiting
      BY <2>3 DEF StepWithoutBatch
    <3>3. QED BY <2>2, <3>1, <3>2
  <2>4. CASE ReleaseFinished
    <3>1. Head(finished) \in Seqs
      BY <1>1, <2>4, HeadTailFacts DEF ReleaseFinished, Parts
    <3>2. /\ ReleaseOk(Head(finished)) \/ ReleaseFails(Head(finished))
          /\ Dequeue(Head(finished)) \/ waiting' = waiting
      BY <2>4 DEF ReleaseFinished
    <3>3. QED BY <2>2, <3>1, <3>2
  <2>5. QED
    BY <2>1, <2>3, <2>4 DEF StepWithoutBatch, StartRelease, StepDone
<1>5. Between
  BY <1>2, <1>3, <1>4 DEF Between
<1>6. QED BY <1>5, BetweenWindow

\* Every step of the synchronous engine keeps the promises backed.
LEMMA NextWindow ==
  ASSUME CoreInv, TypeOK', PoolInv', Next
  PROVE  WindowInv'
<1>1. ASSUME NEW s \in Seqs, AdmitRequest(s) \/ AbortRequest(s) PROVE WindowInv'
  BY <1>1, RequestWindow
<1>2. CASE StepSync
  BY <1>2, EdgeWindow
<1>3. CASE Scheduling
  BY <1>3, SchedulingWindow
<1>4. CASE StepWithoutBatch \/ StartRelease \/ ReleaseFinished \/ StepDone
  BY <1>4, EndWindow
<1>5. CASE RunModel
  BY <1>5, RunWindow
<1>6. CASE StepRefused \/ HookFault \/ RunModelFails \/ ReclaimOne \/ ReclaimDone
  <2>1. pc' \in {"raised", "reclaim"} /\ UNCHANGED <<cursor, checkpoint>>
    BY <1>6 DEF StepRefused, HookFault, PrefillHookFails, RunModelFails, ReclaimOne, ReclaimDone, Raise
  <2>2. QED BY <2>1, StoppedWindow
<1>7. CASE PostPartialPrefill
  BY <1>7, PartialWindow
<1>8. CASE PostLastPrefill
  BY <1>8, LastWindow
<1>9. CASE PostDecode
  BY <1>9, DecodeWindow
<1>10. QED
  BY <1>1, <1>2, <1>3, <1>4, <1>5, <1>6, <1>7, <1>8, <1>9 DEF Next, Driver, SyncStep

\* Nothing is promised before the first request.
LEMMA InitWindow == Init => WindowInv
<1>1. SUFFICES ASSUME Init PROVE WindowInv
  OBVIOUS
<1>2. IInv /\ PoolInv
  BY <1>1, InitInv, InitSlots DEF SlotInv
<1>3. /\ pc = "idle" /\ waiting = <<>> /\ freeSlots = NumSlots /\ NumSlots \in Nat
      /\ resEnd = [s \in Seqs |-> 0] /\ tokens = [s \in Seqs |-> 0] /\ inflight = [s \in Seqs |-> 0]
      /\ cursor = [s \in Seqs |-> NoReplay] /\ prefilled = [s \in Seqs |-> 0]
  BY <1>1, SchedulerAssumption DEF Init
<1>4. HandoffInv
  BY <1>3 DEF HandoffInv, IsReplay
<1>5. CoverInv
  BY <1>3, NotRenewed DEF CoverInv, NoDecodeBatch
<1>6. Outstanding + ReservedPrefill = 0
  <2>1. \A s \in Seqs : Unused[s] = 0
    BY <1>3 DEF Unused, Submitted, Positive
  <2>2. {s \in Range(waiting) : prefilled[s] \in 1..(PromptLen[s] - 1)} = {}
    BY <1>3, EmptyFacts
  <2>3. PICK g, u : g = [s \in Seqs |-> Remaining(s)] /\ u = Unused
    OBVIOUS
  <2>4. {} \in SUBSET Seqs /\ Weights(u, {}) /\ Weights(g, {}) /\ IsFiniteSet({}) /\ IsFiniteSet(Seqs)
    BY FS_EmptySet, SchedulerAssumption DEF Weights
  <2>5. SumFunctionOnSet(u, Seqs) = SumFunctionOnSet(u, {})
    <3>1. (\A x \in {} : u[x] = u[x]) /\ (\A x \in Seqs \ {} : u[x] = 0)
      BY <2>1, <2>3
    <3>2. QED BY <2>4, <3>1, SumSupport
  <2>6. SumFunctionOnSet(u, {}) = 0 /\ SumFunctionOnSet(g, {}) = 0
    BY <2>4, SumFacts
  <2>7. Outstanding = 0 /\ ReservedPrefill = 0
    BY <2>2, <2>3, <2>5, <2>6 DEF Outstanding, ReservedPrefill
  <2>8. QED BY <2>7
<1>7. SumFunctionOnSet(Pledged, Seqs) = 0
  BY <1>2, <1>3, <1>6, PledgedBetween
<1>8. PledgeInv
  BY <1>3, <1>7 DEF PledgeInv, Spare
<1>9. QED BY <1>4, <1>5, <1>8 DEF WindowInv

\* A step that changes no variable keeps the promises.
LEMMA StutterWindow == ASSUME WindowInv, UNCHANGED vars PROVE WindowInv'
<1>1. UNCHANGED <<waiting, decoding, scheduled, skipped, pc, error, isPrefill, resEnd, prefilled, tokens, cursor,
                  inflight, chunk, checkpoint, freeSlots, admit, scan, failure>>
  BY DEF vars, schedVars
<1>2. Prefills' = Prefills /\ Chosen' = Chosen /\ Renewed' = Renewed
  BY <1>1 DEF Prefills, Chosen, Renewed, Decodes
<1>3. Pledged' = Pledged
  <2>1. \A s : Charge(s)' = Charge(s) /\ Written(s)' = Written(s)
    BY <1>1, <1>2 DEF Charge, Remaining, Written, StepSlots
  <2>2. Unused' = Unused
    BY <1>1 DEF Unused, Submitted
  <2>3. QED BY <2>1, <2>2 DEF Pledged
<1>4. HandoffInv' /\ CoverInv'
  BY <1>1, <1>2 DEF WindowInv, HandoffInv, IsReplay, CoverInv, Fresh, Broken, Covered, Submitted
<1>5. PledgeInv'
  <2>1. SumFunctionOnSet(Pledged, Seqs)' = SumFunctionOnSet(Pledged, Seqs)
    BY <1>3
  <2>2. QED BY <1>1, <2>1 DEF WindowInv, PledgeInv, Fresh, Broken, Spare
<1>6. QED BY <1>4, <1>5 DEF WindowInv

-----------------------------------------------------------------------------
(* The prompts that were started *)

\* Prompts are naturals, and so are their sums.
StartedFacts ==
  /\ \A s \in Seqs : Started[s] = (IF Underway(s) THEN PromptLen[s] ELSE 0) /\ Started[s] \in Nat
  /\ Weights(Started, Seqs) /\ SumFunctionOnSet(Started, Seqs) \in Nat

\* In every state.
LEMMA StartedTypes == StartedFacts
<1>1. \A s \in Seqs : Started[s] = (IF Underway(s) THEN PromptLen[s] ELSE 0) /\ Started[s] \in Nat
  BY SchedulerAssumption DEF Started
<1>2. IsFiniteSet(Seqs) /\ Weights(Started, Seqs)
  BY <1>1, SchedulerAssumption DEF Weights
<1>3. SumFunctionOnSet(Started, Seqs) \in Nat
  BY <1>1, <1>2, SumNat
<1>4. QED BY <1>1, <1>2, <1>3 DEF StartedFacts

\* A prompt counted after the step was counted before it.
NoneStarts == (~Broken' => ~Broken) /\ (~Broken' => \A s \in Seqs : Underway(s)' => Underway(s))

\* The prompts of such a step are no more than before.
LEMMA StartedShrinks ==
  ASSUME NoneStarts, ~Broken'
  PROVE  SumFunctionOnSet(Started, Seqs)' <= SumFunctionOnSet(Started, Seqs)
<1>1. StartedFacts /\ StartedFacts'
  BY StartedTypes, PTL
<1>2. PICK P : P = Started'
  OBVIOUS
<1>3. ASSUME NEW s \in Seqs PROVE P[s] <= Started[s]
  <2>1. P[s] = (IF Underway(s)' THEN PromptLen[s] ELSE 0) /\ Started[s] = (IF Underway(s) THEN PromptLen[s] ELSE 0)
    BY <1>1, <1>2 DEF StartedFacts
  <2>2. (Underway(s)' => Underway(s)) /\ PromptLen[s] \in Nat
    BY SchedulerAssumption DEF NoneStarts
  <2>3. CASE Underway(s)'
    BY <2>1, <2>2, <2>3
  <2>4. CASE ~Underway(s)'
    BY <2>1, <2>2, <2>4
  <2>5. QED BY <2>3, <2>4
<1>4. Weights(P, Seqs) /\ Weights(Started, Seqs) /\ IsFiniteSet(Seqs)
  BY <1>1, <1>2, SchedulerAssumption DEF StartedFacts
<1>5. SumFunctionOnSet(P, Seqs) <= SumFunctionOnSet(Started, Seqs)
  <2>1. (\A x \in Seqs : P[x] <= Started[x]) /\ (\A x \in Seqs \ Seqs : 0 <= Started[x])
    BY <1>3
  <2>2. QED BY <1>4, <2>1, SumBelow
<1>6. QED BY <1>2, <1>5

\* A step that starts no prompt and admits nothing more keeps them fitting.
LEMMA NoneStartsFits ==
  ASSUME FitInv, NoneStarts, pc' # "prefill" \/ (pc = "prefill" /\ admit' = admit)
  PROVE  FitInv'
<1>1. PICK a, b : a = Spare /\ b = Spare'
  OBVIOUS
<1>2. a \in Nat /\ b \in Nat /\ b <= a
  BY <1>1 DEF FitInv, Spare
<1>3. SUFFICES ASSUME ~Broken' PROVE SumFunctionOnSet(Started, Seqs)' + b <= NumSlots
  BY <1>1, <1>2 DEF FitInv
<1>4. PICK p, q : p = SumFunctionOnSet(Started, Seqs) /\ q = SumFunctionOnSet(Started, Seqs)'
  OBVIOUS
<1>5. p \in Nat /\ q \in Nat /\ NumSlots \in Nat
  <2>1. StartedFacts /\ StartedFacts'
    BY StartedTypes, PTL
  <2>2. QED BY <1>4, <2>1, SchedulerAssumption DEF StartedFacts
<1>6. q <= p
  BY <1>3, <1>4, StartedShrinks
<1>7. p + a <= NumSlots
  BY <1>1, <1>3, <1>4 DEF FitInv, NoneStarts
<1>8. q + b <= NumSlots
  BY <1>2, <1>5, <1>6, <1>7
<1>9. QED BY <1>4, <1>8

\* Moving requests between queues of one kind keeps the prompts.
LEMMA MovesPrompts ==
  ASSUME PromptInv, FitInv, Moves, pc' # "prefill" \/ (pc = "prefill" /\ admit' = admit)
  PROVE  PromptInv' /\ FitInv'
<1>1. /\ UNCHANGED <<prefilled, resEnd, pendingReleases, preempted>> /\ ~Broken
      /\ Prefills' = Prefills /\ Chosen' \subseteq Chosen
  BY DEF Moves, Untouched
<1>2. PromptInv'
  BY <1>1 DEF PromptInv
<1>3. NoneStarts
  BY <1>1 DEF NoneStarts, Underway
<1>4. QED BY <1>2, <1>3, NoneStartsFits

\* A window is taken for a decode, never for a prompt.
LEMMA AcquirePrompts ==
  ASSUME IInv, PoolInv, PromptInv, FitInv, AcquireWindow, UNCHANGED engineVars
  PROVE  PromptInv' /\ FitInv'
<1>1. Parts
  BY PartsOfInv
<1>2. /\ UNCHANGED <<waiting, skipped, scheduled, pc, error, isPrefill, prefilled, preempted, pendingReleases>>
      /\ pc = "reserve" /\ scan \in 1..Len(decoding)
      /\ \A s \in Seqs : s # decoding[scan] => resEnd'[s] = resEnd[s]
  BY <1>1 DEF AcquireWindow, Parts, TypeOK, CallTypes, PoolInv
<1>3. decoding[scan] \in Range(decoding)
  BY <1>1, <1>2 DEF Parts, Range
<1>4. Prefills' = Prefills /\ Chosen' = Chosen /\ decoding[scan] \notin Prefills /\ Prefills \subseteq Seqs
  BY <1>1, <1>2, <1>3 DEF Prefills, Chosen, Parts, OwnedOnce, Popped
<1>5. PromptInv'
  BY <1>2, <1>4 DEF PromptInv, Broken
<1>6. NoneStarts
  BY <1>2, <1>4 DEF NoneStarts, Underway, Broken
<1>7. QED BY <1>2, <1>5, <1>6, NoneStartsFits

\* A victim starts its prompt again, from nothing.
LEMMA PreemptPrompts ==
  ASSUME NEW X, MemInv(X), PromptInv, FitInv, Preempts, UNCHANGED engineVars
  PROVE  PromptInv' /\ FitInv'
<1>1. Parts /\ IInv /\ pendingReleases = {} /\ preempted = None
  <2>1. pc \in {"reserve", "affinity", "prefill", "decode"}
    BY DEF Preempts, PreemptUnreserved, PreemptSoleUnreserved, DecodePreempt, Acquired, PrefillOver, InDecode
  <2>2. QED BY <2>1, PartsOfInv, InsideCall DEF MemInv
<1>2. PICK v, others : Victim(v, others)
  BY <1>1, VictimFacts
<1>3. /\ v \in Range(decoding) /\ pc \in {"reserve", "prefill", "decode"} /\ scheduled = <<>> /\ skipped = <<>>
      /\ scheduled' = <<>> /\ skipped' = <<>> /\ resEnd' = resEnd /\ pendingReleases' = pendingReleases
      /\ DrainRequired(v, others) \/ RejectPreemption(v, others) \/ StartReplay(v, others)
  BY <1>2 DEF Victim, PreemptDecodeVictim, ClearLocals
<1>4. Range(scheduled) = {} /\ Range(scheduled') = {} /\ Range(skipped) = {} /\ Range(skipped') = {}
  BY <1>3, EmptyFacts
<1>5. /\ Chosen = {} /\ Chosen' = {} /\ Prefills = Range(waiting) /\ Prefills' = Range(waiting')
      /\ ~Broken /\ Prefills \subseteq Seqs /\ v \in Seqs
  BY <1>1, <1>3, <1>4 DEF Chosen, Prefills, Broken, Parts
<1>6. CASE DrainRequired(v, others) \/ RejectPreemption(v, others)
  <2>1. UNCHANGED <<waiting, prefilled, preempted>> /\ pc' \in {"drain", "raised"}
    BY <1>6 DEF DrainRequired, RejectPreemption, Raise
  <2>2. PromptInv'
    BY <1>3, <1>5, <2>1 DEF PromptInv
  <2>3. NoneStarts
    BY <1>5, <2>1 DEF NoneStarts, Underway
  <2>4. QED BY <2>1, <2>2, <2>3, NoneStartsFits
<1>7. CASE StartReplay(v, others)
  <2>1. /\ waiting' = Append(waiting, v) /\ prefilled' = [prefilled EXCEPT ![v] = 0] /\ preempted' = v
        /\ pc' = "returned"
    BY <1>7 DEF StartReplay
  <2>2. Prefills' = Prefills \cup {v}
    BY <1>1, <1>5, <2>1, AppendFacts DEF Parts
  <2>3. prefilled'[v] = 0 /\ PromptLen[v] > 0 /\ \A s \in Seqs : s # v => prefilled'[s] = prefilled[s]
    <3>1. PromptLen[v] \in Nat \ {0}
      BY <1>5, SchedulerAssumption
    <3>2. prefilled \in [Seqs -> Nat]
      BY <1>1 DEF Parts, TypeOK, RequestTypes
    <3>3. QED BY <1>5, <2>1, <3>1, <3>2
  <2>4. None \notin Prefills
    BY <1>5, SchedulerAssumption
  <2>5. PromptInv'
    <3>1. \A s \in Prefills' : prefilled'[s] < PromptLen[s]
      BY <1>5, <2>2, <2>3 DEF PromptInv
    <3>2. \A s \in Prefills' : resEnd'[s] = 0 \/ s = preempted'
      BY <1>1, <1>3, <1>5, <2>1, <2>2, <2>4 DEF PromptInv
    <3>3. QED BY <3>1, <3>2 DEF PromptInv
  <2>6. NoneStarts
    <3>1. ASSUME NEW s \in Seqs, Underway(s)' PROVE Underway(s)
      BY <1>5, <2>2, <2>3, <3>1 DEF Underway
    <3>2. QED BY <1>5, <3>1 DEF NoneStarts
  <2>7. QED BY <2>1, <2>5, <2>6, NoneStartsFits
<1>8. QED BY <1>3, <1>6, <1>7

\* Between batches a prompt that was started is the row it has filled and what
\* reserved_prefill counts.
LEMMA StartedBetween ==
  ASSUME NEW X, MemInv(X), PoolInv, PromptInv, pc \in {"reserve", "affinity"}
  PROVE  /\ SumFunctionOnSet(Started, Seqs) <= SumFunctionOnSet(kv, Seqs) + ReservedPrefill
         /\ ReservedPrefill \in Nat
<1>1. Parts /\ TypeOK /\ RowInv /\ DebtInv /\ pendingReleases = {} /\ preempted = None
  BY PartsOfInv, InsideCall DEF MemInv, IInv, KVInv
<1>2. skipped = <<>> /\ Range(skipped) = {}
  BY <1>1, EmptyFacts DEF Parts, CallInv
<1>3. Prefills = Range(waiting) /\ Chosen = {} /\ Range(waiting) \subseteq Seqs
  BY <1>1, <1>2 DEF Prefills, Chosen, Parts
<1>4. ASSUME NEW s \in Range(waiting) PROVE kv[s] = prefilled[s] /\ prefilled[s] < PromptLen[s]
  <2>1. s \in Prefills /\ s \notin releaseFailed /\ s # preempted /\ Written(s) = 0 /\ ~Broken
    BY <1>1, <1>3, SchedulerAssumption DEF DebtInv, Written, Broken
  <2>2. kv[s] = prefilled[s] + 0
    BY <1>1, <2>1 DEF RowInv
  <2>3. prefilled[s] \in Nat
    BY <1>1, <1>3 DEF TypeOK, RequestTypes
  <2>4. QED BY <2>1, <2>2, <2>3 DEF PromptInv
<1>5. PICK g, B : /\ g = [s \in Seqs |-> Remaining(s)]
                  /\ B = {s \in Range(waiting) : prefilled[s] \in 1..(PromptLen[s] - 1)}
  OBVIOUS
<1>6. /\ B \in SUBSET Seqs /\ IsFiniteSet(Seqs) /\ IsFiniteSet(B) /\ Weights(kv, Seqs) /\ kv \in [Seqs -> Nat]
      /\ prefilled \in [Seqs -> Nat]
  BY <1>1, <1>3, <1>5, PoolFacts, FS_Subset DEF TypeOK, RequestTypes
<1>7. \A s \in Seqs : g[s] = PromptLen[s] - prefilled[s] /\ g[s] \in Nat
  BY <1>1, <1>5, SchedulerAssumption DEF Remaining, TypeOK, RequestTypes
<1>8. PICK h : h = [s \in Seqs |-> IF s \in B THEN kv[s] + g[s] ELSE kv[s]]
  OBVIOUS
<1>9. /\ (\A x \in B : h[x] = kv[x] + g[x]) /\ (\A x \in Seqs \ B : h[x] = kv[x])
      /\ Weights(g, B) /\ Weights(h, Seqs) /\ \A x \in Seqs : h[x] \in Nat
  <2>1. (\A x \in B : h[x] = kv[x] + g[x]) /\ (\A x \in Seqs \ B : h[x] = kv[x])
    BY <1>6, <1>8
  <2>2. \A x \in Seqs : h[x] \in Nat
    BY <1>6, <1>7, <1>8
  <2>3. QED BY <1>6, <1>7, <2>1, <2>2 DEF Weights
<1>10. SumFunctionOnSet(h, Seqs) = SumFunctionOnSet(kv, Seqs) + SumFunctionOnSet(g, B)
  BY <1>6, <1>9, SumPlus
<1>11. ASSUME NEW s \in Seqs PROVE Started[s] <= h[s]
  <2>1. Started[s] = (IF Underway(s) THEN PromptLen[s] ELSE 0) /\ Started[s] \in Nat
    BY StartedTypes DEF StartedFacts
  <2>2. CASE Underway(s)
    <3>1. s \in Range(waiting) /\ prefilled[s] > 0
      BY <1>3, <2>2 DEF Underway
    <3>2. kv[s] = prefilled[s] /\ prefilled[s] < PromptLen[s] /\ prefilled[s] \in Nat /\ PromptLen[s] \in Nat
      BY <1>4, <1>6, <3>1, SchedulerAssumption
    <3>3. s \in B
      BY <1>5, <3>1, <3>2
    <3>4. h[s] = prefilled[s] + (PromptLen[s] - prefilled[s])
      BY <1>7, <1>9, <3>2, <3>3
    <3>5. QED BY <2>1, <2>2, <3>2, <3>4
  <2>3. CASE ~Underway(s)
    BY <1>9, <2>1, <2>3
  <2>4. QED BY <2>2, <2>3
<1>12. SumFunctionOnSet(Started, Seqs) <= SumFunctionOnSet(h, Seqs)
  <2>1. (\A x \in Seqs : Started[x] <= h[x]) /\ (\A x \in Seqs \ Seqs : 0 <= h[x]) /\ Weights(Started, Seqs)
    BY <1>11, StartedTypes DEF StartedFacts
  <2>2. QED BY <1>6, <1>9, <2>1, SumBelow
<1>13. SumFunctionOnSet(g, B) \in Nat
  <2>1. \A x \in B : g[x] \in Nat
    BY <1>6, <1>7
  <2>2. QED BY <1>6, <1>9, <2>1, SumNat
<1>14. ReservedPrefill = SumFunctionOnSet(g, B)
  BY <1>5 DEF ReservedPrefill
<1>15. QED BY <1>10, <1>12, <1>13, <1>14

\* What the scan may admit fits beside the prompts that were started.
LEMMA OpenPrompts ==
  ASSUME NEW X, MemInv(X), PoolInv, PromptInv, FitInv, UNCHANGED engineVars, StartPrefill \/ AffinityPrefill
  PROVE  PromptInv' /\ FitInv'
<1>1. Moves /\ TypeOK
  BY StartPrefillMoves DEF MemInv, IInv
<1>2. /\ pc' = "prefill" /\ pc \in {"reserve", "affinity"} /\ UNCHANGED error
      /\ admit' = Positive(freeSlots - ReservedPrefill - Outstanding)
  BY DEF StartPrefill, AffinityPrefill, OpenPrefill, Acquired
<1>3. /\ UNCHANGED <<prefilled, resEnd, pendingReleases, preempted>> /\ ~Broken
      /\ Prefills' = Prefills /\ Chosen' \subseteq Chosen
  BY <1>1 DEF Moves, Untouched
<1>4. PromptInv'
  BY <1>3 DEF PromptInv
<1>5. NoneStarts /\ ~Broken'
  BY <1>2, <1>3 DEF NoneStarts, Underway, Broken
<1>6. PICK p, q, o, r, k : /\ p = SumFunctionOnSet(Started, Seqs) /\ q = SumFunctionOnSet(Started, Seqs)'
                           /\ o = Outstanding /\ r = ReservedPrefill /\ k = SumFunctionOnSet(kv, Seqs)
  OBVIOUS
<1>7. q <= p /\ p \in Nat /\ q \in Nat
  <2>1. StartedFacts /\ StartedFacts'
    BY StartedTypes, PTL
  <2>2. QED BY <1>5, <1>6, <2>1, StartedShrinks DEF StartedFacts
<1>8. p <= k + r /\ r \in Nat /\ o \in Nat /\ k \in Int /\ freeSlots \in Nat /\ NumSlots \in Nat
      /\ freeSlots + k = NumSlots
  BY <1>1, <1>2, <1>6, StartedBetween, OutstandingNat, PoolFacts
<1>9. p <= NumSlots
  <2>1. p + Spare <= NumSlots /\ Spare = 0
    BY <1>2, <1>3, <1>6 DEF FitInv, Spare
  <2>2. QED BY <1>7, <2>1
<1>10. PICK a : a = admit'
  OBVIOUS
<1>11. a \in Nat /\ q + a <= NumSlots
  <2>1. a = Positive(freeSlots - r - o)
    BY <1>2, <1>6, <1>10
  <2>2. CASE freeSlots - r - o > 0
    <3>1. a = freeSlots - r - o
      BY <2>1, <2>2 DEF Positive
    <3>2. QED BY <1>7, <1>8, <2>2, <3>1
  <2>3. CASE ~(freeSlots - r - o > 0)
    <3>1. a = 0
      BY <2>1, <2>3 DEF Positive
    <3>2. QED BY <1>7, <1>8, <1>9, <3>1
  <2>4. QED BY <2>2, <2>3
<1>12. FitInv'
  <2>1. Spare' = a
    BY <1>2, <1>10 DEF Spare
  <2>2. QED BY <1>6, <1>11, <2>1 DEF FitInv
<1>13. QED BY <1>4, <1>12

\* A first chunk counts its whole prompt, out of what the scan may admit.
LEMMA TakePrompts ==
  ASSUME NEW X, MemInv(X), PromptInv, FitInv, UNCHANGED engineVars, PrefillTake
  PROVE  PromptInv' /\ FitInv'
<1>1. Parts /\ TypeOK /\ StartedFacts /\ pendingReleases = {} /\ preempted = None
  <2>1. pc = "prefill"
    BY DEF PrefillTake, InBucket
  <2>2. QED BY <2>1, PartsOfInv, StartedTypes, InsideCall DEF MemInv, IInv
<1>2. PICK s : s = Head(waiting)
  OBVIOUS
<1>3. /\ pc = "prefill" /\ pc' = "prefill" /\ waiting # <<>>
      /\ waiting' = Tail(waiting) /\ scheduled' = Append(scheduled, s)
      /\ prefilled[s] = 0 => PromptLen[s] <= admit
      /\ admit' = IF prefilled[s] = 0 THEN admit - PromptLen[s] ELSE admit
      /\ UNCHANGED <<skipped, isPrefill, prefilled, resEnd, error, preempted>>
  BY <1>2 DEF PrefillTake, InBucket, CanContinuePrefillBatch, AdmissionFits
<1>4. s \in Seqs /\ s \in Range(waiting) /\ Range(waiting') = Range(waiting) \ {s}
      /\ Range(scheduled') = Range(scheduled) \cup {s}
  <2>1. /\ Head(waiting) \in Seqs /\ Head(waiting) \in Range(waiting)
        /\ Range(Tail(waiting)) = Range(waiting) \ {Head(waiting)}
    BY <1>1, <1>3, HeadTailFacts DEF Parts
  <2>2. Range(Append(scheduled, s)) = Range(scheduled) \cup {s}
    BY <1>1, <1>2, <2>1, AppendFacts DEF Parts
  <2>3. QED BY <1>2, <1>3, <2>1, <2>2
<1>5. Chosen' = Chosen \cup {s} /\ Prefills' = Prefills /\ s \in Prefills /\ s \notin Chosen /\ ~Broken /\ ~Broken'
  <2>1. s \notin Range(scheduled)
    BY <1>1, <1>3, <1>4 DEF Parts, OwnedOnce, Popped
  <2>2. QED BY <1>3, <1>4, <2>1 DEF Chosen, Prefills, Broken
<1>6. PromptInv'
  BY <1>1, <1>3, <1>5 DEF PromptInv
<1>7. PromptLen[s] \in Nat /\ admit \in Nat /\ prefilled[s] \in Nat /\ NumSlots \in Nat
  BY <1>1, <1>3, <1>4, SchedulerAssumption DEF FitInv, Spare, TypeOK, RequestTypes
<1>8. PICK c \in Nat : c = IF prefilled[s] = 0 THEN PromptLen[s] ELSE 0
  BY <1>7
<1>9. PICK P, a : P = Started' /\ a = admit'
  OBVIOUS
<1>10. a = admit - c /\ c <= admit
  BY <1>3, <1>7, <1>8, <1>9
<1>11. \A x \in Seqs : x # s => P[x] = Started[x]
  <2>1. StartedFacts'
    BY StartedTypes, PTL
  <2>2. \A x \in Seqs : x # s => (Underway(x)' <=> Underway(x))
    BY <1>3, <1>5 DEF Underway
  <2>3. QED BY <1>1, <1>9, <2>1, <2>2 DEF StartedFacts
<1>12. P[s] = Started[s] + c
  <2>1. StartedFacts'
    BY StartedTypes, PTL
  <2>2. Underway(s)' /\ (Underway(s) <=> prefilled[s] > 0)
    BY <1>3, <1>5 DEF Underway
  <2>3. P[s] = PromptLen[s] /\ Started[s] = IF prefilled[s] > 0 THEN PromptLen[s] ELSE 0
    BY <1>1, <1>4, <1>9, <2>1, <2>2 DEF StartedFacts
  <2>4. QED BY <1>7, <1>8, <2>3
<1>13. Weights(Started, Seqs) /\ IsFiniteSet(Seqs) /\ Started[s] \in Nat /\ SumFunctionOnSet(Started, Seqs) \in Nat
  BY <1>1, <1>4, SchedulerAssumption DEF StartedFacts
<1>14. SumFunctionOnSet(P, Seqs) = SumFunctionOnSet(Started, Seqs) - Started[s] + P[s]
  <2>1. P[s] \in Int
    BY <1>12, <1>13
  <2>2. QED BY <1>4, <1>11, <1>13, <2>1, SumChange
<1>15. SumFunctionOnSet(P, Seqs) = SumFunctionOnSet(Started, Seqs) + c
  BY <1>12, <1>13, <1>14
<1>16. SumFunctionOnSet(Started, Seqs) + admit <= NumSlots
  BY <1>3, <1>5 DEF FitInv, Spare
<1>17. SumFunctionOnSet(P, Seqs) + a <= NumSlots /\ a \in Nat
  BY <1>7, <1>10, <1>13, <1>15, <1>16
<1>18. FitInv'
  <2>1. Spare' = a
    BY <1>3, <1>9 DEF Spare
  <2>2. QED BY <1>9, <1>17, <2>1 DEF FitInv
<1>19. QED BY <1>6, <1>18

\* Every step of schedule() keeps the prompts that were started in the cache.
LEMMA SchedulingPrompts ==
  ASSUME NEW X, MemInv(X), PoolInv, PromptInv, FitInv, Scheduling
  PROVE  PromptInv' /\ FitInv'
<1>1. ScheduleStep /\ UNCHANGED engineVars /\ IInv
  BY DEF Scheduling, MemInv
<1>2. CASE AcquireWindow
  BY <1>1, <1>2, AcquirePrompts
<1>3. CASE Preempts
  BY <1>1, <1>3, PreemptPrompts
<1>4. CASE StartPrefill \/ AffinityPrefill
  BY <1>1, <1>4, OpenPrompts
<1>5. CASE PrefillTake
  BY <1>1, <1>5, TakePrompts
<1>6. CASE \/ StartAffinity \/ AffinityScan \/ AffinityDecode \/ PrefillSkip \/ PrefillDefer \/ NextBucket
           \/ PrefillReturn \/ StartDecode \/ DecodeRotate \/ DecodeTake \/ DecodeBlock \/ DecodeReturn
           \/ NothingToRun
  <2>1. Moves
    BY <1>1, <1>6, AffinityMoves, PassOverMoves, BucketMoves, DecodeScanMoves, DecodeReturnMoves
  <2>2. pc' # "prefill" \/ (pc = "prefill" /\ admit' = admit)
    BY <1>6 DEF StartAffinity, AffinityScan, AffinityDecode, PrefillSkip, PrefillDefer, NextBucket, PrefillReturn,
                StartDecode, DecodeRotate, DecodeTake, DecodeBlock, DecodeReturn, NothingToRun, Return, Raise,
                InBucket, InDecode
  <2>3. QED BY <2>1, <2>2, MovesPrompts
<1>7. QED BY <1>1, <1>2, <1>3, <1>4, <1>5, <1>6 DEF ScheduleStep, Preempts
-----------------------------------------------------------------------------
(* A call that found nothing so far still can *)

\* When nothing decodes and nobody else holds memory, a waiting prompt leaves
\* the pool a slot.
LEMMA SlotToSpare ==
  ASSUME MemInv({}), PoolInv, PromptInv, FitInv, pc \in {"reserve", "affinity"}, decoding = <<>>
  PROVE  Positive(freeSlots - Outstanding) \in Nat \ {0}
<1>1. Parts /\ TypeOK /\ OwnerInv({}) /\ RowInv /\ DebtInv /\ pendingReleases = {} /\ preempted = None
      /\ StartedFacts
  BY PartsOfInv, InsideCall, StartedTypes DEF MemInv, IInv, KVInv
<1>2. Range(decoding) = {} /\ ~Broken /\ Decodes = {} /\ Chosen = {} /\ Prefills \subseteq Seqs
  BY <1>1, EmptyFacts DEF Broken, Decodes, Chosen, Prefills, Parts
<1>3. ASSUME NEW s \in Seqs, Holds(s) PROVE s \in Prefills
  BY <1>1, <1>2, <1>3, SchedulerAssumption DEF OwnerInv
<1>4. ASSUME NEW s \in Seqs PROVE Unused[s] = 0
  <2>1. resEnd[s] \in Nat /\ Submitted(s) \in Nat
    BY <1>1 DEF PoolInv, Submitted, TypeOK, RequestTypes
  <2>2. CASE resEnd[s] > 0
    <3>1. s \in Prefills /\ s # preempted
      BY <1>1, <1>3, <2>2, SchedulerAssumption DEF Holds
    <3>2. resEnd[s] = 0
      BY <1>1, <1>2, <3>1 DEF PromptInv
    <3>3. QED BY <2>2, <3>2
  <2>3. CASE ~(resEnd[s] > 0)
    <3>1. ~(resEnd[s] - Submitted(s) > 0)
      BY <2>1, <2>3
    <3>2. QED BY <3>1 DEF Unused, Positive
  <2>4. QED BY <2>2, <2>3
<1>5. Outstanding = 0
  <2>1. PICK u : u = Unused
    OBVIOUS
  <2>2. IsFiniteSet(Seqs) /\ {} \in SUBSET Seqs /\ Weights(u, {}) /\ IsFiniteSet({})
    BY SchedulerAssumption, FS_EmptySet DEF Weights
  <2>3. (\A x \in {} : u[x] = u[x]) /\ (\A x \in Seqs \ {} : u[x] = 0)
    BY <1>4, <2>1
  <2>4. SumFunctionOnSet(u, Seqs) = SumFunctionOnSet(u, {})
    BY <2>2, <2>3, SumSupport
  <2>5. SumFunctionOnSet(u, {}) = 0
    BY <2>2, SumFacts
  <2>6. QED BY <2>1, <2>4, <2>5 DEF Outstanding
<1>6. /\ IsFiniteSet(Seqs) /\ Weights(kv, Seqs) /\ kv \in [Seqs -> Nat]
      /\ SumFunctionOnSet(kv, Seqs) \in Int /\ freeSlots \in Nat /\ NumSlots \in Nat
      /\ freeSlots + SumFunctionOnSet(kv, Seqs) = NumSlots
  BY <1>1, PoolFacts
<1>7. NumSlots \in Nat \ {0}
  BY SchedulerAssumption
<1>8. ASSUME NEW s \in Seqs, kv[s] > 0 PROVE kv[s] + 1 <= Started[s]
  <2>1. s \in Prefills /\ s # preempted /\ s \notin releaseFailed /\ Written(s) = 0
    BY <1>1, <1>2, <1>3, <1>8, SchedulerAssumption DEF Holds, DebtInv, Written
  <2>2. kv[s] = prefilled[s] + 0
    BY <1>1, <1>2, <2>1 DEF RowInv
  <2>3. prefilled[s] \in Nat /\ kv[s] \in Nat
    BY <1>1, <1>6 DEF TypeOK, RequestTypes
  <2>4. prefilled[s] < PromptLen[s] /\ PromptLen[s] \in Nat
    BY <2>1, SchedulerAssumption DEF PromptInv
  <2>5. Started[s] = PromptLen[s]
    BY <1>1, <1>8, <2>1, <2>2, <2>3 DEF StartedFacts, Underway
  <2>6. QED BY <2>2, <2>3, <2>4, <2>5
<1>9. SumFunctionOnSet(Started, Seqs) <= NumSlots /\ SumFunctionOnSet(Started, Seqs) \in Nat
  <2>1. SumFunctionOnSet(Started, Seqs) + Spare <= NumSlots /\ Spare = 0
    BY <1>2 DEF FitInv, Spare
  <2>2. QED BY <1>1, <2>1 DEF StartedFacts
<1>10. SumFunctionOnSet(kv, Seqs) < NumSlots
  <2>1. CASE \E s \in Seqs : kv[s] > 0
    <3>1. PICK y \in Seqs : kv[y] > 0
      BY <2>1
    <3>2. PICK h : h = [kv EXCEPT ![y] = kv[y] + 1]
      OBVIOUS
    <3>3. /\ h[y] = kv[y] + 1 /\ h[y] \in Int /\ kv[y] \in Nat
          /\ \A x \in Seqs : x # y => h[x] = kv[x]
          /\ \A x \in Seqs : h[x] \in Int
      BY <1>6, <3>1, <3>2
    <3>4. SumFunctionOnSet(h, Seqs) = SumFunctionOnSet(kv, Seqs) - kv[y] + h[y]
      BY <1>6, <3>1, <3>3, SumChange
    <3>5. \A x \in Seqs : h[x] <= Started[x]
      <4>1. SUFFICES ASSUME NEW x \in Seqs PROVE h[x] <= Started[x]
        OBVIOUS
      <4>2. kv[x] \in Nat /\ Started[x] \in Nat
        BY <1>1, <1>6 DEF StartedFacts
      <4>3. QED BY <1>8, <3>1, <3>3, <4>2
    <3>6. SumFunctionOnSet(h, Seqs) <= SumFunctionOnSet(Started, Seqs)
      <4>1. (\A x \in Seqs \ Seqs : 0 <= Started[x]) /\ Weights(h, Seqs) /\ Weights(Started, Seqs)
        BY <1>1, <3>3 DEF StartedFacts, Weights
      <4>2. QED BY <1>6, <3>5, <4>1, SumBelow
    <3>7. QED BY <1>6, <1>9, <3>3, <3>4, <3>6
  <2>2. CASE ~\E s \in Seqs : kv[s] > 0
    <3>1. \A x \in Seqs \ {} : kv[x] = 0
      BY <1>6, <2>2
    <3>2. {} \in SUBSET Seqs /\ Weights(kv, {}) /\ IsFiniteSet({}) /\ \A x \in {} : kv[x] = kv[x]
      BY FS_EmptySet DEF Weights
    <3>3. SumFunctionOnSet(kv, Seqs) = SumFunctionOnSet(kv, {})
      BY <1>6, <3>1, <3>2, SumSupport
    <3>4. SumFunctionOnSet(kv, {}) = 0
      BY <3>2, SumFacts
    <3>5. QED BY <1>7, <3>3, <3>4
  <2>3. QED BY <2>1, <2>2
<1>11. freeSlots - Outstanding > 0 /\ freeSlots - Outstanding \in Int
  BY <1>5, <1>6, <1>10
<1>12. QED BY <1>11 DEF Positive

\* _prefill_mode_order starts with the mode of a candidate.
LEMMA FirstMode ==
  ASSUME NEW queue \in Seq(Seqs), NEW c \in Range(queue), Candidate(c)
  PROVE  ModeOrder(queue) # <<>> /\ \E s \in Range(queue) : Candidate(s) /\ Mode[s] = Head(ModeOrder(queue))
<1>1. PICK cand : cand = {i \in DOMAIN queue : Candidate(queue[i])}
  OBVIOUS
<1>2. cand \in SUBSET Nat /\ cand # {} /\ DOMAIN queue = 1..Len(queue) /\ Len(queue) \in Nat
  <2>1. PICK i \in DOMAIN queue : queue[i] = c
    BY DEF Range
  <2>2. QED BY <1>1, <2>1
<1>3. Min(cand) \in cand
  <2>1. \E x \in cand : \A y \in cand : x <= y
    BY <1>2, LeastNat
  <2>2. QED BY <2>1 DEF Min
<1>4. PICK m : m = queue[Min(cand)]
  OBVIOUS
<1>5. m \in Range(queue) /\ Candidate(m)
  BY <1>1, <1>3, <1>4 DEF Range
<1>6. PICK other : other = IF Mode[m] = "full" THEN "chunked" ELSE "full"
  OBVIOUS
<1>7. ModeOrder(queue) = <<Mode[m], other>> \/ ModeOrder(queue) = <<Mode[m]>>
  BY <1>1, <1>2, <1>4, <1>6 DEF ModeOrder
<1>8. QED BY <1>5, <1>7

\* A scan that opens on waiting requests, with nothing decoding, has a
\* candidate and a slot to give it.
LEMMA OpenPromises ==
  ASSUME MemInv({}), PoolInv, PromptInv, FitInv, ScanInv, StartPrefill \/ AffinityPrefill, decoding = <<>>
  PROVE  Promising'
<1>1. Parts /\ TypeOK /\ pc \in {"reserve", "affinity"} /\ batchTokens = 0 /\ waiting # <<>>
  BY PartsOfInv DEF MemInv, IInv, StartPrefill, AffinityPrefill, Acquired, ScanInv, IsFinished
<1>2. \E queue : queue \in Seq(Seqs) /\ Range(queue) = Range(waiting) /\ OpenPrefill(queue)
  <2>1. CASE OpenPrefill(waiting)
    BY <1>1, <2>1 DEF Parts
  <2>2. ASSUME NEW p \in WaitSorts, OpenPrefill(Reordered(p))
        PROVE  \E queue : queue \in Seq(Seqs) /\ Range(queue) = Range(waiting) /\ OpenPrefill(queue)
    <3>1. Reordered(p) \in Seq(Seqs) /\ Range(Reordered(p)) = Range(waiting)
      BY <1>1, PermuteFacts DEF Parts, Reordered, WaitSorts
    <3>2. QED BY <2>2, <3>1
  <2>3. QED BY <2>1, <2>2 DEF StartPrefill, AffinityPrefill
<1>3. PICK queue \in Seq(Seqs) : Range(queue) = Range(waiting) /\ OpenPrefill(queue)
  BY <1>2
<1>4. /\ waiting' = queue /\ modes' = ModeOrder(queue) /\ budget' = Len(queue)
      /\ free' = Positive(freeSlots - Outstanding) /\ batchTokens' = 0
      /\ UNCHANGED <<cursor, skipped, decoding, prefilled>>
  BY <1>1, <1>3 DEF OpenPrefill, PrefillSuspended
<1>5. free' > 0
  BY <1>4, SlotToSpare, <1>1
<1>6. queue # <<>> /\ Range(queue) # {} /\ budget' > 0
  <2>1. Range(waiting) # {}
    BY <1>1, RangeFacts DEF Parts
  <2>2. queue # <<>> /\ Len(queue) \in Nat
    BY <1>3, <2>1, RangeFacts
  <2>3. QED BY <1>3, <1>4, <2>1, <2>2
<1>7. skipped = <<>> /\ Range(skipped) = {} /\ Len(decoding) = 0 /\ MaxDecoding \in Nat \ {0}
  BY <1>1, EmptyFacts, SchedulerAssumption DEF Parts, CallInv
<1>8. \E c \in Range(queue) : Candidate(c)
  <2>1. CASE ReplayWaiting
    <3>1. PICK c \in Range(queue) : IsReplay(c)
      BY <1>3, <1>7, <2>1 DEF ReplayWaiting
    <3>2. Candidate(c)
      BY <1>7, <3>1 DEF Candidate
    <3>3. QED BY <3>2
  <2>2. CASE ~ReplayWaiting
    <3>1. PICK c \in Range(queue) : TRUE
      BY <1>6
    <3>2. Candidate(c)
      BY <1>7, <2>2 DEF Candidate
    <3>3. QED BY <3>2
  <2>3. QED BY <2>1, <2>2
<1>9. PICK s \in Range(queue) : ModeOrder(queue) # <<>> /\ Candidate(s) /\ Mode[s] = Head(ModeOrder(queue))
  BY <1>8, FirstMode
<1>10. Candidate(s)'
  BY <1>3, <1>4, <1>9 DEF Candidate, ReplayWaiting, IsReplay
<1>11. InMode(s)'
  BY <1>4, <1>9, <1>10 DEF InMode
<1>12. QED BY <1>4, <1>5, <1>6, <1>9, <1>11 DEF Promising

\* Passing over a request of another bucket keeps the candidate in the queue.
LEMMA SkipPromises ==
  ASSUME IInv, Promising, PrefillSkip
  PROVE  Promising'
<1>1. Parts /\ waiting # <<>>
  BY PartsOfInv DEF PrefillSkip, InBucket, CanContinuePrefillBatch
<1>2. /\ skipped' = Append(skipped, Head(waiting)) /\ waiting' = Tail(waiting) /\ ~InMode(Head(waiting))
      /\ UNCHANGED <<cursor, decoding, prefilled, modes, budget, free, batchTokens>>
  BY DEF PrefillSkip
<1>3. PICK s \in Range(waiting) : InMode(s)
  BY DEF Promising
<1>4. Range(waiting) = Range(waiting') \cup {Head(waiting)} /\ Head(waiting) \in Seqs
  BY <1>1, <1>2, HeadTailFacts DEF Parts
<1>5. s \in Range(waiting')
  BY <1>2, <1>3, <1>4
<1>6. Range(waiting') \cup Range(skipped') = Range(waiting) \cup Range(skipped)
  BY <1>1, <1>2, <1>4, AppendFacts DEF Parts
<1>7. InMode(s)'
  BY <1>2, <1>3, <1>6 DEF InMode, Candidate, ReplayWaiting, IsReplay
<1>8. QED BY <1>2, <1>5, <1>7 DEF Promising

\* With a slot to give and nothing in the batch, a prompt for which there is
\* no chunk is too long for an atomic prefill, or for the final window.
LEMMA RefusalIsRecorded ==
  ASSUME TypeOK, NEW s \in Seqs, prefilled[s] < PromptLen[s], free \in Nat \ {0}, batchTokens = 0,
         ~HasChunk(s)
  PROVE  ChunkRefusals(s) # {}
<1>1. Remaining(s) \in Nat \ {0} /\ MinFinal \in Nat /\ ChunkSize \in Nat \ {0} /\ MaxBatchTokens \in Nat \ {0}
      /\ Mode[s] \in {"full", "chunked"}
  BY SchedulerAssumption DEF Remaining, TypeOK, RequestTypes
<1>2. CASE Mode[s] = "full"
  <2>1. "atomic" \in ChunkRefusals(s)
    BY <1>2 DEF ChunkRefusals
  <2>2. QED BY <2>1
<1>3. CASE Mode[s] = "chunked"
  <2>1. PICK r, m : r = Remaining(s) /\ m = MaxBatchTokens - batchTokens
    OBVIOUS
  <2>2. PICK a : a = Min({m, free})
    OBVIOUS
  <2>3. a \in Nat \ {0}
    <3>1. m \in Nat \ {0}
      BY <1>1, <2>1
    <3>2. PICK f : f = free
      OBVIOUS
    <3>3. m \in Int /\ f \in Int
      BY <3>1, <3>2
    <3>4. Min({m, f}) = m \/ Min({m, f}) = f
      BY <3>3, MinFacts
    <3>5. QED BY <2>2, <3>1, <3>2, <3>4
  <2>4. PICK p : p = ProposedTokens(s)
    OBVIOUS
  <2>5. p = Min({r, ChunkSize, a})
    BY <1>3, <2>1, <2>2, <2>4 DEF ProposedTokens
  <2>6. p \in 1..r /\ r \in Nat \ {0}
    <3>1. r \in Int /\ ChunkSize \in Int /\ a \in Int
      BY <1>1, <2>1, <2>3
    <3>2. p \in {r, ChunkSize, a} /\ p <= r
      BY <2>5, <3>1, MinFacts
    <3>3. QED BY <1>1, <2>1, <2>3, <3>2
  <2>7. PrefillTokens(s) = IF MinFinal = 0 \/ r - p <= 0 \/ r - p >= MinFinal
                           THEN p ELSE Positive(r - MinFinal)
    BY <2>1, <2>4 DEF PrefillTokens
  <2>8. PrefillTokens(s) \notin 1..r
    BY <2>1 DEF HasChunk
  <2>9. MinFinal > 0 /\ r <= MinFinal /\ p < r
    BY <1>1, <2>6, <2>7, <2>8 DEF Positive
  <2>10. "window" \in ChunkRefusals(s)
    BY <2>1, <2>4, <2>9 DEF ChunkRefusals
  <2>11. QED BY <2>10
<1>4. QED BY <1>1, <1>2, <1>3

\* A candidate that is sent to the tail leaves its reason.
LEMMA DeferRefuses ==
  ASSUME IInv, PromptInv, free \in Nat, Promising, PrefillDefer
  PROVE  refused' # {}
<1>1. Parts /\ TypeOK /\ waiting # <<>> /\ free \in Nat \ {0} /\ batchTokens = 0
  BY PartsOfInv DEF IInv, PrefillDefer, InBucket, CanContinuePrefillBatch, Promising
<1>2. PICK s : s = Head(waiting)
  OBVIOUS
<1>3. s \in Range(waiting) /\ s \in Seqs
  BY <1>1, <1>2, HeadTailFacts DEF Parts
<1>4. prefilled[s] < PromptLen[s]
  BY <1>3 DEF PromptInv, Prefills
<1>5. CASE ~HasChunk(s)
  <2>1. ChunkRefusals(s) # {}
    BY <1>1, <1>3, <1>4, <1>5, RefusalIsRecorded
  <2>2. refused' = refused \cup ChunkRefusals(s)
    BY <1>2, <1>5 DEF PrefillDefer
  <2>3. QED BY <2>1, <2>2
<1>6. CASE HasChunk(s)
  <2>1. refused' = refused \cup {"deferred"}
    BY <1>2, <1>6 DEF PrefillDefer
  <2>2. QED BY <2>1
<1>7. QED BY <1>5, <1>6

\* The bucket is not left while it has a candidate and no batch.
LEMMA PromisingStays ==
  ASSUME TypeOK, pc = "prefill", scheduled = <<>>, Promising
  PROVE  InBucket
<1>1. waiting # <<>>
  BY EmptyFacts DEF Promising
<1>2. Len(scheduled) = 0 /\ MaxBatchSeqs \in Nat \ {0} /\ MaxBatchTokens \in Nat \ {0}
  BY SchedulerAssumption
<1>3. CanContinuePrefillBatch
  BY <1>1, <1>2 DEF CanContinuePrefillBatch, Promising
<1>4. QED BY <1>3 DEF InBucket, Promising

\* The prefill scan finds something, or remembers why not.
LEMMA PrefillScan ==
  ASSUME IInv, PromptInv, BatchInv, ScanInv,
         PrefillSkip \/ PrefillDefer \/ PrefillTake \/ NextBucket \/ PrefillReturn \/ StartDecode
  PROVE  ScanInv'
<1>1. Parts /\ TypeOK /\ pc = "prefill" /\ free \in Nat
  BY PartsOfInv DEF IInv, PrefillSkip, PrefillDefer, PrefillTake, NextBucket, PrefillReturn, StartDecode, InBucket,
                    PrefillOver, BatchInv
<1>2. CASE PrefillTake
  <2>1. scheduled' = Append(scheduled, Head(waiting)) /\ pc' = "prefill" /\ waiting # <<>>
    BY <1>1, <1>2 DEF PrefillTake, InBucket, CanContinuePrefillBatch
  <2>2. Range(scheduled') # {}
    <3>1. Head(waiting) \in Seqs
      BY <1>1, <2>1, HeadTailFacts DEF Parts
    <3>2. Range(Append(scheduled, Head(waiting))) = Range(scheduled) \cup {Head(waiting)}
      BY <1>1, <3>1, AppendFacts DEF Parts
    <3>3. QED BY <2>1, <3>2
  <2>3. scheduled' # <<>>
    BY <2>2, EmptyFacts
  <2>4. QED BY <2>1, <2>3 DEF ScanInv
<1>3. CASE PrefillReturn
  <2>1. scheduled' # <<>> /\ pc' = "returned"
    BY <1>3 DEF PrefillReturn, Return
  <2>2. QED BY <2>1 DEF ScanInv
<1>4. CASE PrefillSkip \/ PrefillDefer \/ NextBucket
  <2>1. UNCHANGED <<asyncInflight, decoding, scheduled>> /\ pc' = "prefill"
    BY <1>1, <1>4 DEF PrefillSkip, PrefillDefer, NextBucket
  <2>2. SUFFICES ASSUME asyncInflight = 0, scheduled = <<>>, decoding = <<>>, refused' = {}
                 PROVE  Promising'
    BY <2>1 DEF ScanInv
  <2>3. refused = {}
    BY <1>4, <2>2 DEF PrefillSkip, PrefillDefer, NextBucket
  <2>4. Promising
    BY <1>1, <2>2, <2>3 DEF ScanInv
  <2>5. InBucket
    BY <1>1, <2>2, <2>4, PromisingStays
  <2>6. ~PrefillDefer
    BY <1>1, <2>2, <2>4, DeferRefuses
  <2>7. PrefillSkip
    BY <1>4, <2>5, <2>6 DEF NextBucket
  <2>8. QED BY <2>4, <2>7, SkipPromises
<1>5. CASE StartDecode
  <2>1. /\ UNCHANGED <<asyncInflight, decoding, scheduled, refused, blocked>> /\ pc' = "decode" /\ modes = <<>>
        /\ budget' = Len(decoding)
    BY <1>5 DEF StartDecode, PrefillOver
  <2>2. blocked = None
    BY <1>1 DEF Parts, CallInv
  <2>3. ~Promising
    BY <2>1 DEF Promising
  <2>4. QED BY <1>1, <2>1, <2>2, <2>3 DEF ScanInv
<1>6. QED BY <1>2, <1>3, <1>4, <1>5

\* The decode scan takes its first request, and gives up only without one.
LEMMA DecodeScan ==
  ASSUME IInv, ProgressInv, RoomLeft, ScanInv,
         DecodeRotate \/ DecodeTake \/ DecodeBlock \/ DecodeReturn \/ NothingToRun
  PROVE  ScanInv'
<1>1. Parts /\ TypeOK /\ pc = "decode"
  BY PartsOfInv DEF IInv, DecodeRotate, DecodeTake, DecodeBlock, DecodeReturn, NothingToRun, InDecode, DecodeOver
<1>2. CASE DecodeBlock \/ DecodeReturn
  <2>1. scheduled' # <<>> /\ pc' \in {"decode", "returned"}
    BY <1>1, <1>2 DEF DecodeBlock, DecodeReturn, Return
  <2>2. QED BY <2>1 DEF ScanInv
<1>3. CASE DecodeRotate \/ DecodeTake
  <2>1. decoding # <<>>
    <3>1. budget > 0 /\ budget \in Nat /\ budget <= Len(decoding)
      BY <1>1, <1>3 DEF DecodeRotate, DecodeTake, InDecode, Parts, CallInv, TypeOK, CallTypes
    <3>2. QED BY <3>1
  <2>2. Head(decoding) \in Seqs /\ Head(decoding) \in Range(decoding)
    BY <1>1, <2>1, HeadTailFacts DEF Parts
  <2>3. CASE DecodeTake
    <3>1. scheduled' = Append(scheduled, Head(decoding)) /\ pc' = "decode"
      BY <1>1, <2>3 DEF DecodeTake
    <3>2. Range(scheduled') # {}
      <4>1. Range(Append(scheduled, Head(decoding))) = Range(scheduled) \cup {Head(decoding)}
        BY <1>1, <2>2, AppendFacts DEF Parts
      <4>2. QED BY <3>1, <4>1
    <3>3. scheduled' # <<>>
      BY <3>2, EmptyFacts
    <3>4. QED BY <3>1, <3>3 DEF ScanInv
  <2>4. CASE DecodeRotate
    <3>1. UNCHANGED <<asyncInflight, scheduled>> /\ pc' = "decode"
          /\ Submitted(Head(decoding)) >= MaxTokens[Head(decoding)]
      BY <1>1, <2>4 DEF DecodeRotate
    <3>2. SUFFICES ASSUME asyncInflight = 0 PROVE FALSE
      BY <3>1 DEF ScanInv
    <3>3. inflight[Head(decoding)] = 0
      BY <1>1, <2>2, <3>2 DEF ProgressInv, InCall, NothingInFlight
    <3>4. status[Head(decoding)] # "FINISHED"
      BY <1>1, <2>2 DEF Parts, FinishInv, Broken
    <3>5. tokens[Head(decoding)] < MaxTokens[Head(decoding)] /\ tokens[Head(decoding)] \in Nat
          /\ MaxTokens[Head(decoding)] \in Nat
      BY <1>1, <2>2, <3>4, SchedulerAssumption DEF RoomLeft, TypeOK, RequestTypes
    <3>6. QED BY <3>1, <3>3, <3>5 DEF Submitted
  <2>5. QED BY <1>3, <2>3, <2>4
<1>4. CASE NothingToRun
  <2>1. UNCHANGED <<asyncInflight, decoding, scheduled>> /\ pc' \in {"drain", "raised", "returned"}
        /\ scheduled = <<>> /\ ~InDecode
    BY <1>4 DEF NothingToRun, DecodeOver, Raise
  <2>2. SUFFICES ASSUME asyncInflight = 0 PROVE pc' # "returned"
    BY <2>1 DEF ScanInv
  <2>3. blocked = None /\ budget = Len(decoding)
    BY <1>1, <2>1, <2>2 DEF ScanInv
  <2>4. Len(scheduled) = 0 /\ MaxDecoding \in Nat \ {0} /\ budget \in Nat
    BY <1>1, <2>1, SchedulerAssumption DEF TypeOK, CallTypes
  <2>5. budget = 0
    BY <1>1, <2>1, <2>3, <2>4 DEF InDecode
  <2>6. decoding = <<>>
    <3>1. decoding \in Seq(Seqs) /\ Len(decoding) = 0
      BY <1>1, <2>3, <2>5 DEF Parts
    <3>2. QED BY <3>1
  <2>7. refused # {}
    BY <1>1, <2>1, <2>2, <2>6 DEF ScanInv
  <2>8. QED BY <1>4, <2>6, <2>7 DEF NothingToRun, Raise
<1>5. QED BY <1>2, <1>3, <1>4

\* Every step of schedule() runs something, preempts, names what does not fit,
\* or can still do so.
LEMMA SchedulingScan ==
  ASSUME NEW X, MemInv(X), asyncInflight = 0 => X = {}, SlotInv, RunnableInv, Scheduling
  PROVE  ScanInv' /\ NeverHangs'
<1>1. ScheduleStep /\ UNCHANGED engineVars /\ IInv /\ Parts /\ ProgressInv /\ PoolInv /\ BatchInv
      /\ RoomLeft /\ PromptInv /\ FitInv /\ ScanInv /\ NeverHangs
  BY PartsOfInv DEF Scheduling, MemInv, KVInv, SlotInv, RunnableInv
<1>2. NeverHangs'
  <2>1. UNCHANGED error \/ error' \in {"sole_decode", "atomic_prefill", "final_window", "all_deferred"}
    BY <1>1 DEF ScheduleStep, AcquireWindow, PreemptUnreserved, StartPrefill, StartAffinity, AffinityScan,
                AffinityDecode, AffinityPrefill, OpenPrefill, PrefillSkip, PrefillDefer, PrefillTake, NextBucket,
                PrefillReturn, PreemptSoleUnreserved, StartDecode, DecodeRotate, DecodeTake, DecodeBlock,
                DecodePreempt, DecodeReturn, NothingToRun, Return, Raise, PreemptDecodeVictim, DrainRequired,
                RejectPreemption, StartReplay
  <2>2. QED BY <1>1, <2>1 DEF NeverHangs
<1>3. CASE AcquireWindow \/ StartAffinity \/ AffinityScan
  <2>1. UNCHANGED <<waiting, decoding, batchTokens>> /\ pc \in {"reserve", "affinity"}
        /\ pc' \in {"reserve", "affinity"}
    BY <1>3 DEF AcquireWindow, StartAffinity, AffinityScan, Acquired
  <2>2. ScanInv'
    BY <1>1, <2>1 DEF ScanInv, IsFinished
  <2>3. QED BY <1>2, <2>2
<1>4. CASE AffinityDecode
  <2>1. scheduled' # <<>> /\ pc' = "returned"
    BY <1>4 DEF AffinityDecode, AffinityHolds, Return
  <2>2. ScanInv'
    BY <2>1 DEF ScanInv
  <2>3. QED BY <1>2, <2>2
<1>5. CASE StartPrefill \/ AffinityPrefill
  <2>1. pc' = "prefill" /\ UNCHANGED <<decoding, asyncInflight>>
    BY <1>5 DEF StartPrefill, AffinityPrefill, OpenPrefill
  <2>2. ASSUME asyncInflight = 0, decoding = <<>> PROVE Promising'
    BY <1>1, <1>5, <2>2, OpenPromises
  <2>3. ScanInv'
    BY <2>1, <2>2 DEF ScanInv
  <2>4. QED BY <1>2, <2>3
<1>6. CASE Preempts
  <2>1. PICK v, others : Victim(v, others)
    BY <1>1, <1>6, VictimFacts
  <2>2. v \in Seqs /\ PreemptDecodeVictim(v, others)
    BY <1>1, <2>1 DEF Victim, Parts
  <2>3. pc' \in {"drain", "raised"} \/ (pc' = "returned" /\ preempted' = v)
    BY <2>2 DEF PreemptDecodeVictim, DrainRequired, RejectPreemption, StartReplay, Raise
  <2>4. ScanInv'
    BY <2>2, <2>3, SchedulerAssumption DEF ScanInv
  <2>5. QED BY <1>2, <2>4
<1>7. CASE PrefillSkip \/ PrefillDefer \/ PrefillTake \/ NextBucket \/ PrefillReturn \/ StartDecode
  BY <1>1, <1>2, <1>7, PrefillScan
<1>8. CASE DecodeRotate \/ DecodeTake \/ DecodeBlock \/ DecodeReturn \/ NothingToRun
  BY <1>1, <1>2, <1>8, DecodeScan
<1>9. QED BY <1>1, <1>3, <1>4, <1>5, <1>6, <1>7, <1>8 DEF ScheduleStep, Preempts
-----------------------------------------------------------------------------
(* The prompts and the room left in the rest of a step *)

\* A window that prefill must not see is closed, or its request is still owed
\* the release that closes it.
Kept(x) ==
  ~Broken' =>
    \/ resEnd'[x] = 0
    \/ /\ resEnd'[x] = resEnd[x] /\ (x = preempted => x = preempted')
       /\ x \in pendingReleases => x \in pendingReleases'

\* What is left to prefill was there before, and was started before.
Carried(x) == prefilled'[x] < PromptLen[x] /\ (Underway(x)' => Underway(x)) /\ x \in Prefills /\ Kept(x)

\* Such a step keeps the prompts.
LEMMA CarriedPrompts ==
  ASSUME PromptInv, FitInv, pc' # "prefill", Broken => Broken', \A x \in Prefills' : Carried(x)
  PROVE  PromptInv' /\ FitInv'
<1>1. PromptInv'
  BY DEF PromptInv, Carried, Kept
<1>2. NoneStarts
  BY DEF NoneStarts, Carried, Underway
<1>3. QED BY <1>1, <1>2, NoneStartsFits

\* So does one that leaves every prompt as it is, or lets go of some.
LEMMA RestPrompts ==
  ASSUME PromptInv, FitInv, pc' # "prefill", Broken => Broken', prefilled' = prefilled,
         Prefills' \subseteq Prefills, Chosen' \subseteq Chosen, \A x \in Prefills' : Kept(x)
  PROVE  PromptInv' /\ FitInv'
<1>1. \A x \in Prefills' : Carried(x)
  BY DEF Carried, PromptInv, Underway
<1>2. QED BY <1>1, CarriedPrompts

\* A release closes a window or leaves it, and forgets no other debt.
LEMMA ReleaseKeeps ==
  ASSUME PoolInv, NEW s \in Seqs, ReleaseOk(s) \/ ReleaseFails(s)
  PROVE  /\ \A x \in Seqs : \/ resEnd'[x] = 0
                            \/ /\ resEnd'[x] = resEnd[x]
                               /\ x \in pendingReleases => x \in pendingReleases'
         /\ ReleaseOk(s) => resEnd'[s] = 0
<1>1. resEnd \in [Seqs -> Nat]
  BY DEF PoolInv
<1>2. CASE ReleaseOk(s)
  <2>1. resEnd' = [resEnd EXCEPT ![s] = 0] /\ pendingReleases' = pendingReleases \ {s}
    BY <1>2 DEF ReleaseOk, FreeSeq
  <2>2. QED BY <1>1, <2>1
<1>3. CASE ReleaseFails(s)
  <2>1. pendingReleases' = pendingReleases \cup {s}
        /\ (resEnd' = [resEnd EXCEPT ![s] = 0] \/ UNCHANGED resEnd)
    BY <1>3 DEF ReleaseFails, FreeSeq
  <2>2. ReleaseOk(s) => resEnd'[s] = 0
    BY <1>1 DEF ReleaseOk, FreeSeq
  <2>3. QED BY <1>1, <2>1, <2>2
<1>4. QED BY <1>2, <1>3

\* An admitted request has its prompt to compute, and no window.
LEMMA AdmitPrompts ==
  ASSUME NEW X, MemInv(X), \A x \in X : status[x] = "FINISHED", PoolInv, PromptInv, FitInv,
         NEW s \in Seqs, AdmitRequest(s)
  PROVE  PromptInv' /\ FitInv'
<1>1. Parts /\ OwnerInv(X) /\ DebtInv /\ ProgressInv
  BY PartsOfInv DEF MemInv, KVInv
<1>2. /\ pc = "idle" /\ pc' = "idle" /\ pendingReleases = {} /\ status[s] = "NEW" /\ waiting' = Append(waiting, s)
      /\ UNCHANGED <<prefilled, resEnd, scheduled, skipped, preempted, pendingReleases, isPrefill>>
  BY DEF AdmitRequest
<1>3. Range(waiting') = Range(waiting) \cup {s}
  BY <1>1, <1>2, AppendFacts DEF Parts
<1>4. Chosen = {} /\ Chosen' = {} /\ Prefills' = Prefills \cup {s} /\ Prefills \subseteq Seqs
  BY <1>1, <1>2, <1>3 DEF Prefills, Chosen, Parts
<1>5. prefilled[s] = 0 /\ PromptLen[s] \in Nat \ {0}
  BY <1>1, <1>2, SchedulerAssumption DEF ProgressInv
<1>6. resEnd[s] = 0
  <2>1. s \notin X /\ preempted = None /\ s # None
    BY <1>1, <1>2, SchedulerAssumption DEF DebtInv
  <2>2. s \notin Prefills /\ s \notin Decodes
    BY <1>1, <1>2 DEF Prefills, Decodes, Chosen, Parts
  <2>3. ~(resEnd[s] > 0)
    BY <1>1, <1>2, <2>1, <2>2 DEF OwnerInv, Holds
  <2>4. QED BY <2>3 DEF PoolInv
<1>7. ~Broken /\ ~Broken'
  BY <1>2 DEF Broken
<1>8. PromptInv'
  <2>1. \A x \in Prefills' : prefilled'[x] < PromptLen[x]
    BY <1>2, <1>4, <1>5 DEF PromptInv
  <2>2. \A x \in Prefills' : resEnd'[x] = 0 \/ x = preempted' \/ x \in pendingReleases'
    BY <1>2, <1>4, <1>6, <1>7 DEF PromptInv
  <2>3. QED BY <2>1, <2>2 DEF PromptInv
<1>9. NoneStarts
  BY <1>2, <1>4, <1>5, <1>7 DEF NoneStarts, Underway
<1>10. QED BY <1>2, <1>8, <1>9, NoneStartsFits

\* Cancellation, and the ends of a step.
LEMMA EndPrompts ==
  ASSUME NEW X, MemInv(X), PoolInv, PromptInv, FitInv,
         \/ \E s \in Seqs : AbortRequest(s)
         \/ StepWithoutBatch \/ StartRelease \/ ReleaseFinished \/ StepDone
  PROVE  PromptInv' /\ FitInv'
<1>1. Parts /\ DebtInv
  BY PartsOfInv DEF MemInv, KVInv
<1>2. /\ pc \in {"idle", "raised", "returned", "postprocess", "release"} /\ pc' \in {"idle", "raised", "release"}
      /\ pc = "raised" => pc' = "raised"
      /\ UNCHANGED <<prefilled, scheduled, skipped>>
      /\ pc \in {"returned", "postprocess"} => scheduled = <<>>
  BY DEF AbortRequest, StepWithoutBatch, StartRelease, ReleaseFinished, StepDone, Raise
<1>3. Chosen' = {} /\ Prefills' = Range(waiting') \cup Range(skipped)
  BY <1>2 DEF Chosen, Prefills
<1>4. ASSUME NEW s \in Seqs, ReleaseOk(s) \/ ReleaseFails(s), Dequeue(s) \/ waiting' = waiting,
             preempted' = preempted \/ s = preempted, s = preempted => ReleaseOk(s) \/ Broken'
      PROVE  Range(waiting') \subseteq Range(waiting) /\ \A x \in Seqs : Kept(x)
  BY <1>1, <1>4, ReleaseKeeps, DequeueShrinks DEF Kept
<1>5. Range(waiting') \subseteq Range(waiting) /\ \A x \in Seqs : Kept(x)
  <2>1. ASSUME NEW s \in Seqs, AbortRequest(s)
        PROVE  Range(waiting') \subseteq Range(waiting) /\ \A x \in Seqs : Kept(x)
    <3>1. preempted' = preempted /\ preempted # s
      BY <1>1, <2>1, SchedulerAssumption DEF AbortRequest, DebtInv
    <3>2. CASE UNCHANGED <<memVars, pendingReleases>> /\ Dequeue(s)
      BY <1>1, <3>1, <3>2, DequeueShrinks DEF Kept
    <3>3. CASE (ReleaseOk(s) \/ ReleaseFails(s)) /\ (Dequeue(s) \/ waiting' = waiting)
      BY <1>4, <3>1, <3>3
    <3>4. QED BY <2>1, <3>2, <3>3 DEF AbortRequest
  <2>2. CASE StepWithoutBatch
    <3>1. CASE preempted # None
      <4>1. preempted \in Seqs
        BY <1>1, <3>1 DEF Parts, TypeOK, CallTypes
      <4>2. waiting' = waiting /\ (ReleaseOk(preempted) \/ (ReleaseFails(preempted) /\ pc' = "raised"))
        BY <2>2, <3>1 DEF StepWithoutBatch, Raise
      <4>3. QED BY <1>4, <4>1, <4>2 DEF Broken
    <3>2. CASE preempted = None
      BY <2>2, <3>2 DEF StepWithoutBatch, Raise, Kept, Broken
    <3>3. QED BY <3>1, <3>2
  <2>3. CASE ReleaseFinished
    <3>1. Head(finished) \in Seqs
      BY <1>1, <2>3, HeadTailFacts DEF ReleaseFinished, Parts
    <3>2. /\ ReleaseOk(Head(finished)) \/ ReleaseFails(Head(finished))
          /\ Dequeue(Head(finished)) \/ waiting' = waiting
          /\ preempted' = preempted /\ preempted = None
      BY <1>1, <2>3 DEF ReleaseFinished, DebtInv
    <3>3. QED BY <1>4, <3>1, <3>2, SchedulerAssumption
  <2>4. CASE StartRelease \/ StepDone
    BY <2>4 DEF StartRelease, StepDone, Kept
  <2>5. QED BY <2>1, <2>2, <2>3, <2>4
<1>6. Prefills' \subseteq Prefills /\ Prefills' \subseteq Seqs
  BY <1>1, <1>3, <1>5 DEF Prefills, Parts
<1>7. Broken => Broken'
  BY <1>2 DEF Broken
<1>8. QED BY <1>2, <1>3, <1>5, <1>6, <1>7, RestPrompts

\* The run, and the ways it fails.
LEMMA RunPrompts ==
  ASSUME IInv, PromptInv, FitInv,
         StepRefused \/ HookFault \/ RunModel \/ RunModelFails \/ ReclaimOne \/ ReclaimDone
  PROVE  PromptInv' /\ FitInv'
<1>1. Parts
  BY PartsOfInv
<1>2. CASE RunModel
  <2>1. /\ pc = "returned" /\ pc' = "postprocess"
        /\ UNCHANGED <<prefilled, waiting, skipped, scheduled, isPrefill, resEnd, preempted, pendingReleases>>
    BY <1>2 DEF RunModel, Allocate
  <2>2. Prefills' = Prefills /\ Chosen' = Chosen
    BY <2>1 DEF Prefills, Chosen
  <2>3. QED BY <2>1, <2>2, RestPrompts DEF Kept, Broken
<1>3. CASE StepRefused \/ ReclaimDone \/ ReclaimOne \/ RunModelFails \/ HookFault
  <2>1. pc' \in {"raised", "reclaim"} /\ UNCHANGED prefilled
    BY <1>3 DEF StepRefused, ReclaimDone, ReclaimOne, RunModelFails, HookFault, PrefillHookFails, Raise
  <2>2. Chosen' = {} /\ Broken' /\ Prefills' = Range(waiting') \cup Range(skipped')
    BY <2>1 DEF Chosen, Broken, Prefills
  <2>3. Range(waiting') \cup Range(skipped') \subseteq Prefills
    <3>1. CASE StepRefused \/ ReclaimDone
      BY <3>1 DEF StepRefused, ReclaimDone, Prefills
    <3>2. CASE ReclaimOne
      <4>1. UNCHANGED skipped /\ (Dequeue(Head(scheduled)) \/ waiting' = waiting)
        BY <3>2 DEF ReclaimOne
      <4>2. QED BY <1>1, <4>1, DequeueShrinks DEF Prefills
    <3>3. CASE RunModelFails
      <4>1. UNCHANGED skipped /\ pc = "returned" /\ waiting' = IF isPrefill THEN scheduled \o waiting ELSE waiting
        BY <3>3 DEF RunModelFails
      <4>2. Range(scheduled \o waiting) = Range(scheduled) \cup Range(waiting)
        BY <1>1, ConcatFacts DEF Parts
      <4>3. QED BY <4>1, <4>2 DEF Prefills, Chosen
    <3>4. CASE HookFault
      <4>1. PICK s : s = Head(waiting)
        OBVIOUS
      <4>2. /\ pc = "prefill" /\ waiting # <<>> /\ skipped' = <<>>
            /\ waiting' = skipped \o Tail(waiting) \o scheduled \o <<s>>
        BY <3>4, <4>1 DEF HookFault, PrefillHookFails, InBucket, CanContinuePrefillBatch, ClearLocals
      <4>3. s \in Seqs /\ s \in Range(waiting) /\ Tail(waiting) \in Seq(Seqs) /\ Range(Tail(waiting)) \subseteq Range(waiting)
        BY <1>1, <4>1, <4>2, HeadTailFacts DEF Parts
      <4>4. PICK a, b, t : a = skipped \o Tail(waiting) /\ b = a \o scheduled /\ t = <<s>>
        OBVIOUS
      <4>5. a \in Seq(Seqs) /\ Range(a) \subseteq Range(skipped) \cup Range(waiting)
        <5>1. PICK k, r : k = skipped /\ r = Tail(waiting)
          OBVIOUS
        <5>2. k \in Seq(Seqs) /\ r \in Seq(Seqs)
          BY <1>1, <4>3, <5>1 DEF Parts
        <5>3. k \o r \in Seq(Seqs) /\ Range(k \o r) = Range(k) \cup Range(r)
          BY <5>2, ConcatFacts
        <5>4. QED BY <4>3, <4>4, <5>1, <5>3
      <4>6. b \in Seq(Seqs) /\ Range(b) = Range(a) \cup Range(scheduled)
        <5>1. scheduled \in Seq(Seqs)
          BY <1>1 DEF Parts
        <5>2. a \o scheduled \in Seq(Seqs) /\ Range(a \o scheduled) = Range(a) \cup Range(scheduled)
          BY <4>5, <5>1, ConcatFacts
        <5>3. QED BY <4>4, <5>2
      <4>7. t \in Seq(Seqs) /\ Range(t) = {s}
        <5>1. <<s>> \in Seq(Seqs) /\ Range(<<s>>) = {s}
          BY <4>3, SingletonFacts
        <5>2. QED BY <4>4, <5>1
      <4>8. Range(b \o t) = Range(b) \cup {s}
        <5>1. Range(b \o t) = Range(b) \cup Range(t)
          BY <4>6, <4>7, ConcatFacts
        <5>2. QED BY <4>7, <5>1
      <4>9. waiting' = b \o t /\ Range(skipped') = {}
        BY <4>2, <4>4, EmptyFacts
      <4>10. QED BY <4>2, <4>3, <4>5, <4>6, <4>8, <4>9 DEF Prefills, Chosen
    <3>5. QED BY <1>3, <3>1, <3>2, <3>3, <3>4
  <2>4. QED BY <2>1, <2>2, <2>3, RestPrompts DEF Kept
<1>4. QED BY <1>2, <1>3

\* Postprocessing: a chunk further, or out of prefill.
LEMMA PostPrompts ==
  ASSUME NEW X, MemInv(X), PromptInv, FitInv, PostPartialPrefill \/ PostLastPrefill \/ PostDecode
  PROVE  PromptInv' /\ FitInv'
<1>1. PICK h : h = Head(scheduled)
  OBVIOUS
<1>2. Due(h)
  BY <1>1, HeadIsDue DEF PostPartialPrefill, PostLastPrefill, PostDecode
<1>3. /\ pc = "postprocess" /\ pc' = "postprocess" /\ h \in Seqs /\ h \in Range(scheduled) /\ Parts
      /\ Range(scheduled') = Range(scheduled) \ {h}
      /\ UNCHANGED <<isPrefill, resEnd, pendingReleases, preempted, skipped>>
      /\ prefilled \in [Seqs -> Nat]
  BY <1>2 DEF Due, Parts, TypeOK, RequestTypes
<1>4. \A x : Kept(x)
  BY <1>3 DEF Kept
<1>5. ~Broken /\ ~Broken'
  BY <1>3 DEF Broken
<1>6. CASE PostDecode
  <2>1. ~isPrefill /\ UNCHANGED <<waiting, prefilled>>
    BY <1>6 DEF PostDecode
  <2>2. Prefills' = Prefills /\ Chosen' = Chosen
    BY <1>3, <2>1 DEF Prefills, Chosen
  <2>3. QED BY <1>3, <1>4, <1>5, <2>1, <2>2, RestPrompts
<1>7. CASE PostLastPrefill
  <2>1. isPrefill /\ UNCHANGED waiting /\ prefilled' = [prefilled EXCEPT ![h] = prefilled[h] + chunk[h]]
    BY <1>1, <1>7 DEF PostLastPrefill
  <2>2. h \notin Range(waiting) /\ h \notin Range(skipped)
    BY <1>2, <2>1 DEF Due
  <2>3. Prefills' = Prefills \ {h} /\ Chosen' = Chosen \ {h} /\ Prefills \subseteq Seqs
    BY <1>3, <2>1, <2>2 DEF Prefills, Chosen, Parts
  <2>4. \A x \in Prefills' : prefilled'[x] = prefilled[x]
    BY <1>3, <2>1, <2>3
  <2>5. \A x \in Prefills' : Carried(x)
    BY <1>4, <2>3, <2>4 DEF Carried, Underway, PromptInv
  <2>6. QED BY <1>3, <1>5, <2>5, CarriedPrompts
<1>8. CASE PostPartialPrefill
  <2>1. /\ isPrefill /\ waiting' = <<h>> \o waiting /\ ~LastChunk(h)
        /\ prefilled' = [prefilled EXCEPT ![h] = prefilled[h] + chunk[h]]
    BY <1>1, <1>8 DEF PostPartialPrefill
  <2>2. Range(waiting') = Range(waiting) \cup {h}
    BY <1>3, <2>1, PrependFacts DEF Parts
  <2>3. Prefills' = Prefills /\ Chosen' = Chosen \ {h} /\ h \in Chosen /\ Prefills \subseteq Seqs
    BY <1>3, <2>1, <2>2 DEF Prefills, Chosen, Parts
  <2>4. prefilled'[h] < PromptLen[h]
    BY <1>2, <1>3, <2>1 DEF Due, LastChunk
  <2>5. \A x \in Prefills' : x # h => prefilled'[x] = prefilled[x]
    BY <1>3, <2>1, <2>3
  <2>6. \A x \in Prefills' : Carried(x)
    BY <1>4, <2>3, <2>4, <2>5 DEF Carried, Underway, PromptInv
  <2>7. QED BY <1>3, <1>5, <2>6, CarriedPrompts
<1>9. QED BY <1>6, <1>7, <1>8

\* Everything around schedule() keeps the prompts.
LEMMA StepPrompts ==
  ASSUME NEW X, MemInv(X), \A x \in X : status[x] = "FINISHED", PoolInv, PromptInv, FitInv,
         StepSync => NothingInFlight,
         \/ StepSync \/ StepRefused \/ SyncStep
         \/ \E s \in Seqs : AdmitRequest(s) \/ AbortRequest(s)
  PROVE  PromptInv' /\ FitInv'
<1>1. IInv
  BY DEF MemInv
<1>2. CASE StepSync
  <2>1. pc' = "reserve" /\ Schedule(0) /\ UNCHANGED engineVars /\ pc = "idle" /\ pendingReleases = {}
    BY <1>2 DEF StepSync, Schedule
  <2>2. Moves
    BY <1>2, <2>1, EnterMoves
  <2>3. QED BY <2>1, <2>2, MovesPrompts
<1>3. ASSUME NEW s \in Seqs, AdmitRequest(s) PROVE PromptInv' /\ FitInv'
  BY <1>3, AdmitPrompts
<1>4. CASE (\E s \in Seqs : AbortRequest(s)) \/ StepWithoutBatch \/ StartRelease \/ ReleaseFinished \/ StepDone
  BY <1>4, EndPrompts
<1>5. CASE StepRefused \/ HookFault \/ RunModel \/ RunModelFails \/ ReclaimOne \/ ReclaimDone
  BY <1>1, <1>5, RunPrompts
<1>6. CASE PostPartialPrefill \/ PostLastPrefill \/ PostDecode
  BY <1>6, PostPrompts
<1>7. QED BY <1>2, <1>3, <1>4, <1>5, <1>6 DEF SyncStep

\* A request runs out of tokens only by finishing.
LEMMA StepRoom ==
  ASSUME IInv, RoomLeft, FinalStep,
         \/ StepSync \/ StepRefused \/ SyncStep \/ Scheduling
         \/ \E s \in Seqs : AdmitRequest(s) \/ AbortRequest(s)
  PROVE  RoomLeft'
<1>1. Parts /\ TypeOK
  BY PartsOfInv DEF IInv
<1>2. ASSUME tokens' = tokens PROVE RoomLeft'
  BY <1>2 DEF RoomLeft, FinalStep
<1>3. CASE PostLastPrefill \/ PostDecode
  <2>1. PICK h : h = Head(scheduled)
    OBVIOUS
  <2>2. UNCHANGED tokens \/ AppendToken(h)
    BY <1>3, <2>1 DEF PostLastPrefill, PostDecode
  <2>3. CASE AppendToken(h)
    <3>1. h \in Seqs /\ h \in Range(scheduled) /\ pc = "postprocess"
      BY <1>1, <1>3, <2>1, HeadTailFacts DEF Parts, PostLastPrefill, PostDecode, NextPost
    <3>2. status[h] # "FINISHED"
      BY <1>1, <3>1 DEF Parts, FinishInv, Broken
    <3>3. tokens[h] < MaxTokens[h] /\ tokens \in [Seqs -> Nat] /\ status \in [Seqs -> Statuses]
      BY <1>1, <3>1, <3>2 DEF RoomLeft, TypeOK, RequestTypes
    <3>4. PICK eos \in BOOLEAN :
            status' = [status EXCEPT ![h] = IF eos \/ tokens[h] + 1 = MaxTokens[h] THEN "FINISHED" ELSE "RUNNING"]
      BY <2>3 DEF AppendToken
    <3>5. tokens' = [tokens EXCEPT ![h] = tokens[h] + 1]
      BY <2>3 DEF AppendToken
    <3>6. MaxTokens[h] \in Nat
      BY <3>1, SchedulerAssumption
    <3>7. ASSUME NEW x \in Seqs, status'[x] # "FINISHED" PROVE tokens'[x] < MaxTokens[x]
      <4>1. CASE x = h
        <5>1. tokens[h] + 1 # MaxTokens[h]
          BY <3>1, <3>3, <3>4, <3>7, <4>1
        <5>2. QED BY <3>1, <3>3, <3>5, <3>6, <4>1, <5>1
      <4>2. CASE x # h
        BY <3>3, <3>5, <3>7, <4>2 DEF RoomLeft, FinalStep
      <4>3. QED BY <4>1, <4>2
    <3>8. QED BY <3>7 DEF RoomLeft
  <2>4. QED BY <1>2, <2>2, <2>3
<1>4. CASE Scheduling
  <2>1. UNCHANGED tokens
    BY <1>4 DEF Scheduling, ScheduleStep, AcquireWindow, PreemptUnreserved, StartPrefill, StartAffinity, AffinityScan,
                AffinityDecode, AffinityPrefill, OpenPrefill, PrefillSkip, PrefillDefer, PrefillTake, NextBucket,
                PrefillReturn, PreemptSoleUnreserved, StartDecode, DecodeRotate, DecodeTake, DecodeBlock,
                DecodePreempt, DecodeReturn, NothingToRun, PreemptDecodeVictim
  <2>2. QED BY <1>2, <2>1
<1>5. CASE \/ StepSync \/ StepRefused \/ HookFault \/ StepWithoutBatch \/ RunModel \/ RunModelFails \/ ReclaimOne
           \/ ReclaimDone \/ PostPartialPrefill \/ StartRelease \/ ReleaseFinished \/ StepDone
           \/ \E s \in Seqs : AdmitRequest(s) \/ AbortRequest(s)
  <2>1. UNCHANGED tokens
    BY <1>5 DEF StepSync, Schedule, StepRefused, HookFault, PrefillHookFails, StepWithoutBatch, RunModel,
                RunModelFails, ReclaimOne, ReclaimDone, PostPartialPrefill, StartRelease, ReleaseFinished, StepDone,
                AdmitRequest, AbortRequest
  <2>2. QED BY <1>2, <2>1
<1>6. QED BY <1>3, <1>4, <1>5 DEF SyncStep

\* A step that finds nothing scheduled finds a request preempted.
LEMMA StepScan ==
  ASSUME IInv, ScanInv, NeverHangs, StepWithoutBatch => asyncInflight = 0,
         \/ StepSync \/ StepRefused \/ SyncStep
         \/ \E s \in Seqs : AdmitRequest(s) \/ AbortRequest(s)
  PROVE  ScanInv' /\ NeverHangs'
<1>1. Parts
  BY PartsOfInv
<1>2. CASE StepSync
  <2>1. pc' = "reserve" /\ batchTokens' = 0 /\ ~IsFinished /\ UNCHANGED <<waiting, decoding, error>>
    BY <1>2 DEF StepSync, Schedule, ClearLocals
  <2>2. QED BY <2>1 DEF ScanInv, IsFinished, NeverHangs
<1>3. CASE StepWithoutBatch
  <2>1. preempted # None
    BY <1>3 DEF StepWithoutBatch, ScanInv
  <2>2. pc' \in {"idle", "raised"} /\ (error' = error \/ error' = "release")
    BY <1>3, <2>1 DEF StepWithoutBatch, Raise
  <2>3. QED BY <2>2 DEF ScanInv, NeverHangs
<1>4. CASE \/ StepRefused \/ HookFault \/ RunModel \/ RunModelFails \/ ReclaimOne \/ ReclaimDone
           \/ PostPartialPrefill \/ PostLastPrefill \/ PostDecode \/ StartRelease \/ ReleaseFinished \/ StepDone
           \/ \E s \in Seqs : AdmitRequest(s) \/ AbortRequest(s)
  <2>1. /\ pc' \in {"idle", "raised", "postprocess", "reclaim", "release"}
        /\ UNCHANGED error \/ error' \in {"release_pending", "hook", "model", "release"}
    BY <1>4 DEF StepRefused, HookFault, PrefillHookFails, RunModel, RunModelFails, ReclaimOne, ReclaimDone,
                PostPartialPrefill, PostLastPrefill, PostDecode, PostTail, NextPost, StartRelease, ReleaseFinished,
                StepDone, AdmitRequest, AbortRequest, Raise
  <2>2. QED BY <2>1 DEF ScanInv, NeverHangs
<1>5. QED BY <1>2, <1>3, <1>4 DEF SyncStep

\* A step that changes nothing keeps the engine runnable.
LEMMA StutterRunnable == ASSUME RunnableInv, UNCHANGED vars PROVE RunnableInv'
<1>1. RoomLeft /\ PromptInv /\ FitInv /\ ScanInv /\ NeverHangs
  BY DEF RunnableInv
<1>2. UNCHANGED <<waiting, decoding, scheduled, skipped, pc, error, isPrefill, resEnd, prefilled, tokens, cursor,
                  status, admit, budget, modes, free, batchTokens, refused, blocked, preempted, pendingReleases,
                  asyncInflight>>
  BY DEF vars, schedVars
<1>3. Prefills' = Prefills /\ Chosen' = Chosen /\ (Broken' <=> Broken)
  BY <1>2 DEF Prefills, Chosen, Broken
<1>4. PromptInv' /\ RoomLeft' /\ NeverHangs'
  BY <1>1, <1>2, <1>3 DEF PromptInv, RoomLeft, NeverHangs
<1>5. NoneStarts
  BY <1>2, <1>3 DEF NoneStarts, Underway
<1>6. FitInv'
  BY <1>1, <1>2, <1>5, NoneStartsFits
<1>7. ScanInv'
  <2>1. Promising' <=> Promising
    BY <1>2 DEF Promising, InMode, Candidate, ReplayWaiting, IsReplay
  <2>2. QED BY <1>1, <1>2, <2>1 DEF ScanInv, IsFinished
<1>8. QED BY <1>4, <1>6, <1>7 DEF RunnableInv

\* Every step of the synchronous engine keeps it runnable.
LEMMA NextRunnable ==
  ASSUME CoreInv, [Next]_vars
  PROVE  RunnableInv' /\ asyncInflight' = 0
<1>1. /\ MemInv({}) /\ IInv /\ SlotInv /\ PoolInv /\ NothingInFlight /\ asyncInflight = 0 /\ RunnableInv
      /\ RoomLeft /\ PromptInv /\ FitInv /\ ScanInv /\ NeverHangs
  BY DEF CoreInv, MemoryInv, MemInv, SlotInv, RunnableInv
<1>2. asyncInflight' = 0
  <2>1. CASE UNCHANGED vars
    BY <1>1, <2>1 DEF vars, schedVars
  <2>2. CASE Scheduling
    BY <1>1, <2>2 DEF Scheduling, ScheduleStep, AcquireWindow, PreemptUnreserved, StartPrefill, StartAffinity,
                AffinityScan, AffinityDecode, AffinityPrefill, OpenPrefill, PrefillSkip, PrefillDefer, PrefillTake,
                NextBucket, PrefillReturn, PreemptSoleUnreserved, StartDecode, DecodeRotate, DecodeTake, DecodeBlock,
                DecodePreempt, DecodeReturn, NothingToRun, PreemptDecodeVictim
  <2>3. CASE Next /\ ~Scheduling
    BY <1>1, <2>3 DEF Next, Driver, SyncStep, StepSync, Schedule, StepRefused, HookFault, PrefillHookFails,
                StepWithoutBatch, RunModel, RunModelFails, ReclaimOne, ReclaimDone, PostPartialPrefill,
                PostLastPrefill, PostDecode, PostTail, StartRelease, ReleaseFinished, StepDone, AdmitRequest,
                AbortRequest
  <2>4. QED BY <2>1, <2>2, <2>3
<1>3. CASE UNCHANGED vars
  BY <1>1, <1>2, <1>3, StutterRunnable
<1>4. CASE Next /\ ~UNCHANGED vars
  <2>1. FinalStep
    BY <1>1, <1>4, FinalNext
  <2>2. RoomLeft'
    BY <1>1, <1>4, <2>1, StepRoom DEF Next, Driver
  <2>3. CASE Scheduling
    <3>1. PromptInv' /\ FitInv'
      BY <1>1, <2>3, SchedulingPrompts
    <3>2. ScanInv' /\ NeverHangs'
      BY <1>1, <2>3, SchedulingScan
    <3>3. QED BY <1>2, <2>2, <3>1, <3>2 DEF RunnableInv
  <2>4. CASE ~Scheduling
    <3>1. PromptInv' /\ FitInv'
      BY <1>1, <1>4, <2>4, StepPrompts DEF Next, Driver
    <3>2. ScanInv' /\ NeverHangs'
      BY <1>1, <1>4, <2>4, StepScan DEF Next, Driver
    <3>3. QED BY <1>2, <2>2, <3>1, <3>2 DEF RunnableInv
  <2>5. QED BY <2>3, <2>4
<1>5. QED BY <1>3, <1>4

\* Before the first request there is nothing to run and nothing that failed.
LEMMA InitRunnable == Init => RunnableInv
<1>1. SUFFICES ASSUME Init PROVE RunnableInv
  OBVIOUS
<1>2. /\ waiting = <<>> /\ scheduled = <<>> /\ skipped = <<>> /\ pc = "idle" /\ error = "none"
      /\ tokens = [s \in Seqs |-> 0]
  BY <1>1 DEF Init
<1>3. Prefills = {} /\ Chosen = {}
  BY <1>2, EmptyFacts DEF Prefills, Chosen
<1>4. RoomLeft
  <2>1. \A s \in Seqs : MaxTokens[s] \in Nat \ {0}
    BY SchedulerAssumption
  <2>2. QED BY <1>2, <2>1 DEF RoomLeft
<1>5. PromptInv /\ ScanInv /\ NeverHangs
  BY <1>2, <1>3 DEF PromptInv, ScanInv, NeverHangs
<1>6. FitInv
  <2>1. PICK P : P = Started
    OBVIOUS
  <2>2. \A x \in Seqs : P[x] = 0
    BY <1>3, <2>1, StartedTypes DEF StartedFacts, Underway
  <2>3. {} \in SUBSET Seqs /\ Weights(P, {}) /\ IsFiniteSet({}) /\ IsFiniteSet(Seqs)
    BY FS_EmptySet, SchedulerAssumption DEF Weights
  <2>4. SumFunctionOnSet(P, Seqs) = SumFunctionOnSet(P, {})
    <3>1. (\A x \in {} : P[x] = P[x]) /\ (\A x \in Seqs \ {} : P[x] = 0)
      BY <2>2
    <3>2. QED BY <2>3, <3>1, SumSupport
  <2>5. SumFunctionOnSet(P, {}) = 0
    BY <2>3, SumFacts
  <2>6. NumSlots \in Nat /\ Spare = 0
    BY <1>2, SchedulerAssumption DEF Spare
  <2>7. QED BY <2>1, <2>4, <2>5, <2>6 DEF FitInv
<1>7. QED BY <1>4, <1>5, <1>6 DEF RunnableInv
-----------------------------------------------------------------------------
(* The requests that were given a row *)

\* Claims weigh whole prompts, and there are finitely many.
ClaimFacts ==
  /\ \A s \in Seqs : Claimed[s] = (IF Claims(s) THEN PromptLen[s] ELSE 0) /\ Claimed[s] \in Nat
  /\ Weights(Claimed, Seqs) /\ SumFunctionOnSet(Claimed, Seqs) \in Nat
  /\ Claimants \in SUBSET Seqs /\ IsFiniteSet(Claimants) /\ Cardinality(Claimants) \in Nat

\* In every state.
LEMMA ClaimTypes == ClaimFacts
<1>1. \A s \in Seqs : Claimed[s] = (IF Claims(s) THEN PromptLen[s] ELSE 0) /\ Claimed[s] \in Nat
  BY SchedulerAssumption DEF Claimed
<1>2. IsFiniteSet(Seqs) /\ Weights(Claimed, Seqs)
  BY <1>1, SchedulerAssumption DEF Weights
<1>3. SumFunctionOnSet(Claimed, Seqs) \in Nat
  BY <1>1, <1>2, SumNat
<1>4. Claimants \in SUBSET Seqs
  BY DEF Claimants
<1>5. IsFiniteSet(Claimants) /\ Cardinality(Claimants) \in Nat
  BY <1>2, <1>4, FS_Subset, FS_CardinalityType
<1>6. QED BY <1>1, <1>2, <1>3, <1>4, <1>5 DEF ClaimFacts

\* Whoever claims a row after the step claimed it before.
NoneClaims == ~Broken /\ \A s \in Seqs : Claims(s)' => Claims(s)

\* Then the claims are no more than before.
LEMMA ClaimsShrink ==
  ASSUME NoneClaims
  PROVE  /\ SumFunctionOnSet(Claimed, Seqs)' <= SumFunctionOnSet(Claimed, Seqs)
         /\ Cardinality(Claimants)' <= Cardinality(Claimants)
<1>1. ClaimFacts /\ ClaimFacts'
  BY ClaimTypes, PTL
<1>2. PICK P : P = Claimed'
  OBVIOUS
<1>3. ASSUME NEW s \in Seqs PROVE P[s] <= Claimed[s]
  <2>1. P[s] = (IF Claims(s)' THEN PromptLen[s] ELSE 0) /\ Claimed[s] = (IF Claims(s) THEN PromptLen[s] ELSE 0)
    BY <1>1, <1>2 DEF ClaimFacts
  <2>2. (Claims(s)' => Claims(s)) /\ PromptLen[s] \in Nat
    BY SchedulerAssumption DEF NoneClaims
  <2>3. CASE Claims(s)'
    BY <2>1, <2>2, <2>3
  <2>4. CASE ~Claims(s)'
    BY <2>1, <2>2, <2>4
  <2>5. QED BY <2>3, <2>4
<1>4. Weights(P, Seqs) /\ Weights(Claimed, Seqs) /\ IsFiniteSet(Seqs)
  BY <1>1, <1>2, SchedulerAssumption DEF ClaimFacts
<1>5. SumFunctionOnSet(P, Seqs) <= SumFunctionOnSet(Claimed, Seqs)
  <2>1. (\A x \in Seqs : P[x] <= Claimed[x]) /\ (\A x \in Seqs \ Seqs : 0 <= Claimed[x])
    BY <1>3
  <2>2. QED BY <1>4, <2>1, SumBelow
<1>6. Claimants' \subseteq Claimants
  BY DEF Claimants, NoneClaims
<1>7. Cardinality(Claimants') <= Cardinality(Claimants)
  BY <1>1, <1>6, FS_Subset DEF ClaimFacts
<1>8. QED BY <1>2, <1>5, <1>7

\* A step that lets nobody in keeps the claims, in the scan and out of it.
LEMMA NoneClaimsInv ==
  ASSUME ClaimInv, NoneClaims, Spare \in Nat,
         \/ pc' # "prefill"
         \/ /\ pc = "prefill" /\ admit' = admit /\ scheduled' = scheduled /\ cursor' = cursor
            /\ NoReplays' <=> NoReplays
  PROVE  ClaimInv'
<1>1. PICK a, b : a = (IF NoReplays THEN Spare ELSE 0) /\ b = (IF NoReplays' THEN Spare' ELSE 0)
  OBVIOUS
<1>2. a \in Nat /\ b \in Nat /\ b <= a
  BY <1>1 DEF Spare
<1>3. PICK p, q, m, n : /\ p = SumFunctionOnSet(Claimed, Seqs) /\ q = SumFunctionOnSet(Claimed, Seqs)'
                        /\ m = Cardinality(Claimants) /\ n = Cardinality(Claimants)'
  OBVIOUS
<1>4. p \in Nat /\ q \in Nat /\ m \in Nat /\ n \in Nat /\ NumSlots \in Nat /\ NumRows \in Nat
  <2>1. ClaimFacts /\ ClaimFacts'
    BY ClaimTypes, PTL
  <2>2. QED BY <1>3, <2>1, SchedulerAssumption DEF ClaimFacts
<1>5. q <= p /\ n <= m
  BY <1>3, ClaimsShrink
<1>6. p + a <= NumSlots /\ m <= NumRows
  BY <1>1, <1>3 DEF ClaimInv, NoneClaims
<1>7. q + b <= NumSlots /\ n <= NumRows
  BY <1>2, <1>4, <1>5, <1>6
<1>8. (pc = "prefill" /\ scheduled # <<>> /\ ~IsReplay(scheduled[1]) => NoReplays)'
  BY DEF ClaimInv, NoneClaims, IsReplay
<1>9. QED BY <1>1, <1>3, <1>7, <1>8 DEF ClaimInv

\* Requests that stay where they are, or leave, claim nothing new.
LEMMA RestClaims ==
  ASSUME ClaimInv, Spare \in Nat, pc' # "prefill", Broken => Broken', UNCHANGED <<prefilled, cursor>>,
         Prefills' \subseteq Prefills, Decodes' \subseteq Decodes, Chosen' \subseteq Chosen
  PROVE  ClaimInv'
<1>1. CASE Broken
  BY <1>1 DEF ClaimInv
<1>2. CASE ~Broken
  <2>1. NoneClaims
    BY <1>2 DEF NoneClaims, Claims, Underway, IsReplay
  <2>2. QED BY <2>1, NoneClaimsInv
<1>3. QED BY <1>1, <1>2

\* Nor do requests that move between queues of one kind.
LEMMA MovesClaims ==
  ASSUME ClaimInv, Spare \in Nat, Moves,
         pc' # "prefill" \/ (pc = "prefill" /\ admit' = admit /\ scheduled' = scheduled)
  PROVE  ClaimInv'
<1>1. /\ UNCHANGED <<prefilled, cursor>> /\ ~Broken
      /\ Prefills' = Prefills /\ Decodes' = Decodes /\ Chosen' \subseteq Chosen
  BY DEF Moves, Untouched
<1>2. NoneClaims
  BY <1>1 DEF NoneClaims, Claims, Underway, IsReplay
<1>3. NoReplays' <=> NoReplays
  BY <1>1 DEF NoReplays, IsReplay
<1>4. QED BY <1>1, <1>2, <1>3, NoneClaimsInv

\* A victim takes its claim along.
LEMMA PreemptClaims ==
  ASSUME IInv, ClaimInv, Spare \in Nat, Preempts, UNCHANGED engineVars
  PROVE  ClaimInv'
<1>1. Parts
  BY PartsOfInv
<1>2. PICK v, others : Victim(v, others)
  BY VictimFacts
<1>3. /\ v \in Range(decoding) /\ pc \in {"reserve", "prefill", "decode"} /\ scheduled = <<>> /\ skipped = <<>>
      /\ scheduled' = <<>> /\ skipped' = <<>> /\ Range(others) = Range(decoding) \ {v} /\ others \in Seq(Seqs)
      /\ DrainRequired(v, others) \/ RejectPreemption(v, others) \/ StartReplay(v, others)
  BY <1>2 DEF Victim, PreemptDecodeVictim, ClearLocals
<1>4. Range(scheduled) = {} /\ Range(scheduled') = {} /\ Range(skipped) = {} /\ Range(skipped') = {}
  BY <1>3, EmptyFacts
<1>5. /\ Chosen = {} /\ Chosen' = {} /\ Prefills = Range(waiting) /\ Prefills' = Range(waiting')
      /\ Decodes = Range(decoding) /\ Decodes' = Range(decoding') /\ ~Broken /\ v \in Seqs
  BY <1>1, <1>3, <1>4 DEF Chosen, Prefills, Decodes, Broken, Parts
<1>6. CASE DrainRequired(v, others) \/ RejectPreemption(v, others)
  <2>1. UNCHANGED <<waiting, prefilled, cursor>> /\ pc' \in {"drain", "raised"} /\ decoding' = <<v>> \o others
    BY <1>6 DEF DrainRequired, RejectPreemption, Raise
  <2>2. Range(decoding') = Range(decoding)
    <3>1. Range(<<v>> \o others) = Range(others) \cup {v}
      BY <1>3, <1>5, PrependFacts
    <3>2. QED BY <1>3, <2>1, <3>1
  <2>3. QED BY <1>5, <2>1, <2>2, RestClaims
<1>7. CASE StartReplay(v, others)
  <2>1. /\ waiting' = Append(waiting, v) /\ prefilled' = [prefilled EXCEPT ![v] = 0] /\ decoding' = others
        /\ pc' = "returned" /\ cursor' = [cursor EXCEPT ![v] = IF tokens[v] > 0 THEN 0 ELSE cursor[v]]
    BY <1>7 DEF StartReplay
  <2>2. Range(waiting') = Range(waiting) \cup {v}
    BY <1>1, <1>5, <2>1, AppendFacts DEF Parts
  <2>3. \A s \in Seqs : s # v => prefilled'[s] = prefilled[s] /\ cursor'[s] = cursor[s]
    BY <1>1, <2>1 DEF Parts, TypeOK, RequestTypes
  <2>4. NoneClaims
    <3>1. ASSUME NEW s \in Seqs, Claims(s)' PROVE Claims(s)
      <4>1. CASE s = v
        BY <1>3, <1>5, <4>1 DEF Claims
      <4>2. CASE s # v
        BY <1>3, <1>5, <2>1, <2>2, <2>3, <3>1, <4>2 DEF Claims, Underway, IsReplay
      <4>3. QED BY <4>1, <4>2
    <3>2. QED BY <1>5, <3>1 DEF NoneClaims
  <2>5. QED BY <2>1, <2>4, NoneClaimsInv
<1>8. QED BY <1>3, <1>6, <1>7

\* What each request fills of the cache, with the rest of its prompt when
\* reserved_prefill counts it.
Filled == [s \in Seqs |-> IF s \in Range(waiting) /\ prefilled[s] \in 1..(PromptLen[s] - 1)
                          THEN kv[s] + Remaining(s) ELSE kv[s]]

\* They are the slots that are taken and the ones that are reserved.
LEMMA FilledFacts ==
  ASSUME TypeOK, PoolInv, Range(waiting) \subseteq Seqs
  PROVE  /\ Weights(Filled, Seqs) /\ \A s \in Seqs : Filled[s] \in Nat
         /\ SumFunctionOnSet(Filled, Seqs) = SumFunctionOnSet(kv, Seqs) + ReservedPrefill
         /\ ReservedPrefill \in Nat
<1>1. PICK g, B : /\ g = [s \in Seqs |-> Remaining(s)]
                  /\ B = {s \in Range(waiting) : prefilled[s] \in 1..(PromptLen[s] - 1)}
  OBVIOUS
<1>2. /\ B \in SUBSET Seqs /\ IsFiniteSet(Seqs) /\ IsFiniteSet(B) /\ Weights(kv, Seqs) /\ kv \in [Seqs -> Nat]
      /\ prefilled \in [Seqs -> Nat]
  BY <1>1, PoolFacts, FS_Subset DEF TypeOK, RequestTypes
<1>3. \A s \in Seqs : g[s] = Remaining(s) /\ g[s] \in Nat
  BY <1>1, SchedulerAssumption DEF Remaining, TypeOK, RequestTypes
<1>4. PICK h : h = Filled
  OBVIOUS
<1>5. (\A x \in B : h[x] = kv[x] + g[x]) /\ (\A x \in Seqs \ B : h[x] = kv[x])
  BY <1>1, <1>2, <1>4 DEF Filled
<1>6. \A x \in Seqs : h[x] \in Nat
  BY <1>2, <1>3, <1>5
<1>7. Weights(g, B) /\ Weights(h, Seqs)
  BY <1>2, <1>3, <1>6 DEF Weights
<1>8. SumFunctionOnSet(h, Seqs) = SumFunctionOnSet(kv, Seqs) + SumFunctionOnSet(g, B)
  BY <1>2, <1>5, <1>7, SumPlus
<1>9. SumFunctionOnSet(g, B) \in Nat
  BY <1>2, <1>3, SumNat
<1>10. ReservedPrefill = SumFunctionOnSet(g, B)
  BY <1>1 DEF ReservedPrefill
<1>11. QED BY <1>4, <1>6, <1>7, <1>8, <1>9, <1>10

\* Between batches a row is as long as what was computed: the prompt so far of
\* a request that waits, the whole prompt and more of one that decodes.
LEMMA RowsBetween ==
  ASSUME MemInv({}), NothingInFlight, PromptInv, FaultlessInv, pc \in {"reserve", "affinity", "prefill", "decode"},
         pc \in {"prefill", "decode"} => scheduled = <<>>
  PROVE  /\ Prefills = Range(waiting) \cup Range(skipped) /\ Chosen = {} /\ Decodes = Range(decoding)
         /\ Prefills \subseteq Seqs /\ Decodes \subseteq Seqs /\ ~Broken
         /\ \A s \in Prefills : kv[s] = prefilled[s] /\ prefilled[s] < PromptLen[s] /\ resEnd[s] = 0
         /\ \A s \in Decodes : /\ kv[s] = DecodeInputPosition(s) /\ DecodeInputPosition(s) \in Nat
                               /\ PromptLen[s] <= DecodeInputPosition(s)
                               /\ DecodeInputPosition(s) < PromptLen[s] + tokens[s]
         /\ \A s \in Seqs : Holds(s) => s \in Decodes \/ (s \in Prefills /\ prefilled[s] > 0)
<1>1. Parts /\ TypeOK /\ OwnerInv({}) /\ RowInv /\ DebtInv /\ pendingReleases = {} /\ preempted = None
      /\ releaseFailed = {} /\ ProgressInv
  BY PartsOfInv, InsideCall DEF MemInv, IInv, KVInv, FaultlessInv
<1>2. ~Broken /\ \A s : Written(s) = 0
  BY DEF Broken, Written
<1>3. pc \in {"prefill", "decode"} => Range(scheduled) = {}
  BY EmptyFacts
<1>4. /\ Prefills = Range(waiting) \cup Range(skipped) /\ Chosen = {} /\ Decodes = Range(decoding)
      /\ Prefills \subseteq Seqs /\ Decodes \subseteq Seqs
  BY <1>1, <1>3 DEF Prefills, Chosen, Decodes, Parts
<1>5. ASSUME NEW s \in Prefills PROVE kv[s] = prefilled[s] /\ prefilled[s] < PromptLen[s] /\ resEnd[s] = 0
  <2>1. s \in Seqs /\ s # preempted /\ prefilled[s] \in Nat
    BY <1>1, <1>4, SchedulerAssumption DEF TypeOK, RequestTypes
  <2>2. kv[s] = prefilled[s] + 0
    BY <1>1, <1>2, <2>1 DEF RowInv
  <2>3. QED BY <1>1, <1>2, <2>1, <2>2 DEF PromptInv
<1>6. ASSUME NEW s \in Decodes
      PROVE  /\ kv[s] = DecodeInputPosition(s) /\ DecodeInputPosition(s) \in Nat
             /\ PromptLen[s] <= DecodeInputPosition(s) /\ DecodeInputPosition(s) < PromptLen[s] + tokens[s]
  <2>1. s \in Seqs /\ s \notin releaseFailed /\ PromptLen[s] \in Nat /\ tokens[s] \in Nat /\ inflight[s] \in Nat
        /\ cursor[s] \in Nat \cup {-1} /\ kv[s] \in Nat
    BY <1>1, <1>4, SchedulerAssumption DEF TypeOK, RequestTypes
  <2>2. kv[s] = DecodeInputPosition(s) + 0 /\ Submitted(s) >= 1 /\ (IsReplay(s) => cursor[s] + 1 < tokens[s])
    BY <1>1, <1>2, <2>1 DEF RowInv
  <2>3. inflight[s] = 0
    BY <2>1 DEF NothingInFlight
  <2>4. QED BY <2>1, <2>2, <2>3 DEF DecodeInputPosition, Submitted, IsReplay
<1>7. ASSUME NEW s \in Seqs, Holds(s) PROVE s \in Decodes \/ (s \in Prefills /\ prefilled[s] > 0)
  <2>1. s \in Decodes \/ (s \in Prefills /\ (status[s] = "RUNNING" \/ prefilled[s] > 0))
    BY <1>1, <1>7, SchedulerAssumption DEF OwnerInv
  <2>2. s \in Prefills => status[s] = "WAITING"
    BY <1>4 DEF FaultlessInv
  <2>3. QED BY <2>1, <2>2
<1>8. QED BY <1>2, <1>4, <1>5, <1>6, <1>7

\* Without a replay the claims are slots that are taken or reserved.
LEMMA ClaimsBetween ==
  ASSUME MemInv({}), NothingInFlight, PoolInv, PromptInv, FaultlessInv, pc \in {"reserve", "affinity"}, NoReplays
  PROVE  SumFunctionOnSet(Claimed, Seqs) <= SumFunctionOnSet(kv, Seqs) + ReservedPrefill
<1>1. Parts /\ TypeOK
  BY PartsOfInv DEF MemInv, IInv
<1>2. Range(skipped) = {}
  BY <1>1, EmptyFacts DEF Parts, CallInv
<1>3. /\ Prefills = Range(waiting) /\ Chosen = {}
      /\ \A s \in Prefills : kv[s] = prefilled[s] /\ prefilled[s] < PromptLen[s]
      /\ \A s \in Decodes : kv[s] = DecodeInputPosition(s) /\ PromptLen[s] <= DecodeInputPosition(s)
  BY <1>2, RowsBetween
<1>4. /\ Weights(Filled, Seqs) /\ \A s \in Seqs : Filled[s] \in Nat
      /\ SumFunctionOnSet(Filled, Seqs) = SumFunctionOnSet(kv, Seqs) + ReservedPrefill
  BY <1>1, FilledFacts DEF Parts
<1>5. ClaimFacts
  BY ClaimTypes
<1>6. ASSUME NEW s \in Seqs PROVE Claimed[s] <= Filled[s]
  <2>1. /\ prefilled[s] \in Nat /\ kv[s] \in Nat /\ PromptLen[s] \in Nat
        /\ Claimed[s] = (IF Claims(s) THEN PromptLen[s] ELSE 0) /\ Filled[s] \in Nat
    BY <1>1, <1>4, <1>5, SchedulerAssumption DEF ClaimFacts, TypeOK, RequestTypes
  <2>2. CASE s \in Decodes
    <3>1. PromptLen[s] <= kv[s]
      BY <1>3, <2>2
    <3>2. Remaining(s) \in Nat /\ (Filled[s] = kv[s] \/ Filled[s] = kv[s] + Remaining(s))
      BY <1>1, <2>1 DEF Filled, Remaining, TypeOK, RequestTypes
    <3>3. QED BY <2>1, <3>1, <3>2
  <2>3. CASE s \notin Decodes /\ Claims(s)
    <3>1. s \in Range(waiting) /\ prefilled[s] > 0
      BY <1>3, <2>3 DEF Claims, Underway, NoReplays
    <3>2. kv[s] = prefilled[s] /\ prefilled[s] \in 1..(PromptLen[s] - 1)
      BY <1>3, <2>1, <3>1
    <3>3. Filled[s] = prefilled[s] + (PromptLen[s] - prefilled[s])
      BY <3>1, <3>2 DEF Filled, Remaining
    <3>4. QED BY <2>1, <3>3
  <2>4. CASE ~Claims(s)
    BY <2>1, <2>4
  <2>5. QED BY <2>2, <2>3, <2>4
<1>7. SumFunctionOnSet(Claimed, Seqs) <= SumFunctionOnSet(Filled, Seqs)
  <2>1. (\A x \in Seqs : Claimed[x] <= Filled[x]) /\ (\A x \in Seqs \ Seqs : 0 <= Filled[x])
        /\ Weights(Claimed, Seqs) /\ IsFiniteSet(Seqs)
    BY <1>5, <1>6, SchedulerAssumption DEF ClaimFacts
  <2>2. QED BY <1>4, <2>1, SumBelow
<1>8. QED BY <1>4, <1>7

\* What a scan may admit fits beside the claims, when no replay waits.
LEMMA OpenClaims ==
  ASSUME MemInv({}), NothingInFlight, PoolInv, PromptInv, FaultlessInv, ClaimInv, UNCHANGED engineVars,
         StartPrefill \/ AffinityPrefill
  PROVE  ClaimInv'
<1>1. Moves /\ TypeOK
  BY StartPrefillMoves DEF MemInv, IInv
<1>2. /\ pc' = "prefill" /\ pc \in {"reserve", "affinity"} /\ scheduled' = <<>>
      /\ admit' = Positive(freeSlots - ReservedPrefill - Outstanding)
  BY DEF StartPrefill, AffinityPrefill, OpenPrefill, Acquired
<1>3. /\ UNCHANGED <<prefilled, cursor>> /\ ~Broken
      /\ Prefills' = Prefills /\ Decodes' = Decodes /\ Chosen' \subseteq Chosen
  BY <1>1 DEF Moves, Untouched
<1>4. NoneClaims /\ (NoReplays' <=> NoReplays)
  BY <1>3 DEF NoneClaims, Claims, Underway, IsReplay, NoReplays
<1>5. PICK p, q, o, r, k, m, n :
        /\ p = SumFunctionOnSet(Claimed, Seqs) /\ q = SumFunctionOnSet(Claimed, Seqs)'
        /\ o = Outstanding /\ r = ReservedPrefill /\ k = SumFunctionOnSet(kv, Seqs)
        /\ m = Cardinality(Claimants) /\ n = Cardinality(Claimants)'
  OBVIOUS
<1>6. p \in Nat /\ q \in Nat /\ q <= p /\ m \in Nat /\ n \in Nat /\ n <= m
  <2>1. ClaimFacts /\ ClaimFacts'
    BY ClaimTypes, PTL
  <2>2. QED BY <1>4, <1>5, <2>1, ClaimsShrink DEF ClaimFacts
<1>7. /\ r \in Nat /\ o \in Nat /\ k \in Int /\ freeSlots \in Nat /\ NumSlots \in Nat /\ NumRows \in Nat
      /\ freeSlots + k = NumSlots
  BY <1>1, <1>2, <1>5, StartedBetween, OutstandingNat, PoolFacts, SchedulerAssumption
<1>8. p <= NumSlots /\ m <= NumRows
  <2>1. Spare = 0
    BY <1>2 DEF Spare
  <2>2. p + 0 <= NumSlots /\ m <= NumRows
    BY <1>3, <1>5, <2>1 DEF ClaimInv
  <2>3. QED BY <1>6, <2>2
<1>9. PICK a : a = admit'
  OBVIOUS
<1>10. NoReplays => p <= k + r
  BY <1>2, <1>5, ClaimsBetween
<1>11. NoReplays => q + a <= NumSlots
  <2>1. a = Positive(freeSlots - r - o)
    BY <1>2, <1>5, <1>9
  <2>2. CASE freeSlots - r - o > 0
    <3>1. a = freeSlots - r - o
      BY <2>1, <2>2 DEF Positive
    <3>2. QED BY <1>6, <1>7, <1>10, <2>2, <3>1
  <2>3. CASE ~(freeSlots - r - o > 0)
    <3>1. a = 0
      BY <2>1, <2>3 DEF Positive
    <3>2. QED BY <1>6, <1>7, <1>8, <3>1
  <2>4. QED BY <2>2, <2>3
<1>12. Spare' = a
  BY <1>2, <1>9 DEF Spare
<1>13. q + (IF NoReplays' THEN Spare' ELSE 0) <= NumSlots /\ n <= NumRows
  BY <1>4, <1>6, <1>7, <1>8, <1>11, <1>12
<1>14. QED BY <1>2, <1>5, <1>13 DEF ClaimInv

\* A first chunk claims a row: one that was free, or the one of a replay.
LEMMA TakeClaims ==
  ASSUME MemInv({}), PromptInv, FitInv, FaultlessInv, ClaimInv, UNCHANGED engineVars, PrefillTake
  PROVE  ClaimInv'
<1>1. Parts /\ TypeOK /\ ClaimFacts /\ pendingReleases = {} /\ preempted = None /\ RowInv /\ OwnerInv({})
  <2>1. pc = "prefill"
    BY DEF PrefillTake, InBucket
  <2>2. QED BY <2>1, PartsOfInv, ClaimTypes, InsideCall DEF MemInv, IInv, KVInv
<1>2. PICK s : s = Head(waiting)
  OBVIOUS
<1>3. /\ pc = "prefill" /\ pc' = "prefill" /\ waiting # <<>> /\ Candidate(s)
      /\ scheduled # <<>> => ~IsReplay(scheduled[1])
      /\ waiting' = Tail(waiting) /\ scheduled' = Append(scheduled, s)
      /\ prefilled[s] = 0 => PromptLen[s] <= admit /\ FreeRows >= 1
      /\ admit' = IF prefilled[s] = 0 THEN admit - PromptLen[s] ELSE admit
      /\ UNCHANGED <<skipped, isPrefill, prefilled, cursor, decoding>>
  BY <1>2 DEF PrefillTake, InBucket, CanContinuePrefillBatch, AdmissionFits, InMode
<1>4. s \in Seqs /\ s \in Range(waiting) /\ Range(waiting') = Range(waiting) \ {s}
      /\ Range(scheduled') = Range(scheduled) \cup {s}
  <2>1. /\ Head(waiting) \in Seqs /\ Head(waiting) \in Range(waiting)
        /\ Range(Tail(waiting)) = Range(waiting) \ {Head(waiting)}
    BY <1>1, <1>3, HeadTailFacts DEF Parts
  <2>2. Range(Append(scheduled, s)) = Range(scheduled) \cup {s}
    BY <1>1, <1>2, <2>1, AppendFacts DEF Parts
  <2>3. QED BY <1>2, <1>3, <2>1, <2>2
<1>5. /\ Chosen' = Chosen \cup {s} /\ Prefills' = Prefills /\ s \in Prefills /\ s \notin Chosen /\ Decodes' = Decodes
      /\ ~Broken /\ ~Broken' /\ Chosen = Range(scheduled) /\ s \notin Decodes
  <2>1. s \notin Range(scheduled) /\ s \notin Range(decoding)
    BY <1>1, <1>3, <1>4 DEF Parts, OwnedOnce, Popped
  <2>2. QED BY <1>3, <1>4, <2>1 DEF Chosen, Prefills, Decodes, Broken
<1>6. NoReplays' <=> NoReplays
  BY <1>3, <1>5 DEF NoReplays, IsReplay
<1>7. /\ PromptLen[s] \in Nat /\ admit \in Nat /\ prefilled[s] \in Nat /\ NumSlots \in Nat /\ NumRows \in Nat
      /\ Spare = admit /\ Spare \in Nat
  BY <1>1, <1>3, <1>4, SchedulerAssumption DEF FitInv, Spare, TypeOK, RequestTypes
<1>8. \A x \in Seqs : x # s => (Claims(x)' <=> Claims(x))
  BY <1>3, <1>5 DEF Claims, Underway, IsReplay
<1>9. CASE ~NoReplays
  <2>1. scheduled = <<>> /\ Chosen = {}
    BY <1>3, <1>5, <1>9, EmptyFacts DEF ClaimInv
  <2>2. ReplayWaiting
    BY <1>9, <2>1 DEF NoReplays, Prefills, ReplayWaiting
  <2>3. IsReplay(s)
    BY <1>3, <2>2 DEF Candidate
  <2>4. NoneClaims
    BY <1>5, <1>8, <2>3 DEF NoneClaims, Claims
  <2>5. /\ SumFunctionOnSet(Claimed, Seqs)' <= SumFunctionOnSet(Claimed, Seqs)
        /\ Cardinality(Claimants)' <= Cardinality(Claimants)
    BY <2>4, ClaimsShrink
  <2>6. ClaimFacts'
    BY ClaimTypes, PTL
  <2>7. PICK p, q, m, n : /\ p = SumFunctionOnSet(Claimed, Seqs) /\ q = SumFunctionOnSet(Claimed, Seqs)'
                          /\ m = Cardinality(Claimants) /\ n = Cardinality(Claimants)'
    OBVIOUS
  <2>8. p \in Nat /\ q \in Nat /\ m \in Nat /\ n \in Nat /\ q <= p /\ n <= m
    BY <1>1, <2>5, <2>6, <2>7 DEF ClaimFacts
  <2>9. p + 0 <= NumSlots /\ m <= NumRows
    BY <1>5, <1>9, <2>7 DEF ClaimInv
  <2>10. q + 0 <= NumSlots /\ n <= NumRows
    BY <1>7, <2>8, <2>9
  <2>11. scheduled'[1] = s /\ IsReplay(s)'
    BY <1>3, <2>1, <2>3 DEF IsReplay
  <2>12. QED BY <1>6, <1>9, <2>7, <2>10, <2>11 DEF ClaimInv
<1>10. CASE NoReplays
  <2>1. ~IsReplay(s)
    BY <1>5, <1>10 DEF NoReplays
  <2>2. Claims(s)' /\ (Claims(s) <=> prefilled[s] > 0)
    BY <1>3, <1>5, <2>1 DEF Claims, Underway
  <2>3. PICK c \in Nat : c = IF prefilled[s] = 0 THEN PromptLen[s] ELSE 0
    BY <1>7
  <2>4. PICK P, a : P = Claimed' /\ a = admit'
    OBVIOUS
  <2>5. a = admit - c /\ c <= admit
    BY <1>3, <1>7, <2>3, <2>4
  <2>6. ClaimFacts'
    BY ClaimTypes, PTL
  <2>7. \A x \in Seqs : x # s => P[x] = Claimed[x]
    BY <1>1, <1>8, <2>4, <2>6 DEF ClaimFacts
  <2>8. P[s] = Claimed[s] + c
    <3>1. P[s] = PromptLen[s] /\ Claimed[s] = IF prefilled[s] > 0 THEN PromptLen[s] ELSE 0
      BY <1>1, <1>4, <2>2, <2>4, <2>6 DEF ClaimFacts
    <3>2. QED BY <1>7, <2>3, <3>1
  <2>9. Weights(Claimed, Seqs) /\ IsFiniteSet(Seqs) /\ Claimed[s] \in Nat /\ SumFunctionOnSet(Claimed, Seqs) \in Nat
    BY <1>1, <1>4, SchedulerAssumption DEF ClaimFacts
  <2>10. SumFunctionOnSet(P, Seqs) = SumFunctionOnSet(Claimed, Seqs) - Claimed[s] + P[s]
    <3>1. P[s] \in Int
      BY <2>8, <2>9
    <3>2. QED BY <1>4, <2>7, <2>9, <3>1, SumChange
  <2>11. SumFunctionOnSet(Claimed, Seqs) + admit <= NumSlots /\ Cardinality(Claimants) <= NumRows
    BY <1>5, <1>7, <1>10 DEF ClaimInv
  <2>12. SumFunctionOnSet(P, Seqs) + a <= NumSlots
    BY <1>7, <2>5, <2>8, <2>9, <2>10, <2>11
  <2>13. Cardinality(Claimants') <= NumRows
    <3>1. CASE prefilled[s] > 0
      <4>1. Claimants' = Claimants
        BY <1>8, <2>2, <3>1 DEF Claimants
      <4>2. QED BY <2>11, <4>1
    <3>2. CASE prefilled[s] = 0
      <4>1. PICK A, B : A = {x \in Seqs : kv[x] > 0} /\ B = {x \in Range(scheduled) : prefilled[x] = 0}
        OBVIOUS
      <4>2. IsFiniteSet(Seqs) /\ A \in SUBSET Seqs /\ B \in SUBSET Seqs
        BY <1>1, <4>1, SchedulerAssumption DEF Parts
      <4>3. /\ IsFiniteSet(A) /\ IsFiniteSet(B) /\ IsFiniteSet(A \cap B)
            /\ Cardinality(A) \in Nat /\ Cardinality(B) \in Nat /\ Cardinality(A \cap B) \in Nat
        BY <4>2, FS_Subset, FS_CardinalityType, FS_Intersection
      <4>4. IsFiniteSet(A \cup B) /\ Cardinality(A \cup B) = Cardinality(A) + Cardinality(B) - Cardinality(A \cap B)
        BY <4>3, FS_Union
      <4>5. NumRows - Cardinality(A) - Cardinality(B) >= 1
        BY <1>3, <3>2, <4>1 DEF FreeRows
      <4>6. Cardinality(A \cup B) + 1 <= NumRows /\ Cardinality(A \cup B) \in Nat
        BY <1>7, <4>3, <4>4, <4>5, FS_CardinalityType
      <4>7. Claimants \subseteq A \cup B
        <5>1. ASSUME NEW x \in Seqs, Claims(x) PROVE x \in A \cup B
          <6>1. /\ x \notin releaseFailed /\ x # preempted /\ Written(x) = 0 /\ kv[x] \in Nat /\ prefilled[x] \in Nat
                /\ PromptLen[x] \in Nat \ {0}
            <7>1. Written(x) = 0
              BY <1>3 DEF Written
            <7>2. x \notin releaseFailed /\ x # preempted
              BY <1>1, <5>1, SchedulerAssumption DEF FaultlessInv
            <7>3. kv[x] \in Nat /\ prefilled[x] \in Nat /\ PromptLen[x] \in Nat \ {0}
              BY <1>1, <5>1, SchedulerAssumption DEF TypeOK, RequestTypes
            <7>4. QED BY <7>1, <7>2, <7>3
          <6>2. CASE x \in Decodes
            <7>1. kv[x] = DecodeInputPosition(x) + 0 /\ Submitted(x) >= 1
              BY <1>1, <1>5, <6>1, <6>2 DEF RowInv
            <7>2. tokens[x] \in Nat /\ inflight[x] \in Nat /\ cursor[x] \in Nat \cup {-1}
              BY <1>1, <5>1 DEF TypeOK, RequestTypes
            <7>3. kv[x] > 0
              BY <6>1, <7>1, <7>2 DEF DecodeInputPosition, Submitted, IsReplay
            <7>4. QED BY <4>1, <7>3
          <6>3. CASE x \in Prefills /\ prefilled[x] > 0
            <7>1. kv[x] = prefilled[x] + 0
              BY <1>1, <1>5, <6>1, <6>3 DEF RowInv
            <7>2. QED BY <4>1, <6>1, <6>3, <7>1
          <6>4. CASE x \notin Decodes /\ x \in Prefills /\ prefilled[x] = 0
            <7>1. x \in Range(scheduled)
              BY <1>5, <1>10, <5>1, <6>4 DEF Claims, Underway, NoReplays
            <7>2. QED BY <4>1, <6>4, <7>1
          <6>5. QED BY <5>1, <6>1, <6>2, <6>3, <6>4 DEF Claims, Underway
        <5>2. QED BY <5>1 DEF Claimants
      <4>8. Claimants' \subseteq (A \cup B) \cup {s}
        BY <1>8, <4>7 DEF Claimants
      <4>9. IsFiniteSet((A \cup B) \cup {s}) /\ Cardinality((A \cup B) \cup {s}) <= Cardinality(A \cup B) + 1
            /\ Cardinality((A \cup B) \cup {s}) \in Nat
        <5>1. PICK U : U = A \cup B
          OBVIOUS
        <5>2. IsFiniteSet(U) /\ Cardinality(U) \in Nat
          BY <4>4, <4>6, <5>1
        <5>3. IsFiniteSet(U \cup {s})
              /\ Cardinality(U \cup {s}) = IF s \in U THEN Cardinality(U) ELSE Cardinality(U) + 1
          BY <5>2, FS_AddElement
        <5>4. QED BY <5>1, <5>2, <5>3
      <4>10. Cardinality(Claimants') <= Cardinality((A \cup B) \cup {s}) /\ Cardinality(Claimants') \in Nat
        BY <2>6, <4>8, <4>9, FS_Subset DEF ClaimFacts
      <4>11. QED BY <1>7, <4>6, <4>9, <4>10
    <3>3. QED BY <1>7, <3>1, <3>2
  <2>14. Spare' = a
    BY <1>3, <2>4 DEF Spare
  <2>15. QED BY <1>6, <1>10, <2>4, <2>12, <2>13, <2>14 DEF ClaimInv
<1>11. QED BY <1>9, <1>10

\* Renewing a window gives no row away.
LEMMA AcquireClaims ==
  ASSUME ClaimInv, Spare \in Nat, AcquireWindow
  PROVE  ClaimInv'
<1>1. pc = "reserve" /\ pc' = "reserve"
      /\ UNCHANGED <<prefilled, cursor, waiting, skipped, scheduled, decoding, isPrefill>>
  BY DEF AcquireWindow
<1>2. Prefills' = Prefills /\ Decodes' = Decodes /\ Chosen' = Chosen
  BY <1>1 DEF Prefills, Decodes, Chosen
<1>3. QED BY <1>1, <1>2, RestClaims DEF Broken

\* Every step of schedule() keeps the claims within the cache.
LEMMA SchedulingClaims ==
  ASSUME MemInv({}), NothingInFlight, PoolInv, PromptInv, FitInv, FaultlessInv, ClaimInv, Scheduling
  PROVE  ClaimInv'
<1>1. ScheduleStep /\ UNCHANGED engineVars /\ IInv /\ Spare \in Nat
  BY DEF Scheduling, MemInv, FitInv
<1>2. CASE AcquireWindow
  BY <1>1, <1>2, AcquireClaims
<1>3. CASE Preempts
  BY <1>1, <1>3, PreemptClaims
<1>4. CASE StartPrefill \/ AffinityPrefill
  BY <1>1, <1>4, OpenClaims
<1>5. CASE PrefillTake
  BY <1>1, <1>5, TakeClaims
<1>6. CASE \/ StartAffinity \/ AffinityScan \/ AffinityDecode \/ PrefillSkip \/ PrefillDefer \/ NextBucket
           \/ PrefillReturn \/ StartDecode \/ DecodeRotate \/ DecodeTake \/ DecodeBlock \/ DecodeReturn
           \/ NothingToRun
  <2>1. Moves
    BY <1>1, <1>6, AffinityMoves, PassOverMoves, BucketMoves, DecodeScanMoves, DecodeReturnMoves
  <2>2. pc' # "prefill" \/ (pc = "prefill" /\ admit' = admit /\ scheduled' = scheduled)
    BY <1>6 DEF StartAffinity, AffinityScan, AffinityDecode, PrefillSkip, PrefillDefer, NextBucket, PrefillReturn,
                StartDecode, DecodeRotate, DecodeTake, DecodeBlock, DecodeReturn, NothingToRun, Return, Raise,
                InBucket, InDecode
  <2>3. QED BY <1>1, <2>1, <2>2, MovesClaims
<1>7. QED BY <1>1, <1>2, <1>3, <1>4, <1>5, <1>6 DEF ScheduleStep, Preempts

\* A new request has no claim yet.
LEMMA AdmitClaims ==
  ASSUME MemInv({}), ClaimInv, Spare \in Nat, NEW s \in Seqs, AdmitRequest(s)
  PROVE  ClaimInv'
<1>1. Parts /\ ProgressInv
  BY PartsOfInv DEF MemInv, KVInv
<1>2. /\ pc = "idle" /\ pc' = "idle" /\ status[s] = "NEW" /\ waiting' = Append(waiting, s)
      /\ UNCHANGED <<prefilled, cursor, scheduled, skipped, decoding>>
  BY DEF AdmitRequest
<1>3. Range(waiting') = Range(waiting) \cup {s}
  BY <1>1, <1>2, AppendFacts DEF Parts
<1>4. Chosen = {} /\ Chosen' = {} /\ Prefills' = Prefills \cup {s} /\ Decodes' = Decodes /\ ~Broken
  BY <1>2, <1>3 DEF Prefills, Chosen, Decodes, Broken
<1>5. prefilled[s] = 0 /\ ~IsReplay(s)
  BY <1>1, <1>2 DEF ProgressInv
<1>6. NoneClaims
  BY <1>2, <1>4, <1>5 DEF NoneClaims, Claims, Underway, IsReplay
<1>7. QED BY <1>2, <1>6, NoneClaimsInv

\* Postprocessing keeps the claim of the request, as a prompt or as a decode.
LEMMA PostClaims ==
  ASSUME MemInv({}), ClaimInv, Spare \in Nat, PostPartialPrefill \/ PostLastPrefill \/ PostDecode
  PROVE  ClaimInv'
<1>1. PICK h : h = Head(scheduled)
  OBVIOUS
<1>2. Due(h)
  BY <1>1, HeadIsDue DEF PostPartialPrefill, PostLastPrefill, PostDecode
<1>3. /\ pc = "postprocess" /\ pc' = "postprocess" /\ h \in Seqs /\ h \in Range(scheduled) /\ Parts
      /\ Range(scheduled') = Range(scheduled) \ {h}
      /\ UNCHANGED <<isPrefill, skipped>> /\ prefilled \in [Seqs -> Nat] /\ cursor \in [Seqs -> Nat \cup {NoReplay}]
      /\ isPrefill \/ h \in Range(decoding)
  BY <1>2 DEF Due, Parts, TypeOK, RequestTypes
<1>4. ~Broken /\ Claims(h)
  BY <1>3 DEF Broken, Claims, Underway, Chosen, Prefills, Decodes
<1>5. \A x \in Seqs : x # h => prefilled'[x] = prefilled[x] /\ cursor'[x] = cursor[x]
  <2>1. \/ prefilled' = prefilled \/ prefilled' = [prefilled EXCEPT ![h] = prefilled[h] + chunk[h]]
    BY <1>1 DEF PostPartialPrefill, PostLastPrefill, PostDecode
  <2>2. \/ cursor' = cursor \/ \E n : cursor' = [cursor EXCEPT ![h] = n]
    BY <1>1 DEF PostPartialPrefill, PostLastPrefill, PostDecode, AdvanceReplay
  <2>3. QED BY <1>3, <2>1, <2>2
<1>6. Range(waiting') \subseteq Range(waiting) \cup {h} /\ Range(decoding') \subseteq Range(decoding) \cup {h}
  <2>1. waiting' = waiting \/ waiting' = <<h>> \o waiting
    BY <1>1 DEF PostPartialPrefill, PostLastPrefill, PostDecode
  <2>2. decoding' = decoding \/ decoding' = Append(decoding, h)
    BY <1>1 DEF PostPartialPrefill, PostLastPrefill, PostDecode
  <2>3. Range(<<h>> \o waiting) = Range(waiting) \cup {h}
    BY <1>3, PrependFacts DEF Parts
  <2>4. Range(Append(decoding, h)) = Range(decoding) \cup {h}
    BY <1>3, AppendFacts DEF Parts
  <2>5. QED BY <2>1, <2>2, <2>3, <2>4
<1>7. Chosen' \subseteq Chosen /\ Prefills' \subseteq Prefills \cup {h} /\ Decodes' \subseteq Decodes \cup {h}
  BY <1>3, <1>6 DEF Chosen, Prefills, Decodes
<1>8. NoneClaims
  <2>1. ASSUME NEW x \in Seqs, x # h, Claims(x)' PROVE Claims(x)
    BY <1>5, <1>7, <2>1 DEF Claims, Underway, IsReplay
  <2>2. QED BY <1>4, <2>1 DEF NoneClaims
<1>9. QED BY <1>3, <1>8, NoneClaimsInv

\* Cancellation, and the ends of a step, let go of claims.
LEMMA EndClaims ==
  ASSUME MemInv({}), ClaimInv, Spare \in Nat,
         \/ \E s \in Seqs : AbortRequest(s)
         \/ StepWithoutBatch \/ StartRelease \/ ReleaseFinished \/ StepDone \/ RunModel
  PROVE  ClaimInv'
<1>1. Parts
  BY PartsOfInv DEF MemInv
<1>2. CASE RunModel
  <2>1. /\ pc = "returned" /\ pc' = "postprocess"
        /\ UNCHANGED <<prefilled, cursor, waiting, skipped, scheduled, isPrefill, decoding>>
    BY <1>2 DEF RunModel, Allocate
  <2>2. Prefills' = Prefills /\ Chosen' = Chosen /\ Decodes' = Decodes
    BY <2>1 DEF Prefills, Chosen, Decodes
  <2>3. QED BY <2>1, <2>2, RestClaims DEF Broken
<1>3. CASE (\E s \in Seqs : AbortRequest(s)) \/ StepWithoutBatch \/ StartRelease \/ ReleaseFinished \/ StepDone
  <2>1. /\ pc \in {"idle", "raised", "returned", "postprocess", "release"} /\ pc' \in {"idle", "raised", "release"}
        /\ pc = "raised" => pc' = "raised"
        /\ UNCHANGED <<prefilled, cursor, scheduled, skipped>>
        /\ pc \in {"returned", "postprocess"} => scheduled = <<>>
        /\ (\E s : Dequeue(s)) \/ UNCHANGED <<waiting, decoding>>
    BY <1>3 DEF AbortRequest, StepWithoutBatch, StartRelease, ReleaseFinished, StepDone, Raise
  <2>2. Range(waiting') \subseteq Range(waiting) /\ Range(decoding') \subseteq Range(decoding)
    <3>1. ASSUME NEW s, Dequeue(s)
          PROVE  Range(waiting') \subseteq Range(waiting) /\ Range(decoding') \subseteq Range(decoding)
      <4>1. waiting' = RemoveFirst(waiting, s) /\ decoding' = RemoveFirst(decoding, s)
        BY <3>1 DEF Dequeue, Without
      <4>2. Range(RemoveFirst(waiting, s)) = Range(waiting) \ {s} /\ Range(RemoveFirst(decoding, s)) = Range(decoding) \ {s}
        BY <1>1, RemoveFacts DEF Parts
      <4>3. QED BY <4>1, <4>2
    <3>2. QED BY <2>1, <3>1
  <2>3. Chosen' = {} /\ Prefills' \subseteq Prefills /\ Decodes' \subseteq Decodes
    BY <2>1, <2>2 DEF Chosen, Prefills, Decodes
  <2>4. QED BY <2>1, <2>3, RestClaims DEF Broken
<1>4. QED BY <1>2, <1>3

\* Every step of the engine keeps the claims within the cache.
LEMMA NextClaims ==
  ASSUME CoreInv, FaultlessInv, ClaimInv, Next
  PROVE  ClaimInv'
<1>1. /\ MemInv({}) /\ NothingInFlight /\ PoolInv /\ PromptInv /\ FitInv /\ Spare \in Nat
  BY DEF CoreInv, MemoryInv, MemInv, SlotInv, RunnableInv, FitInv
<1>2. CASE Scheduling
  BY <1>1, <1>2, SchedulingClaims
<1>3. CASE StepSync
  <2>1. pc' = "reserve" /\ Schedule(0) /\ UNCHANGED engineVars /\ pc = "idle" /\ pendingReleases = {}
    BY <1>3 DEF StepSync, Schedule
  <2>2. Moves
    BY <1>1, <2>1, EnterMoves
  <2>3. QED BY <1>1, <2>1, <2>2, MovesClaims
<1>4. ASSUME NEW s \in Seqs, AdmitRequest(s) PROVE ClaimInv'
  BY <1>1, <1>4, AdmitClaims
<1>5. CASE \/ \E s \in Seqs : AbortRequest(s)
           \/ StepWithoutBatch \/ StartRelease \/ ReleaseFinished \/ StepDone \/ RunModel
  BY <1>1, <1>5, EndClaims
<1>6. CASE PostPartialPrefill \/ PostLastPrefill \/ PostDecode
  BY <1>1, <1>6, PostClaims
<1>7. CASE StepRefused \/ HookFault \/ RunModelFails \/ ReclaimOne \/ ReclaimDone
  <2>1. pc' \in {"raised", "reclaim"}
    BY <1>7 DEF StepRefused, ReclaimDone, ReclaimOne, RunModelFails, HookFault, PrefillHookFails, Raise
  <2>2. QED BY <2>1 DEF ClaimInv, Broken
<1>8. QED BY <1>2, <1>3, <1>4, <1>5, <1>6, <1>7 DEF Next, Driver, SyncStep
-----------------------------------------------------------------------------
(* While no call has failed *)

\* No call fails in the step.
NoFault ==
  /\ faults' = faults /\ ~HookFault /\ ~RunModelFails /\ ~ReclaimOne /\ ~ReclaimDone /\ ~StepRefused
  /\ \A s : ~ReleaseFails(s)

\* Failed calls are counted.
LEMMA FaultsGrow ==
  ASSUME TypeOK, [Next]_vars, faults' = 0
  PROVE  faults = 0
<1>1. faults \in Nat
  BY FaultAssumption DEF TypeOK, ReleaseTypes
<1>2. faults' = faults \/ faults' = faults + 1
  <2>1. CASE UNCHANGED vars
    BY <2>1 DEF vars
  <2>2. CASE Next
    BY <2>2 DEF Next, Driver, SyncStep, Scheduling, StepSync, StepRefused, HookFault, StepWithoutBatch, RunModel,
                RunModelFails, ReclaimOne, ReclaimDone, PostPartialPrefill, PostLastPrefill, PostDecode, PostTail,
                StartRelease, ReleaseFinished, StepDone, AdmitRequest, AbortRequest, ReleaseOk, ReleaseFails
  <2>3. QED BY <2>1, <2>2
<1>3. QED BY <1>1, <1>2

\* As long as the count is zero, none has.
LEMMA NoneFails ==
  ASSUME TypeOK, FaultlessInv, [Next]_vars, faults' = 0
  PROVE  NoFault
<1>1. faults = 0
  BY FaultsGrow
<1>2. ~HookFault /\ ~RunModelFails
  BY <1>1 DEF HookFault, RunModelFails
<1>3. ~ReclaimOne /\ ~ReclaimDone /\ ~StepRefused
  BY DEF FaultlessInv, ReclaimOne, ReclaimDone, StepRefused
<1>4. \A s : ~ReleaseFails(s)
  BY <1>1 DEF FaultlessInv, ReleaseFails
<1>5. QED BY <1>1, <1>2, <1>3, <1>4 DEF NoFault

\* The requests that wait.
Waiters == Range(waiting) \cup Range(skipped)

\* The scan opens on the waiting requests, in some order.
LEMMA OpenQueue ==
  ASSUME IInv, StartPrefill \/ AffinityPrefill
  PROVE  /\ \E queue \in Seq(Seqs) : Range(queue) = Range(waiting) /\ OpenPrefill(queue)
         /\ pc \in {"reserve", "affinity"} /\ skipped = <<>>
<1>1. Parts /\ pc \in {"reserve", "affinity"}
  BY PartsOfInv DEF StartPrefill, AffinityPrefill, Acquired
<1>2. CASE OpenPrefill(waiting)
  BY <1>1, <1>2 DEF Parts, CallInv
<1>3. ASSUME NEW p \in WaitSorts, OpenPrefill(Reordered(p))
      PROVE  \E queue \in Seq(Seqs) : Range(queue) = Range(waiting) /\ OpenPrefill(queue)
  <2>1. Reordered(p) \in Seq(Seqs) /\ Range(Reordered(p)) = Range(waiting)
    BY <1>1, PermuteFacts DEF Parts, Reordered, WaitSorts
  <2>2. QED BY <1>3, <2>1
<1>4. skipped = <<>>
  BY <1>1 DEF Parts, CallInv
<1>5. QED BY <1>1, <1>2, <1>3, <1>4 DEF StartPrefill, AffinityPrefill

\* The prefill scan passes requests on between its two queues.
LEMMA PassOverQueues ==
  ASSUME IInv, PrefillSkip \/ PrefillDefer \/ NextBucket
  PROVE  Waiters' = Waiters /\ pc = "prefill" /\ pc' = "prefill" /\ status' = status
<1>1. Parts
  BY PartsOfInv
<1>2. pc = "prefill" /\ pc' = "prefill" /\ status' = status
  BY DEF PrefillSkip, PrefillDefer, NextBucket, InBucket
<1>3. CASE PrefillSkip \/ PrefillDefer
  <2>1. PICK h, r : h = Head(waiting) /\ r = Tail(waiting)
    OBVIOUS
  <2>2. waiting # <<>>
    BY <1>3 DEF PrefillSkip, PrefillDefer, InBucket, CanContinuePrefillBatch
  <2>3. h \in Seqs /\ r \in Seq(Seqs) /\ Range(waiting) = Range(r) \cup {h}
    BY <1>1, <2>1, <2>2, HeadTailFacts DEF Parts
  <2>4. \/ waiting' = r /\ skipped' = Append(skipped, h)
        \/ waiting' = Append(r, h) /\ skipped' = skipped
    BY <1>3, <2>1 DEF PrefillSkip, PrefillDefer
  <2>5. Range(Append(skipped, h)) = Range(skipped) \cup {h} /\ Range(Append(r, h)) = Range(r) \cup {h}
    BY <1>1, <2>3, AppendFacts DEF Parts
  <2>6. QED BY <1>2, <2>3, <2>4, <2>5 DEF Waiters
<1>4. CASE NextBucket
  <2>1. waiting' = skipped \o waiting /\ skipped' = <<>>
    BY <1>4 DEF NextBucket
  <2>2. Range(skipped \o waiting) = Range(skipped) \cup Range(waiting)
    BY <1>1, ConcatFacts DEF Parts
  <2>3. QED BY <1>2, <2>1, <2>2, EmptyFacts DEF Waiters
<1>5. QED BY <1>3, <1>4

\* The requests that wait are WAITING.
AllWaiting == \A s \in Waiters : status[s] = "WAITING"

LEMMA SchedulingWaiting ==
  ASSUME IInv, AllWaiting, Scheduling
  PROVE  AllWaiting'
<1>1. Parts /\ ScheduleStep /\ UNCHANGED engineVars /\ status \in [Seqs -> Statuses]
  BY PartsOfInv DEF Scheduling, IInv, TypeOK, RequestTypes
<1>2. CASE \/ AcquireWindow \/ StartAffinity \/ AffinityScan \/ AffinityDecode \/ PrefillReturn \/ StartDecode
           \/ DecodeRotate \/ DecodeTake \/ DecodeBlock \/ DecodeReturn \/ NothingToRun
  <2>1. UNCHANGED <<waiting, status>> /\ (skipped' = skipped \/ skipped' = <<>>)
    BY <1>2 DEF AcquireWindow, StartAffinity, AffinityScan, AffinityDecode, PrefillReturn, StartDecode, DecodeRotate,
                DecodeTake, DecodeBlock, DecodeReturn, NothingToRun, Return, ClearLocals
  <2>2. Range(skipped') = Range(skipped) \/ Range(skipped') = {}
    BY <2>1, EmptyFacts
  <2>3. QED BY <2>1, <2>2 DEF AllWaiting, Waiters
<1>3. CASE StartPrefill \/ AffinityPrefill
  <2>1. PICK queue \in Seq(Seqs) : Range(queue) = Range(waiting) /\ OpenPrefill(queue)
    BY <1>3, OpenQueue
  <2>2. waiting' = queue /\ UNCHANGED <<skipped, status>>
    BY <2>1 DEF OpenPrefill
  <2>3. QED BY <2>1, <2>2 DEF AllWaiting, Waiters
<1>4. CASE PrefillSkip \/ PrefillDefer \/ NextBucket
  BY <1>4, PassOverQueues DEF AllWaiting
<1>5. CASE PrefillTake
  <2>1. PICK h : h = Head(waiting)
    OBVIOUS
  <2>2. waiting # <<>> /\ pc = "prefill" /\ waiting' = Tail(waiting) /\ skipped' = skipped
        /\ status' = [status EXCEPT ![h] = "RUNNING"]
    BY <1>5, <2>1 DEF PrefillTake, InBucket, CanContinuePrefillBatch
  <2>3. /\ Range(Tail(waiting)) \subseteq Range(waiting) /\ h \in Range(waiting) /\ h \notin Range(Tail(waiting))
    BY <1>1, <2>1, <2>2, HeadTailFacts DEF Parts
  <2>4. h \notin Range(skipped)
    BY <1>1, <2>2, <2>3 DEF Parts, OwnedOnce, Popped
  <2>5. Waiters' \subseteq Waiters \ {h} /\ Waiters \subseteq Seqs
    BY <1>1, <2>2, <2>3, <2>4 DEF Waiters, Parts
  <2>6. QED BY <1>1, <2>2, <2>5 DEF AllWaiting
<1>6. CASE Preempts
  <2>1. PICK v, others : Victim(v, others)
    BY <1>6, VictimFacts
  <2>2. v \in Seqs /\ PreemptDecodeVictim(v, others) /\ skipped' = <<>>
    BY <1>1, <2>1 DEF Victim, Parts, PreemptDecodeVictim, ClearLocals
  <2>3. Range(skipped') = {}
    BY <2>2, EmptyFacts
  <2>4. \/ UNCHANGED <<waiting, status>>
        \/ waiting' = Append(waiting, v) /\ status' = [status EXCEPT ![v] = "WAITING"]
    BY <2>2 DEF PreemptDecodeVictim, DrainRequired, RejectPreemption, StartReplay
  <2>5. Range(Append(waiting, v)) = Range(waiting) \cup {v} /\ Range(waiting) \subseteq Seqs
    BY <1>1, <2>2, AppendFacts DEF Parts
  <2>6. CASE UNCHANGED <<waiting, status>>
    BY <2>3, <2>6 DEF AllWaiting, Waiters
  <2>7. CASE waiting' = Append(waiting, v) /\ status' = [status EXCEPT ![v] = "WAITING"]
    <3>1. Waiters' \subseteq Waiters \cup {v} /\ Waiters' \subseteq Seqs
      BY <2>2, <2>3, <2>5, <2>7 DEF Waiters
    <3>2. \A x \in Seqs : status'[x] = IF x = v THEN "WAITING" ELSE status[x]
      BY <1>1, <2>2, <2>7
    <3>3. QED BY <3>1, <3>2 DEF AllWaiting
  <2>8. QED BY <2>4, <2>6, <2>7
<1>7. QED BY <1>1, <1>2, <1>3, <1>4, <1>5, <1>6 DEF ScheduleStep, Preempts

\* In the rest of a step as well.
LEMMA StepWaiting ==
  ASSUME MemInv({}), AllWaiting, NoFault, Next, ~Scheduling
  PROVE  AllWaiting'
<1>1. Parts /\ status \in [Seqs -> Statuses]
  BY PartsOfInv DEF MemInv, IInv, TypeOK, RequestTypes
<1>2. CASE StepSync \/ StepWithoutBatch \/ RunModel \/ StartRelease \/ StepDone
  <2>1. UNCHANGED <<waiting, status>> /\ (skipped' = skipped \/ skipped' = <<>>)
    BY <1>2 DEF StepSync, Schedule, ClearLocals, StepWithoutBatch, RunModel, StartRelease, StepDone
  <2>2. Range(skipped') = Range(skipped) \/ Range(skipped') = {}
    BY <2>1, EmptyFacts
  <2>3. QED BY <2>1, <2>2 DEF AllWaiting, Waiters
<1>3. ASSUME NEW s \in Seqs, AdmitRequest(s) PROVE AllWaiting'
  <2>1. waiting' = Append(waiting, s) /\ status' = [status EXCEPT ![s] = "WAITING"] /\ skipped' = skipped
    BY <1>3 DEF AdmitRequest
  <2>2. Range(waiting') = Range(waiting) \cup {s} /\ Waiters \subseteq Seqs
    BY <1>1, <2>1, AppendFacts DEF Parts, Waiters
  <2>3. QED BY <1>1, <2>1, <2>2 DEF AllWaiting, Waiters
<1>4. ASSUME NEW s \in Seqs, Dequeue(s), skipped' = skipped, skipped = <<>> PROVE AllWaiting'
  <2>1. waiting' = RemoveFirst(waiting, s) /\ status' = [status EXCEPT ![s] = "FINISHED"]
    BY <1>4 DEF Dequeue, Without
  <2>2. Range(RemoveFirst(waiting, s)) = Range(waiting) \ {s}
    BY <1>1, RemoveFacts DEF Parts
  <2>3. Waiters' = Waiters \ {s} /\ Waiters \subseteq Seqs
    BY <1>1, <1>4, <2>1, <2>2, EmptyFacts DEF Waiters, Parts
  <2>4. QED BY <1>1, <2>1, <2>3 DEF AllWaiting
<1>5. ASSUME NEW s \in Seqs, AbortRequest(s) PROVE AllWaiting'
  <2>1. Dequeue(s) /\ skipped' = skipped /\ pc # "prefill"
    BY <1>5 DEF AbortRequest, NoFault
  <2>2. QED BY <1>1, <1>4, <2>1 DEF Parts, CallInv
<1>6. CASE ReleaseFinished
  <2>1. Dequeue(Head(finished)) /\ skipped' = skipped /\ pc # "prefill" /\ finished # <<>>
    BY <1>6 DEF ReleaseFinished, NoFault
  <2>2. Head(finished) \in Seqs
    BY <1>1, <2>1, HeadTailFacts DEF Parts
  <2>3. QED BY <1>1, <1>4, <2>1, <2>2 DEF Parts, CallInv
<1>7. CASE PostPartialPrefill \/ PostLastPrefill \/ PostDecode
  <2>1. PICK h : h = Head(scheduled)
    OBVIOUS
  <2>2. Due(h)
    BY <1>7, <2>1, HeadIsDue DEF PostPartialPrefill, PostLastPrefill, PostDecode
  <2>3. h \in Seqs /\ h \notin Range(waiting) /\ Range(skipped) = {} /\ skipped' = skipped
    BY <2>2 DEF Due
  <2>4. \/ waiting' = <<h>> \o waiting /\ status' = [status EXCEPT ![h] = "WAITING"]
        \/ waiting' = waiting /\ (status' = status \/ \E e : status' = [status EXCEPT ![h] = e])
    BY <1>7, <2>1 DEF PostPartialPrefill, PostLastPrefill, PostDecode, AppendToken
  <2>5. Range(<<h>> \o waiting) = Range(waiting) \cup {h} /\ Range(waiting) \subseteq Seqs
    BY <1>1, <2>3, PrependFacts DEF Parts
  <2>6. CASE waiting' = <<h>> \o waiting /\ status' = [status EXCEPT ![h] = "WAITING"]
    <3>1. Waiters' \subseteq Waiters \cup {h} /\ Waiters' \subseteq Seqs
      BY <2>3, <2>5, <2>6 DEF Waiters
    <3>2. \A x \in Seqs : status'[x] = IF x = h THEN "WAITING" ELSE status[x]
      BY <1>1, <2>3, <2>6
    <3>3. QED BY <3>1, <3>2 DEF AllWaiting
  <2>7. CASE waiting' = waiting /\ (status' = status \/ \E e : status' = [status EXCEPT ![h] = e])
    <3>1. Waiters' = Waiters /\ Waiters \subseteq Seqs /\ h \notin Waiters
      BY <2>3, <2>5, <2>7 DEF Waiters
    <3>2. \A x \in Seqs : x # h => status'[x] = status[x]
      BY <1>1, <2>3, <2>7
    <3>3. QED BY <3>1, <3>2 DEF AllWaiting
  <2>8. QED BY <2>4, <2>6, <2>7
<1>8. QED BY <1>2, <1>3, <1>5, <1>6, <1>7 DEF Next, Driver, SyncStep, NoFault

\* Without a failing call no release stays owed, and an error ends the driver.
LEMMA NextFaultless ==
  ASSUME MemInv({}), FaultlessInv, NoFault, Next
  PROVE  FaultlessInv'
<1>1. AllWaiting /\ IInv /\ pendingReleases = {} /\ releaseFailed = {} /\ pc # "reclaim"
      /\ (error # "none" => pc = "raised")
  BY DEF FaultlessInv, AllWaiting, Waiters, MemInv
<1>2. AllWaiting'
  BY <1>1, SchedulingWaiting, StepWaiting
<1>3. CASE Scheduling
  <2>1. UNCHANGED engineVars /\ ScheduleStep
    BY <1>3 DEF Scheduling
  <2>2. pc \in {"reserve", "affinity", "prefill", "decode"}
    BY <2>1 DEF ScheduleStep, AcquireWindow, PreemptUnreserved, StartPrefill, StartAffinity, AffinityScan,
                AffinityDecode, AffinityPrefill, PrefillSkip, PrefillDefer, PrefillTake, NextBucket,
                PrefillReturn, PreemptSoleUnreserved, StartDecode, DecodeRotate, DecodeTake, DecodeBlock,
                DecodePreempt, DecodeReturn, NothingToRun, Acquired, InBucket, InDecode, PrefillOver, DecodeOver
  <2>3. pc' # "reclaim" /\ (UNCHANGED error \/ pc' = "raised")
    BY <2>1, <2>2 DEF ScheduleStep, AcquireWindow, PreemptUnreserved, StartPrefill, StartAffinity, AffinityScan,
                AffinityDecode, AffinityPrefill, OpenPrefill, PrefillSkip, PrefillDefer, PrefillTake, NextBucket,
                PrefillReturn, PreemptSoleUnreserved, StartDecode, DecodeRotate, DecodeTake, DecodeBlock,
                DecodePreempt, DecodeReturn, NothingToRun, Return, Raise, PreemptDecodeVictim, DrainRequired,
                RejectPreemption, StartReplay
  <2>4. QED BY <1>1, <1>2, <2>1, <2>2, <2>3 DEF FaultlessInv, AllWaiting, Waiters
<1>4. CASE ~Scheduling
  <2>1. pendingReleases' = {} /\ releaseFailed' = {}
    BY <1>1, <1>4 DEF Next, Driver, SyncStep, NoFault, StepSync, StepWithoutBatch, RunModel, PostPartialPrefill,
                PostLastPrefill, PostDecode, PostTail, StartRelease, ReleaseFinished, StepDone, AdmitRequest,
                AbortRequest, ReleaseOk
  <2>2. pc' # "reclaim" /\ (pc' = "raised" \/ (UNCHANGED error /\ (pc = "raised" => pc' = "raised")))
    BY <1>1, <1>4 DEF Next, Driver, SyncStep, NoFault, StepSync, Schedule, StepWithoutBatch, RunModel,
                PostPartialPrefill, PostLastPrefill, PostDecode, PostTail, NextPost, StartRelease, ReleaseFinished,
                StepDone, AdmitRequest, AbortRequest, Raise
  <2>3. QED BY <1>1, <1>2, <2>1, <2>2 DEF FaultlessInv, AllWaiting, Waiters
<1>5. QED BY <1>3, <1>4
-----------------------------------------------------------------------------
(* A scan with no decode to fall back on *)

\* A prompt that fits alone has a chunk, if the rest of it fits in the free
\* slots and the batch is empty.
ChunkFacts ==
  \A s \in Seqs :
    /\ prefilled[s] \in Nat /\ prefilled[s] < PromptLen[s]
    /\ batchTokens = 0 /\ free \in Nat /\ Remaining(s) <= free
    => HasChunk(s)

\* In every state.
LEMMA ChunkWhenFree == EachFitsAlone => ChunkFacts
<1>1. SUFFICES ASSUME EachFitsAlone, NEW s \in Seqs, prefilled[s] \in Nat, prefilled[s] < PromptLen[s],
                      batchTokens = 0, free \in Nat, Remaining(s) <= free
               PROVE  HasChunk(s)
  BY DEF ChunkFacts
<1>2. PICK r, f, m : r = Remaining(s) /\ f = free /\ m = MaxBatchTokens - batchTokens
  OBVIOUS
<1>3. /\ r \in Nat \ {0} /\ r <= PromptLen[s] /\ PromptLen[s] \in Nat /\ f \in Nat /\ r <= f /\ m = MaxBatchTokens
      /\ MaxBatchTokens \in Nat \ {0} /\ ChunkSize \in Nat \ {0} /\ MinFinal \in Nat
  BY <1>1, <1>2, SchedulerAssumption DEF Remaining
<1>4. PICK a : a = Min({m, f})
  OBVIOUS
<1>5. a \in Nat \ {0} /\ (a = m \/ a = f) /\ (r <= m => r <= a)
  <2>1. m \in Int /\ f \in Int
    BY <1>3
  <2>2. Min({m, f}) = m \/ Min({m, f}) = f
    BY <2>1, MinFacts
  <2>3. QED BY <1>3, <1>4, <2>2
<1>6. PICK p : p = ProposedTokens(s)
  OBVIOUS
<1>7. PrefillTokens(s) = IF MinFinal = 0 \/ r - p <= 0 \/ r - p >= MinFinal THEN p ELSE Positive(r - MinFinal)
  BY <1>2, <1>6 DEF PrefillTokens
<1>8. CASE Mode[s] = "full"
  <2>1. r <= m
    BY <1>1, <1>3, <1>8 DEF EachFitsAlone
  <2>2. p = r
    BY <1>2, <1>4, <1>5, <1>6, <1>8, <2>1 DEF ProposedTokens
  <2>3. PrefillTokens(s) = r
    BY <1>3, <1>7, <2>2
  <2>4. QED BY <1>2, <1>3, <2>3 DEF HasChunk
<1>9. CASE Mode[s] # "full"
  <2>1. p = Min({r, ChunkSize, a})
    BY <1>2, <1>4, <1>6, <1>9 DEF ProposedTokens
  <2>2. p \in {r, ChunkSize, a} /\ p <= r
    <3>1. r \in Int /\ ChunkSize \in Int /\ a \in Int
      BY <1>3, <1>5
    <3>2. QED BY <2>1, <3>1, MinFacts
  <2>3. p \in 1..r
    BY <1>3, <1>5, <2>2
  <2>4. p = r \/ MinFinal <= p
    <3>1. MinFinal <= ChunkSize /\ MinFinal <= MaxBatchTokens
      BY <1>1 DEF EachFitsAlone
    <3>2. QED BY <1>3, <1>5, <2>2, <3>1
  <2>5. PrefillTokens(s) \in 1..r
    BY <1>3, <1>7, <2>3, <2>4 DEF Positive
  <2>6. QED BY <1>2, <2>5 DEF HasChunk
<1>10. QED BY <1>8, <1>9

\* _prefill_mode_order holds the mode of every candidate.
LEMMA EveryMode ==
  ASSUME NEW queue \in Seq(Seqs), NEW c \in Range(queue), Candidate(c)
  PROVE  /\ ModeOrder(queue) \in Seq({"chunked", "full"})
         /\ \E j \in DOMAIN ModeOrder(queue) : ModeOrder(queue)[j] = Mode[c]
<1>1. PICK cand : cand = {i \in DOMAIN queue : Candidate(queue[i])}
  OBVIOUS
<1>2. PICK k \in DOMAIN queue : queue[k] = c
  BY DEF Range
<1>3. cand \in SUBSET Nat /\ k \in cand /\ DOMAIN queue = 1..Len(queue) /\ Len(queue) \in Nat
  BY <1>1, <1>2
<1>4. Min(cand) \in cand
  <2>1. \E x \in cand : \A y \in cand : x <= y
    BY <1>3, LeastNat
  <2>2. QED BY <2>1 DEF Min
<1>5. PICK m : m = queue[Min(cand)]
  OBVIOUS
<1>6. m \in Seqs /\ c \in Seqs
  BY <1>1, <1>2, <1>3, <1>4, <1>5
<1>7. PICK first, other : first = Mode[m] /\ other = IF first = "full" THEN "chunked" ELSE "full"
  OBVIOUS
<1>8. first \in {"chunked", "full"} /\ other \in {"chunked", "full"} /\ (Mode[c] = first \/ Mode[c] = other)
  BY <1>6, <1>7, SchedulerAssumption
<1>9. ModeOrder(queue) = IF \E i \in cand : Mode[queue[i]] = other THEN <<first, other>> ELSE <<first>>
  BY <1>1, <1>3, <1>5, <1>7 DEF ModeOrder
<1>10. CASE \E i \in cand : Mode[queue[i]] = other
  <2>1. ModeOrder(queue) = <<first, other>>
    BY <1>9, <1>10
  <2>2. QED BY <1>8, <2>1
<1>11. CASE ~\E i \in cand : Mode[queue[i]] = other
  <2>1. ModeOrder(queue) = <<first>> /\ Mode[c] = first
    BY <1>2, <1>3, <1>8, <1>9, <1>11
  <2>2. QED BY <1>8, <2>1
<1>12. QED BY <1>10, <1>11

\* Nothing adds up to nothing.
LEMMA NoWeight ==
  ASSUME NEW U, IsFiniteSet(U), NEW f, \A x \in U : f[x] = 0
  PROVE  SumFunctionOnSet(f, U) = 0
<1>1. {} \in SUBSET U /\ IsFiniteSet({}) /\ Weights(f, {}) /\ (\A x \in {} : f[x] = f[x]) /\ \A x \in U \ {} : f[x] = 0
  BY FS_EmptySet DEF Weights
<1>2. SumFunctionOnSet(f, U) = SumFunctionOnSet(f, {})
  BY <1>1, SumSupport
<1>3. QED BY <1>1, <1>2, SumFacts

\* One weight against all of them.
LEMMA OneWeight ==
  ASSUME NEW U, IsFiniteSet(U), NEW s \in U, NEW f, NEW g,
         \A x \in U : f[x] \in Nat /\ g[x] \in Nat, \A x \in U : x # s => f[x] <= g[x]
  PROVE  /\ SumFunctionOnSet(f, U) - f[s] + g[s] <= SumFunctionOnSet(g, U)
         /\ SumFunctionOnSet(f, U) \in Nat /\ SumFunctionOnSet(g, U) \in Nat
<1>1. PICK h : h = [x \in U |-> IF x = s THEN g[x] ELSE f[x]]
  OBVIOUS
<1>2. /\ \A x \in U : h[x] \in Nat /\ h[x] <= g[x]
      /\ \A x \in U : x # s => h[x] = f[x]
      /\ h[s] = g[s] /\ h[s] \in Int
  BY <1>1
<1>3. Weights(f, U) /\ Weights(g, U) /\ Weights(h, U)
  BY <1>2 DEF Weights
<1>4. SumFunctionOnSet(h, U) = SumFunctionOnSet(f, U) - f[s] + h[s]
  BY <1>2, <1>3, SumChange
<1>5. SumFunctionOnSet(h, U) <= SumFunctionOnSet(g, U)
  <2>1. (\A x \in U : h[x] <= g[x]) /\ (\A x \in U \ U : 0 <= g[x])
    BY <1>2
  <2>2. QED BY <1>3, <2>1, SumBelow
<1>6. SumFunctionOnSet(f, U) \in Nat /\ SumFunctionOnSet(g, U) \in Nat
  BY SumNat
<1>7. QED BY <1>2, <1>4, <1>5, <1>6

\* No window is open when every request has used its own.
LEMMA NothingPromised ==
  ASSUME TypeOK, PoolInv, \A s \in Seqs : resEnd[s] <= Submitted(s)
  PROVE  Outstanding = 0
<1>1. PICK u : u = Unused
  OBVIOUS
<1>2. ASSUME NEW s \in Seqs PROVE u[s] = 0
  <2>1. resEnd[s] \in Nat /\ Submitted(s) \in Nat /\ resEnd[s] <= Submitted(s)
    BY DEF PoolInv, Submitted, TypeOK, RequestTypes
  <2>2. ~(resEnd[s] - Submitted(s) > 0)
    BY <2>1
  <2>3. QED BY <1>1, <2>2 DEF Unused, Positive
<1>3. QED BY <1>1, <1>2, NoWeight, SchedulerAssumption DEF Outstanding

\* When nothing decodes, the rest of some prompt fits beside what is taken and
\* reserved: a replay if one waits, a half computed prompt, or any other.
RoomFor(s) ==
  /\ s \in Range(waiting) /\ Candidate(s) /\ prefilled[s] < PromptLen[s] /\ Remaining(s) <= freeSlots
  /\ prefilled[s] = 0 =>
       /\ PromptLen[s] <= freeSlots - ReservedPrefill
       /\ Cardinality({x \in Seqs : kv[x] > 0}) + 1 <= NumRows /\ Cardinality(resident) + 1 <= NumRows

\* Whoever holds memory then is a claimant with a prompt half computed.
LEMMA AloneHolds ==
  ASSUME MemInv({}), NothingInFlight, PoolInv, PromptInv, FaultlessInv, pc \in {"reserve", "affinity"},
         decoding = <<>>
  PROVE  /\ Decodes = {} /\ Chosen = {} /\ Prefills = Range(waiting) /\ Prefills \subseteq Seqs /\ ~Broken
         /\ Range(skipped) = {} /\ Outstanding = 0
         /\ \A s \in Prefills : kv[s] = prefilled[s] /\ prefilled[s] < PromptLen[s]
         /\ \A s \in Seqs : /\ kv[s] > 0 \/ s \in resident => s \in Prefills /\ kv[s] > 0
                            /\ kv[s] \in Nat /\ Filled[s] \in Nat /\ kv[s] <= Filled[s]
                            /\ kv[s] > 0 => Claims(s) /\ Filled[s] = PromptLen[s]
                            /\ kv[s] = 0 => Filled[s] = 0
<1>1. Parts /\ TypeOK
  BY PartsOfInv DEF MemInv, IInv
<1>2. Range(skipped) = {} /\ Range(decoding) = {}
  BY <1>1, EmptyFacts DEF Parts, CallInv
<1>3. /\ Prefills = Range(waiting) /\ Chosen = {} /\ Decodes = {} /\ Prefills \subseteq Seqs /\ ~Broken
      /\ \A s \in Prefills : kv[s] = prefilled[s] /\ prefilled[s] < PromptLen[s] /\ resEnd[s] = 0
      /\ \A s \in Seqs : Holds(s) => s \in Prefills /\ prefilled[s] > 0
  BY <1>2, RowsBetween
<1>4. Outstanding = 0
  <2>1. ASSUME NEW s \in Seqs PROVE resEnd[s] <= Submitted(s)
    <3>1. resEnd[s] \in Nat /\ Submitted(s) \in Nat
      BY <1>1 DEF PoolInv, Submitted, TypeOK, RequestTypes
    <3>2. resEnd[s] = 0
      BY <1>3, <3>1 DEF Holds
    <3>3. QED BY <3>1, <3>2
  <2>2. QED BY <1>1, <2>1, NothingPromised
<1>5. ASSUME NEW s \in Seqs
      PROVE  /\ kv[s] > 0 \/ s \in resident => s \in Prefills /\ kv[s] > 0
             /\ kv[s] \in Nat /\ Filled[s] \in Nat /\ kv[s] <= Filled[s]
             /\ kv[s] > 0 => Claims(s) /\ Filled[s] = PromptLen[s]
             /\ kv[s] = 0 => Filled[s] = 0
  <2>1. kv[s] \in Nat /\ prefilled[s] \in Nat /\ PromptLen[s] \in Nat
    BY <1>1, SchedulerAssumption DEF TypeOK, RequestTypes
  <2>2. kv[s] > 0 \/ s \in resident => s \in Prefills /\ kv[s] > 0
    BY <1>3 DEF Holds
  <2>3. Filled[s] = IF s \in Range(waiting) /\ prefilled[s] \in 1..(PromptLen[s] - 1) THEN kv[s] + Remaining(s) ELSE kv[s]
    BY DEF Filled
  <2>4. CASE kv[s] > 0
    <3>1. s \in Range(waiting) /\ kv[s] = prefilled[s] /\ prefilled[s] \in 1..(PromptLen[s] - 1)
      BY <1>3, <2>1, <2>2, <2>4
    <3>2. Filled[s] = prefilled[s] + (PromptLen[s] - prefilled[s])
      BY <2>3, <3>1 DEF Remaining
    <3>3. Claims(s)
      BY <1>3, <2>4, <3>1 DEF Claims, Underway
    <3>4. QED BY <2>1, <2>2, <2>4, <3>1, <3>2, <3>3
  <2>5. CASE ~(kv[s] > 0)
    <3>1. kv[s] = 0 /\ ~(s \in Range(waiting) /\ prefilled[s] \in 1..(PromptLen[s] - 1))
      BY <1>3, <2>1, <2>5
    <3>2. Filled[s] = 0
      BY <2>3, <3>1
    <3>3. QED BY <2>1, <2>2, <2>5, <3>1, <3>2
  <2>6. QED BY <2>4, <2>5
<1>6. QED BY <1>2, <1>3, <1>4, <1>5

\* Enough room for s, by weights g and a set C of rows that cover what is held.
LEMMA RoomByWeights ==
  ASSUME MemInv({}), NothingInFlight, PoolInv, PromptInv, FaultlessInv, pc \in {"reserve", "affinity"},
         decoding = <<>>, NEW s \in Range(waiting), Candidate(s),
         NEW g, \A x \in Seqs : g[x] \in Nat /\ (x # s => Filled[x] <= g[x]), g[s] = PromptLen[s],
         SumFunctionOnSet(g, Seqs) <= NumSlots,
         NEW C \in SUBSET Seqs, s \in C, \A x \in Seqs : kv[x] > 0 => x \in C, Cardinality(C) <= NumRows
  PROVE  RoomFor(s)
<1>1. Parts /\ TypeOK
  BY PartsOfInv DEF MemInv, IInv
<1>2. /\ Prefills = Range(waiting) /\ s \in Seqs /\ kv[s] = prefilled[s] /\ prefilled[s] < PromptLen[s]
      /\ \A x \in Seqs : /\ kv[x] > 0 \/ x \in resident => kv[x] > 0
                         /\ kv[x] \in Nat /\ Filled[x] \in Nat /\ kv[x] <= Filled[x]
                         /\ kv[x] = 0 => Filled[x] = 0
  BY AloneHolds
<1>3. /\ IsFiniteSet(Seqs) /\ freeSlots \in Nat /\ NumSlots \in Nat /\ NumRows \in Nat
      /\ freeSlots + SumFunctionOnSet(kv, Seqs) = NumSlots /\ PromptLen[s] \in Nat
      /\ SumFunctionOnSet(Filled, Seqs) = SumFunctionOnSet(kv, Seqs) + ReservedPrefill /\ ReservedPrefill \in Nat
  BY <1>1, <1>2, FilledFacts, PoolFacts, SchedulerAssumption DEF Parts
<1>4. PICK p, q, n, r : /\ p = SumFunctionOnSet(kv, Seqs) /\ q = SumFunctionOnSet(Filled, Seqs)
                        /\ n = SumFunctionOnSet(g, Seqs) /\ r = ReservedPrefill
  OBVIOUS
<1>5. p - kv[s] + g[s] <= n /\ p \in Nat /\ n \in Nat
  <2>1. \A x \in Seqs : kv[x] \in Nat /\ g[x] \in Nat /\ (x # s => kv[x] <= g[x])
    <3>1. SUFFICES ASSUME NEW x \in Seqs PROVE kv[x] \in Nat /\ g[x] \in Nat /\ (x # s => kv[x] <= g[x])
      OBVIOUS
    <3>2. kv[x] \in Nat /\ Filled[x] \in Nat /\ kv[x] <= Filled[x] /\ g[x] \in Nat /\ (x # s => Filled[x] <= g[x])
      BY <1>2
    <3>3. QED BY <3>2
  <2>2. QED BY <1>2, <1>3, <1>4, <2>1, OneWeight
<1>6. q - Filled[s] + g[s] <= n /\ q \in Nat
  <2>1. PICK f : f = Filled
    OBVIOUS
  <2>2. \A x \in Seqs : f[x] \in Nat /\ g[x] \in Nat /\ (x # s => f[x] <= g[x])
    BY <1>2, <2>1
  <2>3. SumFunctionOnSet(f, Seqs) - f[s] + g[s] <= SumFunctionOnSet(g, Seqs) /\ SumFunctionOnSet(f, Seqs) \in Nat
    BY <1>2, <1>3, <2>2, OneWeight
  <2>4. QED BY <1>4, <2>1, <2>3
<1>7. Remaining(s) <= freeSlots
  <2>1. kv[s] \in Nat /\ freeSlots + p = NumSlots /\ n <= NumSlots
    BY <1>2, <1>3, <1>4
  <2>2. PromptLen[s] - kv[s] <= freeSlots
    BY <1>3, <1>5, <2>1
  <2>3. QED BY <1>2, <2>2 DEF Remaining
<1>8. ASSUME prefilled[s] = 0
      PROVE  /\ PromptLen[s] <= freeSlots - ReservedPrefill
             /\ Cardinality({x \in Seqs : kv[x] > 0}) + 1 <= NumRows /\ Cardinality(resident) + 1 <= NumRows
  <2>1. kv[s] = 0 /\ Filled[s] = 0
    BY <1>2, <1>8
  <2>2. PromptLen[s] <= freeSlots - r
    <3>1. freeSlots + p = NumSlots /\ n <= NumSlots /\ q = p + r /\ r \in Nat
      BY <1>3, <1>4
    <3>2. QED BY <1>3, <1>5, <1>6, <2>1, <3>1
  <2>3. PICK D : D = C \ {s}
    OBVIOUS
  <2>4. IsFiniteSet(C) /\ IsFiniteSet(D) /\ Cardinality(D) \in Nat /\ Cardinality(C) \in Nat
        /\ Cardinality(D) = Cardinality(C) - 1
    BY <1>3, <2>3, FS_Subset, FS_RemoveElement, FS_CardinalityType
  <2>5. ASSUME NEW A \in SUBSET Seqs, \A x \in A : kv[x] > 0 PROVE Cardinality(A) + 1 <= NumRows
    <3>1. A \subseteq D
      BY <2>1, <2>3, <2>5
    <3>2. Cardinality(A) <= Cardinality(D) /\ Cardinality(A) \in Nat
      BY <2>4, <3>1, FS_Subset, FS_CardinalityType
    <3>3. QED BY <1>3, <2>4, <3>2
  <2>6. resident \in SUBSET Seqs /\ \A x \in resident : kv[x] > 0
    BY <1>1, <1>2 DEF TypeOK, RequestTypes
  <2>7. Cardinality(resident) + 1 <= NumRows
    BY <2>5, <2>6
  <2>8. Cardinality({x \in Seqs : kv[x] > 0}) + 1 <= NumRows
    BY <2>5
  <2>9. QED BY <1>4, <2>2, <2>7, <2>8
<1>9. QED BY <1>2, <1>7, <1>8 DEF RoomFor

\* There is such a request.
LEMMA AloneRoom ==
  ASSUME MemInv({}), NothingInFlight, PoolInv, PromptInv, FaultlessInv, ClaimInv, EachFitsAlone,
         pc \in {"reserve", "affinity"}, decoding = <<>>, waiting # <<>>
  PROVE  \E s \in Seqs : RoomFor(s)
<1>1. Parts /\ ClaimFacts /\ Range(waiting) # {}
  BY PartsOfInv, ClaimTypes, RangeFacts DEF MemInv, Parts
<1>2. /\ Prefills = Range(waiting) /\ Prefills \subseteq Seqs /\ Range(skipped) = {} /\ ~Broken
      /\ \A x \in Seqs : /\ kv[x] > 0 => x \in Range(waiting) /\ Claims(x) /\ Filled[x] = PromptLen[x]
                         /\ kv[x] = 0 => Filled[x] = 0
                         /\ kv[x] \in Nat
  BY AloneHolds
<1>3. Len(decoding) = 0 /\ MaxDecoding \in Nat \ {0} /\ NumRows \in Nat \ {0} /\ NumSlots \in Nat /\ IsFiniteSet(Seqs)
  BY SchedulerAssumption
<1>4. \A s : (ReplayWaiting => IsReplay(s)) => Candidate(s)
  BY <1>3 DEF Candidate
<1>5. ASSUME NEW s \in Range(waiting), Candidate(s), Claims(s) PROVE RoomFor(s)
  <2>1. PICK g : g = Claimed
    OBVIOUS
  <2>2. s \in Seqs /\ g[s] = PromptLen[s]
    BY <1>1, <1>2, <1>5, <2>1 DEF ClaimFacts
  <2>3. \A x \in Seqs : g[x] \in Nat /\ (x # s => Filled[x] <= g[x])
    <3>1. SUFFICES ASSUME NEW x \in Seqs PROVE g[x] \in Nat /\ Filled[x] <= g[x]
      OBVIOUS
    <3>2. g[x] \in Nat /\ g[x] = IF Claims(x) THEN PromptLen[x] ELSE 0
      BY <1>1, <2>1 DEF ClaimFacts
    <3>3. CASE kv[x] > 0
      BY <1>2, <3>2, <3>3
    <3>4. CASE ~(kv[x] > 0)
      BY <1>2, <3>2, <3>4
    <3>5. QED BY <3>3, <3>4
  <2>4. SumFunctionOnSet(g, Seqs) <= NumSlots /\ Cardinality(Claimants) <= NumRows
    <3>1. Spare = 0
      BY DEF Spare
    <3>2. SumFunctionOnSet(Claimed, Seqs) + 0 <= NumSlots /\ Cardinality(Claimants) <= NumRows
      BY <1>2, <3>1 DEF ClaimInv
    <3>3. QED BY <1>1, <2>1, <3>2 DEF ClaimFacts
  <2>5. Claimants \in SUBSET Seqs /\ s \in Claimants /\ \A x \in Seqs : kv[x] > 0 => x \in Claimants
    BY <1>2, <1>5, <2>2 DEF Claimants
  <2>6. QED BY <1>5, <2>2, <2>3, <2>4, <2>5, RoomByWeights
<1>6. CASE ReplayWaiting
  <2>1. PICK s \in Range(waiting) : IsReplay(s)
    BY <1>2, <1>6 DEF ReplayWaiting
  <2>2. Candidate(s) /\ Claims(s)
    BY <1>2, <1>4, <2>1 DEF Claims
  <2>3. QED BY <1>2, <1>5, <2>2
<1>7. CASE ~ReplayWaiting /\ \E x \in Seqs : kv[x] > 0
  BY <1>2, <1>4, <1>5, <1>7
<1>8. CASE ~ReplayWaiting /\ ~\E x \in Seqs : kv[x] > 0
  <2>1. PICK s \in Range(waiting) : TRUE
    BY <1>1
  <2>2. s \in Seqs /\ Candidate(s) /\ PromptLen[s] \in Nat /\ PromptLen[s] <= NumSlots
    <3>1. s \in Seqs /\ Candidate(s)
      BY <1>2, <1>4, <1>8, <2>1
    <3>2. PromptLen[s] + MaxTokens[s] - 1 <= NumSlots /\ MaxTokens[s] \in Nat \ {0} /\ PromptLen[s] \in Nat
      BY <3>1, SchedulerAssumption DEF EachFitsAlone
    <3>3. QED BY <1>3, <3>1, <3>2
  <2>3. PICK g, f : g = [x \in Seqs |-> IF x = s THEN PromptLen[s] ELSE 0] /\ f = [x \in Seqs |-> 0]
    OBVIOUS
  <2>4. g[s] = PromptLen[s] /\ \A x \in Seqs : g[x] \in Nat /\ (x # s => Filled[x] <= g[x])
    BY <1>2, <1>8, <2>2, <2>3
  <2>5. SumFunctionOnSet(g, Seqs) <= NumSlots
    <3>1. SumFunctionOnSet(f, Seqs) = 0 /\ f[s] = 0 /\ Weights(f, Seqs)
      BY <1>3, <2>2, <2>3, NoWeight DEF Weights
    <3>2. SumFunctionOnSet(g, Seqs) = SumFunctionOnSet(f, Seqs) - f[s] + g[s]
      <4>1. g[s] \in Int /\ \A x \in Seqs : x # s => g[x] = f[x]
        BY <2>2, <2>3
      <4>2. QED BY <1>3, <2>2, <3>1, <4>1, SumChange
    <3>3. QED BY <2>2, <2>4, <3>1, <3>2
  <2>6. {s} \in SUBSET Seqs /\ s \in {s} /\ (\A x \in Seqs : kv[x] > 0 => x \in {s}) /\ Cardinality({s}) <= NumRows
    <3>1. Cardinality({s}) = 1
      BY FS_Singleton
    <3>2. QED BY <1>3, <1>8, <2>2, <3>1
  <2>7. RoomFor(s)
    BY <2>2, <2>4, <2>5, <2>6, RoomByWeights
  <2>8. QED BY <2>2, <2>7
<1>9. QED BY <1>6, <1>7, <1>8

\* A scan that opens with nothing to decode will take a prompt.
LEMMA OpenSure ==
  ASSUME MemInv({}), NothingInFlight, PoolInv, PromptInv, FaultlessInv, ClaimInv, ScanInv,
         StartPrefill \/ AffinityPrefill
  PROVE  SureInv'
<1>1. SUFFICES ASSUME decoding' = <<>>, EachFitsAlone' PROVE
          /\ pc' = "prefill" /\ batchTokens' = 0 /\ modes' \in Seq({"chunked", "full"})
          /\ \E s \in Seqs : Takable(s)' /\ ToTry(s)'
  BY DEF SureInv
<1>2. /\ pc \in {"reserve", "affinity"} /\ skipped = <<>> /\ Parts /\ TypeOK /\ EachFitsAlone
      /\ \E queue \in Seq(Seqs) : Range(queue) = Range(waiting) /\ OpenPrefill(queue)
  BY <1>1, OpenQueue, PartsOfInv DEF MemInv, IInv, EachFitsAlone
<1>3. PICK queue \in Seq(Seqs) : Range(queue) = Range(waiting) /\ OpenPrefill(queue)
  BY <1>2
<1>4. decoding = <<>> /\ waiting # <<>> /\ batchTokens = 0
  BY <1>1, <1>2, <1>3 DEF OpenPrefill, ScanInv, IsFinished
<1>5. PICK s \in Seqs : RoomFor(s)
  BY <1>2, <1>4, AloneRoom
<1>6. /\ pc' = "prefill" /\ waiting' = queue /\ modes' = ModeOrder(queue) /\ budget' = Len(queue)
      /\ free' = Positive(freeSlots - Outstanding) /\ admit' = Positive(freeSlots - ReservedPrefill - Outstanding)
      /\ scheduled' = <<>> /\ batchTokens' = 0
      /\ UNCHANGED <<cursor, skipped, decoding, prefilled, kv, resident>>
  BY <1>3, <1>4 DEF OpenPrefill, PrefillSuspended
<1>7. Outstanding = 0 /\ freeSlots \in Nat /\ ReservedPrefill \in Nat
  BY <1>2, <1>4, AloneHolds, FilledFacts DEF PoolInv, Parts
<1>8. /\ s \in Range(queue) /\ Candidate(s) /\ prefilled[s] < PromptLen[s] /\ Remaining(s) <= freeSlots
      /\ prefilled[s] \in Nat /\ PromptLen[s] \in Nat
  BY <1>2, <1>3, <1>5, SchedulerAssumption DEF RoomFor, TypeOK, RequestTypes
<1>9. free' = freeSlots
  <2>1. freeSlots - Outstanding = freeSlots
    BY <1>7
  <2>2. QED BY <1>6, <1>7, <2>1 DEF Positive
<1>10. Candidate(s)'
  BY <1>3, <1>6, <1>8 DEF Candidate, ReplayWaiting, IsReplay
<1>11. HasChunk(s)'
  <2>1. ChunkFacts'
    <3>1. (EachFitsAlone => ChunkFacts)'
      BY ChunkWhenFree, PTL
    <3>2. QED BY <1>1, <3>1
  <2>2. /\ prefilled'[s] \in Nat /\ prefilled'[s] < PromptLen[s] /\ batchTokens' = 0 /\ free' \in Nat
        /\ Remaining(s)' <= free'
    BY <1>6, <1>7, <1>8, <1>9 DEF Remaining
  <2>3. QED BY <2>1, <2>2 DEF ChunkFacts
<1>12. ASSUME prefilled'[s] = 0 PROVE AdmissionFits(s)'
  <2>1. /\ PromptLen[s] <= freeSlots - ReservedPrefill
        /\ Cardinality({x \in Seqs : kv[x] > 0}) + 1 <= NumRows /\ Cardinality(resident) + 1 <= NumRows
    BY <1>5, <1>6, <1>12 DEF RoomFor
  <2>2. PromptLen[s] <= admit'
    <3>1. PICK r, o : r = ReservedPrefill /\ o = Outstanding
      OBVIOUS
    <3>2. admit' = Positive(freeSlots - r - o) /\ o = 0 /\ r \in Nat /\ PromptLen[s] <= freeSlots - r
      BY <1>6, <1>7, <2>1, <3>1
    <3>3. QED BY <1>7, <1>8, <3>2 DEF Positive
  <2>3. PICK A : A = {x \in Seqs : kv[x] > 0}
    OBVIOUS
  <2>4. /\ IsFiniteSet(Seqs) /\ A \in SUBSET Seqs /\ resident \in SUBSET Seqs /\ NumRows \in Nat
        /\ Cardinality(A) + 1 <= NumRows
    BY <1>2, <2>1, <2>3, SchedulerAssumption DEF TypeOK, RequestTypes
  <2>5. Cardinality(A) \in Nat /\ Cardinality(resident) \in Nat
    BY <2>4, FS_Subset, FS_CardinalityType
  <2>6. FreeRows' >= 1
    <3>1. {x \in Range(scheduled') : prefilled'[x] = 0} = {}
      BY <1>6, EmptyFacts
    <3>2. Cardinality({}) = 0
      BY FS_EmptySet
    <3>3. FreeRows' = NumRows - Cardinality(A) - Cardinality({})
      BY <1>6, <2>3, <3>1 DEF FreeRows
    <3>4. QED BY <2>4, <2>5, <3>2, <3>3
  <2>7. Cardinality(resident') < NumRows
    BY <1>6, <2>1, <2>4, <2>5
  <2>8. QED BY <2>2, <2>6, <2>7 DEF AdmissionFits
<1>13. modes' \in Seq({"chunked", "full"}) /\ \E j \in DOMAIN modes' : modes'[j] = Mode[s]
  BY <1>6, <1>8, EveryMode
<1>14. ToTry(s)'
  <2>1. PICK j \in DOMAIN modes' : modes'[j] = Mode[s]
    BY <1>13
  <2>2. PICK i \in DOMAIN queue : queue[i] = s
    BY <1>8 DEF Range
  <2>3. i <= Len(queue)
    OBVIOUS
  <2>4. QED BY <1>3, <1>6, <1>8, <2>1, <2>2, <2>3 DEF ToTry
<1>15. QED BY <1>6, <1>10, <1>11, <1>12, <1>13, <1>14 DEF Takable

\* What the scan does not take stays ready, and to be tried.
LEMMA PassOverSure ==
  ASSUME IInv, SureInv, PrefillSkip \/ PrefillDefer \/ NextBucket
  PROVE  SureInv'
<1>1. SUFFICES ASSUME decoding' = <<>>, scheduled' = <<>>, EachFitsAlone' PROVE
          /\ pc' = "prefill" /\ batchTokens' = 0 /\ modes' \in Seq({"chunked", "full"})
          /\ \E s \in Seqs : Takable(s)' /\ ToTry(s)'
  BY DEF SureInv
<1>2. /\ Parts /\ Waiters' = Waiters /\ pc = "prefill" /\ pc' = "prefill"
      /\ UNCHANGED <<decoding, scheduled, prefilled, cursor, batchTokens, free, admit, kv, resident>>
  BY PassOverQueues, PartsOfInv DEF PrefillSkip, PrefillDefer, NextBucket
<1>3. batchTokens = 0 /\ modes \in Seq({"chunked", "full"}) /\ \E s \in Seqs : Takable(s) /\ ToTry(s)
  BY <1>1, <1>2 DEF SureInv, EachFitsAlone
<1>4. PICK s \in Seqs : Takable(s) /\ ToTry(s)
  BY <1>3
<1>5. Takable(s)'
  <2>1. Candidate(s)' /\ Candidate(s)
    BY <1>2, <1>4 DEF Takable, Candidate, ReplayWaiting, IsReplay, Waiters
  <2>2. HasChunk(s)' /\ HasChunk(s)
    BY <1>2, <1>4 DEF Takable, HasChunk, PrefillTokens, ProposedTokens, Remaining
  <2>3. prefilled'[s] = 0 => AdmissionFits(s)'
    BY <1>2, <1>4 DEF Takable, AdmissionFits, FreeRows
  <2>4. QED BY <2>1, <2>2, <2>3 DEF Takable
<1>6. PICK j \in DOMAIN modes :
        /\ modes[j] = Mode[s]
        /\ IF j = 1 THEN \E i \in DOMAIN waiting : i <= budget /\ waiting[i] = s
                    ELSE s \in Range(waiting) \cup Range(skipped)
  BY <1>4 DEF ToTry
<1>7. j \in Nat /\ j >= 1 /\ modes # <<>> /\ DOMAIN modes = 1..Len(modes) /\ Len(modes) \in Nat /\ Head(modes) = modes[1]
      /\ budget \in Nat /\ waiting \in Seq(Seqs) /\ skipped \in Seq(Seqs)
  <2>1. DOMAIN modes = 1..Len(modes) /\ Len(modes) \in Nat
    BY <1>3
  <2>2. modes # <<>>
    BY <1>6, <2>1
  <2>3. QED BY <1>2, <1>3, <1>6, <2>1, <2>2 DEF Parts, TypeOK, CallTypes
<1>8. s \in Waiters
  <2>1. CASE j = 1
    <3>1. PICK i \in DOMAIN waiting : waiting[i] = s
      BY <1>6, <2>1
    <3>2. QED BY <3>1 DEF Waiters, Range
  <2>2. CASE j # 1
    BY <1>6, <2>2 DEF Waiters
  <2>3. QED BY <2>1, <2>2
<1>9. CASE PrefillSkip \/ PrefillDefer
  <2>1. PICK h, r : h = Head(waiting) /\ r = Tail(waiting)
    OBVIOUS
  <2>2. waiting # <<>> /\ modes' = modes /\ budget > 0
    BY <1>9 DEF PrefillSkip, PrefillDefer, InBucket, CanContinuePrefillBatch
  <2>3. /\ r \in Seq(Seqs) /\ h \in Seqs /\ h = waiting[1] /\ DOMAIN waiting = 1..Len(waiting) /\ Len(waiting) \in Nat
        /\ DOMAIN r = 1..(Len(waiting) - 1) /\ \A k \in DOMAIN r : r[k] = waiting[k + 1]
    BY <1>7, <2>1, <2>2
  <2>4. \/ PrefillSkip /\ ~InMode(h) /\ waiting' = r /\ budget' = budget
        \/ PrefillDefer /\ ~Takable(h) /\ waiting' = Append(r, h) /\ budget' = budget - 1
    BY <1>9, <2>1 DEF PrefillSkip, PrefillDefer, Takable
  <2>5. CASE j = 1
    <3>1. PICK i \in DOMAIN waiting : i <= budget /\ waiting[i] = s
      BY <1>6, <2>5
    <3>2. InMode(s)
      BY <1>4, <1>6, <1>7, <2>5 DEF Takable, InMode
    <3>3. h # s
      BY <1>4, <2>4, <3>2
    <3>4. i # 1 /\ i \in Nat /\ i - 1 \in DOMAIN r /\ r[i - 1] = s
      BY <2>3, <3>1, <3>3
    <3>5. i - 1 \in DOMAIN Append(r, h) /\ Append(r, h)[i - 1] = s
      BY <2>3, <3>4
    <3>6. i - 1 <= budget'
      BY <1>7, <2>4, <3>1, <3>4
    <3>7. i - 1 \in DOMAIN waiting' /\ waiting'[i - 1] = s
      BY <2>4, <3>4, <3>5
    <3>8. ToTry(s)'
      BY <1>6, <2>2, <2>5, <3>6, <3>7 DEF ToTry
    <3>9. QED BY <1>2, <1>3, <1>5, <2>2, <3>8
  <2>6. CASE j # 1
    <3>1. ToTry(s)'
      BY <1>2, <1>6, <1>8, <2>2, <2>6 DEF ToTry, Waiters
    <3>2. QED BY <1>2, <1>3, <1>5, <2>2, <3>1
  <2>7. QED BY <2>5, <2>6
<1>10. CASE NextBucket
  <2>1. /\ ~InBucket /\ scheduled = <<>> /\ modes' = Tail(modes) /\ waiting' = skipped \o waiting
        /\ budget' = Len(skipped) + Len(waiting) /\ skipped' = <<>>
    BY <1>1, <1>2, <1>10 DEF NextBucket
  <2>2. j # 1
    <3>1. SUFFICES ASSUME j = 1 PROVE FALSE
      OBVIOUS
    <3>2. PICK i \in DOMAIN waiting : i <= budget
      BY <1>6, <3>1
    <3>3. budget > 0 /\ waiting # <<>>
      BY <1>7, <3>2
    <3>4. Len(scheduled) = 0 /\ MaxBatchSeqs \in Nat \ {0} /\ MaxBatchTokens \in Nat \ {0}
      BY <2>1, SchedulerAssumption
    <3>5. CanContinuePrefillBatch
      BY <1>3, <2>1, <3>3, <3>4 DEF CanContinuePrefillBatch
    <3>6. QED BY <1>2, <1>7, <2>1, <3>3, <3>5 DEF InBucket
  <2>3. /\ Tail(modes) \in Seq({"chunked", "full"}) /\ j - 1 \in DOMAIN Tail(modes) /\ Tail(modes)[j - 1] = Mode[s]
    BY <1>3, <1>6, <1>7, <2>2
  <2>4. s \in Range(waiting')
    <3>1. Range(skipped') = {}
      BY <2>1, EmptyFacts
    <3>2. QED BY <1>2, <1>8, <3>1 DEF Waiters
  <2>5. PICK i \in DOMAIN waiting' : waiting'[i] = s
    BY <2>4 DEF Range
  <2>6. i <= budget'
    <3>1. DOMAIN (skipped \o waiting) = 1..(Len(skipped) + Len(waiting)) /\ Len(skipped) + Len(waiting) \in Nat
      BY <1>7
    <3>2. QED BY <2>1, <2>5, <3>1
  <2>7. ToTry(s)'
    BY <2>1, <2>3, <2>4, <2>5, <2>6 DEF ToTry
  <2>8. QED BY <1>2, <1>3, <1>5, <2>1, <2>3, <2>7
<1>11. QED BY <1>9, <1>10

\* Every step of schedule() leaves a prompt to take, if it leaves no decode.
LEMMA SchedulingSure ==
  ASSUME MemInv({}), NothingInFlight, PoolInv, PromptInv, FaultlessInv, ClaimInv, ScanInv, SureInv, Scheduling
  PROVE  SureInv'
<1>1. ScheduleStep /\ IInv /\ Parts
  BY PartsOfInv DEF Scheduling, MemInv
<1>2. CASE StartPrefill \/ AffinityPrefill
  BY <1>2, OpenSure
<1>3. CASE PrefillSkip \/ PrefillDefer \/ NextBucket
  BY <1>1, <1>3, PassOverSure
<1>4. CASE PrefillTake
  <2>1. scheduled' = Append(scheduled, Head(waiting)) /\ scheduled \in Seq(Seqs)
    BY <1>1, <1>4 DEF PrefillTake, Parts
  <2>2. scheduled' # <<>>
    BY <2>1
  <2>3. QED BY <2>2 DEF SureInv
<1>5. CASE StartDecode
  <2>1. UNCHANGED <<decoding, scheduled>> /\ pc = "prefill" /\ modes = <<>>
    BY <1>5 DEF StartDecode, PrefillOver
  <2>2. \A s : ~ToTry(s)
    BY <2>1 DEF ToTry
  <2>3. QED BY <2>1, <2>2 DEF SureInv, EachFitsAlone
<1>6. CASE DecodeRotate \/ DecodeTake \/ DecodeBlock
  <2>1. pc = "decode" /\ budget > 0
    BY <1>6 DEF DecodeRotate, DecodeTake, DecodeBlock, InDecode
  <2>2. decoding # <<>> /\ decoding \in Seq(Seqs) /\ scheduled \in Seq(Seqs)
    BY <1>1, <2>1 DEF Parts, CallInv, TypeOK, CallTypes
  <2>3. decoding' = Append(Tail(decoding), Head(decoding)) \/ scheduled' = Append(scheduled, Head(decoding))
    BY <1>6 DEF DecodeRotate, DecodeTake, DecodeBlock
  <2>4. decoding' # <<>> \/ scheduled' # <<>>
    BY <2>2, <2>3
  <2>5. QED BY <2>4 DEF SureInv
<1>7. CASE AcquireWindow \/ StartAffinity \/ AffinityScan \/ AffinityDecode \/ PrefillReturn \/ DecodeReturn \/ NothingToRun
  <2>1. pc' \notin {"prefill", "decode"}
    BY <1>7 DEF AcquireWindow, StartAffinity, AffinityScan, AffinityDecode, PrefillReturn, DecodeReturn, NothingToRun,
                Return, Raise
  <2>2. QED BY <2>1 DEF SureInv
<1>8. CASE Preempts
  <2>1. pc' \notin {"prefill", "decode"}
    BY <1>8 DEF Preempts, PreemptUnreserved, PreemptSoleUnreserved, DecodePreempt, PreemptDecodeVictim, DrainRequired,
                RejectPreemption, StartReplay, Raise
  <2>2. QED BY <2>1 DEF SureInv
<1>9. QED BY <1>1, <1>2, <1>3, <1>4, <1>5, <1>6, <1>7, <1>8 DEF ScheduleStep, Preempts
-----------------------------------------------------------------------------
(* A sole decode *)

\* Beside no half computed prompt a sole decode has a slot, and no other
\* request holds memory.
LEMMA SoleRoom ==
  ASSUME MemInv({}), NothingInFlight, PoolInv, PromptInv, FaultlessInv, EachFitsAlone, ~HalfComputed,
         pc \in {"reserve", "affinity", "prefill", "decode"}, pc \in {"prefill", "decode"} => scheduled = <<>>,
         NEW v, decoding = <<v>>, Submitted(v) < MaxTokens[v]
  PROVE  v \in Seqs /\ freeSlots >= 1 /\ \A s \in Seqs : s # v => resEnd[s] = 0
<1>1. Parts /\ TypeOK /\ PoolInv /\ IsFiniteSet(Seqs)
  BY PartsOfInv, SchedulerAssumption DEF MemInv, IInv
<1>2. Range(decoding) = {v} /\ v \in Seqs
  <2>1. decoding \in Seq(Seqs) /\ DOMAIN decoding = 1..1 /\ decoding[1] = v
    BY <1>1 DEF Parts
  <2>2. Range(decoding) = {v}
    BY <2>1 DEF Range
  <2>3. QED BY <1>1, <2>2 DEF Parts
<1>3. /\ Decodes = {v} /\ Prefills \subseteq Seqs
      /\ \A s \in Prefills : prefilled[s] < PromptLen[s]
      /\ kv[v] = DecodeInputPosition(v) /\ DecodeInputPosition(v) < PromptLen[v] + tokens[v]
      /\ \A s \in Seqs : Holds(s) => s \in Decodes \/ (s \in Prefills /\ prefilled[s] > 0)
  BY <1>2, RowsBetween
<1>4. ASSUME NEW s \in Seqs, s # v PROVE kv[s] = 0 /\ resEnd[s] = 0
  <2>1. kv[s] \in Nat /\ resEnd[s] \in Nat /\ prefilled[s] \in Nat /\ PromptLen[s] \in Nat
    BY <1>1, SchedulerAssumption DEF TypeOK, RequestTypes, PoolInv
  <2>2. ~Holds(s)
    <3>1. SUFFICES ASSUME Holds(s) PROVE FALSE
      OBVIOUS
    <3>2. s \in Prefills /\ prefilled[s] > 0
      BY <1>3, <1>4, <3>1
    <3>3. prefilled[s] \in 1..(PromptLen[s] - 1)
      BY <1>3, <2>1, <3>2
    <3>4. QED BY <3>3 DEF HalfComputed
  <2>3. QED BY <2>1, <2>2 DEF Holds
<1>5. /\ kv[v] \in Nat /\ tokens[v] \in Nat /\ inflight[v] = 0 /\ PromptLen[v] \in Nat /\ MaxTokens[v] \in Nat
      /\ NumSlots \in Nat /\ freeSlots \in Nat /\ kv \in [Seqs -> Nat]
      /\ PromptLen[v] + MaxTokens[v] - 1 <= NumSlots /\ freeSlots + SumFunctionOnSet(kv, Seqs) = NumSlots
  BY <1>1, <1>2, SchedulerAssumption DEF TypeOK, RequestTypes, NothingInFlight, EachFitsAlone, PoolInv
<1>6. kv[v] < NumSlots
  <2>1. tokens[v] < MaxTokens[v]
    BY <1>5 DEF Submitted
  <2>2. kv[v] < PromptLen[v] + tokens[v]
    BY <1>3
  <2>3. QED BY <1>5, <2>1, <2>2
<1>7. SumFunctionOnSet(kv, Seqs) = kv[v]
  <2>1. PICK f, k : f = [s \in Seqs |-> 0] /\ k = kv
    OBVIOUS
  <2>2. SumFunctionOnSet(f, Seqs) = 0 /\ f[v] = 0 /\ Weights(f, Seqs) /\ v \in Seqs /\ IsFiniteSet(Seqs)
    BY <1>1, <1>2, <2>1, NoWeight DEF Weights
  <2>3. k[v] \in Int /\ k[v] = kv[v]
    BY <1>5, <2>1
  <2>4. \A x \in Seqs : x # v => k[x] = f[x]
    BY <1>4, <2>1
  <2>5. SumFunctionOnSet(k, Seqs) = SumFunctionOnSet(f, Seqs) - f[v] + k[v]
    BY <2>2, <2>3, <2>4, SumChange
  <2>6. QED BY <2>1, <2>2, <2>3, <2>5
<1>8. QED BY <1>2, <1>4, <1>5, <1>6, <1>7

\* So it is refused a window only beside a half computed prompt.
LEMMA SoleWindow ==
  ASSUME MemInv({}), NothingInFlight, PoolInv, PromptInv, FaultlessInv, EachFitsAlone, ~HalfComputed,
         pc = "reserve", NEW v, decoding = <<v>>, NeedsAcquisition(v)
  PROVE  WindowChoices(v) # {}
<1>1. TypeOK /\ Parts /\ IsFiniteSet(Seqs)
  BY PartsOfInv, SchedulerAssumption DEF MemInv, IInv
<1>2. v \in Seqs /\ freeSlots >= 1 /\ (\A s \in Seqs : s # v => resEnd[s] = 0)
      /\ Submitted(v) >= resEnd[v] /\ Submitted(v) < MaxTokens[v]
  BY SoleRoom DEF NeedsAcquisition
<1>3. Outstanding = 0
  <2>1. ASSUME NEW s \in Seqs PROVE resEnd[s] <= Submitted(s)
    <3>1. resEnd[s] \in Nat /\ Submitted(s) \in Nat
      BY <1>1 DEF PoolInv, Submitted, TypeOK, RequestTypes
    <3>2. QED BY <1>2, <3>1
  <2>2. QED BY <1>1, <2>1, NothingPromised
<1>4. ReservedPrefill = 0
  <2>1. {s \in Range(waiting) : prefilled[s] \in 1..(PromptLen[s] - 1)} = {}
    BY <1>1 DEF HalfComputed, Parts
  <2>2. PICK g : g = [s \in Seqs |-> Remaining(s)]
    OBVIOUS
  <2>3. SumFunctionOnSet(g, {}) = 0
    BY FS_EmptySet, NoWeight
  <2>4. QED BY <2>1, <2>2, <2>3 DEF ReservedPrefill
<1>5. freeSlots \in Nat /\ Submitted(v) \in Nat /\ MaxTokens[v] \in Nat /\ Window \in Nat \ {0}
  BY <1>1, <1>2, SchedulerAssumption DEF PoolInv, Submitted, TypeOK, RequestTypes
<1>6. WindowFits(1)
  <2>1. Min({freeSlots, 0}) <= 0 /\ Min({freeSlots, 0}) \in Int
    <3>1. PICK f, z : f = freeSlots /\ z = 0
      OBVIOUS
    <3>2. f \in Int /\ z \in Int
      BY <1>5, <3>1
    <3>3. Min({f, z}) <= z /\ Min({f, z}) \in Int
      BY <3>2, MinFacts
    <3>4. QED BY <3>1, <3>3
  <2>2. WindowFits(1) <=> 1 + 0 + Min({freeSlots, 0}) <= freeSlots
    BY <1>3, <1>4 DEF WindowFits
  <2>3. QED BY <1>2, <1>5, <2>1, <2>2
<1>7. PICK w, d : d = MaxTokens[v] - Submitted(v) /\ w = Min({Window, d})
  OBVIOUS
<1>8. w \in Nat /\ w >= 1
  <2>1. d \in Nat /\ d >= 1
    BY <1>2, <1>5, <1>7
  <2>2. w = Window \/ w = d
    <3>1. Window \in Int /\ d \in Int
      BY <1>5, <2>1
    <3>2. QED BY <1>7, <3>1, MinFacts
  <2>3. QED BY <1>5, <2>1, <2>2
<1>9. WindowChoices(v) = {n \in 1..w : WindowFits(n) /\ (n = w \/ Len(decoding) = 1)}
  BY <1>7 DEF WindowChoices
<1>10. 1 \in WindowChoices(v)
  BY <1>6, <1>8, <1>9
<1>11. QED BY <1>10

\* A queue of one request, and a queue of several.
LEMMA SoleFacts ==
  ASSUME NEW S, NEW q \in Seq(S), q # <<>>
  PROVE  /\ Len(q) = 1 <=> q = <<Head(q)>>
         /\ Tail(q) = <<>> <=> Len(q) = 1
         /\ Len(q) > 1 /\ IsInjective(q) => \A x : Range(q) \ {x} # {}
<1>1. Len(q) \in Nat /\ Len(q) >= 1 /\ DOMAIN q = 1..Len(q) /\ Head(q) = q[1]
  OBVIOUS
<1>2. Len(q) = 1 <=> q = <<Head(q)>>
  <2>1. PICK h : h = q[1]
    OBVIOUS
  <2>2. Len(q) = 1 => q = <<h>>
    BY <1>1, <2>1
  <2>3. q = <<h>> => Len(q) = 1
    OBVIOUS
  <2>4. QED BY <1>1, <2>1, <2>2, <2>3
<1>3. Tail(q) = <<>> <=> Len(q) = 1
  <2>1. PICK r : r = Tail(q)
    OBVIOUS
  <2>2. r \in Seq(S) /\ Len(r) = Len(q) - 1
    BY <2>1
  <2>3. r = <<>> => Len(r) = 0
    OBVIOUS
  <2>4. r # <<>> => Len(r) # 0
    BY <2>2, SMTT(60)
  <2>5. QED BY <1>1, <2>1, <2>2, <2>3, <2>4
<1>4. ASSUME Len(q) > 1, IsInjective(q), NEW x PROVE Range(q) \ {x} # {}
  <2>1. 1 \in DOMAIN q /\ 2 \in DOMAIN q
    BY <1>1, <1>4
  <2>2. q[1] # q[2] /\ q[1] \in Range(q) /\ q[2] \in Range(q)
    BY <1>4, <2>1 DEF IsInjective, Range
  <2>3. QED BY <2>2
<1>5. QED BY <1>2, <1>3, <1>4

\* What a call knows of a sole decode, from step to step.
LEMMA SchedulingSole ==
  ASSUME MemInv({}), NothingInFlight, PoolInv, PromptInv, FaultlessInv, CoverInv, SoleInv, Scheduling
  PROVE  SoleInv'
<1>1. ScheduleStep /\ IInv /\ Parts
  BY PartsOfInv DEF Scheduling, MemInv
<1>2. CASE AcquireWindow
  <2>1. /\ pc = "reserve" /\ pc' = "reserve" /\ UNCHANGED <<decoding, prefilled>> /\ failure = None
        /\ scan <= Len(decoding) /\ scan \in Nat \ {0} /\ decoding \in Seq(Seqs)
    BY <1>1, <1>2 DEF AcquireWindow, Parts, TypeOK, CallTypes
  <2>2. SUFFICES ASSUME failure' # None, EachFitsAlone, Len(decoding) <= 1, ~HalfComputed PROVE FALSE
    <3>1. Len(decoding) \in Nat
      BY <2>1
    <3>2. HalfComputed' <=> HalfComputed
      BY <2>1 DEF HalfComputed
    <3>3. QED BY <2>1, <3>1, <3>2 DEF SoleInv, EachFitsAlone
  <2>3. PICK v : v = decoding[scan]
    OBVIOUS
  <2>4. decoding = <<v>>
    <3>1. scan = 1 /\ Len(decoding) = 1 /\ decoding # <<>>
      BY <2>1, <2>2, SMTT(60)
    <3>2. QED BY <2>1, <2>3, <3>1
  <2>5. NeedsAcquisition(v) /\ WindowChoices(v) = {}
    BY <1>2, <2>1, <2>2, <2>3 DEF AcquireWindow
  <2>6. QED BY <2>1, <2>2, <2>4, <2>5, SoleWindow
<1>3. CASE StartPrefill \/ AffinityPrefill
  <2>1. /\ pc' = "prefill" /\ UNCHANGED <<decoding, prefilled, failure>> /\ pc \in {"reserve", "affinity"}
        /\ pc = "reserve" => ~(failure # None /\ Len(decoding) > 1)
    BY <1>3 DEF StartPrefill, AffinityPrefill, OpenPrefill, Acquired
  <2>2. failure # None => pc = "reserve" /\ failure \in Range(decoding)
    BY <1>1, <2>1 DEF CoverInv, Parts, CallInv
  <2>3. failure # None => Len(decoding) = 1
    <3>1. SUFFICES ASSUME failure # None PROVE Len(decoding) = 1
      OBVIOUS
    <3>2. decoding # <<>> /\ decoding \in Seq(Seqs)
      BY <1>1, <2>2, <3>1, EmptyFacts DEF Parts
    <3>3. Len(decoding) \in Nat /\ Len(decoding) # 0
      BY <3>2
    <3>4. ~(Len(decoding) > 1)
      BY <2>1, <2>2, <3>1
    <3>5. \A n \in Nat : n # 0 /\ ~(n > 1) => n = 1
      OBVIOUS
    <3>6. QED BY <3>3, <3>4, <3>5
  <2>4. HalfComputed' <=> HalfComputed
    BY <2>1 DEF HalfComputed
  <2>5. QED BY <2>1, <2>2, <2>3, <2>4 DEF SoleInv, EachFitsAlone
<1>4. CASE PrefillSkip \/ PrefillDefer \/ PrefillTake \/ NextBucket
  <2>1. pc = "prefill" /\ pc' = "prefill" /\ UNCHANGED <<decoding, prefilled, failure>>
    BY <1>4 DEF PrefillSkip, PrefillDefer, PrefillTake, NextBucket, InBucket
  <2>2. HalfComputed' <=> HalfComputed
    BY <2>1 DEF HalfComputed
  <2>3. QED BY <2>1, <2>2 DEF SoleInv, EachFitsAlone
<1>5. CASE StartDecode
  BY <1>5 DEF StartDecode, SoleInv
<1>6. CASE DecodeRotate \/ DecodeTake \/ DecodeBlock
  <2>1. pc = "decode" /\ pc' = "decode" /\ scheduled \in Seq(Seqs)
        /\ ((UNCHANGED <<free, freeSlots, scheduled>>) \/ scheduled' = Append(scheduled, Head(decoding)))
    BY <1>1, <1>6 DEF DecodeRotate, DecodeTake, DecodeBlock, InDecode, Parts
  <2>2. QED BY <2>1 DEF SoleInv
<1>7. CASE StartAffinity \/ AffinityScan \/ AffinityDecode \/ PrefillReturn \/ DecodeReturn \/ NothingToRun \/ Preempts
  <2>1. pc' \notin {"reserve", "prefill", "decode"}
    BY <1>7 DEF StartAffinity, AffinityScan, AffinityDecode, PrefillReturn, DecodeReturn, NothingToRun, Return, Raise,
                Preempts, PreemptUnreserved, PreemptSoleUnreserved, DecodePreempt, PreemptDecodeVictim, DrainRequired,
                RejectPreemption, StartReplay
  <2>2. QED BY <2>1 DEF SoleInv
<1>8. QED BY <1>1, <1>2, <1>3, <1>4, <1>5, <1>6, <1>7 DEF ScheduleStep, Preempts

\* A sole decode is given up only beside a half computed prompt.
LEMMA SoleGivenUp ==
  ASSUME MemInv({}), NothingInFlight, PoolInv, PromptInv, FaultlessInv, SoleInv, EachFitsAlone, Preempts,
         error' # error
  PROVE  error' = "sole_decode" /\ HalfComputed'
<1>1. Parts /\ IInv /\ decoding \in Seq(Seqs) /\ IsInjective(decoding)
  BY PartsOfInv DEF MemInv, Parts
<1>2. ASSUME NEW v, NEW others, PreemptDecodeVictim(v, others)
      PROVE  error' = "sole_decode" /\ others = <<>> /\ prefilled' = prefilled
  BY <1>2 DEF PreemptDecodeVictim, DrainRequired, RejectPreemption, StartReplay, Raise, MustNotPreempt
<1>3. CASE PreemptUnreserved
  <2>1. Len(decoding) > 1 /\ PreemptDecodeVictim(failure, Without(decoding, failure))
    BY <1>3 DEF PreemptUnreserved
  <2>2. RemoveFirst(decoding, failure) = <<>>
    <3>1. Without(decoding, failure) = <<>>
      BY <1>2, <2>1
    <3>2. QED BY <3>1 DEF Without
  <2>3. Range(RemoveFirst(decoding, failure)) = Range(decoding) \ {failure}
    BY <1>1, RemoveFacts
  <2>4. decoding # <<>>
    BY <2>1
  <2>5. Range(decoding) \ {failure} # {}
    BY <1>1, <2>1, <2>4, SoleFacts
  <2>6. QED BY <2>2, <2>3, <2>5, EmptyFacts
<1>4. CASE PreemptSoleUnreserved
  <2>1. pc = "prefill" /\ failure # None /\ PreemptDecodeVictim(failure, Without(decoding, failure))
    BY <1>4 DEF PreemptSoleUnreserved, PrefillOver
  <2>2. HalfComputed
    <3>1. Len(decoding) = 1 /\ (Len(decoding) > 1 \/ HalfComputed)
      BY <2>1 DEF SoleInv
    <3>2. QED BY <3>1
  <2>3. error' = "sole_decode" /\ prefilled' = prefilled
    BY <1>2, <2>1
  <2>4. QED BY <2>2, <2>3 DEF HalfComputed
<1>5. CASE DecodePreempt
  <2>1. /\ pc = "decode" /\ scheduled = <<>> /\ budget > 0 /\ free < 1
        /\ Submitted(Head(decoding)) < MaxTokens[Head(decoding)]
        /\ PreemptDecodeVictim(Head(decoding), Tail(decoding))
    BY <1>5 DEF DecodePreempt, InDecode
  <2>2. error' = "sole_decode" /\ prefilled' = prefilled /\ Tail(decoding) = <<>>
    <3>1. PICK v, others : v = Head(decoding) /\ others = Tail(decoding)
      OBVIOUS
    <3>2. PreemptDecodeVictim(v, others)
      BY <2>1, <3>1
    <3>3. error' = "sole_decode" /\ others = <<>> /\ prefilled' = prefilled
      BY <1>2, <3>2
    <3>4. QED BY <3>1, <3>3
  <2>3. decoding # <<>>
    BY <1>1, <2>1 DEF Parts, CallInv, TypeOK, CallTypes
  <2>4. decoding = <<Head(decoding)>>
    BY <1>1, <2>2, <2>3, SoleFacts
  <2>5. free = freeSlots
    BY <2>1 DEF SoleInv
  <2>6. HalfComputed
    <3>1. SUFFICES ASSUME ~HalfComputed PROVE FALSE
      OBVIOUS
    <3>2. PICK v : v = Head(decoding)
      OBVIOUS
    <3>3. decoding = <<v>> /\ Submitted(v) < MaxTokens[v]
      BY <2>1, <2>4, <3>2
    <3>4. freeSlots >= 1
      BY <2>1, <3>1, <3>3, SoleRoom
    <3>5. QED BY <2>1, <2>5, <3>4 DEF PoolInv
  <2>7. QED BY <2>2, <2>6 DEF HalfComputed
<1>6. QED BY <1>3, <1>4, <1>5 DEF Preempts
-----------------------------------------------------------------------------
(* Nothing fails by itself *)

\* Outside schedule() no scan is open.
LEMMA StepScanless ==
  ASSUME NoFault, Next, ~Scheduling
  PROVE  /\ pc' \notin {"prefill", "decode"}
         /\ pc' = "reserve" => failure' = None
<1>1. CASE StepSync
  BY <1>1 DEF StepSync, Schedule, ClearLocals
<1>2. CASE ~StepSync
  BY <1>2 DEF Next, Driver, SyncStep, NoFault, StepWithoutBatch, RunModel, PostPartialPrefill, PostLastPrefill,
              PostDecode, PostTail, NextPost, StartRelease, ReleaseFinished, StepDone, AdmitRequest, AbortRequest,
              Raise
<1>3. QED BY <1>1, <1>2

\* A call of schedule() that raises gives up a sole decode.
LEMMA SchedulingFailure ==
  ASSUME MemInv({}), NothingInFlight, PoolInv, PromptInv, FaultlessInv, SureInv, SoleInv, EachFitsAlone, Scheduling,
         error = "none"
  PROVE  error' = "none" \/ (error' = "sole_decode" /\ HalfComputed')
<1>1. ScheduleStep
  BY DEF Scheduling
<1>2. CASE Preempts
  <2>1. CASE error' = error
    BY <2>1
  <2>2. CASE error' # error
    BY <1>2, <2>2, SoleGivenUp
  <2>3. QED BY <2>1, <2>2
<1>3. CASE NothingToRun
  <2>1. pc = "decode" /\ scheduled = <<>> /\ (decoding = <<>> \/ error' = error)
    BY <1>3 DEF NothingToRun, DecodeOver
  <2>2. decoding # <<>>
    BY <2>1 DEF SureInv
  <2>3. QED BY <2>1, <2>2
<1>4. CASE ~Preempts /\ ~NothingToRun
  <2>1. error' = error
    BY <1>1, <1>4 DEF ScheduleStep, Preempts, AcquireWindow, StartPrefill, StartAffinity, AffinityScan,
                      AffinityDecode, AffinityPrefill, OpenPrefill, PrefillSkip, PrefillDefer, PrefillTake,
                      NextBucket, PrefillReturn, StartDecode, DecodeRotate, DecodeTake, DecodeBlock, DecodeReturn,
                      Return
  <2>2. QED BY <2>1
<1>5. QED BY <1>2, <1>3, <1>4

\* Nothing else raises while no call fails.
LEMMA StepFailure ==
  ASSUME NoFault, ScanInv, asyncInflight = 0, Next, ~Scheduling
  PROVE  error' = error
<1>1. CASE StepWithoutBatch
  <2>1. preempted # None
    BY <1>1 DEF StepWithoutBatch, ScanInv
  <2>2. QED BY <1>1, <2>1 DEF StepWithoutBatch, NoFault
<1>2. CASE ~StepWithoutBatch
  BY <1>2 DEF Next, Driver, SyncStep, NoFault, StepSync, Schedule, RunModel, PostPartialPrefill, PostLastPrefill,
              PostDecode, PostTail, StartRelease, ReleaseFinished, StepDone, AdmitRequest, AbortRequest
<1>3. QED BY <1>1, <1>2

\* After an error requests can only be aborted.
LEMMA RaisedRests ==
  ASSUME NoFault, pc = "raised", Next
  PROVE  error' = error /\ prefilled' = prefilled
<1>1. PICK s \in Seqs : AbortRequest(s)
  BY DEF Next, Driver, SyncStep, NoFault, Scheduling, ScheduleStep, AcquireWindow, PreemptUnreserved, StartPrefill,
         StartAffinity, AffinityScan, AffinityDecode, AffinityPrefill, PrefillSkip, PrefillDefer, PrefillTake,
         NextBucket, PrefillReturn, PreemptSoleUnreserved, StartDecode, DecodeRotate, DecodeTake, DecodeBlock,
         DecodePreempt, DecodeReturn, NothingToRun, InBucket, InDecode, DecodeOver, PrefillOver, Acquired,
         StepSync, StepWithoutBatch, RunModel, PostPartialPrefill, PostLastPrefill, PostDecode, NextPost,
         StartRelease, ReleaseFinished, StepDone, AdmitRequest
<1>2. QED BY <1>1 DEF AbortRequest

\* A step that changes nothing keeps all of it.
LEMMA StutterSparing ==
  ASSUME FaultlessInv, ClaimInv, SureInv, SoleInv, NoSpuriousFailure, Spare \in Nat, UNCHANGED vars
  PROVE  FaultlessInv' /\ ClaimInv' /\ SureInv' /\ SoleInv' /\ NoSpuriousFailure'
<1>1. UNCHANGED <<waiting, decoding, scheduled, skipped, pc, error, isPrefill, resEnd, prefilled, tokens, cursor,
                  status, admit, budget, modes, free, freeSlots, kv, resident, batchTokens, failure,
                  pendingReleases, releaseFailed, faults>>
  BY DEF vars, schedVars
<1>2. Prefills' = Prefills /\ Chosen' = Chosen /\ Decodes' = Decodes /\ (Broken' <=> Broken)
  BY <1>1 DEF Prefills, Chosen, Decodes, Broken
<1>3. FaultlessInv' /\ NoSpuriousFailure'
  BY <1>1 DEF FaultlessInv, NoSpuriousFailure, EachFitsAlone
<1>4. ClaimInv'
  <2>1. CASE Broken
    BY <1>2, <2>1 DEF ClaimInv
  <2>2. CASE ~Broken
    <3>1. NoneClaims
      BY <1>1, <1>2, <2>2 DEF NoneClaims, Claims, Underway, IsReplay
    <3>2. NoReplays' <=> NoReplays
      BY <1>1, <1>2 DEF NoReplays, IsReplay
    <3>3. QED BY <1>1, <3>1, <3>2, NoneClaimsInv
  <2>3. QED BY <2>1, <2>2
<1>5. SureInv'
  <2>1. ASSUME NEW s \in Seqs PROVE (Takable(s)' <=> Takable(s)) /\ (ToTry(s)' <=> ToTry(s))
    <3>1. Candidate(s)' <=> Candidate(s)
      BY <1>1 DEF Candidate, ReplayWaiting, IsReplay
    <3>2. HasChunk(s)' <=> HasChunk(s)
      BY <1>1 DEF HasChunk, PrefillTokens, ProposedTokens, Remaining
    <3>3. AdmissionFits(s)' <=> AdmissionFits(s)
      BY <1>1 DEF AdmissionFits, FreeRows
    <3>4. Takable(s)' <=> Takable(s)
      BY <1>1, <3>1, <3>2, <3>3 DEF Takable
    <3>5. QED BY <1>1, <3>4 DEF ToTry
  <2>2. QED BY <1>1, <2>1 DEF SureInv, EachFitsAlone
<1>6. SoleInv'
  BY <1>1 DEF SoleInv, HalfComputed, EachFitsAlone
<1>7. QED BY <1>3, <1>4, <1>5, <1>6

\* While no call fails no step fails a request that fits alone, except for a
\* sole decode beside a half computed prompt.
LEMMA NextSparing ==
  ASSUME CoreInv, SparingInv, [Next]_vars
  PROVE  SparingInv'
<1>1. /\ MemInv({}) /\ TypeOK /\ NothingInFlight /\ PoolInv /\ PromptInv /\ FitInv /\ ScanInv /\ CoverInv
      /\ Spare \in Nat /\ asyncInflight = 0
  BY DEF CoreInv, MemoryInv, MemInv, IInv, SlotInv, WindowInv, RunnableInv, FitInv
<1>2. SUFFICES ASSUME faults' = 0
               PROVE  FaultlessInv' /\ ClaimInv' /\ SureInv' /\ SoleInv' /\ NoSpuriousFailure'
  BY DEF SparingInv
<1>3. faults = 0
  BY <1>1, <1>2, FaultsGrow
<1>4. FaultlessInv /\ ClaimInv /\ SureInv /\ SoleInv /\ NoSpuriousFailure
  BY <1>3 DEF SparingInv
<1>5. CASE UNCHANGED vars
  BY <1>1, <1>4, <1>5, StutterSparing
<1>6. CASE Next
  <2>1. NoFault
    BY <1>1, <1>2, <1>4, NoneFails
  <2>2. FaultlessInv' /\ ClaimInv'
    BY <1>1, <1>4, <1>6, <2>1, NextFaultless, NextClaims
  <2>3. SureInv' /\ SoleInv'
    <3>1. CASE Scheduling
      BY <1>1, <1>4, <3>1, SchedulingSure, SchedulingSole
    <3>2. CASE ~Scheduling
      BY <1>6, <2>1, <3>2, StepScanless DEF SureInv, SoleInv
    <3>3. QED BY <3>1, <3>2
  <2>4. NoSpuriousFailure'
    <3>1. SUFFICES ASSUME EachFitsAlone
                   PROVE  error' = "none" \/ (error' = "sole_decode" /\ HalfComputed')
      BY DEF NoSpuriousFailure, EachFitsAlone, HalfComputed
    <3>2. CASE error = "none"
      <4>1. CASE Scheduling
        BY <1>1, <1>4, <3>1, <3>2, <4>1, SchedulingFailure
      <4>2. CASE ~Scheduling
        BY <1>1, <1>6, <2>1, <3>2, <4>2, StepFailure
      <4>3. QED BY <4>1, <4>2
    <3>3. CASE error # "none"
      <4>1. pc = "raised" /\ error = "sole_decode" /\ HalfComputed
        BY <1>3, <1>4, <3>1, <3>3 DEF FaultlessInv, NoSpuriousFailure, HalfComputed
      <4>2. error' = error /\ prefilled' = prefilled
        BY <1>6, <2>1, <4>1, RaisedRests
      <4>3. QED BY <4>1, <4>2 DEF HalfComputed
    <3>4. QED BY <3>2, <3>3
  <2>5. QED BY <2>2, <2>3, <2>4
<1>7. QED BY <1>5, <1>6

\* Before the first request nobody holds a row.
LEMMA InitSparing == Init => SparingInv
<1>1. SUFFICES ASSUME Init PROVE FaultlessInv /\ ClaimInv /\ SureInv /\ SoleInv /\ NoSpuriousFailure
  BY DEF SparingInv
<1>2. /\ waiting = <<>> /\ scheduled = <<>> /\ skipped = <<>> /\ decoding = <<>> /\ pc = "idle" /\ error = "none"
      /\ pendingReleases = {} /\ releaseFailed = {}
  BY <1>1 DEF Init
<1>3. Prefills = {} /\ Chosen = {} /\ Decodes = {}
  BY <1>2, EmptyFacts DEF Prefills, Chosen, Decodes
<1>4. FaultlessInv /\ SureInv /\ SoleInv /\ NoSpuriousFailure
  BY <1>2, EmptyFacts DEF FaultlessInv, SureInv, SoleInv, NoSpuriousFailure
<1>5. ClaimInv
  <2>1. Claimants = {} /\ Spare = 0 /\ NumSlots \in Nat /\ NumRows \in Nat
    BY <1>2, <1>3, SchedulerAssumption DEF Claimants, Claims, Underway, Spare
  <2>2. Cardinality(Claimants) = 0
    BY <2>1, FS_EmptySet
  <2>3. PICK f : f = Claimed
    OBVIOUS
  <2>4. \A x \in Seqs : f[x] = 0
    BY <2>1, <2>3 DEF Claimed, Claimants
  <2>5. SumFunctionOnSet(f, Seqs) = 0
    BY <2>4, NoWeight, SchedulerAssumption
  <2>6. QED BY <1>2, <2>1, <2>2, <2>3, <2>5 DEF ClaimInv
<1>6. QED BY <1>4, <1>5
-----------------------------------------------------------------------------
(* The theorems *)

\* CoreInv is inductive: the pool of slots, the batch a call chooses and the
\* promises it makes stay consistent through every step of llm_engine.py.
THEOREM CoreInvariance == Spec => []CoreInv
<1>1. Init => CoreInv
  <2>1. Init => NothingInFlight /\ asyncInflight = 0
    BY DEF Init, NothingInFlight
  <2>2. QED BY <2>1, InitInv, InitKV, InitSlots, InitWindow, InitRunnable DEF CoreInv, MemoryInv
<1>2. CoreInv /\ MemoryInv' /\ [Next]_vars => CoreInv'
  <2>1. SUFFICES ASSUME CoreInv, MemoryInv', [Next]_vars PROVE CoreInv'
    OBVIOUS
  <2>2. MemInv({}) /\ SlotInv /\ WindowInv
    BY <2>1 DEF CoreInv, MemoryInv, MemInv
  <2>3. SlotInv'
    BY <2>1, <2>2, NextSlots
  <2>4. TypeOK' /\ PoolInv'
    BY <2>1, <2>3 DEF MemoryInv, IInv, SlotInv
  <2>5. WindowInv'
    <3>1. CASE Next
      BY <2>1, <2>4, <3>1, NextWindow
    <3>2. CASE UNCHANGED vars
      BY <2>2, <3>2, StutterWindow
    <3>3. QED BY <2>1, <3>1, <3>2
  <2>6. RunnableInv' /\ asyncInflight' = 0
    BY <2>1, NextRunnable
  <2>7. QED BY <2>1, <2>3, <2>5, <2>6 DEF CoreInv
<1>3. QED BY <1>1, <1>2, MemoryInvariance, PTL DEF Spec

\* No slot of the cache manager is lost or given away twice, whatever is
\* preempted, aborted, or fails half way.
THEOREM NoSlotLost == Spec => []SlotsConserved
<1>1. CoreInv => SlotsConserved
  <2>1. SUFFICES ASSUME CoreInv PROVE SlotsConserved
    OBVIOUS
  <2>2. freeSlots \in Nat /\ freeSlots + SumFunctionOnSet(kv, Seqs) = NumSlots
    BY <2>1 DEF CoreInv, SlotInv, PoolInv
  <2>3. QED BY <2>2 DEF SlotsConserved
<1>2. QED BY <1>1, CoreInvariance, PTL

\* Until a first preemption, every decode window and every admitted prompt has
\* a free slot behind it, so admission never promises the same slot twice.
THEOREM PromisesAreBacked == Spec => []WindowsBacked
<1>1. CoreInv => WindowsBacked
  <2>1. SUFFICES ASSUME CoreInv, pc = "idle", \A s \in Seqs : checkpoint[s] = 0
                 PROVE  LiveWindows + ReservedPrefill <= freeSlots
    BY DEF WindowsBacked
  <2>2. IInv /\ TypeOK /\ PoolInv /\ PledgeInv
    BY <2>1 DEF CoreInv, MemoryInv, IInv, SlotInv, WindowInv
  <2>3. PledgeFacts
    BY <2>2, PledgeTypes
  <2>4. /\ SumFunctionOnSet(Pledged, Seqs) = Outstanding + ReservedPrefill
        /\ Outstanding \in Nat /\ ReservedPrefill \in Nat
    BY <2>1, <2>2, PledgedBetween
  <2>5. SumFunctionOnSet(Pledged, Seqs) + 0 <= freeSlots /\ freeSlots \in Nat
    BY <2>1, <2>2 DEF PledgeInv, Broken, Fresh, Spare, PoolInv
  <2>6. LiveWindows \in Int /\ LiveWindows <= Outstanding
    <3>1. PICK L, u : L = {s \in Seqs : status[s] # "FINISHED"} /\ u = Unused
      OBVIOUS
    <3>2. L \in SUBSET Seqs /\ IsFiniteSet(Seqs) /\ Weights(u, Seqs) /\ Weights(u, L)
          /\ \A x \in Seqs : u[x] \in Nat
      BY <2>3, <3>1 DEF PledgeFacts, Weights
    <3>3. (\A x \in L : u[x] <= u[x]) /\ (\A x \in Seqs \ L : 0 <= u[x])
      BY <3>2
    <3>4. SumFunctionOnSet(u, L) <= SumFunctionOnSet(u, Seqs)
      BY <3>2, <3>3, SumBelow
    <3>5. SumFunctionOnSet(u, L) \in Int
      BY <3>2, SumFacts, FS_Subset
    <3>6. QED BY <3>1, <3>4, <3>5 DEF LiveWindows, Outstanding
  <2>7. QED BY <2>4, <2>5, <2>6
<1>2. QED BY <1>1, CoreInvariance, PTL

\* A call of schedule() returns a batch, preempts, or raises an error that
\* names what does not fit, for every prompt, mode, cache and batch size: the
\* step that would spin on an idle scheduler is never taken.
THEOREM NeverIdle == Spec => []NeverHangs
<1>1. CoreInv => NeverHangs
  BY DEF CoreInv, RunnableInv
<1>2. QED BY <1>1, CoreInvariance, PTL

\* The whole inductive invariant: beside CoreInv, what the scheduler knows while
\* no call has failed.
THEOREM EngineInvariance == Spec => []EngineInv
<1>1. Init => SparingInv
  BY InitSparing
<1>2. CoreInv /\ SparingInv /\ [Next]_vars => SparingInv'
  BY NextSparing
<1>3. CoreInv /\ SparingInv => EngineInv
  BY DEF EngineInv
<1>4. QED BY <1>1, <1>2, <1>3, CoreInvariance, PTL DEF Spec

\* Sharing the cache makes no schedule() call raise over requests that each fit
\* alone, whatever is preempted, replayed or aborted: the one error left is the
\* one over a sole decode beside a half computed prompt.
THEOREM NothingFailsSpuriously == Spec => []NoSpuriousFailure
<1>1. EngineInv => NoSpuriousFailure
  BY DEF EngineInv, SparingInv, NoSpuriousFailure
<1>2. QED BY <1>1, EngineInvariance, PTL
=============================================================================
