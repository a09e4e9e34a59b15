------------------------- MODULE AsyncScheduler_proof -------------------------
(***************************************************************************)
(* Safety of asynchronous scheduling, for every set of requests, every     *)
(* cache and every depth of the pipeline.                                  *)
(*                                                                         *)
(* The invariants of the synchronous engine hold here too, with the        *)
(* requests that retire as further owners of memory: MemInv(retiring), so  *)
(* every step of schedule() and of the fallback is covered by its lemma    *)
(* there.  What is left to show is what the tickets know: each pending     *)
(* output is counted (InflightExact), was fed the token before it          *)
(* (FeedbackCurrent), and keeps its storage (NoReleaseInFlight); and that  *)
(* without a ticket nothing retires any more (SettledInv), so a call that  *)
(* cannot wait for one sees every slot the synchronous engine would.       *)
(***************************************************************************)
EXTENDS AsyncScheduler, LLMEngineSlots_proof, FiniteSetTheorems

USE DEF queueVars, seqVars, memVars, scanVars, retVars, engineVars, NoReplay, Statuses

\* The front of waiting gets a batch in reverse, element by element.
LEMMA ReverseFacts ==
  ASSUME NEW A, NEW q \in Seq(A)
  PROVE  /\ Reverse(q) \in Seq(A) /\ Range(Reverse(q)) = Range(q)
         /\ IsInjective(q) => IsInjective(Reverse(q))
<1>1. Len(q) \in Nat /\ DOMAIN q = 1..Len(q) /\ \A i \in 1..Len(q) : q[i] \in A
  OBVIOUS
<1>2. \A i \in 1..Len(q) : Len(q) - i + 1 \in 1..Len(q) /\ Len(q) - (Len(q) - i + 1) + 1 = i
  BY <1>1
<1>3. /\ DOMAIN Reverse(q) = 1..Len(q) /\ Reverse(q) \in Seq(A)
      /\ \A i \in 1..Len(q) : Reverse(q)[i] = q[Len(q) - i + 1]
  BY <1>1, <1>2 DEF Reverse
<1>4. Range(Reverse(q)) = Range(q)
  <2>1. ASSUME NEW x \in Range(q) PROVE x \in Range(Reverse(q))
    <3>1. PICK i \in 1..Len(q) : x = q[i]
      BY <1>1, <2>1 DEF Range
    <3>2. PICK j \in 1..Len(q) : j = Len(q) - i + 1 /\ Len(q) - j + 1 = i
      BY <1>2, <3>1
    <3>3. QED BY <1>3, <3>1, <3>2 DEF Range
  <2>2. ASSUME NEW x \in Range(Reverse(q)) PROVE x \in Range(q)
    <3>1. PICK i \in 1..Len(q) : x = q[Len(q) - i + 1]
      BY <1>3, <2>2 DEF Range
    <3>2. PICK j \in 1..Len(q) : j = Len(q) - i + 1
      BY <1>2, <3>1
    <3>3. QED BY <1>1, <3>1, <3>2 DEF Range
  <2>3. QED BY <2>1, <2>2
<1>5. ASSUME IsInjective(q) PROVE IsInjective(Reverse(q))
  <2>1. SUFFICES ASSUME NEW i \in 1..Len(q), NEW j \in 1..Len(q), Reverse(q)[i] = Reverse(q)[j]
                 PROVE  i = j
    BY <1>3 DEF IsInjective
  <2>2. PICK m \in 1..Len(q) : m = Len(q) - i + 1
    BY <1>2
  <2>3. PICK n \in 1..Len(q) : n = Len(q) - j + 1
    BY <1>2
  <2>4. q[m] = q[n]
    BY <1>3, <2>1, <2>2, <2>3
  <2>5. m = n
    BY <1>1, <1>5, <2>4 DEF IsInjective
  <2>6. QED BY <1>1, <2>2, <2>3, <2>5
<1>6. QED BY <1>3, <1>4, <1>5

\* A queue of tickets is a sequence over its own elements.
LEMMA OwnRange == ASSUME NEW S, NEW q \in Seq(S) PROVE q \in Seq(Range(q))
BY DEF Range

\* The pending tickets that return an output of s are finitely many, and so
\* are those older than a given one.
LEMMA TicketsFinite ==
  ASSUME pending \in Seq(Range(pending)), NEW s
  PROVE  /\ IsFiniteSet(TicketsOf(s)) /\ Cardinality(TicketsOf(s)) \in Nat
         /\ Cardinality(TicketsOf(s)) = 0 <=> TicketsOf(s) = {}
         /\ TicketsOf(s) \subseteq DOMAIN pending /\ DOMAIN pending = 1..Len(pending)
         /\ Len(pending) \in Nat
         /\ \A n : IsFiniteSet({j \in TicketsOf(s) : j < n})
<1>1. Len(pending) \in Nat /\ DOMAIN pending = 1..Len(pending)
  OBVIOUS
<1>2. IsFiniteSet(1..Len(pending))
  BY <1>1, FS_Interval
<1>3. TicketsOf(s) \in SUBSET (1..Len(pending))
  BY <1>1 DEF TicketsOf
<1>4. IsFiniteSet(TicketsOf(s))
  BY <1>2, <1>3, FS_Subset
<1>5. ASSUME NEW n PROVE IsFiniteSet({j \in TicketsOf(s) : j < n})
  <2>1. {j \in TicketsOf(s) : j < n} \in SUBSET TicketsOf(s)
    OBVIOUS
  <2>2. QED BY <1>4, <2>1, FS_Subset
<1>6. QED BY <1>1, <1>3, <1>4, <1>5, FS_CardinalityType, FS_EmptySet

\* With no ticket pending, no output is.
LEMMA NoTickets ==
  ASSUME pending = <<>>, NEW s
  PROVE  TicketsOf(s) = {} /\ Cardinality(TicketsOf(s)) = 0 /\ Referenced = {}
<1>1. DOMAIN pending = {}
  OBVIOUS
<1>2. TicketsOf(s) = {} /\ Referenced = {}
  BY <1>1 DEF TicketsOf, Referenced, Range
<1>3. QED BY <1>2, FS_EmptySet

\* A set of positions moved by one has as many elements.
LEMMA ShiftedSet ==
  ASSUME NEW A \in SUBSET Nat, NEW B \in SUBSET Nat, IsFiniteSet(A), 0 \notin A,
         \A j \in Nat : j \in B <=> j + 1 \in A
  PROVE  IsFiniteSet(B) /\ Cardinality(B) = Cardinality(A)
<1> DEFINE f == [j \in A |-> j - 1]
<1>1. \A j \in A : j - 1 \in B
  BY DEF f
<1>2. f \in [A -> B]
  BY <1>1
<1>3. \A i, j \in A : f[i] = f[j] => i = j
  OBVIOUS
<1>4. \A j \in B : j + 1 \in A /\ f[j + 1] = j
  OBVIOUS
<1>5. f \in Bijection(A, B)
  BY <1>2, <1>3, <1>4 DEF Bijection, Injection, Surjection, IsInjective
<1>6. ExistsBijection(A, B)
  BY <1>5 DEF ExistsBijection
<1>7. QED BY <1>6, FS_Bijection

\* A ticket is submitted: it is the newest one.
LEMMA NewTicket ==
  ASSUME pending \in Seq(Range(pending)), NEW t, pending' = Append(pending, t)
  PROVE  /\ pending' \in Seq(Range(pending)') /\ Len(pending') = Len(pending) + 1
         /\ DOMAIN pending' = DOMAIN pending \cup {Len(pending) + 1}
         /\ Len(pending) + 1 \notin DOMAIN pending
         /\ pending'[Len(pending) + 1] = t
         /\ \A i \in DOMAIN pending : pending'[i] = pending[i]
         /\ Referenced' = Referenced \cup t.seqs
<1>1. pending \in Seq(Range(pending) \cup {t}) /\ Len(pending) \in Nat
  BY DEF Range
<1>2. /\ pending' \in Seq(Range(pending) \cup {t})
      /\ DOMAIN pending' = DOMAIN pending \cup {Len(pending) + 1}
      /\ Len(pending) + 1 \notin DOMAIN pending /\ Len(pending') = Len(pending) + 1
      /\ \A i \in DOMAIN pending : pending'[i] = pending[i]
      /\ pending'[Len(pending) + 1] = t
  BY <1>1, AppendPositions
<1>3. pending' \in Seq(Range(pending)')
  BY <1>2 DEF Range
<1>4. Range(pending)' = Range(pending) \cup {t}
  BY <1>2 DEF Range
<1>5. Referenced' = Referenced \cup t.seqs
  BY <1>4 DEF Referenced
<1>6. QED BY <1>2, <1>3, <1>5

\* The tickets of s that are older than the i-th.
Before(s, i) == Cardinality({j \in TicketsOf(s) : j < i})

\* It counts for those it publishes, and is younger than every other.
LEMMA NewTicketOf ==
  ASSUME pending \in Seq(Range(pending)), NEW t, pending' = Append(pending, t), NEW s,
         NEW n, n = Len(pending) + 1
  PROVE  /\ Cardinality(TicketsOf(s)') =
              IF s \in t.publishes THEN Cardinality(TicketsOf(s)) + 1 ELSE Cardinality(TicketsOf(s))
         /\ Before(s, n)' = Cardinality(TicketsOf(s))
         /\ \A i \in DOMAIN pending : Before(s, i)' = Before(s, i)
<1>1. /\ DOMAIN pending' = DOMAIN pending \cup {n} /\ n \notin DOMAIN pending
      /\ pending'[n] = t /\ \A i \in DOMAIN pending : pending'[i] = pending[i]
  BY NewTicket
<1>2. /\ Len(pending) \in Nat /\ DOMAIN pending = 1..Len(pending)
      /\ IsFiniteSet(TicketsOf(s)) /\ TicketsOf(s) \subseteq DOMAIN pending
  BY TicketsFinite
<1>3. TicketsOf(s)' = TicketsOf(s) \cup {i \in {n} : s \in t.publishes}
  BY <1>1 DEF TicketsOf
<1>4. /\ \A i \in DOMAIN pending : i < n /\ ~(n < i)
      /\ ~(n < n)
  BY <1>2
<1>5. Before(s, n)' = Cardinality(TicketsOf(s))
  <2>1. {j \in TicketsOf(s)' : j < n} = TicketsOf(s)
    BY <1>2, <1>3, <1>4
  <2>2. QED BY <2>1 DEF Before
<1>6. ASSUME NEW i \in DOMAIN pending PROVE Before(s, i)' = Before(s, i)
  <2>1. {j \in TicketsOf(s)' : j < i} = {j \in TicketsOf(s) : j < i}
    BY <1>3, <1>4, <1>6
  <2>2. QED BY <2>1 DEF Before
<1>7. CASE s \in t.publishes
  <2>1. TicketsOf(s)' = TicketsOf(s) \cup {n} /\ n \notin TicketsOf(s)
    BY <1>1, <1>2, <1>3, <1>7
  <2>2. Cardinality(TicketsOf(s) \cup {n}) = Cardinality(TicketsOf(s)) + 1
    BY <1>2, <2>1, FS_AddElement
  <2>3. QED BY <1>5, <1>6, <1>7, <2>1, <2>2
<1>8. CASE s \notin t.publishes
  <2>1. TicketsOf(s)' = TicketsOf(s)
    BY <1>3, <1>8
  <2>2. QED BY <1>5, <1>6, <1>8, <2>1
<1>9. QED BY <1>7, <1>8

\* The oldest ticket leaves: every other moves up by one.
LEMMA OldestLeaves ==
  ASSUME pending \in Seq(Range(pending)), pending # <<>>, pending' = Tail(pending)
  PROVE  /\ pending' \in Seq(Range(pending)') /\ 1 \in DOMAIN pending /\ Oldest = pending[1]
         /\ \A i \in DOMAIN pending' : i \in Nat \ {0} /\ i + 1 \in DOMAIN pending /\ pending'[i] = pending[i + 1]
         /\ \A i \in Nat \ {0} : i + 1 \in DOMAIN pending => i \in DOMAIN pending'
         /\ Referenced = Referenced' \cup Oldest.seqs
<1>1. /\ pending' \in Seq(Range(pending)) /\ 1 \in DOMAIN pending /\ Head(pending) = pending[1]
      /\ \A i \in DOMAIN pending' : i \in Nat \ {0} /\ i + 1 \in DOMAIN pending /\ pending'[i] = pending[i + 1]
  BY TailPositions
<1>2. pending' \in Seq(Range(pending)')
  <2>1. PICK q : q = pending'
    OBVIOUS
  <2>2. q \in Seq(Range(q))
    BY <1>1, <2>1, OwnRange
  <2>3. QED BY <2>1, <2>2
<1>3. \A i \in Nat \ {0} : i + 1 \in DOMAIN pending => i \in DOMAIN pending'
  <2>1. Len(pending) \in Nat /\ Len(pending') = Len(pending) - 1
    OBVIOUS
  <2>2. QED BY <1>1, <2>1
<1>4. Range(pending) = Range(pending)' \cup {Head(pending)}
  BY HeadTailFacts
<1>5. Referenced = Referenced' \cup Oldest.seqs
  BY <1>4 DEF Referenced, Oldest
<1>6. QED BY <1>1, <1>2, <1>3, <1>5 DEF Oldest

\* It no longer counts for those it published.
LEMMA OldestLeavesOf ==
  ASSUME pending \in Seq(Range(pending)), pending # <<>>, pending' = Tail(pending), NEW s,
         NEW e, e = IF s \in Oldest.publishes THEN 1 ELSE 0
  PROVE  /\ Cardinality(TicketsOf(s)') = Cardinality(TicketsOf(s)) - e
         /\ Cardinality(TicketsOf(s)') \in Nat
         /\ \A i \in DOMAIN pending' : /\ Before(s, i)' \in Nat /\ Before(s, i + 1) \in Nat
                                       /\ Before(s, i)' = Before(s, i + 1) - e
<1>1. /\ pending' \in Seq(Range(pending)') /\ 1 \in DOMAIN pending /\ Oldest = pending[1]
      /\ \A i \in DOMAIN pending' : i \in Nat \ {0} /\ i + 1 \in DOMAIN pending /\ pending'[i] = pending[i + 1]
      /\ \A i \in Nat \ {0} : i + 1 \in DOMAIN pending => i \in DOMAIN pending'
  BY OldestLeaves
<1>2. /\ IsFiniteSet(TicketsOf(s)) /\ TicketsOf(s) \subseteq DOMAIN pending
      /\ DOMAIN pending = 1..Len(pending) /\ Len(pending) \in Nat
      /\ \A n : IsFiniteSet({j \in TicketsOf(s) : j < n})
  BY TicketsFinite
<1>3. 1 \in TicketsOf(s) <=> s \in Oldest.publishes
  BY <1>1 DEF TicketsOf
<1>4. TicketsOf(s)' \subseteq Nat \ {0} /\ \A j \in Nat \ {0} : j \in TicketsOf(s)' <=> j + 1 \in TicketsOf(s)
  BY <1>1 DEF TicketsOf
<1>5. ASSUME NEW A \in SUBSET TicketsOf(s), NEW B \in SUBSET TicketsOf(s)', IsFiniteSet(A),
             1 \in A <=> 1 \in TicketsOf(s), \A j \in Nat \ {0} : j \in B <=> j + 1 \in A
      PROVE  Cardinality(A) \in Nat /\ Cardinality(B) \in Nat /\ Cardinality(B) = Cardinality(A) - e
  <2>1. IsFiniteSet(A \ {1}) /\ Cardinality(A \ {1}) = Cardinality(A) - e /\ Cardinality(A) \in Nat
        /\ Cardinality(A \ {1}) \in Nat
    <3>1. IsFiniteSet(A \ {1}) /\ Cardinality(A) \in Nat /\ Cardinality(A \ {1}) \in Nat
      BY <1>5, FS_RemoveElement, FS_CardinalityType
    <3>2. Cardinality(A \ {1}) = IF 1 \in A THEN Cardinality(A) - 1 ELSE Cardinality(A)
      BY <1>5, FS_RemoveElement
    <3>3. QED BY <1>3, <1>5, <3>1, <3>2, SMTT(60)
  <2>2. A \ {1} \in SUBSET Nat /\ B \in SUBSET Nat /\ 0 \notin A \ {1}
    BY <1>2, <1>4, SMTT(60)
  <2>3. \A j \in Nat : j \in B <=> j + 1 \in A \ {1}
    <3>1. 0 \notin B
      BY <1>4
    <3>2. QED BY <1>5, <3>1
  <2>4. Cardinality(B) = Cardinality(A \ {1})
    BY <2>1, <2>2, <2>3, ShiftedSet
  <2>5. QED BY <2>1, <2>4
<1>6. Cardinality(TicketsOf(s)') = Cardinality(TicketsOf(s)) - e /\ Cardinality(TicketsOf(s)') \in Nat
  BY <1>2, <1>4, <1>5
<1>7. ASSUME NEW i \in DOMAIN pending'
      PROVE  /\ Before(s, i)' \in Nat /\ Before(s, i + 1) \in Nat
             /\ Before(s, i)' = Before(s, i + 1) - e
  <2>1. PICK A : A = {j \in TicketsOf(s) : j < i + 1}
    OBVIOUS
  <2>2. PICK B : B = {j \in TicketsOf(s)' : j < i}
    OBVIOUS
  <2>3. i \in Nat \ {0} /\ 1 < i + 1
    BY <1>1
  <2>4. /\ A \in SUBSET TicketsOf(s) /\ B \in SUBSET TicketsOf(s)' /\ IsFiniteSet(A)
        /\ 1 \in A <=> 1 \in TicketsOf(s)
    BY <1>2, <2>1, <2>2, <2>3
  <2>5. \A j \in Nat \ {0} : j \in B <=> j + 1 \in A
    BY <1>4, <2>1, <2>2, <2>3
  <2>6. Cardinality(A) \in Nat /\ Cardinality(B) \in Nat /\ Cardinality(B) = Cardinality(A) - e
    BY <1>5, <2>4, <2>5
  <2>7. Before(s, i + 1) = Cardinality(A) /\ Before(s, i)' = Cardinality(B)
    BY <2>1, <2>2 DEF Before
  <2>8. QED BY <2>6, <2>7
<1>8. QED BY <1>6, <1>7
-----------------------------------------------------------------------------
(* What a schedule() call does to the state the tickets know *)

\* No token is produced and no memory given back; requests are only taken up
\* or put back, replays start with nothing in flight, and a call that drains
\* or raises has put its batch back.
Frame ==
  /\ InCall /\ UNCHANGED <<tokens, inflight, kv, asyncInflight>> /\ resident \subseteq resident'
  /\ \A s \in Seqs : status'[s] \in {status[s], "WAITING", "RUNNING"}
  /\ cursor' = cursor \/ asyncInflight = 0
  /\ pc' \in {"reserve", "affinity", "prefill", "decode", "returned", "drain", "raised"}
  /\ \/ pc' = "raised" /\ error' # "none" /\ Range(decoding)' \subseteq Range(decoding)
     \/ pc' # "raised" /\ error' = error
  /\ pc' = "drain" => asyncInflight # 0
  /\ preempted' # None => preempted' = preempted \/ asyncInflight = 0
  /\ pc' \in {"drain", "raised"} => scheduled' = <<>>

\* The victim of a preemption waits, or returns to decoding.
LEMMA PreemptFrame ==
  ASSUME IInv, NEW v \in Range(decoding), NEW others \in Seq(Seqs),
         Range(others) = Range(decoding) \ {v}, InCall, PreemptDecodeVictim(v, others)
  PROVE  Frame /\ scheduled' = <<>>
<1>1. Parts /\ v \in Seqs /\ asyncInflight \in Nat /\ status \in [Seqs -> Statuses]
  BY PartsOfInv DEF Parts, TypeOK, QueueTypes, RequestTypes
<1>2. UNCHANGED <<tokens, inflight, kv, asyncInflight, resident>> /\ scheduled' = <<>>
  BY DEF PreemptDecodeVictim
<1>3. CASE DrainRequired(v, others)
  BY <1>1, <1>2, <1>3 DEF DrainRequired, Frame
<1>4. CASE RejectPreemption(v, others)
  <2>1. Range(<<v>> \o others) = Range(others) \cup {v}
    BY <1>1, PrependFacts
  <2>2. /\ decoding' = <<v>> \o others /\ UNCHANGED <<status, cursor, preempted>>
        /\ pc' = "raised" /\ error' = "sole_decode"
    BY <1>4 DEF RejectPreemption, Raise
  <2>3. Range(decoding)' \subseteq Range(decoding)
    BY <2>1, <2>2
  <2>4. QED BY <1>2, <2>2, <2>3 DEF Frame
<1>5. CASE StartReplay(v, others)
  <2>1. status' = [status EXCEPT ![v] = "WAITING"] /\ pc' = "returned" /\ error' = error
        /\ asyncInflight = 0
    BY <1>5 DEF StartReplay
  <2>2. \A s \in Seqs : status'[s] \in {status[s], "WAITING"}
    BY <1>1, <2>1
  <2>3. QED BY <1>2, <2>1, <2>2 DEF Frame
<1>6. QED BY <1>2, <1>3, <1>4, <1>5 DEF PreemptDecodeVictim

\* A decode joins the batch only if an output is left to ask for.
LEMMA SchedulingFrame ==
  ASSUME IInv, RoomInv, Scheduling
  PROVE  Frame /\ RoomInv'
<1>1. Parts
  BY PartsOfInv
<1>2. ASSUME InCall, UNCHANGED <<tokens, inflight, kv, asyncInflight, resident, status, cursor, error>>,
             pc' \in {"reserve", "affinity", "prefill", "decode", "returned"}, preempted' \in {preempted, None}
      PROVE  Frame
  BY <1>2 DEF Frame
<1>3. ASSUME UNCHANGED <<tokens, inflight>>, pc' \in {"affinity", "decode"} \/ (pc' = "returned" /\ ~isPrefill'),
             NEW S, Range(scheduled') \subseteq Range(scheduled) \cup S,
             scheduled = <<>> \/ pc \in {"affinity", "decode"},
             \A s \in S : Submitted(s) < MaxTokens[s]
      PROVE  RoomInv'
  <2>1. \A s \in Range(scheduled) : Submitted(s) < MaxTokens[s]
    BY <1>3, EmptyFacts DEF RoomInv
  <2>2. QED BY <1>3, <2>1 DEF RoomInv, Submitted
<1>4. ASSUME pc' \in {"reserve", "prefill", "drain", "raised"} \/ scheduled' = <<>>
      PROVE  RoomInv'
  BY <1>4, EmptyFacts DEF RoomInv
<1>5. CASE AcquireWindow \/ PrefillSkip \/ PrefillDefer \/ NextBucket \/ StartPrefill \/ AffinityPrefill
  <2>1. /\ InCall /\ UNCHANGED <<tokens, inflight, kv, asyncInflight, resident, status, cursor, error>>
        /\ pc' \in {"reserve", "prefill"} /\ preempted' = preempted
    BY <1>5 DEF InCall, AcquireWindow, PrefillSkip, PrefillDefer, NextBucket, StartPrefill, AffinityPrefill,
       OpenPrefill, Acquired, InBucket
  <2>2. QED BY <1>2, <1>4, <2>1
<1>6. CASE StartAffinity \/ StartDecode \/ AffinityDecode \/ DecodeRotate \/ DecodeBlock \/ DecodeReturn
  <2>1. /\ InCall /\ UNCHANGED <<tokens, inflight, kv, asyncInflight, resident, status, cursor, error>>
        /\ pc' \in {"affinity", "decode"} \/ (pc' = "returned" /\ ~isPrefill')
        /\ preempted' \in {preempted, None} /\ scheduled' = scheduled
        /\ scheduled = <<>> \/ pc \in {"affinity", "decode"}
    BY <1>1, <1>6 DEF Parts, CallInv, InCall, StartAffinity, StartDecode, AffinityDecode, DecodeRotate, DecodeBlock,
       DecodeReturn, Return, Acquired, PrefillOver, InDecode, DecodeOver
  <2>2. RoomInv'
    BY <1>3, <2>1
  <2>3. QED BY <1>2, <2>1, <2>2
<1>7. CASE AffinityScan
  <2>1. /\ InCall /\ UNCHANGED <<tokens, inflight, kv, asyncInflight, resident, status, cursor, error, preempted>>
        /\ pc = "affinity" /\ pc' = "affinity" /\ scan <= Len(decoding)
        /\ scheduled' = IF Submitted(decoding[scan]) < MaxTokens[decoding[scan]]
                        THEN Append(scheduled, decoding[scan]) ELSE scheduled
    <3>1. scan \in Nat /\ Len(decoding) \in Nat
      BY <1>1, RangeFacts DEF Parts, TypeOK, CallTypes
    <3>2. QED BY <1>7, <3>1 DEF AffinityScan, AffinityScanned, InCall
  <2>2. decoding[scan] \in Seqs
    BY <1>1, <2>1 DEF Parts, TypeOK, CallTypes
  <2>3. Range(Append(scheduled, decoding[scan])) = Range(scheduled) \cup {decoding[scan]}
    BY <1>1, <2>2, AppendFacts DEF Parts
  <2>4. PICK S : S = {s \in {decoding[scan]} : Submitted(s) < MaxTokens[s]}
    OBVIOUS
  <2>5. RoomInv'
    <3>1. Range(scheduled') \subseteq Range(scheduled) \cup S /\ \A s \in S : Submitted(s) < MaxTokens[s]
      BY <2>1, <2>3, <2>4
    <3>2. QED BY <1>3, <2>1, <3>1
  <2>6. QED BY <1>2, <2>1, <2>5
<1>8. CASE DecodeTake
  <2>1. /\ InCall /\ UNCHANGED <<tokens, inflight, kv, asyncInflight, resident, status, cursor, error, preempted>>
        /\ pc = "decode" /\ pc' = "decode" /\ budget > 0
        /\ Submitted(Head(decoding)) < MaxTokens[Head(decoding)]
        /\ scheduled' = Append(scheduled, Head(decoding))
    BY <1>8 DEF DecodeTake, InDecode, InCall
  <2>2. decoding # <<>>
    BY <1>1, <2>1, RangeFacts DEF Parts, CallInv, TypeOK, CallTypes
  <2>3. Head(decoding) \in Seqs
    BY <1>1, <2>2, HeadTailFacts DEF Parts
  <2>4. Range(Append(scheduled, Head(decoding))) = Range(scheduled) \cup {Head(decoding)}
    BY <1>1, <2>3, AppendFacts DEF Parts
  <2>5. RoomInv'
    <3>1. PICK S : S = {Head(decoding)}
      OBVIOUS
    <3>2. Range(scheduled') \subseteq Range(scheduled) \cup S /\ \A s \in S : Submitted(s) < MaxTokens[s]
      BY <2>1, <2>4, <3>1
    <3>3. QED BY <1>3, <2>1, <3>2
  <2>6. QED BY <1>2, <2>1, <2>5
<1>9. CASE PrefillReturn
  <2>1. /\ InCall /\ UNCHANGED <<tokens, inflight, kv, asyncInflight, resident, status, cursor, error>>
        /\ pc' = "returned" /\ isPrefill' /\ preempted' = None
    BY <1>9 DEF PrefillReturn, Return, PrefillOver, InCall
  <2>2. RoomInv'
    BY <2>1 DEF RoomInv
  <2>3. QED BY <1>2, <2>1, <2>2
<1>10. CASE PrefillTake
  <2>1. /\ InCall /\ UNCHANGED <<tokens, inflight, kv, asyncInflight, cursor, error, preempted>>
        /\ pc = "prefill" /\ pc' = "prefill" /\ resident \subseteq resident' /\ waiting # <<>>
        /\ status' = [status EXCEPT ![Head(waiting)] = "RUNNING"]
    BY <1>10 DEF PrefillTake, InBucket, InCall, CanContinuePrefillBatch
  <2>2. \A s \in Seqs : status'[s] \in {status[s], "RUNNING"}
    <3>1. status \in [Seqs -> Statuses]
      BY <1>1 DEF Parts, TypeOK, RequestTypes
    <3>2. QED BY <2>1, <3>1
  <2>3. Frame
    BY <2>1, <2>2 DEF Frame
  <2>4. QED BY <1>4, <2>1, <2>3
<1>11. CASE PreemptUnreserved \/ PreemptSoleUnreserved
  <2>1. /\ failure \in Range(decoding) /\ InCall
        /\ PreemptDecodeVictim(failure, Without(decoding, failure))
    BY <1>1, <1>11 DEF Parts, CallInv, PreemptUnreserved, PreemptSoleUnreserved, Acquired, PrefillOver, InCall
  <2>2. /\ Without(decoding, failure) \in Seq(Seqs)
        /\ Range(Without(decoding, failure)) = Range(decoding) \ {failure}
    BY <1>1, RemoveFacts DEF Parts, Without
  <2>3. Frame /\ scheduled' = <<>>
    BY <2>1, <2>2, PreemptFrame
  <2>4. QED BY <1>4, <2>3
<1>12. CASE DecodePreempt
  <2>1. pc = "decode" /\ InCall /\ budget > 0 /\ PreemptDecodeVictim(Head(decoding), Tail(decoding))
    BY <1>12 DEF DecodePreempt, InDecode, InCall
  <2>2. decoding # <<>>
    BY <1>1, <2>1, RangeFacts DEF Parts, CallInv, TypeOK, CallTypes
  <2>3. /\ Tail(decoding) \in Seq(Seqs) /\ Head(decoding) \in Range(decoding)
        /\ Range(Tail(decoding)) = Range(decoding) \ {Head(decoding)}
    BY <1>1, <2>2, HeadTailFacts DEF Parts
  <2>4. Frame /\ scheduled' = <<>>
    BY <2>1, <2>3, PreemptFrame
  <2>5. QED BY <1>4, <2>4
<1>13. CASE NothingToRun
  <2>1. /\ InCall /\ UNCHANGED <<tokens, inflight, kv, asyncInflight, resident, status, cursor, preempted, decoding>>
        /\ scheduled' = <<>>
        /\ \/ pc' = "drain" /\ asyncInflight > 0 /\ error' = error
           \/ pc' = "raised" /\ error' # "none"
           \/ pc' = "returned" /\ error' = error
    BY <1>13 DEF NothingToRun, DecodeOver, ReclaimNeedsDrain, Raise, InCall
  <2>2. asyncInflight \in Nat
    BY <1>1 DEF Parts, TypeOK, QueueTypes
  <2>3. Frame
    BY <2>1, <2>2 DEF Frame
  <2>4. QED BY <1>4, <2>1, <2>3
<1>14. QED
  BY <1>5, <1>6, <1>7, <1>8, <1>9, <1>10, <1>11, <1>12, <1>13 DEF Scheduling, ScheduleStep

-----------------------------------------------------------------------------
(* The invariant outside a schedule() call *)

RestPoints == {"idle", "fill", "filled", "drain", "settle", "raised"}

\* Outside a call every live request is in one of the two queues.
QueuesAtRest ==
  /\ pc \in RestPoints /\ scheduled = <<>> /\ skipped = <<>> /\ blocked = None
  /\ IsInjective(waiting) /\ IsInjective(decoding) /\ Range(waiting) \cap Range(decoding) = {}
  /\ \A s \in Seqs : status[s] \in {"WAITING", "RUNNING"} => s \in Range(waiting) \cup Range(decoding)
  /\ \A s \in Range(waiting) : status[s] \notin {"NEW", "FINISHED"}
  /\ \A s \in Range(decoding) : status[s] # "NEW" /\ (status[s] = "FINISHED" => Broken)
  /\ PublishedOnce
  /\ \A s \in Seqs : status[s] = "NEW" => tokens[s] = 0
  /\ \A s \in Range(waiting) : ~IsReplay(s) => tokens[s] = 0

\* The two queues then say what every row is for.
RowsAtRest(X) ==
  /\ preempted = None /\ resEnd = [s \in Seqs |-> resEnd[s]]
  /\ releaseFailed \subseteq pendingReleases
  /\ pendingReleases # {} => pc \in {"idle", "settle", "raised"}
  /\ \A s \in Seqs : kv[s] > 0 => s \in resident
  /\ \A s \in Seqs : Holds(s) =>
       \/ s \in X \/ s \in pendingReleases \/ s \in Range(decoding)
       \/ s \in Range(waiting) /\ (status[s] = "RUNNING" \/ prefilled[s] > 0)
  /\ ~Broken =>
       /\ \A s \in Range(waiting) : /\ s \in releaseFailed \/ kv[s] = prefilled[s]
                                    /\ IsReplay(s) => cursor[s] = 0 /\ tokens[s] >= 1
       /\ \A s \in Range(decoding) : /\ s \in releaseFailed \/ kv[s] = DecodeInputPosition(s)
                                     /\ Submitted(s) >= 1 /\ (IsReplay(s) => cursor[s] + 1 < tokens[s])
  /\ \A s \in Seqs : status[s] = "NEW" => prefilled[s] = 0 /\ inflight[s] = 0 /\ ~IsReplay(s)
  /\ \A s \in Range(waiting) : inflight[s] = 0

\* The position of the next decode is a number.
LEMMA PositionType ==
  ASSUME Parts, NEW s \in Seqs
  PROVE  /\ kv[s] \in Nat /\ prefilled[s] \in Nat /\ tokens[s] \in Nat /\ inflight[s] \in Nat
         /\ chunk[s] \in Nat /\ cursor[s] \in Nat \cup {NoReplay} /\ PromptLen[s] \in Nat \ {0}
         /\ MaxTokens[s] \in Nat \ {0} /\ status[s] \in Statuses
         /\ Submitted(s) \in Nat /\ DecodeInputPosition(s) \in Int
<1>1. /\ kv[s] \in Nat /\ prefilled[s] \in Nat /\ tokens[s] \in Nat /\ inflight[s] \in Nat
      /\ chunk[s] \in Nat /\ cursor[s] \in Nat \cup {NoReplay} /\ PromptLen[s] \in Nat \ {0}
      /\ MaxTokens[s] \in Nat \ {0} /\ status[s] \in Statuses
  BY SchedulerAssumption DEF Parts, TypeOK, RequestTypes
<1>2. Submitted(s) \in Nat /\ DecodeInputPosition(s) \in Int
  BY <1>1 DEF Submitted, DecodeInputPosition
<1>3. QED BY <1>1, <1>2

\* Outside a call the invariants of the engine say just this.
LEMMA FromRest ==
  ASSUME NEW X, MemInv(X), pc \in RestPoints, scheduled = <<>>
  PROVE  QueuesAtRest /\ RowsAtRest(X) /\ Parts
<1>1. Parts /\ DebtInv /\ OwnerInv(X) /\ RowInv /\ ProgressInv
  BY PartsOfInv DEF MemInv, KVInv
<1>2. skipped = <<>> /\ blocked = None /\ preempted = None
  BY <1>1 DEF Parts, CallInv, DebtInv, RestPoints
<1>3. Range(scheduled) = {} /\ Range(skipped) = {}
  BY <1>2, EmptyFacts
<1>4. Popped = {} /\ Prefills = Range(waiting) /\ Decodes = Range(decoding)
  BY <1>3 DEF Popped, Prefills, Decodes, Chosen
<1>5. QueuesAtRest
  <2>1. \A s \in Range(waiting) : status[s] \notin {"NEW", "FINISHED"}
    BY <1>1 DEF Parts, FinishInv
  <2>2. \A s \in Range(decoding) : status[s] # "NEW" /\ (status[s] = "FINISHED" => Broken)
    BY <1>1 DEF Parts, FinishInv, RestPoints
  <2>3. PublishedOnce /\ (\A s \in Seqs : status[s] = "NEW" => tokens[s] = 0)
        /\ \A s \in Range(waiting) : ~IsReplay(s) => tokens[s] = 0
    BY <1>1 DEF Parts, TokenInv
  <2>4. /\ IsInjective(waiting) /\ IsInjective(decoding) /\ Range(waiting) \cap Range(decoding) = {}
        /\ \A s \in Seqs : status[s] \in {"WAITING", "RUNNING"} => s \in Range(waiting) \cup Range(decoding)
    BY <1>1, <1>4 DEF Parts, OwnedOnce
  <2>5. QED BY <1>2, <2>1, <2>2, <2>3, <2>4 DEF QueuesAtRest
<1>6. RowsAtRest(X)
  <2>1. /\ resEnd = [s \in Seqs |-> resEnd[s]] /\ releaseFailed \subseteq pendingReleases
        /\ pendingReleases # {} => pc \in {"idle", "settle", "raised"}
    BY <1>1 DEF DebtInv, RestPoints
  <2>2. /\ \A s \in Seqs : kv[s] > 0 => s \in resident
        /\ \A s \in Seqs : Holds(s) =>
             \/ s \in X \/ s \in pendingReleases \/ s \in Range(decoding)
             \/ s \in Range(waiting) /\ (status[s] = "RUNNING" \/ prefilled[s] > 0)
    <3>1. None \notin Seqs
      BY SchedulerAssumption
    <3>2. QED BY <1>1, <1>2, <1>4, <3>1 DEF OwnerInv
  <2>3. ASSUME ~Broken, NEW s \in Range(waiting)
        PROVE  s \in releaseFailed \/ kv[s] = prefilled[s]
    <3>1. s \in Seqs /\ s # preempted /\ Written(s) = 0 /\ prefilled[s] \in Nat
      BY <1>1, <1>2, <2>3, SchedulerAssumption, PositionType DEF Parts, Written, RestPoints
    <3>2. QED BY <1>1, <1>4, <2>3, <3>1 DEF RowInv
  <2>4. ASSUME ~Broken, NEW s \in Range(decoding)
        PROVE  s \in releaseFailed \/ kv[s] = DecodeInputPosition(s)
    <3>1. s \in Seqs /\ Written(s) = 0 /\ DecodeInputPosition(s) \in Int
      BY <1>1, <2>4, PositionType DEF Parts, Written, RestPoints
    <3>2. s \in releaseFailed \/ kv[s] = DecodeInputPosition(s) + 0
      BY <1>1, <1>4, <2>4, <3>1 DEF RowInv
    <3>3. QED BY <3>1, <3>2
  <2>5. ~Broken =>
       /\ \A s \in Range(waiting) : IsReplay(s) => cursor[s] = 0 /\ tokens[s] >= 1
       /\ \A s \in Range(decoding) : Submitted(s) >= 1 /\ (IsReplay(s) => cursor[s] + 1 < tokens[s])
    BY <1>1, <1>4 DEF RowInv
  <2>6. /\ \A s \in Seqs : status[s] = "NEW" => prefilled[s] = 0 /\ inflight[s] = 0 /\ ~IsReplay(s)
        /\ \A s \in Range(waiting) : inflight[s] = 0
    BY <1>1, <1>4 DEF ProgressInv
  <2>7. QED BY <1>2, <2>1, <2>2, <2>3, <2>4, <2>5, <2>6 DEF RowsAtRest
<1>7. QED BY <1>1, <1>5, <1>6

\* And saying just this is enough.
LEMMA ToRest ==
  ASSUME NEW X, TypeOK', QueuesAtRest', RowsAtRest(X)'
  PROVE  MemInv(X)'
<1>1. pc' \in RestPoints /\ scheduled' = <<>> /\ skipped' = <<>> /\ blocked' = None /\ preempted' = None
  BY DEF QueuesAtRest, RowsAtRest
<1>2. Range(scheduled') = {} /\ Range(skipped') = {} /\ IsInjective(scheduled') /\ IsInjective(skipped')
  BY <1>1, EmptyFacts
<1>3. Popped' = {} /\ Prefills' = Range(waiting') /\ Decodes' = Range(decoding') /\ Chosen' = {}
      /\ Held' = Range(waiting') \cup Range(decoding')
  BY <1>1, <1>2 DEF Popped, Prefills, Decodes, Chosen, RestPoints, Held
<1>4. OwnedOnce'
  BY <1>2, <1>3 DEF OwnedOnce, QueuesAtRest
<1>5. CallInv'
  BY <1>1, <1>2, <1>3 DEF CallInv, QueuesAtRest, RestPoints
<1>6. FinishInv'
  BY <1>1, <1>2, <1>3 DEF FinishInv, QueuesAtRest, RestPoints
<1>7. TokenInv'
  BY <1>1, <1>2, <1>3 DEF TokenInv, QueuesAtRest, RestPoints
<1>8. IInv'
  BY <1>4, <1>5, <1>6, <1>7 DEF IInv
<1>9. DebtInv'
  BY <1>1 DEF DebtInv, RowsAtRest
<1>10. OwnerInv(X)'
  BY <1>3 DEF OwnerInv, RowsAtRest
<1>11. RowInv'
  <2>1. \A s : Written(s)' = 0
    BY <1>1 DEF Written, RestPoints
  <2>2. \A s \in Range(waiting') : prefilled'[s] \in Nat
    <3>1. waiting' \in Seq(Seqs) /\ prefilled' \in [Seqs -> Nat]
      BY DEF TypeOK, QueueTypes, RequestTypes
    <3>2. QED BY <3>1, RangeFacts
  <2>3. \A s \in Range(decoding') : DecodeInputPosition(s)' \in Int
    <3>1. decoding' \in Seq(Seqs)
      BY DEF TypeOK, QueueTypes
    <3>2. Range(decoding') \subseteq Seqs
      BY <3>1, RangeFacts
    <3>3. ASSUME NEW s \in Range(decoding') PROVE DecodeInputPosition(s)' \in Int
      <4>1. /\ tokens'[s] \in Nat /\ inflight'[s] \in Nat /\ cursor'[s] \in Nat \cup {NoReplay}
            /\ PromptLen[s] \in Nat
        BY <3>2, <3>3, SchedulerAssumption DEF TypeOK, RequestTypes
      <4>2. QED BY <4>1 DEF DecodeInputPosition, Submitted
    <3>4. QED BY <3>3
  <2>4. ASSUME ~Broken' PROVE
          /\ \A s \in Range(waiting') : s \in releaseFailed' \/ kv'[s] = prefilled'[s] + 0
          /\ \A s \in Range(decoding') : s \in releaseFailed' \/ kv'[s] = DecodeInputPosition(s)' + 0
    BY <2>2, <2>3, <2>4 DEF RowsAtRest
  <2>5. ~Broken' =>
          /\ \A s \in Range(waiting') : IsReplay(s)' => cursor'[s] = 0 /\ tokens'[s] >= 1
          /\ \A s \in Range(decoding') : Submitted(s)' >= 1 /\ (IsReplay(s)' => cursor'[s] + 1 < tokens'[s])
    BY DEF RowsAtRest
  <2>6. QED BY <1>3, <2>1, <2>4, <2>5 DEF RowInv
<1>12. ProgressInv'
  BY <1>1, <1>3 DEF ProgressInv, RowsAtRest, InCall, RestPoints
<1>13. QED BY <1>8, <1>9, <1>10, <1>11, <1>12 DEF MemInv, KVInv

-----------------------------------------------------------------------------
(* What keeps the tickets in order *)

Tickets == TicketInv /\ InflightExact /\ NoReleaseInFlight /\ FeedInv /\ FeedbackCurrent

\* A request no ticket refers to has no output pending.
LEMMA Unreferenced ==
  ASSUME TicketInv, InflightExact, NEW s \in Seqs, s \notin Referenced
  PROVE  TicketsOf(s) = {} /\ inflight[s] = 0
<1>1. TicketsOf(s) = {}
  BY DEF TicketsOf, Referenced, Range, TicketInv
<1>2. QED BY <1>1, FS_EmptySet DEF InflightExact

\* What a ticket publishes, it refers to.
LEMMA PublishedReferenced ==
  ASSUME TicketInv, NEW i \in DOMAIN pending
  PROVE  /\ pending[i].publishes \subseteq Referenced /\ pending[i].seqs \subseteq Referenced
         /\ pending[i].publishes \subseteq Seqs
BY DEF TicketInv, Referenced, Range

\* A ticket refers to requests only.
LEMMA ReferencedSeqs == ASSUME TicketInv PROVE Referenced \subseteq Seqs
BY DEF TicketInv, Referenced, Range

\* Tickets stay in order while they are pending, when no token moves, no row
\* they refer to goes, and only requests without tickets lose their feedback.
LEMMA PendingKept ==
  ASSUME Tickets, UNCHANGED <<pending, tokens, inflight>>, feedback' \in [Seqs -> Nat],
         discarded' = retiring', retiring' \subseteq Seqs, pc' # "postprocess",
         \A s \in retiring' : status'[s] = "FINISHED" /\ s \notin Held',
         \A s \in Referenced : kv'[s] > 0 /\ s \in resident',
         \A s \in Referenced \ discarded' :
            s \notin discarded /\ status'[s] \in {"WAITING", "RUNNING"} /\ cursor'[s] = cursor[s],
         \A s \in Seqs \ discarded' :
            \/ s \notin discarded /\ feedback'[s] = feedback[s]
            \/ feedback'[s] = 0 /\ s \notin Referenced
  PROVE  Tickets'
<1>1. TicketInv /\ InflightExact /\ NoReleaseInFlight /\ FeedInv /\ FeedbackCurrent
  BY DEF Tickets
<1>2. Referenced' = Referenced /\ Range(pending)' = Range(pending) /\ \A s : TicketsOf(s)' = TicketsOf(s)
  BY DEF Referenced, TicketsOf
<1>3. \A s : Submitted(s)' = Submitted(s)
  BY DEF Submitted
<1>4. TicketInv'
  <2>1. ASSUME NEW i \in DOMAIN pending, NEW s \in pending[i].publishes \ discarded'
        PROVE  ~IsReplay(s)'
    <3>1. s \in Referenced \ discarded'
      BY <1>1, <2>1, PublishedReferenced
    <3>2. s \notin discarded /\ cursor'[s] = cursor[s]
      BY <3>1
    <3>3. QED BY <1>1, <2>1, <3>2 DEF TicketInv, IsReplay
  <2>2. QED BY <1>1, <1>2, <2>1 DEF TicketInv
<1>5. InflightExact'
  BY <1>1, <1>2, <1>3 DEF InflightExact
<1>6. NoReleaseInFlight'
  BY <1>2 DEF NoReleaseInFlight
<1>7. FeedInv'
  <2>1. ASSUME NEW s \in Seqs \ discarded'
        PROVE  feedback'[s] \in {0, Submitted(s)'} /\ (inflight'[s] > 0 => feedback'[s] # 0)
    <3>1. CASE s \notin discarded /\ feedback'[s] = feedback[s]
      BY <1>1, <1>3, <2>1, <3>1 DEF FeedInv
    <3>2. CASE feedback'[s] = 0 /\ s \notin Referenced
      <4>1. inflight[s] = 0
        BY <1>1, <2>1, <3>2, Unreferenced
      <4>2. QED BY <3>2, <4>1
    <3>3. QED BY <2>1, <3>1, <3>2
  <2>2. QED BY <2>1 DEF FeedInv
<1>8. FeedbackCurrent'
  <2>1. ASSUME NEW i \in DOMAIN pending, NEW s \in pending[i].publishes \ discarded'
        PROVE  pending[i].fed[s] = tokens[s] + Cardinality({j \in TicketsOf(s) : j < i})
    <3>1. s \in Referenced \ discarded'
      BY <1>1, <2>1, PublishedReferenced
    <3>2. s \notin discarded
      BY <3>1
    <3>3. QED BY <1>1, <2>1, <3>2 DEF FeedbackCurrent
  <2>2. QED BY <1>2, <2>1 DEF FeedbackCurrent
<1>9. QED BY <1>4, <1>5, <1>6, <1>7, <1>8 DEF Tickets

\* With no ticket pending only the feedback is left to speak about.
LEMMA NonePending ==
  ASSUME Tickets, IInv', pending = <<>>, UNCHANGED <<pending, inflight, retiring, discarded>>,
         \A s \in retiring : status'[s] = "FINISHED" /\ s \notin Held',
         feedback' \in [Seqs -> Nat],
         \A s \in Seqs : feedback'[s] = 0 \/ (feedback'[s] = feedback[s] /\ tokens'[s] = tokens[s]),
         pc' = "postprocess" => \A s \in Seqs : feedback'[s] = 0
  PROVE  Tickets'
<1>1. TicketInv /\ InflightExact /\ FeedInv
  BY DEF Tickets
<1>2. Referenced = {} /\ Referenced' = {} /\ DOMAIN pending' = {} /\ \A s : Cardinality(TicketsOf(s)) = 0
  BY NoTickets DEF Referenced
<1>3. \A s : TicketsOf(s)' = TicketsOf(s)
  BY DEF TicketsOf
<1>4. \A s \in Seqs : inflight[s] = 0 /\ tokens'[s] <= MaxTokens[s] /\ tokens'[s] \in Nat
  BY <1>1, <1>2 DEF InflightExact, IInv, TokenInv, PublishedOnce, TypeOK, RequestTypes
<1>5. TicketInv'
  BY <1>1, <1>2 DEF TicketInv
<1>6. InflightExact'
  BY <1>2, <1>3, <1>4 DEF InflightExact, Submitted
<1>7. NoReleaseInFlight' /\ FeedbackCurrent'
  BY <1>2 DEF NoReleaseInFlight, FeedbackCurrent
<1>8. FeedInv'
  BY <1>1, <1>4 DEF FeedInv, Submitted
<1>9. QED BY <1>5, <1>6, <1>7, <1>8 DEF Tickets

-----------------------------------------------------------------------------
(* The steps the asynchronous driver shares with the synchronous one *)

\* The invariant, taken apart.
AsyncParts ==
  /\ IInv /\ Parts /\ PhaseInv /\ RoomInv /\ Tickets
  /\ TicketInv /\ InflightExact /\ NoReleaseInFlight /\ FeedInv /\ FeedbackCurrent
  /\ Len(pending) \in Nat /\ (Len(pending) = 0 <=> pending = <<>>)

\* For the memory, the requests that retire are owners of their own kind.
LEMMA PartsOfAsync ==
  ASSUME AsyncInv, NEW X, X = retiring
  PROVE  AsyncParts /\ MemInv(X)
<1>1. Parts
  BY PartsOfInv DEF AsyncInv
<1>2. Len(pending) \in Nat /\ (Len(pending) = 0 <=> pending = <<>>)
  BY DEF AsyncInv, TicketInv
<1>3. QED BY <1>1, <1>2 DEF AsyncInv, AsyncParts, Tickets, MemInv

\* And the invariant is put together again.
LEMMA Assemble ==
  ASSUME NEW X, X = retiring', MemInv(X)', PhaseInv', RoomInv', Tickets'
  PROVE  AsyncInv'
<1>1. IInv' /\ DebtInv' /\ OwnerInv(X)' /\ RowInv' /\ ProgressInv'
  BY DEF MemInv, KVInv
<1>2. OwnerInv(retiring)'
  BY <1>1 DEF OwnerInv
<1>3. KVInv(retiring)'
  BY <1>1, <1>2 DEF KVInv
<1>4. QED BY <1>1, <1>3 DEF AsyncInv, Tickets

\* What is over is in no queue, outside the end of a synchronous step.
LEMMA OverIsOut ==
  ASSUME IInv', NEW s, status'[s] = "FINISHED", ~Broken', pc' \notin {"postprocess", "release"}
  PROVE  s \notin Held'
BY DEF IInv, FinishInv, Held

\* Nor does it return to one when a call fails.
LEMMA OverStaysOut ==
  ASSUME IInv', NEW s, status'[s] = "FINISHED", s \notin Held, scheduled' = <<>>,
         Range(decoding') \subseteq Held
  PROVE  s \notin Held'
<1>1. Range(scheduled') = {}
  BY EmptyFacts
<1>2. s \notin Range(waiting') /\ s \notin Range(skipped')
  BY DEF IInv, FinishInv
<1>3. QED BY <1>1, <1>2 DEF Held

\* Steps of schedule() see the tickets and leave them alone.
LEMMA AsyncSchedules ==
  ASSUME AsyncInv, Scheduling, UNCHANGED asyncVars
  PROVE  AsyncInv'
<1>1. PICK X : X = retiring
  OBVIOUS
<1>2. AsyncParts /\ MemInv(X) /\ KVInv(X)
  BY <1>1, PartsOfAsync DEF MemInv
<1>3. IInv' /\ KVInv(X)' /\ Frame /\ RoomInv'
  BY <1>2, SchedulingInv, SchedulingKV, SchedulingFrame DEF AsyncParts
<1>4. UNCHANGED <<pending, retiring, discarded, feedback, caller, pendingReleases>>
  BY DEF asyncVars, Scheduling
<1>5. /\ asyncInflight = Len(pending) /\ error = "none" /\ preempted = None
      /\ caller = "async" \/ (caller = "sync" /\ pending = <<>>)
  <2>1. InCall
    BY <1>3 DEF Frame
  <2>2. QED BY <1>2, <2>1, InsideCall DEF AsyncParts, PhaseInv, InCall
<1>6. PhaseInv'
  BY <1>2, <1>3, <1>4, <1>5 DEF Frame, PhaseInv, AsyncParts, InCall
<1>7. FinalStep
  <2>1. [Next]_vars
    BY DEF Next, Driver
  <2>2. [FinalStep]_vars
    BY <1>2, <2>1, FinalNext DEF AsyncParts
  <2>3. QED BY <2>2 DEF FinalStep, vars, schedVars
<1>8. ASSUME NEW s \in retiring PROVE status'[s] = "FINISHED" /\ s \notin Held'
  <2>1. s \in Seqs /\ status[s] = "FINISHED" /\ s \notin Held
    BY <1>2, <1>8 DEF AsyncParts, TicketInv
  <2>2. status'[s] = "FINISHED"
    BY <1>7, <2>1 DEF FinalStep
  <2>3. CASE pc' = "raised"
    <3>1. scheduled' = <<>> /\ Range(decoding') \subseteq Held
      BY <1>3, <2>3 DEF Frame, Held
    <3>2. QED BY <1>3, <2>1, <2>2, <3>1, OverStaysOut
  <2>4. CASE pc' # "raised"
    BY <1>3, <2>2, <2>4, OverIsOut DEF Frame, Broken
  <2>5. QED BY <2>2, <2>3, <2>4
<1>9. Tickets'
  <2>1. Tickets /\ TicketInv /\ NoReleaseInFlight
    BY <1>2 DEF AsyncParts
  <2>2. /\ UNCHANGED <<tokens, inflight, kv>> /\ resident \subseteq resident' /\ pc' # "postprocess"
        /\ cursor' = cursor \/ pending = <<>>
        /\ \A s \in Seqs : status'[s] \in {status[s], "WAITING", "RUNNING"}
    BY <1>2, <1>3, <1>5 DEF Frame, AsyncParts
  <2>3. \A s \in Referenced : kv'[s] > 0 /\ s \in resident'
    BY <2>1, <2>2 DEF NoReleaseInFlight
  <2>4. \A s \in Referenced \ discarded : status'[s] \in {"WAITING", "RUNNING"} /\ cursor'[s] = cursor[s]
    BY <2>1, <2>2, ReferencedSeqs, NoTickets DEF TicketInv
  <2>5. discarded = retiring /\ retiring \subseteq Seqs /\ feedback \in [Seqs -> Nat]
    BY <2>1 DEF TicketInv
  <2>6. QED BY <1>4, <1>8, <2>1, <2>2, <2>3, <2>4, <2>5, PendingKept
<1>10. QED BY <1>1, <1>3, <1>4, <1>6, <1>9, Assemble DEF MemInv

\* A failing admission hook ends the call with every ticket still pending.
LEMMA AsyncHookFault ==
  ASSUME AsyncInv, HookFault, UNCHANGED asyncVars
  PROVE  AsyncInv'
<1>1. PICK X : X = retiring
  OBVIOUS
<1>2. AsyncParts /\ MemInv(X)
  BY <1>1, PartsOfAsync
<1>3. IInv' /\ KVInv(X)'
  BY <1>2, HookFaultInv, HookFaultKV DEF AsyncParts
<1>4. UNCHANGED <<pending, retiring, discarded, feedback, caller>>
  BY DEF asyncVars
<1>5. /\ pc = "prefill" /\ pc' = "raised" /\ error' = "hook" /\ scheduled' = <<>> /\ waiting # <<>>
      /\ UNCHANGED <<decoding, tokens, inflight, cursor, kv, preempted>> /\ resident \subseteq resident'
      /\ status' = [status EXCEPT ![Head(waiting)] = "RUNNING"]
  BY DEF HookFault, PrefillHookFails, InBucket, CanContinuePrefillBatch, Raise
<1>6. preempted = None
  BY <1>2, <1>5, InsideCall DEF MemInv
<1>7. PhaseInv' /\ RoomInv'
  BY <1>5, <1>6 DEF PhaseInv, RoomInv, InCall
<1>8. Head(waiting) \in Seqs /\ Head(waiting) \in Range(waiting) /\ status \in [Seqs -> Statuses]
  BY <1>2, <1>5, HeadTailFacts DEF AsyncParts, Parts, TypeOK, RequestTypes
<1>9. \A s \in Seqs : status'[s] \in {status[s], "RUNNING"} /\ (s # Head(waiting) => status'[s] = status[s])
  BY <1>5, <1>8
<1>10. TicketInv /\ Tickets /\ NoReleaseInFlight
  BY <1>2 DEF AsyncParts
<1>11. ASSUME NEW s \in retiring PROVE status'[s] = "FINISHED" /\ s \notin Held'
  <2>1. s \in Seqs /\ status[s] = "FINISHED" /\ s \notin Held
    BY <1>10, <1>11 DEF TicketInv
  <2>2. status'[s] = "FINISHED"
    BY <1>8, <1>9, <2>1 DEF Held
  <2>3. Range(decoding') \subseteq Held
    BY <1>5 DEF Held
  <2>4. QED BY <1>3, <1>5, <2>1, <2>2, <2>3, OverStaysOut
<1>12. Tickets'
  <2>1. \A s \in Referenced : kv'[s] > 0 /\ s \in resident'
    BY <1>5, <1>10 DEF NoReleaseInFlight
  <2>2. \A s \in Referenced \ discarded : status'[s] \in {"WAITING", "RUNNING"}
    BY <1>9, <1>10, ReferencedSeqs DEF TicketInv
  <2>3. discarded = retiring /\ retiring \subseteq Seqs /\ feedback \in [Seqs -> Nat]
    BY <1>10 DEF TicketInv
  <2>4. pc' # "postprocess"
    BY <1>5
  <2>5. QED BY <1>4, <1>5, <1>10, <1>11, <2>1, <2>2, <2>3, <2>4, PendingKept
<1>13. QED BY <1>1, <1>3, <1>4, <1>7, <1>12, Assemble DEF MemInv

\* schedule() is told how many tickets are pending.
LEMMA AsyncEnters ==
  ASSUME AsyncInv, EnterSchedule \/ FallBack
  PROVE  AsyncInv'
<1>1. PICK X : X = retiring
  OBVIOUS
<1>2. AsyncParts /\ MemInv(X)
  BY <1>1, PartsOfAsync
<1>3. PICK n : n = Len(pending)
  OBVIOUS
<1>4. /\ n \in Nat /\ Schedule(n) /\ pc \in {"fill", "filled"} /\ UNCHANGED engineVars
      /\ UNCHANGED <<pending, retiring, discarded, feedback>>
      /\ caller' = "async" \/ (caller' = "sync" /\ pending = <<>>)
  BY <1>2, <1>3 DEF EnterSchedule, FallBack, AsyncParts
<1>5. n = 0 => NothingInFlight
  BY <1>2, <1>3, NoTickets DEF AsyncParts, InflightExact, NothingInFlight
<1>6. /\ error = "none" /\ pendingReleases = {}
  BY <1>2, <1>4 DEF AsyncParts, PhaseInv
<1>7. IInv' /\ KVInv(X)'
  BY <1>2, <1>4, <1>5, <1>6, EnterInv, EnterMoves DEF AsyncParts
<1>8. /\ pc' = "reserve" /\ asyncInflight' = n /\ preempted' = None /\ scheduled' = <<>>
      /\ UNCHANGED <<tokens, inflight, cursor, status, kv, resident, error, waiting, decoding>>
  BY <1>4 DEF Schedule
<1>9. PhaseInv' /\ RoomInv'
  BY <1>3, <1>4, <1>6, <1>8 DEF PhaseInv, RoomInv, InCall
<1>10. TicketInv /\ Tickets /\ NoReleaseInFlight
  BY <1>2 DEF AsyncParts
<1>11. ASSUME NEW s \in retiring PROVE status'[s] = "FINISHED" /\ s \notin Held'
  BY <1>7, <1>8, <1>10, <1>11, OverIsOut DEF TicketInv, Broken
<1>12. Tickets'
  <2>1. \A s \in Referenced : kv'[s] > 0 /\ s \in resident'
    BY <1>8, <1>10 DEF NoReleaseInFlight
  <2>2. \A s \in Referenced \ discarded : status'[s] \in {"WAITING", "RUNNING"}
    BY <1>8, <1>10 DEF TicketInv
  <2>3. discarded = retiring /\ retiring \subseteq Seqs /\ feedback \in [Seqs -> Nat]
    BY <1>10 DEF TicketInv
  <2>4. pc' # "postprocess"
    BY <1>8
  <2>5. QED BY <1>4, <1>8, <1>10, <1>11, <2>1, <2>2, <2>3, <2>4, PendingKept
<1>13. QED BY <1>1, <1>4, <1>7, <1>9, <1>12, Assemble DEF MemInv

\* Tickets do not notice a step that leaves what they refer to alone.
LEMMA TicketsUntouched ==
  ASSUME Tickets, UNCHANGED <<pending, tokens, inflight, cursor, kv, resident, feedback, retiring, discarded>>,
         pc' # "postprocess",
         \A s \in retiring : status'[s] = "FINISHED" /\ s \notin Held',
         \A s \in Referenced \ discarded : status'[s] \in {"WAITING", "RUNNING"}
  PROVE  Tickets'
<1>1. TicketInv /\ NoReleaseInFlight
  BY DEF Tickets
<1>2. \A s \in Referenced : kv'[s] > 0 /\ s \in resident'
  BY <1>1 DEF NoReleaseInFlight
<1>3. discarded = retiring /\ retiring \subseteq Seqs /\ feedback \in [Seqs -> Nat]
  BY <1>1 DEF TicketInv
<1>4. QED BY <1>2, <1>3, PendingKept

\* admit_request between steps, with any number of tickets pending.
LEMMA AsyncAdmits ==
  ASSUME AsyncInv, NEW a \in Seqs, AdmitRequest(a), UNCHANGED asyncVars
  PROVE  AsyncInv'
<1>1. PICK X : X = retiring
  OBVIOUS
<1>2. AsyncParts /\ MemInv(X)
  BY <1>1, PartsOfAsync
<1>3. UNCHANGED <<pending, retiring, discarded, feedback, caller>>
  BY DEF asyncVars
<1>4. /\ pc = "idle" /\ status[a] = "NEW" /\ status' = [status EXCEPT ![a] = "WAITING"]
      /\ UNCHANGED <<tokens, inflight, cursor, kv, resident, pc, error, asyncInflight, scheduled,
                     preempted, pendingReleases>>
  BY DEF AdmitRequest
<1>5. TicketInv /\ Tickets
  BY <1>2 DEF AsyncParts
<1>6. a \notin X
  BY <1>1, <1>4, <1>5 DEF TicketInv
<1>7. IInv' /\ KVInv(X)'
  BY <1>2, <1>6, AdmitInv, AdmitKV DEF AsyncParts
<1>8. PhaseInv' /\ RoomInv'
  BY <1>2, <1>3, <1>4 DEF AsyncParts, PhaseInv, RoomInv, InCall
<1>9. \A s \in Seqs : s # a => status'[s] = status[s]
  BY <1>2, <1>4 DEF AsyncParts, Parts, TypeOK, RequestTypes
<1>10. ASSUME NEW s \in retiring PROVE status'[s] = "FINISHED" /\ s \notin Held'
  <2>1. status'[s] = "FINISHED"
    BY <1>4, <1>5, <1>9, <1>10 DEF TicketInv
  <2>2. QED BY <1>4, <1>7, <2>1, OverIsOut DEF Broken
<1>11. \A s \in Referenced \ discarded : status'[s] \in {"WAITING", "RUNNING"}
  BY <1>4, <1>5, <1>9, ReferencedSeqs DEF TicketInv
<1>12. Tickets'
  BY <1>3, <1>4, <1>5, <1>10, <1>11, TicketsUntouched
<1>13. QED BY <1>1, <1>3, <1>7, <1>8, <1>12, Assemble DEF MemInv

\* The driver moves on without touching a request.
Idles ==
  /\ pc \in RestPoints /\ pc' \in RestPoints /\ (Broken => Broken')
  /\ pendingReleases # {} => pc' \in {"idle", "settle", "raised"}
  /\ error' \in Errors /\ asyncInflight' \in {asyncInflight, 0}
  /\ faults' = faults \/ (faults < MaxFaults /\ faults' = faults + 1)
  /\ UNCHANGED <<waiting, decoding, phase, seqVars, memVars, scanVars, retVars, published, finished,
                 pendingReleases, releaseFailed, aborted, asyncVars>>

\* Such a step keeps the invariant.
LEMMA IdlesInv ==
  ASSUME AsyncInv, Idles, PhaseInv'
  PROVE  AsyncInv'
<1>1. PICK X : X = retiring
  OBVIOUS
<1>2. AsyncParts /\ MemInv(X)
  BY <1>1, PartsOfAsync
<1>3. /\ pc \in RestPoints /\ pc' \in RestPoints /\ (Broken => Broken')
      /\ pendingReleases # {} => pc' \in {"idle", "settle", "raised"}
      /\ error' \in Errors /\ asyncInflight' \in {asyncInflight, 0}
      /\ faults' = faults \/ (faults < MaxFaults /\ faults' = faults + 1)
      /\ UNCHANGED <<waiting, decoding, phase, status, prefilled, chunk, tokens, inflight, cursor, checkpoint,
                     kv, resident, resEnd, scan, budget, scheduled, skipped, batchTokens, refused, failure,
                     blocked, isPrefill, preempted, published, finished, pendingReleases, releaseFailed,
                     aborted, pending, retiring, discarded, feedback, caller>>
  BY DEF Idles, asyncVars
<1>4. scheduled = <<>>
  BY <1>2, <1>3 DEF AsyncParts, PhaseInv, RestPoints
<1>5. QueuesAtRest /\ RowsAtRest(X)
  BY <1>2, <1>3, <1>4, FromRest
<1>6. TypeOK'
  <2>1. TypeOK
    BY <1>2 DEF AsyncParts, Parts
  <2>2. QueueTypes' /\ RequestTypes'
    BY <1>3, <2>1 DEF TypeOK, QueueTypes, RequestTypes
  <2>3. CallTypes'
    BY <1>3, <2>1 DEF TypeOK, CallTypes, RestPoints, Points
  <2>4. ReleaseTypes'
    BY <1>3, <2>1, FaultAssumption DEF TypeOK, ReleaseTypes
  <2>5. QED BY <2>2, <2>3, <2>4 DEF TypeOK
<1>7. QueuesAtRest'
  BY <1>3, <1>5 DEF QueuesAtRest, PublishedOnce, IsReplay
<1>8. RowsAtRest(X)'
  BY <1>3, <1>5 DEF RowsAtRest, IsReplay, Holds, DecodeInputPosition, Submitted
<1>9. MemInv(X)'
  BY <1>6, <1>7, <1>8, ToRest
<1>10. TicketInv /\ Tickets
  BY <1>2 DEF AsyncParts
<1>11. Held' = Held
  BY <1>3 DEF Held
<1>12. RoomInv'
  BY <1>3 DEF RoomInv, RestPoints
<1>13. pc' # "postprocess"
  BY <1>3 DEF RestPoints
<1>14. Tickets'
  BY <1>3, <1>10, <1>11, <1>13, TicketsUntouched DEF TicketInv
<1>15. QED BY <1>1, <1>3, <1>9, <1>12, <1>14, Assemble

\* Entering and leaving the filling of the pipeline, and the failures that
\* leave every request where it is.
LEMMA AsyncIdles ==
  ASSUME AsyncInv,
         \/ AsyncStep \/ StopFilling \/ SubmitDrain \/ CollectFails \/ DrainFails
         \/ StepRefused /\ UNCHANGED asyncVars
  PROVE  AsyncInv'
<1>1. PICK X : X = retiring
  OBVIOUS
<1>2. AsyncParts /\ MemInv(X)
  BY <1>1, PartsOfAsync
<1>3. PhaseInv /\ TypeOK /\ DebtInv /\ faults \in 0..MaxFaults /\ error \in Errors
  BY <1>2 DEF AsyncParts, Parts, MemInv, KVInv, TypeOK, ReleaseTypes, CallTypes
<1>4. scheduled = <<>> /\ preempted = None
  <2>1. pc \in {"idle", "fill", "drain", "filled", "settle"}
    BY DEF AsyncStep, StopFilling, SubmitDrain, CollectFails, DrainFails, StepRefused
  <2>2. QED BY <1>3, <2>1 DEF PhaseInv, DebtInv
<1>5. CASE AsyncStep
  <2>1. /\ pc = "idle" /\ pc' = "fill" /\ pendingReleases = {}
        /\ UNCHANGED <<queueVars, seqVars, memVars, error, scanVars, retVars, engineVars, asyncVars>>
    BY <1>5 DEF AsyncStep
  <2>2. Idles
    BY <1>3, <2>1 DEF Idles, RestPoints, Broken
  <2>3. PhaseInv'
    BY <1>3, <1>4, <2>1 DEF PhaseInv, InCall
  <2>4. QED BY <2>2, <2>3, IdlesInv
<1>6. CASE StopFilling
  <2>1. /\ pc = "fill" /\ pc' = "filled"
        /\ UNCHANGED <<queueVars, seqVars, memVars, error, scanVars, retVars, engineVars, asyncVars>>
    BY <1>6 DEF StopFilling
  <2>2. Idles
    BY <1>3, <2>1 DEF Idles, RestPoints, Broken, PhaseInv
  <2>3. PhaseInv'
    BY <1>3, <1>4, <2>1 DEF PhaseInv, InCall
  <2>4. QED BY <2>2, <2>3, IdlesInv
<1>7. CASE SubmitDrain
  <2>1. /\ pc = "drain" /\ pc' = "filled" /\ asyncInflight' = 0 /\ pendingReleases = {}
        /\ UNCHANGED <<waiting, decoding, phase, seqVars, memVars, error, scanVars, retVars, engineVars, asyncVars>>
    BY <1>3, <1>7 DEF SubmitDrain, DebtInv
  <2>2. Idles
    BY <1>3, <2>1 DEF Idles, RestPoints, Broken
  <2>3. PhaseInv'
    BY <1>3, <1>4, <2>1 DEF PhaseInv, InCall
  <2>4. QED BY <2>2, <2>3, IdlesInv
<1>8. CASE CollectFails
  <2>1. /\ pc = "filled" /\ pc' = "raised" /\ error' = "collect"
        /\ faults < MaxFaults /\ faults' = faults + 1
        /\ UNCHANGED <<queueVars, seqVars, memVars, scanVars, retVars, published, finished,
                       pendingReleases, releaseFailed, aborted, asyncVars>>
    BY <1>8 DEF CollectFails, Raise
  <2>2. Idles
    BY <2>1 DEF Idles, RestPoints, Broken, Errors
  <2>3. PhaseInv'
    BY <1>3, <1>4, <2>1 DEF PhaseInv, InCall
  <2>4. QED BY <2>2, <2>3, IdlesInv
<1>9. CASE DrainFails
  <2>1. /\ pc = "settle" /\ faults < MaxFaults /\ faults' = faults + 1
        /\ \/ error = "none" /\ error' = "none" /\ pc' = "idle"
           \/ error # "none" /\ error' = error /\ pc' = "raised"
           \/ error' = "collect" /\ pc' = "raised"
        /\ UNCHANGED <<queueVars, seqVars, memVars, scanVars, retVars, published, finished,
                       pendingReleases, releaseFailed, aborted, asyncVars>>
    BY <1>9 DEF DrainFails, Raise, Resume
  <2>2. Idles
    BY <1>3, <2>1 DEF Idles, RestPoints, Broken, Errors
  <2>3. PhaseInv'
    BY <1>3, <1>4, <2>1 DEF PhaseInv, InCall
  <2>4. QED BY <2>2, <2>3, IdlesInv
<1>10. CASE StepRefused /\ UNCHANGED asyncVars
  <2>1. /\ pc = "idle" /\ pc' = "raised" /\ error' = "release_pending"
        /\ UNCHANGED <<queueVars, seqVars, memVars, scanVars, retVars, engineVars, asyncVars>>
    BY <1>10 DEF StepRefused, Raise
  <2>2. Idles
    BY <2>1 DEF Idles, RestPoints, Broken, Errors
  <2>3. PhaseInv'
    BY <1>3, <1>4, <2>1 DEF PhaseInv, InCall
  <2>4. QED BY <2>2, <2>3, IdlesInv
<1>11. QED BY <1>5, <1>6, <1>7, <1>8, <1>9, <1>10

-----------------------------------------------------------------------------
(* Collecting and discarding *)

\* The oldest ticket is taken off: who waited for it gets its token, so the
\* tokens asked for stay the same, and the next ticket was fed that token.
LEMMA OldestTaken ==
  ASSUME Tickets, Parts, pending # <<>>, pending' = Tail(pending),
         inflight' = [s \in Seqs |-> IF s \in Oldest.publishes THEN inflight[s] - 1 ELSE inflight[s]],
         tokens' = [s \in Seqs |-> IF s \in Accepted THEN tokens[s] + 1 ELSE tokens[s]],
         UNCHANGED <<feedback, kv, resident, cursor>>, pc' # "postprocess",
         discarded \subseteq discarded', discarded' = retiring', retiring' \subseteq Seqs,
         \A s \in retiring' : status'[s] = "FINISHED" /\ s \notin Held',
         \A s \in Referenced \ discarded' : status'[s] \in {"WAITING", "RUNNING"}
  PROVE  /\ Tickets' /\ inflight' \in [Seqs -> Nat]
         /\ Oldest.publishes \subseteq Referenced
         /\ \A s \in Seqs : /\ s \in Accepted => inflight[s] >= 1 /\ ~IsReplay(s)
                            /\ s \notin discarded => Submitted(s)' = Submitted(s)
                            /\ s \notin Oldest.publishes => Submitted(s)' = Submitted(s) /\ inflight'[s] = inflight[s]
<1>1. TicketInv /\ InflightExact /\ NoReleaseInFlight /\ FeedInv /\ FeedbackCurrent
  BY DEF Tickets
<1>2. /\ pending \in Seq(Range(pending)) /\ pending' \in Seq(Range(pending)')
      /\ 1 \in DOMAIN pending /\ Oldest = pending[1]
      /\ \A i \in DOMAIN pending' : i + 1 \in DOMAIN pending /\ pending'[i] = pending[i + 1]
      /\ Referenced' \subseteq Referenced /\ Referenced \subseteq Seqs
      /\ Oldest.publishes \subseteq Referenced
  BY <1>1, OldestLeaves, ReferencedSeqs, PublishedReferenced DEF TicketInv
<1>3. ASSUME NEW s \in Seqs
      PROVE  /\ inflight'[s] = Cardinality(TicketsOf(s)') /\ inflight'[s] \in Nat
             /\ s \in Accepted => inflight[s] >= 1
             /\ s \notin discarded => Submitted(s)' = Submitted(s)
             /\ s \notin Oldest.publishes => Submitted(s)' = Submitted(s) /\ inflight'[s] = inflight[s]
             /\ Submitted(s)' <= MaxTokens[s]
             /\ inflight'[s] > 0 => inflight[s] > 0
  <2>1. PICK e : e = IF s \in Oldest.publishes THEN 1 ELSE 0
    OBVIOUS
  <2>2. Cardinality(TicketsOf(s)') = Cardinality(TicketsOf(s)) - e /\ Cardinality(TicketsOf(s)') \in Nat
    BY <1>2, <2>1, OldestLeavesOf
  <2>3. inflight[s] = Cardinality(TicketsOf(s)) /\ Submitted(s) <= MaxTokens[s]
    BY <1>1 DEF InflightExact
  <2>4. /\ inflight[s] \in Nat /\ tokens[s] \in Nat /\ MaxTokens[s] \in Nat
        /\ inflight'[s] = inflight[s] - e
        /\ s \in Accepted <=> e = 1 /\ s \notin discarded
        /\ tokens'[s] = IF s \in Accepted THEN tokens[s] + 1 ELSE tokens[s]
        /\ e \in {0, 1}
    BY <2>1, PositionType DEF Accepted
  <2>5. inflight'[s] = Cardinality(TicketsOf(s)') /\ inflight'[s] \in Nat
    BY <2>2, <2>3, <2>4
  <2>6. QED BY <2>1, <2>3, <2>4, <2>5 DEF Submitted
<1>4. \A s \in Accepted : ~IsReplay(s)
  BY <1>1, <1>2 DEF TicketInv, Accepted
<1>5. TicketInv'
  <2>1. \A s : IsReplay(s)' <=> IsReplay(s)
    BY DEF IsReplay
  <2>2. ASSUME NEW i \in DOMAIN pending'
        PROVE  /\ pending'[i].publishes \subseteq pending'[i].seqs /\ pending'[i].seqs \subseteq Seqs
               /\ \A s \in pending'[i].publishes \ discarded' : ~IsReplay(s)'
    BY <1>1, <1>2, <2>1, <2>2 DEF TicketInv
  <2>3. QED BY <1>1, <1>2, <2>2 DEF TicketInv
<1>6. InflightExact'
  BY <1>3 DEF InflightExact
<1>7. NoReleaseInFlight'
  BY <1>1, <1>2 DEF NoReleaseInFlight
<1>8. FeedInv'
  <2>1. ASSUME NEW s \in Seqs \ discarded'
        PROVE  feedback'[s] \in {0, Submitted(s)'} /\ (inflight'[s] > 0 => feedback'[s] # 0)
    <3>1. s \in Seqs \ discarded
      BY <2>1
    <3>2. QED BY <1>1, <1>3, <3>1 DEF FeedInv
  <2>2. QED BY <2>1 DEF FeedInv
<1>9. FeedbackCurrent'
  <2>1. ASSUME NEW i \in DOMAIN pending', NEW s \in pending'[i].publishes \ discarded'
        PROVE  pending'[i].fed[s] = tokens'[s] + Before(s, i)'
    <3>1. i + 1 \in DOMAIN pending /\ pending'[i] = pending[i + 1]
      BY <1>2, <2>1
    <3>2. s \in pending[i + 1].publishes \ discarded /\ s \in Seqs
      BY <1>1, <2>1, <3>1, PublishedReferenced
    <3>3. PICK e : e = IF s \in Oldest.publishes THEN 1 ELSE 0
      OBVIOUS
    <3>4. /\ Before(s, i)' \in Nat /\ Before(s, i + 1) \in Nat
          /\ Before(s, i)' = Before(s, i + 1) - e
      BY <1>2, <2>1, <3>3, OldestLeavesOf
    <3>5. pending[i + 1].fed[s] = tokens[s] + Before(s, i + 1)
      BY <1>1, <3>1, <3>2 DEF FeedbackCurrent, Before
    <3>6. tokens[s] \in Nat /\ tokens'[s] = tokens[s] + e /\ e \in Nat
      BY <3>2, <3>3, PositionType DEF Accepted
    <3>7. QED BY <3>1, <3>4, <3>5, <3>6
  <2>2. QED BY <2>1 DEF FeedbackCurrent, Before
<1>10. inflight' \in [Seqs -> Nat]
  BY <1>3
<1>11. QED BY <1>2, <1>3, <1>4, <1>5, <1>6, <1>7, <1>8, <1>9, <1>10 DEF Tickets

\* Types hold again when only these parts of the state move.
LEMMA TypesAtRest ==
  ASSUME TypeOK, pc' \in RestPoints, error' \in Errors, faults' \in 0..MaxFaults,
         waiting' \in Seq(Seqs), decoding' \in Seq(Seqs), scheduled' = <<>>,
         asyncInflight' \in Nat, status' \in [Seqs -> Statuses],
         {prefilled', tokens', inflight', kv', published'} \subseteq [Seqs -> Nat],
         \A s \in Seqs : prefilled'[s] <= PromptLen[s],
         resident' \subseteq Seqs, preempted' \in Seqs \cup {None}, isPrefill' \in BOOLEAN,
         pendingReleases' \subseteq Seqs, releaseFailed' \subseteq Seqs, aborted' \subseteq Seqs,
         UNCHANGED <<phase, skipped, finished, chunk, cursor, checkpoint, scan, budget, batchTokens,
                     refused, failure, blocked>>
  PROVE  TypeOK'
<1>1. <<>> \in Seq(Seqs)
  OBVIOUS
<1>2. QueueTypes' /\ RequestTypes'
  BY <1>1 DEF TypeOK, QueueTypes, RequestTypes
<1>3. CallTypes'
  BY DEF TypeOK, CallTypes, RestPoints, Points
<1>4. ReleaseTypes'
  BY DEF TypeOK, ReleaseTypes
<1>5. QED BY <1>2, <1>3, <1>4 DEF TypeOK

\* _drain_discarded changes the counts of discarded requests only.
LEMMA AsyncDrains == ASSUME AsyncInv, DrainDiscarded PROVE AsyncInv'
<1>1. PICK X : X = retiring
  OBVIOUS
<1>2. AsyncParts /\ MemInv(X) /\ Parts /\ TypeOK /\ Tickets /\ TicketInv
  BY <1>1, PartsOfAsync DEF AsyncParts, Parts
<1>3. /\ pc = "settle" /\ pending # <<>> /\ Oldest.seqs \subseteq discarded /\ pending' = Tail(pending)
      /\ inflight' = [s \in Seqs |-> IF s \in Oldest.publishes THEN inflight[s] - 1 ELSE inflight[s]]
      /\ UNCHANGED <<waiting, decoding, phase, asyncInflight, status, prefilled, chunk, tokens, cursor,
                     checkpoint, kv, resident, resEnd, pc, error, scan, budget, scheduled, skipped,
                     batchTokens, refused, failure, blocked, isPrefill, preempted, published, finished,
                     pendingReleases, releaseFailed, aborted, faults, retiring, discarded, feedback, caller>>
  BY DEF DrainDiscarded, Droppable
<1>4. scheduled = <<>> /\ pc \in RestPoints
  BY <1>2, <1>3 DEF AsyncParts, PhaseInv, RestPoints
<1>5. QueuesAtRest /\ RowsAtRest(X)
  BY <1>2, <1>4, FromRest
<1>6. Oldest.publishes \subseteq discarded /\ Accepted = {}
  <2>1. Oldest.publishes \subseteq Oldest.seqs
    BY <1>2, <1>3, OldestLeaves DEF TicketInv
  <2>2. QED BY <1>3, <2>1 DEF Accepted
<1>7. tokens' = [s \in Seqs |-> IF s \in Accepted THEN tokens[s] + 1 ELSE tokens[s]]
  BY <1>2, <1>3, <1>6 DEF TypeOK, RequestTypes
<1>8. Held' = Held
  BY <1>3 DEF Held
<1>9. /\ Tickets' /\ inflight' \in [Seqs -> Nat]
      /\ \A s \in Seqs : s \notin Oldest.publishes => Submitted(s)' = Submitted(s) /\ inflight'[s] = inflight[s]
  <2>1. /\ pc' # "postprocess" /\ discarded \subseteq discarded' /\ discarded' = retiring' /\ retiring' \subseteq Seqs
        /\ \A s \in retiring' : status'[s] = "FINISHED" /\ s \notin Held'
        /\ \A s \in Referenced \ discarded' : status'[s] \in {"WAITING", "RUNNING"}
    BY <1>2, <1>3, <1>8 DEF TicketInv
  <2>2. QED BY <1>2, <1>3, <1>7, <2>1, OldestTaken
<1>10. TypeOK'
  <2>1. /\ error \in Errors /\ faults \in 0..MaxFaults /\ waiting \in Seq(Seqs) /\ decoding \in Seq(Seqs)
        /\ asyncInflight \in Nat /\ status \in [Seqs -> Statuses]
        /\ {prefilled, tokens, kv, published} \subseteq [Seqs -> Nat]
        /\ \A s \in Seqs : prefilled[s] <= PromptLen[s]
        /\ resident \subseteq Seqs /\ preempted \in Seqs \cup {None} /\ isPrefill \in BOOLEAN
        /\ pendingReleases \subseteq Seqs /\ releaseFailed \subseteq Seqs /\ aborted \subseteq Seqs
    BY <1>2 DEF TypeOK, QueueTypes, RequestTypes, CallTypes, ReleaseTypes
  <2>2. QED BY <1>2, <1>3, <1>4, <1>9, <2>1, TypesAtRest
<1>11. QueuesAtRest'
  BY <1>3, <1>5 DEF QueuesAtRest, PublishedOnce, IsReplay, Broken
<1>12. \A s \in Seqs : s \notin retiring => Submitted(s)' = Submitted(s) /\ inflight'[s] = inflight[s]
                                          /\ DecodeInputPosition(s)' = DecodeInputPosition(s)
  BY <1>2, <1>3, <1>6, <1>9 DEF TicketInv, DecodeInputPosition, IsReplay
<1>13. \A s \in Seqs : s \in Range(waiting) \cup Range(decoding) \/ status[s] = "NEW" => s \notin retiring
  BY <1>2 DEF TicketInv, Held
<1>14. Range(waiting) \subseteq Seqs /\ Range(decoding) \subseteq Seqs
  BY <1>2 DEF Parts
<1>15. RowsAtRest(X)'
  <2>1. ~Broken' => ~Broken
    BY <1>3 DEF Broken
  <2>2. \A s : /\ Holds(s)' <=> Holds(s)
               /\ IsReplay(s)' <=> IsReplay(s)
    BY <1>3 DEF Holds, IsReplay
  <2>3. QED BY <1>3, <1>5, <1>12, <1>13, <1>14, <2>1, <2>2 DEF RowsAtRest
<1>16. MemInv(X)'
  BY <1>10, <1>11, <1>15, ToRest
<1>17. PhaseInv' /\ RoomInv'
  BY <1>2, <1>3 DEF AsyncParts, PhaseInv, RoomInv, InCall, RowsAtRest, DebtInv
<1>18. QED BY <1>1, <1>3, <1>9, <1>16, <1>17, Assemble

\* Requests no ticket refers to are freed.
LEMMA FreedFacts ==
  ASSUME Parts, NEW S \in SUBSET Seqs, FreeSeqs(S)
  PROVE  /\ kv' \in [Seqs -> Nat] /\ resident' \subseteq resident /\ resident' \subseteq Seqs
         /\ resEnd' = [s \in Seqs |-> resEnd'[s]]
         /\ \A s \in S : ~Holds(s)'
         /\ \A s \in Seqs \ S : /\ kv'[s] = kv[s] /\ (s \in resident' <=> s \in resident)
                                /\ (Holds(s)' <=> Holds(s))
<1>1. kv \in [Seqs -> Nat] /\ resident \subseteq Seqs
  BY DEF Parts, TypeOK, RequestTypes
<1>2. /\ kv' = [s \in Seqs |-> IF s \in S THEN 0 ELSE kv[s]] /\ resident' = resident \ S
      /\ resEnd' = [s \in Seqs |-> IF s \in S THEN 0 ELSE resEnd[s]]
  BY DEF FreeSeqs
<1>3. QED BY <1>1, <1>2 DEF Holds

\* The end of settling: some of what is ready was released; who was not stays
\* among the retiring requests.
LEMMA Retires ==
  ASSUME AsyncInv, pc = "settle", NEW S \in SUBSET Ready, FreeSeqs(S),
         \/ pc' = "idle" /\ error = "none" /\ error' = "none"
         \/ pc' = "raised" /\ error' \in Errors \ {"none"},
         faults' \in 0..MaxFaults, releaseFailed \subseteq releaseFailed',
         releaseFailed' \subseteq pendingReleases', pendingReleases' \subseteq Seqs,
         pendingReleases \subseteq pendingReleases' \cup S,
         retiring' \subseteq retiring, retiring \subseteq retiring' \cup S, discarded' = retiring',
         feedback' = [s \in Seqs |-> IF s \in retiring \ retiring' THEN 0 ELSE feedback[s]],
         UNCHANGED <<queueVars, seqVars, scanVars, retVars, published, finished, aborted, pending, caller>>
  PROVE  AsyncInv'
<1>1. PICK X : X = retiring
  OBVIOUS
<1>2. PICK Y : Y = retiring'
  OBVIOUS
<1>3. AsyncParts /\ MemInv(X) /\ Parts /\ TypeOK /\ Tickets /\ TicketInv
  BY <1>1, PartsOfAsync DEF AsyncParts, Parts
<1>4. scheduled = <<>> /\ pc \in RestPoints
  BY <1>3 DEF AsyncParts, PhaseInv, RestPoints
<1>5. QueuesAtRest /\ RowsAtRest(X)
  BY <1>3, <1>4, FromRest
<1>6. S \subseteq Seqs /\ S \subseteq retiring /\ S \cap Referenced = {} /\ retiring \subseteq Seqs /\ discarded = retiring
  BY <1>3 DEF TicketInv, Ready
<1>7. /\ kv' \in [Seqs -> Nat] /\ resident' \subseteq Seqs /\ resEnd' = [s \in Seqs |-> resEnd'[s]]
      /\ \A s \in S : ~Holds(s)'
      /\ \A s \in Seqs \ S : /\ kv'[s] = kv[s] /\ (s \in resident' <=> s \in resident)
                             /\ (Holds(s)' <=> Holds(s))
  BY <1>3, <1>6, FreedFacts
<1>8. /\ pc' \in {"idle", "raised"} /\ (~Broken' => ~Broken) /\ error' \in Errors
  BY DEF Broken, Errors
<1>9. TypeOK'
  <2>1. /\ waiting \in Seq(Seqs) /\ decoding \in Seq(Seqs)
        /\ asyncInflight \in Nat /\ status \in [Seqs -> Statuses]
        /\ {prefilled, tokens, inflight, published} \subseteq [Seqs -> Nat]
        /\ \A s \in Seqs : prefilled[s] <= PromptLen[s]
        /\ preempted \in Seqs \cup {None} /\ isPrefill \in BOOLEAN /\ aborted \subseteq Seqs
    BY <1>3 DEF TypeOK, QueueTypes, RequestTypes, CallTypes, ReleaseTypes
  <2>2. pc' \in RestPoints /\ releaseFailed' \subseteq Seqs
    BY <1>8 DEF RestPoints
  <2>3. QED BY <1>3, <1>4, <1>7, <1>8, <2>1, <2>2, TypesAtRest, SMTT(60)
<1>10. QueuesAtRest'
  BY <1>5, <1>8 DEF QueuesAtRest, PublishedOnce, IsReplay, RestPoints
<1>11. Held' = Held /\ \A s \in retiring : status[s] = "FINISHED" /\ s \notin Held
  BY <1>3 DEF TicketInv, Held
<1>12. /\ Range(waiting) \subseteq Seqs \ S /\ Range(decoding) \subseteq Seqs \ S
  BY <1>3, <1>6, <1>11 DEF Parts, Held
<1>13. RowsAtRest(Y)'
  <2>1. \A s : /\ IsReplay(s)' <=> IsReplay(s)
               /\ DecodeInputPosition(s)' = DecodeInputPosition(s) /\ Submitted(s)' = Submitted(s)
    BY DEF IsReplay, DecodeInputPosition, Submitted
  <2>2. \A s \in Seqs : kv'[s] > 0 => s \in resident'
    BY <1>5, <1>7 DEF RowsAtRest, Holds
  <2>3. ASSUME NEW s \in Seqs, Holds(s)'
        PROVE  \/ s \in Y \/ s \in pendingReleases' \/ s \in Range(decoding')
               \/ s \in Range(waiting') /\ (status'[s] = "RUNNING" \/ prefilled'[s] > 0)
    <3>1. s \in Seqs \ S /\ Holds(s)
      BY <1>7, <2>3
    <3>2. \/ s \in X \/ s \in pendingReleases \/ s \in Range(decoding)
          \/ s \in Range(waiting) /\ (status[s] = "RUNNING" \/ prefilled[s] > 0)
      BY <1>5, <3>1 DEF RowsAtRest
    <3>3. QED BY <1>1, <1>2, <3>1, <3>2
  <2>4. ~Broken' =>
       /\ \A s \in Range(waiting) : /\ s \in releaseFailed' \/ kv'[s] = prefilled[s]
                                    /\ IsReplay(s) => cursor[s] = 0 /\ tokens[s] >= 1
       /\ \A s \in Range(decoding) : /\ s \in releaseFailed' \/ kv'[s] = DecodeInputPosition(s)
                                     /\ Submitted(s) >= 1 /\ (IsReplay(s) => cursor[s] + 1 < tokens[s])
    BY <1>5, <1>7, <1>8, <1>12 DEF RowsAtRest
  <2>5. QED BY <1>5, <1>7, <1>8, <2>1, <2>2, <2>3, <2>4 DEF RowsAtRest
<1>14. MemInv(Y)'
  BY <1>9, <1>10, <1>13, ToRest
<1>15. PhaseInv' /\ RoomInv'
  <2>1. preempted = None
    BY <1>5 DEF RowsAtRest
  <2>2. QED BY <1>4, <1>8, <2>1 DEF PhaseInv, RoomInv, InCall
<1>16. Tickets'
  <2>1. feedback \in [Seqs -> Nat] /\ NoReleaseInFlight /\ Referenced \subseteq Seqs
    BY <1>3, ReferencedSeqs DEF TicketInv, Tickets
  <2>2. feedback' \in [Seqs -> Nat] /\ pc' # "postprocess" /\ retiring' \subseteq Seqs
    BY <1>6, <1>8, <2>1
  <2>3. \A s \in retiring' : status'[s] = "FINISHED" /\ s \notin Held'
    BY <1>11
  <2>4. \A s \in Referenced : kv'[s] > 0 /\ s \in resident'
    BY <1>6, <1>7, <2>1 DEF NoReleaseInFlight
  <2>5. ASSUME NEW s \in Referenced \ discarded'
        PROVE  s \notin discarded /\ status'[s] \in {"WAITING", "RUNNING"} /\ cursor'[s] = cursor[s]
    <3>1. s \notin discarded
      BY <1>6, <2>5
    <3>2. QED BY <1>3, <2>5, <3>1 DEF TicketInv
  <2>6. ASSUME NEW s \in Seqs \ discarded'
        PROVE  \/ s \notin discarded /\ feedback'[s] = feedback[s]
               \/ feedback'[s] = 0 /\ s \notin Referenced
    BY <1>6, <2>6
  <2>7. UNCHANGED <<pending, tokens, inflight>>
    OBVIOUS
  <2>8. QED BY <1>3, <2>2, <2>3, <2>4, <2>5, <2>6, <2>7, PendingKept
<1>17. QED BY <1>2, <1>14, <1>15, <1>16, Assemble

\* _retire_ready, whether the release succeeds or fails half way.
LEMMA AsyncRetires == ASSUME AsyncInv, RetireReady \/ RetireFails PROVE AsyncInv'
<1>1. PICK X : X = retiring
  OBVIOUS
<1>2. /\ AsyncParts /\ DebtInv /\ TicketInv /\ faults \in 0..MaxFaults /\ error \in Errors
      /\ pendingReleases \subseteq Seqs
  BY <1>1, PartsOfAsync DEF AsyncParts, Parts, MemInv, KVInv, TypeOK, ReleaseTypes, CallTypes
<1>3. /\ Ready \subseteq retiring /\ retiring \subseteq Seqs /\ releaseFailed \subseteq pendingReleases
      /\ feedback \in [Seqs -> Nat] /\ discarded = retiring
  BY <1>2 DEF TicketInv, DebtInv, Ready
<1>4. CASE RetireReady
  <2>1. PICK S : S = Ready
    OBVIOUS
  <2>2. /\ pc = "settle" /\ S \cap releaseFailed = {} /\ FreeSeqs(S)
        /\ pendingReleases' = pendingReleases \ S /\ retiring' = retiring \ S /\ discarded' = discarded \ S
        /\ feedback' = [s \in Seqs |-> IF s \in S THEN 0 ELSE feedback[s]]
        /\ pc' = IF error = "none" THEN "idle" ELSE "raised"
        /\ UNCHANGED <<queueVars, seqVars, error, scanVars, retVars, published, finished,
                       releaseFailed, aborted, faults, pending, caller>>
    BY <1>4, <2>1 DEF RetireReady, Forget, Resume
  <2>3. /\ \/ pc' = "idle" /\ error = "none" /\ error' = "none"
           \/ pc' = "raised" /\ error' \in Errors \ {"none"}
        /\ faults' \in 0..MaxFaults /\ releaseFailed \subseteq releaseFailed'
        /\ releaseFailed' \subseteq pendingReleases' /\ pendingReleases' \subseteq Seqs
        /\ pendingReleases \subseteq pendingReleases' \cup S
        /\ retiring' \subseteq retiring /\ retiring \subseteq retiring' \cup S /\ discarded' = retiring'
    BY <1>2, <1>3, <2>1, <2>2
  <2>4. feedback' = [s \in Seqs |-> IF s \in retiring \ retiring' THEN 0 ELSE feedback[s]]
    <3>1. retiring \ retiring' = S
      BY <1>3, <2>1, <2>2
    <3>2. QED BY <2>2, <3>1
  <2>5. S \in SUBSET Ready
    BY <2>1
  <2>6. UNCHANGED <<queueVars, seqVars, scanVars, retVars, published, finished, aborted, pending, caller>>
    BY <2>2
  <2>7. pc = "settle" /\ FreeSeqs(S)
    BY <2>2
  <2>8. QED BY <2>3, <2>4, <2>5, <2>6, <2>7, Retires
<1>5. CASE RetireFails
  <2>1. PICK S \in SUBSET (Ready \ releaseFailed) :
          /\ FreeSeqs(S)
          /\ \/ /\ Ready \cap releaseFailed # {}
                /\ UNCHANGED <<releaseFailed, faults>>
             \/ /\ faults < MaxFaults /\ faults' = faults + 1
                /\ \E bad \in SUBSET (Ready \ S) :
                     Cardinality(bad) <= 1 /\ releaseFailed' = releaseFailed \cup bad
    BY <1>5 DEF RetireFails
  <2>2. /\ pc = "settle" /\ pendingReleases' = pendingReleases \cup Ready
        /\ \/ pc' = "idle" /\ error = "none" /\ error' = "none"
           \/ pc' = "raised" /\ error # "none" /\ error' = error
           \/ pc' = "raised" /\ error' = "release"
        /\ UNCHANGED <<queueVars, seqVars, scanVars, retVars, published, finished, aborted, pending,
                       retiring, discarded, feedback, caller>>
    BY <1>5 DEF RetireFails, Resume, Raise, asyncVars
  <2>3. faults' \in 0..MaxFaults /\ releaseFailed \subseteq releaseFailed' /\ releaseFailed' \subseteq releaseFailed \cup Ready
    BY <1>2, <2>1, FaultAssumption
  <2>4. /\ \/ pc' = "idle" /\ error = "none" /\ error' = "none"
           \/ pc' = "raised" /\ error' \in Errors \ {"none"}
        /\ releaseFailed' \subseteq pendingReleases' /\ pendingReleases' \subseteq Seqs
        /\ pendingReleases \subseteq pendingReleases' \cup S
        /\ retiring' \subseteq retiring /\ retiring \subseteq retiring' \cup S /\ discarded' = retiring'
    BY <1>2, <1>3, <2>2, <2>3 DEF Errors
  <2>5. feedback' = [s \in Seqs |-> IF s \in retiring \ retiring' THEN 0 ELSE feedback[s]]
    <3>1. retiring \ retiring' = {}
      BY <2>2
    <3>2. QED BY <1>3, <2>2, <3>1
  <2>6. S \in SUBSET Ready
    BY <2>1
  <2>7. UNCHANGED <<queueVars, seqVars, scanVars, retVars, published, finished, aborted, pending, caller>>
    BY <2>2
  <2>8. pc = "settle" /\ FreeSeqs(S)
    BY <2>1, <2>2
  <2>9. QED BY <2>3, <2>4, <2>5, <2>6, <2>7, <2>8, Retires
<1>6. QED BY <1>4, <1>5

-----------------------------------------------------------------------------
(* Submission *)

\* The state schedule() returns in: the batch of a prefill is in the hands of
\* the driver, that of a decode stays queued.
AtReturn(X) ==
  /\ skipped = <<>> /\ blocked = None /\ pendingReleases = {} /\ releaseFailed = {}
  /\ resEnd = [s \in Seqs |-> resEnd[s]]
  /\ preempted # None => preempted \in Range(waiting) /\ prefilled[preempted] = 0 /\ scheduled = <<>>
  /\ Range(waiting) \cap Range(decoding) = {} /\ Chosen \cap (Range(waiting) \cup Range(decoding)) = {}
  /\ IF isPrefill THEN Chosen = Range(scheduled) ELSE Chosen = {} /\ Range(scheduled) \subseteq Range(decoding)
  /\ \A s \in Seqs : status[s] \in {"WAITING", "RUNNING"} => s \in Range(waiting) \cup Range(decoding) \cup Chosen
  /\ \A s \in Range(waiting) \cup Chosen :
       /\ s \in Seqs /\ status[s] \notin {"NEW", "FINISHED"} /\ inflight[s] = 0
       /\ ~IsReplay(s) => tokens[s] = 0
       /\ IsReplay(s) => cursor[s] = 0 /\ tokens[s] >= 1
       /\ s = preempted \/ kv[s] = prefilled[s]
  /\ \A s \in Chosen : /\ status[s] = "RUNNING" /\ chunk[s] >= 1 /\ s \in resident
                       /\ prefilled[s] + chunk[s] <= PromptLen[s]
  /\ \A s \in Range(decoding) :
       /\ s \in Seqs /\ status[s] \notin {"NEW", "FINISHED"} /\ kv[s] = DecodeInputPosition(s)
       /\ Submitted(s) >= 1 /\ (IsReplay(s) => cursor[s] + 1 < tokens[s])
  /\ \A s \in Seqs : kv[s] > 0 => s \in resident
  /\ \A s \in Seqs : Holds(s) =>
       \/ s \in X \/ s = preempted \/ s \in Range(decoding) \/ s \in Chosen
       \/ s \in Range(waiting) /\ (status[s] = "RUNNING" \/ prefilled[s] > 0)
  /\ \A s \in Seqs : status[s] = "NEW" => tokens[s] = 0 /\ prefilled[s] = 0 /\ inflight[s] = 0 /\ ~IsReplay(s)
  /\ PublishedOnce

\* The invariants of the engine, where schedule() returns.
LEMMA FromReturn == ASSUME NEW X, MemInv(X), pc = "returned" PROVE AtReturn(X) /\ Parts
<1>1. Parts /\ DebtInv /\ OwnerInv(X) /\ RowInv /\ ProgressInv
  BY PartsOfInv DEF MemInv, KVInv
<1>2. skipped = <<>> /\ blocked = None /\ pendingReleases = {} /\ releaseFailed = {} /\ Range(skipped) = {}
  BY <1>1, EmptyFacts DEF Parts, CallInv, DebtInv
<1>3. /\ Popped = Chosen /\ Prefills = Range(waiting) \cup Chosen /\ Decodes = Range(decoding)
      /\ Chosen \subseteq Range(scheduled)
      /\ Range(waiting) \subseteq Seqs /\ Range(decoding) \subseteq Seqs /\ Chosen \subseteq Seqs
  BY <1>1, <1>2 DEF Popped, Prefills, Decodes, Chosen, Parts
<1>4. IF isPrefill THEN Chosen = Range(scheduled) ELSE Chosen = {} /\ Range(scheduled) \subseteq Range(decoding)
  BY <1>1 DEF Chosen, Parts, CallInv
<1>5. /\ Range(waiting) \cap Range(decoding) = {} /\ Chosen \cap (Range(waiting) \cup Range(decoding)) = {}
      /\ \A s \in Seqs : status[s] \in {"WAITING", "RUNNING"} => s \in Range(waiting) \cup Range(decoding) \cup Chosen
  BY <1>1, <1>3 DEF Parts, OwnedOnce
<1>6. \A s : Written(s) = 0
  BY DEF Written
<1>7. ASSUME NEW s \in Range(waiting) \cup Chosen
      PROVE  /\ s \in Seqs /\ status[s] \notin {"NEW", "FINISHED"} /\ inflight[s] = 0
             /\ ~IsReplay(s) => tokens[s] = 0
             /\ IsReplay(s) => cursor[s] = 0 /\ tokens[s] >= 1
             /\ s = preempted \/ kv[s] = prefilled[s]
  <2>1. s \in Seqs /\ s \in Prefills /\ prefilled[s] \in Nat
    BY <1>1, <1>3, <1>7, PositionType
  <2>2. status[s] \notin {"NEW", "FINISHED"}
    BY <1>1, <1>3, <1>7 DEF Parts, FinishInv, Broken
  <2>3. ~IsReplay(s) => tokens[s] = 0
    BY <1>1, <1>3, <1>4, <1>7 DEF Parts, TokenInv
  <2>4. /\ s = preempted \/ kv[s] = prefilled[s] + 0
        /\ IsReplay(s) => cursor[s] = 0 /\ tokens[s] >= 1
    BY <1>1, <1>2, <1>6, <2>1 DEF RowInv, Broken
  <2>5. QED BY <1>1, <2>1, <2>2, <2>3, <2>4 DEF ProgressInv
<1>8. ASSUME NEW s \in Chosen
      PROVE  /\ status[s] = "RUNNING" /\ chunk[s] >= 1 /\ s \in resident
             /\ prefilled[s] + chunk[s] <= PromptLen[s]
  <2>1. isPrefill /\ s \in Range(scheduled)
    BY <1>4, <1>8
  <2>2. QED BY <1>1, <1>8, <2>1 DEF OwnerInv, Parts, CallInv
<1>9. ASSUME NEW s \in Range(decoding)
      PROVE  /\ s \in Seqs /\ status[s] \notin {"NEW", "FINISHED"} /\ kv[s] = DecodeInputPosition(s)
             /\ Submitted(s) >= 1 /\ (IsReplay(s) => cursor[s] + 1 < tokens[s])
  <2>1. s \in Seqs /\ s \in Decodes /\ DecodeInputPosition(s) \in Int
    BY <1>1, <1>3, <1>9, PositionType
  <2>2. status[s] \notin {"NEW", "FINISHED"}
    BY <1>1, <1>9 DEF Parts, FinishInv, Broken
  <2>3. /\ kv[s] = DecodeInputPosition(s) + 0
        /\ Submitted(s) >= 1 /\ (IsReplay(s) => cursor[s] + 1 < tokens[s])
    BY <1>1, <1>2, <1>6, <2>1 DEF RowInv, Broken
  <2>4. QED BY <2>1, <2>2, <2>3
<1>10. /\ \A s \in Seqs : kv[s] > 0 => s \in resident
       /\ \A s \in Seqs : Holds(s) =>
            \/ s \in X \/ s = preempted \/ s \in Range(decoding) \/ s \in Chosen
            \/ s \in Range(waiting) /\ (status[s] = "RUNNING" \/ prefilled[s] > 0)
  BY <1>1, <1>2, <1>3 DEF OwnerInv
<1>11. /\ \A s \in Seqs : status[s] = "NEW" => tokens[s] = 0 /\ prefilled[s] = 0 /\ inflight[s] = 0 /\ ~IsReplay(s)
       /\ PublishedOnce
  BY <1>1 DEF ProgressInv, Parts, TokenInv
<1>12. /\ resEnd = [s \in Seqs |-> resEnd[s]]
       /\ preempted # None => preempted \in Range(waiting) /\ prefilled[preempted] = 0 /\ scheduled = <<>>
  BY <1>1 DEF DebtInv
<1>13. QED BY <1>1, <1>2, <1>4, <1>5, <1>7, <1>8, <1>9, <1>10, <1>11, <1>12 DEF AtReturn

\* Nothing was selected; the victim of a preemption is released before the
\* pipeline is drained.
LEMMA AsyncSubmitsNothing == ASSUME AsyncInv, SubmitNothing PROVE AsyncInv'
<1>1. PICK X : X = retiring
  OBVIOUS
<1>2. AsyncParts /\ MemInv(X) /\ Parts /\ TypeOK /\ Tickets /\ TicketInv /\ DebtInv /\ PhaseInv
  BY <1>1, PartsOfAsync DEF AsyncParts, Parts, MemInv, KVInv
<1>3. /\ pc = "returned" /\ scheduled = <<>> /\ asyncInflight' = 0 /\ preempted' = None
      /\ UNCHANGED <<waiting, decoding, phase, status, prefilled, chunk, tokens, inflight, cursor, checkpoint,
                     scan, budget, scheduled, skipped, batchTokens, refused, failure, blocked, isPrefill,
                     published, finished, aborted, pending, retiring, discarded, caller>>
  BY DEF SubmitNothing, InSubmit
<1>4. AtReturn(X) /\ error = "none" /\ None \notin Seqs
  BY <1>2, <1>3, FromReturn, SchedulerAssumption DEF PhaseInv
<1>u. PICK u : u = preempted
  OBVIOUS
<1>5. /\ u # None => u \in Seqs /\ u \in Range(waiting) /\ prefilled[u] = 0 /\ pending = <<>>
      /\ pendingReleases = {} /\ releaseFailed = {} /\ Chosen = {} /\ Range(scheduled) = {}
  <2>1. u # None => u \in Seqs /\ u \in Range(waiting) /\ prefilled[u] = 0 /\ pending = <<>>
    BY <1>2, <1>4, <1>u DEF AtReturn, PhaseInv
  <2>2. Range(scheduled) = {}
    BY <1>3, EmptyFacts
  <2>3. QED BY <1>4, <2>1, <2>2 DEF AtReturn
<1>6. \/ /\ u = None /\ pc' = "filled"
         /\ UNCHANGED <<memVars, pendingReleases, releaseFailed, faults, error, feedback>>
      \/ /\ u # None /\ Settled(u) /\ Released(u) /\ pc' = "filled" /\ error' = error
         /\ feedback' = [s \in Seqs |-> IF s \in {u} THEN 0 ELSE feedback[s]]
      \/ /\ u # None /\ Owed(u) /\ Released(u) /\ pc' = "raised" /\ error' = "release"
         /\ feedback' = feedback
  BY <1>2, <1>5, <1>u, AttemptFacts, ReleaseFacts DEF SubmitNothing, Forget, Raise
<1>7. /\ kv' \in [Seqs -> Nat] /\ resident' \subseteq Seqs /\ pendingReleases' \subseteq Seqs
      /\ releaseFailed' \subseteq Seqs /\ faults' \in 0..MaxFaults
  <2>1. CASE u = None
    BY <1>2, <1>6, <2>1 DEF TypeOK, RequestTypes, ReleaseTypes
  <2>2. CASE u # None
    BY <1>2, <1>5, <1>6, <2>2, ReleasedTypes
  <2>3. QED BY <2>1, <2>2
<1>8. pc' \in RestPoints /\ error' \in Errors /\ (~Broken' => pc' = "filled")
  BY <1>4, <1>6 DEF RestPoints, Errors, Broken
<1>9. TypeOK'
  <2>1. /\ waiting \in Seq(Seqs) /\ decoding \in Seq(Seqs) /\ status \in [Seqs -> Statuses]
        /\ {prefilled, tokens, inflight, published} \subseteq [Seqs -> Nat]
        /\ \A s \in Seqs : prefilled[s] <= PromptLen[s]
        /\ isPrefill \in BOOLEAN /\ aborted \subseteq Seqs /\ asyncInflight' \in Nat
    BY <1>2, <1>3 DEF TypeOK, QueueTypes, RequestTypes, CallTypes, ReleaseTypes
  <2>2. QED BY <1>2, <1>3, <1>7, <1>8, <2>1, TypesAtRest
<1>10. \A s : /\ IsReplay(s)' <=> IsReplay(s)
              /\ DecodeInputPosition(s)' = DecodeInputPosition(s) /\ Submitted(s)' = Submitted(s)
  BY <1>3 DEF IsReplay, DecodeInputPosition, Submitted
<1>11. QueuesAtRest'
  BY <1>2, <1>3, <1>4, <1>5, <1>8, <1>10 DEF QueuesAtRest, AtReturn, PublishedOnce, Parts
<1>12. /\ resEnd' = [s \in Seqs |-> resEnd'[s]] /\ releaseFailed' \subseteq pendingReleases'
       /\ pendingReleases' # {} => pc' = "raised"
       /\ \A s \in Seqs : s # u => kv'[s] = kv[s] /\ (s \in resident' <=> s \in resident) /\ (Holds(s)' <=> Holds(s))
       /\ u # None => \/ u \in pendingReleases' /\ (kv'[u] > 0 => u \in resident')
                      \/ ~Holds(u)' /\ kv'[u] = 0
  <2>1. CASE u = None
    BY <1>4, <1>5, <1>6, <2>1 DEF AtReturn, Holds
  <2>2. CASE u # None /\ Settled(u)
    <3>1. pc' \in {"filled", "raised"} /\ pendingReleases' = {} /\ releaseFailed' = {}
      BY <1>5, <1>6, <2>2 DEF Settled
    <3>2. QED BY <1>5, <2>2, <3>1 DEF Settled, OthersKept, Holds
  <2>3. CASE u # None /\ Owed(u) /\ pc' = "raised"
    <3>1. u \in pendingReleases' /\ releaseFailed' \subseteq {u} /\ (kv'[u] > 0 => u \in resident')
      BY <1>4, <1>5, <2>3 DEF Owed, AtReturn
    <3>2. QED BY <1>5, <2>3, <3>1 DEF Owed, OthersKept, Holds
  <2>4. QED BY <1>6, <2>1, <2>2, <2>3
<1>13. RowsAtRest(X)'
  <2>1. \A s \in Seqs : kv'[s] > 0 => s \in resident'
    BY <1>4, <1>12 DEF AtReturn
  <2>2. ASSUME NEW s \in Seqs, Holds(s)'
        PROVE  \/ s \in X \/ s \in pendingReleases' \/ s \in Range(decoding)
               \/ s \in Range(waiting) /\ (status[s] = "RUNNING" \/ prefilled[s] > 0)
    BY <1>4, <1>5, <1>12, <1>u, <2>2 DEF AtReturn
  <2>3. ASSUME ~Broken', NEW s \in Range(waiting)
        PROVE  kv'[s] = prefilled[s] /\ (IsReplay(s) => cursor[s] = 0 /\ tokens[s] >= 1)
    <3>1. s \in Seqs /\ (s = u \/ kv[s] = prefilled[s]) /\ (IsReplay(s) => cursor[s] = 0 /\ tokens[s] >= 1)
      BY <1>4, <1>u, <2>3 DEF AtReturn
    <3>2. CASE s # u
      BY <1>12, <3>1, <3>2
    <3>3. CASE s = u
      <4>1. pc' = "filled" /\ u # None
        BY <1>4, <1>8, <2>3, <3>1, <3>3
      <4>2. kv'[u] = 0
        BY <1>6, <4>1 DEF Settled
      <4>3. QED BY <1>5, <3>1, <3>3, <4>1, <4>2
    <3>4. QED BY <3>2, <3>3
  <2>4. ASSUME NEW s \in Range(decoding)
        PROVE  /\ kv'[s] = DecodeInputPosition(s)
               /\ Submitted(s) >= 1 /\ (IsReplay(s) => cursor[s] + 1 < tokens[s])
    <3>1. s \in Seqs /\ s # u
      BY <1>4, <1>5, <2>4 DEF AtReturn
    <3>2. QED BY <1>4, <1>12, <2>4, <3>1 DEF AtReturn
  <2>5. pendingReleases' # {} => pc' \in {"idle", "settle", "raised"}
    BY <1>12
  <2>6. QED BY <1>3, <1>4, <1>10, <1>12, <2>1, <2>2, <2>3, <2>4, <2>5 DEF RowsAtRest, AtReturn
<1>14. MemInv(X)' /\ IInv'
  BY <1>9, <1>11, <1>13, ToRest DEF MemInv
<1>15. PhaseInv' /\ RoomInv'
  <2>1. pc' = "filled" => pendingReleases' = {}
    BY <1>12
  <2>2. QED BY <1>3, <1>4, <1>6, <2>1 DEF PhaseInv, RoomInv, InCall
<1>16. /\ Held' = Held /\ pc' # "postprocess" /\ feedback \in [Seqs -> Nat]
       /\ \A s \in retiring : status'[s] = "FINISHED" /\ s \notin Held'
       /\ \A s \in Referenced \ discarded : status'[s] \in {"WAITING", "RUNNING"}
  BY <1>2, <1>3, <1>6 DEF Held, TicketInv
<1>17. Tickets'
  <2>1. CASE u = None
    BY <1>2, <1>3, <1>6, <1>16, <2>1, TicketsUntouched
  <2>2. CASE u # None
    <3>1. /\ feedback' \in [Seqs -> Nat]
          /\ \A s \in Seqs : feedback'[s] = 0 \/ (feedback'[s] = feedback[s] /\ tokens'[s] = tokens[s])
      BY <1>3, <1>6, <1>16, <2>2
    <3>2. pending = <<>>
      BY <1>5, <2>2
    <3>3. QED BY <1>2, <1>3, <1>14, <1>16, <3>1, <3>2, NonePending
  <2>3. QED BY <2>1, <2>2
<1>18. QED BY <1>1, <1>3, <1>14, <1>15, <1>17, Assemble

\* The driver gives up a batch: a prefill batch returns to the front of
\* waiting, with its rows as they were, or written in part when it raises.
PutsBack ==
  /\ pc = "returned" /\ scheduled # <<>>
  /\ waiting' = IF isPrefill THEN scheduled \o waiting ELSE waiting
  /\ asyncInflight' = 0 /\ scheduled' = <<>> /\ isPrefill' = FALSE
  /\ \/ pc' = "filled" /\ UNCHANGED <<kv, error, faults>>
     \/ /\ pc' = "raised" /\ error' \in Errors \ {"none"} /\ faults' \in 0..MaxFaults
        /\ kv' \in [Seqs -> Nat] /\ \A s \in Seqs : kv'[s] >= kv[s]
        /\ \A s \in Seqs \ Range(scheduled) : kv'[s] = kv[s]
  /\ UNCHANGED <<decoding, phase, status, prefilled, chunk, tokens, inflight, cursor, checkpoint, resident,
                 resEnd, scan, budget, skipped, batchTokens, refused, failure, blocked, preempted, published,
                 finished, pendingReleases, releaseFailed, aborted, pending, retiring, discarded, feedback,
                 caller>>

\* Such a step keeps the invariant.
LEMMA PutsBackInv == ASSUME AsyncInv, PutsBack PROVE AsyncInv'
<1>1. PICK X : X = retiring
  OBVIOUS
<1>2. AsyncParts /\ MemInv(X) /\ Parts /\ TypeOK /\ Tickets /\ TicketInv /\ PhaseInv /\ NoReleaseInFlight
  BY <1>1, PartsOfAsync DEF AsyncParts, Parts
<1>3. /\ pc = "returned" /\ scheduled # <<>>
      /\ waiting' = IF isPrefill THEN scheduled \o waiting ELSE waiting
      /\ asyncInflight' = 0 /\ scheduled' = <<>> /\ isPrefill' = FALSE
      /\ \/ pc' = "filled" /\ UNCHANGED <<kv, error, faults>>
         \/ /\ pc' = "raised" /\ error' \in Errors \ {"none"} /\ faults' \in 0..MaxFaults
            /\ kv' \in [Seqs -> Nat] /\ \A s \in Seqs : kv'[s] >= kv[s]
            /\ \A s \in Seqs \ Range(scheduled) : kv'[s] = kv[s]
      /\ UNCHANGED <<decoding, phase, status, prefilled, chunk, tokens, inflight, cursor, checkpoint, resident,
                     resEnd, scan, budget, skipped, batchTokens, refused, failure, blocked, preempted, published,
                     finished, pendingReleases, releaseFailed, aborted, pending, retiring, discarded, feedback,
                     caller>>
  BY DEF PutsBack
<1>4. AtReturn(X) /\ error = "none" /\ preempted = None /\ None \notin Seqs
  BY <1>2, <1>3, FromReturn, SchedulerAssumption DEF PhaseInv, AtReturn
<1>5. /\ waiting' \in Seq(Seqs) /\ IsInjective(waiting') /\ Range(waiting') = Range(waiting) \cup Chosen
      /\ Chosen \subseteq Range(scheduled)
  <2>1. isPrefill => Range(scheduled) = Chosen /\ Chosen \cap Range(waiting) = {}
    BY <1>4 DEF AtReturn
  <2>2. CASE isPrefill
    <3>1. waiting' = scheduled \o waiting /\ Range(scheduled) \cap Range(waiting) = {} /\ Range(scheduled) = Chosen
      BY <1>3, <2>1, <2>2
    <3>2. QED BY <1>2, <3>1, ConcatFacts DEF Parts
  <2>3. CASE ~isPrefill
    <3>1. Chosen = {} /\ waiting' = waiting
      BY <1>3, <1>4, <2>3 DEF AtReturn
    <3>2. QED BY <1>2, <3>1 DEF Parts
  <2>4. QED BY <2>2, <2>3
<1>6. pc' \in RestPoints /\ (~Broken' => pc' = "filled") /\ error' \in Errors
  BY <1>2, <1>3, <1>4 DEF RestPoints, Broken, TypeOK, CallTypes
<1>7. kv \in [Seqs -> Nat] /\ kv' \in [Seqs -> Nat] /\ faults' \in 0..MaxFaults
  BY <1>2, <1>3 DEF TypeOK, RequestTypes, ReleaseTypes
<1>8. TypeOK'
  <2>1. /\ decoding \in Seq(Seqs) /\ status \in [Seqs -> Statuses]
        /\ {prefilled, tokens, inflight, published} \subseteq [Seqs -> Nat]
        /\ \A s \in Seqs : prefilled[s] <= PromptLen[s]
        /\ aborted \subseteq Seqs /\ asyncInflight' \in Nat /\ isPrefill' \in BOOLEAN
        /\ resident \subseteq Seqs /\ pendingReleases \subseteq Seqs /\ releaseFailed \subseteq Seqs
        /\ preempted \in Seqs \cup {None}
    BY <1>2, <1>3 DEF TypeOK, QueueTypes, RequestTypes, CallTypes, ReleaseTypes
  <2>2. QED BY <1>2, <1>3, <1>5, <1>6, <1>7, <2>1, TypesAtRest
<1>9. \A s : /\ IsReplay(s)' <=> IsReplay(s)
             /\ DecodeInputPosition(s)' = DecodeInputPosition(s) /\ Submitted(s)' = Submitted(s)
  BY <1>3 DEF IsReplay, DecodeInputPosition, Submitted
<1>10. QueuesAtRest'
  BY <1>2, <1>3, <1>4, <1>5, <1>6, <1>9 DEF QueuesAtRest, AtReturn, PublishedOnce, Parts
<1>11. ASSUME NEW s \in Seqs, s \notin Range(scheduled)
       PROVE  kv'[s] = kv[s] /\ (Holds(s)' <=> Holds(s))
  BY <1>3, <1>11 DEF Holds
<1>12. RowsAtRest(X)'
  <2>1. \A s \in Range(scheduled) : s \in Seqs /\ s \in resident
    BY <1>2, <1>3, BatchRows
  <2>2. \A s \in Seqs : kv'[s] > 0 => s \in resident'
    BY <1>3, <1>4, <1>11, <2>1 DEF AtReturn
  <2>3. ASSUME NEW s \in Seqs, Holds(s)'
        PROVE  \/ s \in X \/ s \in Range(decoding')
               \/ s \in Range(waiting') /\ (status'[s] = "RUNNING" \/ prefilled'[s] > 0)
    <3>1. CASE s \in Range(scheduled)
      <4>1. s \in Range(decoding) \/ (s \in Chosen /\ status[s] = "RUNNING")
        BY <1>4, <3>1 DEF AtReturn
      <4>2. QED BY <1>3, <1>5, <4>1
    <3>2. CASE s \notin Range(scheduled)
      <4>1. Holds(s) /\ s # preempted /\ s \notin Chosen
        BY <1>4, <1>5, <1>11, <2>3, <3>2
      <4>2. QED BY <1>3, <1>4, <1>5, <4>1 DEF AtReturn
    <3>3. QED BY <3>1, <3>2
  <2>4. ASSUME ~Broken'
        PROVE  /\ \A s \in Range(waiting') : kv'[s] = prefilled[s] /\ (IsReplay(s) => cursor[s] = 0 /\ tokens[s] >= 1)
               /\ \A s \in Range(decoding') :
                    /\ kv'[s] = DecodeInputPosition(s)
                    /\ Submitted(s) >= 1 /\ (IsReplay(s) => cursor[s] + 1 < tokens[s])
    <3>1. kv' = kv
      BY <1>3, <1>6, <2>4
    <3>2. \A s \in Range(waiting') : s \in Range(waiting) \cup Chosen /\ s # preempted
      BY <1>4, <1>5 DEF AtReturn
    <3>3. QED BY <1>3, <1>4, <3>1, <3>2 DEF AtReturn
  <2>5. \A s \in Range(waiting') : inflight'[s] = 0
    BY <1>3, <1>4, <1>5 DEF AtReturn
  <2>6. QED BY <1>3, <1>4, <1>9, <2>2, <2>3, <2>4, <2>5 DEF RowsAtRest, AtReturn
<1>13. MemInv(X)'
  BY <1>8, <1>10, <1>12, ToRest
<1>14. PhaseInv' /\ RoomInv'
  <2>1. pendingReleases = {}
    BY <1>4 DEF AtReturn
  <2>2. QED BY <1>3, <1>4, <2>1 DEF PhaseInv, RoomInv, InCall
<1>15. Held' \subseteq Held
  <2>1. Range(scheduled') = {}
    BY <1>3, EmptyFacts
  <2>2. QED BY <1>3, <1>5, <2>1 DEF Held
<1>16. Tickets'
  <2>1. /\ pc' # "postprocess" /\ feedback \in [Seqs -> Nat] /\ discarded = retiring /\ retiring \subseteq Seqs
        /\ \A s \in retiring : status'[s] = "FINISHED" /\ s \notin Held'
        /\ \A s \in Referenced \ discarded : status'[s] \in {"WAITING", "RUNNING"}
    BY <1>2, <1>3, <1>15 DEF TicketInv
  <2>2. \A s \in Seqs : kv[s] > 0 => kv'[s] > 0
    BY <1>3, <1>7
  <2>3. \A s \in Referenced : kv'[s] > 0 /\ s \in resident'
    BY <1>2, <1>3, <2>2, ReferencedSeqs DEF NoReleaseInFlight
  <2>4. QED BY <1>2, <1>3, <2>1, <2>3, PendingKept
<1>17. QED BY <1>1, <1>3, <1>13, <1>14, <1>16, Assemble

\* A batch with a replay is left to a synchronous step, and a submission may
\* raise part way.
LEMMA AsyncPutsBack == ASSUME AsyncInv, SubmitReplay \/ SubmitFails PROVE AsyncInv'
<1>1. PICK X : X = retiring
  OBVIOUS
<1>2. Parts /\ faults \in 0..MaxFaults
  BY <1>1, PartsOfAsync DEF AsyncParts, Parts, TypeOK, ReleaseTypes
<1>3. CASE SubmitReplay
  <2>1. scheduled # <<>>
    <3>1. PICK s \in Range(scheduled) : IsReplay(s)
      BY <1>3 DEF SubmitReplay
    <3>2. QED BY <3>1, EmptyFacts
  <2>2. PutsBack
    BY <1>3, <2>1 DEF SubmitReplay, InSubmit, PutsBack, asyncVars
  <2>3. QED BY <2>2, PutsBackInv
<1>4. CASE SubmitFails
  <2>1. /\ pc' = "raised" /\ error' = "submit" /\ faults < MaxFaults /\ faults' = faults + 1 /\ PartlyAllocated
    BY <1>4 DEF SubmitFails, Raise
  <2>2. faults' \in 0..MaxFaults /\ error' \in Errors \ {"none"}
    BY <1>2, <2>1, FaultAssumption DEF Errors
  <2>3. PICK n \in 0..Len(scheduled) : Allocate(Range(SubSeq(scheduled, 1, n)))
    BY <2>1 DEF PartlyAllocated
  <2>4. PICK B : B = Range(SubSeq(scheduled, 1, n))
    OBVIOUS
  <2>5. B \subseteq Range(scheduled)
    <3>1. Len(scheduled) \in Nat /\ scheduled \in Seq(Seqs)
      BY <1>2, RangeFacts DEF Parts
    <3>2. \A i \in DOMAIN SubSeq(scheduled, 1, n) : i \in DOMAIN scheduled /\ SubSeq(scheduled, 1, n)[i] = scheduled[i]
      BY <2>3, <3>1
    <3>3. QED BY <2>4, <3>2 DEF Range
  <2>6. /\ kv' = [s \in Seqs |-> IF s \in B THEN kv[s] + StepSlots(s) ELSE kv[s]]
        /\ UNCHANGED <<resident, resEnd>>
    BY <2>3, <2>4 DEF Allocate
  <2>7. \A s \in Seqs : kv[s] \in Nat /\ StepSlots(s) \in Nat
    BY <1>2, PositionType DEF StepSlots
  <2>8. /\ kv' \in [Seqs -> Nat] /\ \A s \in Seqs : kv'[s] >= kv[s]
        /\ \A s \in Seqs \ Range(scheduled) : kv'[s] = kv[s]
    BY <2>5, <2>6, <2>7
  <2>9. PutsBack
    BY <1>4, <2>1, <2>2, <2>6, <2>8 DEF SubmitFails, InSubmit, PutsBack, asyncVars
  <2>10. QED BY <2>9, PutsBackInv
<1>5. QED BY <1>3, <1>4

\* A submission, with its batch B and those of it, P, whose output will come.
Submits(B, P) ==
  /\ pc = "returned" /\ scheduled # <<>> /\ B = Range(scheduled)
  /\ P = {s \in B : ~isPrefill \/ LastChunk(s)} /\ \A s \in B : ~IsReplay(s)
  /\ pc' = "fill" /\ asyncInflight' = 0 /\ scheduled' = <<>> /\ isPrefill' = FALSE
  /\ kv' = [s \in Seqs |-> IF s \in B THEN kv[s] + StepSlots(s) ELSE kv[s]]
  /\ pending' = Append(pending, [seqs |-> B, publishes |-> P,
                                 fed |-> [s \in B |-> IF isPrefill THEN 0 ELSE Fed(s)]])
  /\ feedback' = [s \in Seqs |-> IF s \notin P THEN feedback[s] ELSE IF isPrefill THEN 1 ELSE Fed(s) + 1]
  /\ inflight' = [s \in Seqs |-> IF s \in P THEN inflight[s] + 1 ELSE inflight[s]]
  /\ prefilled' = [s \in Seqs |-> IF isPrefill /\ s \in B THEN prefilled[s] + chunk[s] ELSE prefilled[s]]
  /\ status' = [s \in Seqs |-> IF s \in B \ P THEN "WAITING" ELSE IF s \in P THEN "RUNNING" ELSE status[s]]
  /\ waiting' = Reverse(Keep(scheduled, B \ P)) \o waiting
  /\ decoding' = IF isPrefill THEN decoding \o Keep(scheduled, P) ELSE decoding
  /\ UNCHANGED <<phase, chunk, tokens, cursor, checkpoint, resident, resEnd, error, scan, budget, skipped,
                 batchTokens, refused, failure, blocked, preempted, published, finished, pendingReleases,
                 releaseFailed, aborted, faults, retiring, discarded, caller>>

\* Submit is such a step.
LEMMA SubmitParts == ASSUME Submit PROVE \E B, P : Submits(B, P)
<1>1. PICK B : B = Range(scheduled)
  OBVIOUS
<1>2. PICK P : P = {s \in B : ~isPrefill \/ LastChunk(s)}
  OBVIOUS
<1>3. status' = [s \in Seqs |-> IF s \in B \ P THEN "WAITING" ELSE IF s \in P THEN "RUNNING" ELSE status[s]]
  <2>1. status' = [s \in Seqs |-> CASE s \in B \ P -> "WAITING" [] s \in P -> "RUNNING" [] OTHER -> status[s]]
    BY <1>1, <1>2 DEF Submit
  <2>2. \A s \in Seqs : (CASE s \in B \ P -> "WAITING" [] s \in P -> "RUNNING" [] OTHER -> status[s])
                          = IF s \in B \ P THEN "WAITING" ELSE IF s \in P THEN "RUNNING" ELSE status[s]
    OBVIOUS
  <2>3. QED BY <2>1, <2>2
<1>4. /\ pc = "returned" /\ scheduled # <<>> /\ \A s \in B : ~IsReplay(s)
      /\ kv' = [s \in Seqs |-> IF s \in B THEN kv[s] + StepSlots(s) ELSE kv[s]]
      /\ UNCHANGED <<resident, resEnd>>
  BY <1>1 DEF Submit, InSubmit, Allocate
<1>5. /\ pc' = "fill" /\ asyncInflight' = 0 /\ scheduled' = <<>> /\ isPrefill' = FALSE
      /\ UNCHANGED <<phase, chunk, tokens, cursor, checkpoint, error, scan, budget, skipped,
                     batchTokens, refused, failure, blocked, preempted, published, finished, pendingReleases,
                     releaseFailed, aborted, faults, retiring, discarded, caller>>
  BY DEF Submit
<1>6. /\ pending' = Append(pending, [seqs |-> B, publishes |-> P,
                                     fed |-> [s \in B |-> IF isPrefill THEN 0 ELSE Fed(s)]])
      /\ feedback' = [s \in Seqs |-> IF s \notin P THEN feedback[s] ELSE IF isPrefill THEN 1 ELSE Fed(s) + 1]
      /\ inflight' = [s \in Seqs |-> IF s \in P THEN inflight[s] + 1 ELSE inflight[s]]
  BY <1>1, <1>2 DEF Submit
<1>7. /\ prefilled' = [s \in Seqs |-> IF isPrefill /\ s \in B THEN prefilled[s] + chunk[s] ELSE prefilled[s]]
      /\ waiting' = Reverse(Keep(scheduled, B \ P)) \o waiting
      /\ decoding' = IF isPrefill THEN decoding \o Keep(scheduled, P) ELSE decoding
  BY <1>1, <1>2 DEF Submit
<1>8. Submits(B, P)
  BY <1>1, <1>2, <1>3, <1>4, <1>5, <1>6, <1>7 DEF Submits
<1>9. QED BY <1>8

\* The batch leaves the hands of the driver: what still has prompt waits, what
\* will sample decodes.
LEMMA SubmitQueues ==
  ASSUME NEW X, Parts, AtReturn(X), NEW B, NEW P, Submits(B, P)
  PROVE  /\ waiting' \in Seq(Seqs) /\ IsInjective(waiting') /\ Range(waiting') = Range(waiting) \cup (B \ P)
         /\ decoding' \in Seq(Seqs) /\ IsInjective(decoding') /\ Range(decoding') = Range(decoding) \cup P
         /\ Range(waiting') \cap Range(decoding') = {}
         /\ B \subseteq Seqs /\ B \cap Range(waiting) = {} /\ P \subseteq B
         /\ IF isPrefill THEN B = Chosen ELSE P = B /\ B \subseteq Range(decoding) /\ Chosen = {}
<1>1. /\ B = Range(scheduled) /\ P = {s \in B : ~isPrefill \/ LastChunk(s)}
      /\ waiting' = Reverse(Keep(scheduled, B \ P)) \o waiting
      /\ decoding' = IF isPrefill THEN decoding \o Keep(scheduled, P) ELSE decoding
  BY DEF Submits
<1>2. /\ waiting \in Seq(Seqs) /\ decoding \in Seq(Seqs) /\ scheduled \in Seq(Seqs) /\ B \subseteq Seqs
      /\ IsInjective(waiting) /\ IsInjective(decoding) /\ IsInjective(scheduled)
  BY <1>1 DEF Parts
<1>3. /\ Range(waiting) \cap Range(decoding) = {} /\ B \cap Range(waiting) = {}
      /\ IF isPrefill THEN B = Chosen /\ B \cap Range(decoding) = {} ELSE P = B /\ B \subseteq Range(decoding) /\ Chosen = {}
  BY <1>1 DEF AtReturn
<1>4. P \subseteq B
  BY <1>1
<1>5. PICK part : part = B \ P
  OBVIOUS
<1>6. /\ Keep(scheduled, part) \in Seq(Seqs) /\ Range(Keep(scheduled, part)) = part
      /\ IsInjective(Keep(scheduled, part))
  <2>1. Range(scheduled) \cap part = part
    BY <1>1, <1>5
  <2>2. QED BY <1>2, <2>1, KeepFacts
<1>7. PICK r : r = Reverse(Keep(scheduled, part))
  OBVIOUS
<1>8. r \in Seq(Seqs) /\ Range(r) = part /\ IsInjective(r)
  BY <1>6, <1>7, ReverseFacts
<1>9. /\ waiting' \in Seq(Seqs) /\ IsInjective(waiting') /\ Range(waiting') = Range(waiting) \cup (B \ P)
  <2>1. waiting' = r \o waiting /\ Range(r) \cap Range(waiting) = {}
    BY <1>1, <1>3, <1>5, <1>7, <1>8
  <2>2. QED BY <1>2, <1>5, <1>8, <2>1, ConcatFacts
<1>10. /\ decoding' \in Seq(Seqs) /\ IsInjective(decoding') /\ Range(decoding') = Range(decoding) \cup P
  <2>1. CASE isPrefill
    <3>1. PICK k : k = Keep(scheduled, P)
      OBVIOUS
    <3>2. Range(scheduled) \cap P = P
      BY <1>1, <1>4
    <3>3. k \in Seq(Seqs) /\ Range(k) = P /\ IsInjective(k)
      BY <1>2, <3>1, <3>2, KeepFacts
    <3>4. decoding' = decoding \o k /\ Range(decoding) \cap Range(k) = {}
      BY <1>1, <1>3, <1>4, <2>1, <3>1, <3>3
    <3>5. QED BY <1>2, <3>3, <3>4, ConcatFacts
  <2>2. CASE ~isPrefill
    <3>1. decoding' = decoding /\ Range(decoding) \cup P = Range(decoding)
      BY <1>1, <1>3, <2>2
    <3>2. QED BY <1>2, <3>1
  <2>3. QED BY <2>1, <2>2
<1>11. Range(waiting') \cap Range(decoding') = {}
  <2>1. CASE isPrefill
    BY <1>3, <1>4, <1>9, <1>10, <2>1
  <2>2. CASE ~isPrefill
    BY <1>3, <1>4, <1>9, <1>10, <2>2
  <2>3. QED BY <2>1, <2>2
<1>12. QED BY <1>2, <1>3, <1>4, <1>9, <1>10, <1>11

\* What the submission does to one request of its batch: its row grows to
\* where its next forward writes.
Grows(s) ==
  /\ kv'[s] > 0 /\ s \in resident /\ kv'[s] \in Nat /\ inflight'[s] \in Nat
  /\ prefilled'[s] \in Nat /\ prefilled'[s] <= PromptLen[s]

\* A request whose prompt goes on.
LEMMA GrowsPart ==
  ASSUME NEW X, Parts, AtReturn(X), NEW B, NEW P, Submits(B, P), NEW s \in B \ P
  PROVE  /\ Grows(s) /\ kv'[s] = prefilled'[s] /\ prefilled'[s] > 0 /\ inflight'[s] = 0
         /\ status'[s] = "WAITING" /\ feedback'[s] = feedback[s] /\ Submitted(s)' = Submitted(s) /\ tokens[s] = 0
<1>1. /\ B \subseteq Seqs /\ (IF isPrefill THEN B = Chosen ELSE P = B) /\ s \in Seqs
  BY SubmitQueues
<1>2. isPrefill /\ s \in Chosen /\ ~IsReplay(s)
  BY <1>1 DEF Submits
<1>3. /\ inflight[s] = 0 /\ tokens[s] = 0 /\ (s = preempted \/ kv[s] = prefilled[s]) /\ chunk[s] >= 1
      /\ s \in resident /\ prefilled[s] + chunk[s] <= PromptLen[s]
  BY <1>2 DEF AtReturn
<1>4. s # preempted
  BY <1>1, SchedulerAssumption DEF Submits, AtReturn
<1>5. /\ kv'[s] = kv[s] + chunk[s] /\ prefilled'[s] = prefilled[s] + chunk[s] /\ inflight'[s] = inflight[s]
      /\ status'[s] = "WAITING" /\ feedback'[s] = feedback[s] /\ tokens' = tokens
  BY <1>1, <1>2 DEF Submits, StepSlots
<1>6. kv[s] \in Nat /\ prefilled[s] \in Nat /\ chunk[s] \in Nat
  BY <1>1, PositionType
<1>7. QED BY <1>3, <1>4, <1>5, <1>6 DEF Grows, Submitted

\* A request whose output will come: it was fed the last token asked for.
LEMMA GrowsPub ==
  ASSUME NEW X, Parts, AtReturn(X), RoomInv, InflightExact, FeedInv, NEW B, NEW P, Submits(B, P),
         NEW s \in P, s \notin discarded
  PROVE  /\ Grows(s) /\ kv'[s] = DecodeInputPosition(s)' /\ inflight'[s] = inflight[s] + 1
         /\ Submitted(s)' = Submitted(s) + 1 /\ Submitted(s)' <= MaxTokens[s] /\ Submitted(s)' >= 1
         /\ status'[s] = "RUNNING" /\ feedback'[s] = Submitted(s)' /\ feedback'[s] # 0
         /\ (IF isPrefill THEN 0 ELSE Fed(s)) = tokens[s] + inflight[s]
<1>1. /\ B \subseteq Seqs /\ s \in Seqs /\ s \in B /\ P \subseteq B
      /\ IF isPrefill THEN B = Chosen ELSE P = B /\ B \subseteq Range(decoding) /\ Chosen = {}
  BY SubmitQueues
<1>2. /\ ~IsReplay(s) /\ B = Range(scheduled) /\ pc = "returned" /\ (isPrefill => LastChunk(s))
      /\ preempted = None /\ s # preempted
  BY <1>1, SchedulerAssumption DEF Submits, AtReturn
<1>3. /\ kv[s] \in Nat /\ prefilled[s] \in Nat /\ tokens[s] \in Nat /\ inflight[s] \in Nat
      /\ chunk[s] \in Nat /\ PromptLen[s] \in Nat \ {0} /\ MaxTokens[s] \in Nat \ {0}
      /\ prefilled[s] <= PromptLen[s]
  BY <1>1, PositionType DEF Parts, TypeOK, RequestTypes
<1>4. /\ kv'[s] = kv[s] + StepSlots(s) /\ inflight'[s] = inflight[s] + 1 /\ status'[s] = "RUNNING"
      /\ tokens' = tokens /\ cursor' = cursor /\ resident' = resident
      /\ prefilled'[s] = IF isPrefill THEN prefilled[s] + chunk[s] ELSE prefilled[s]
      /\ feedback'[s] = IF isPrefill THEN 1 ELSE Fed(s) + 1
  BY <1>1 DEF Submits
<1>5. ~IsReplay(s)' /\ Submitted(s)' = Submitted(s) + 1 /\ Submitted(s) = tokens[s] + inflight[s]
      /\ DecodeInputPosition(s)' = PromptLen[s] + Submitted(s)
  BY <1>2, <1>3, <1>4 DEF IsReplay, Submitted, DecodeInputPosition
<1>6. CASE isPrefill
  <2>1. /\ inflight[s] = 0 /\ tokens[s] = 0 /\ kv[s] = prefilled[s] /\ chunk[s] >= 1
        /\ s \in resident /\ prefilled[s] + chunk[s] <= PromptLen[s]
    BY <1>1, <1>2, <1>6 DEF AtReturn
  <2>2. prefilled[s] + chunk[s] = PromptLen[s]
    BY <1>2, <1>3, <1>6, <2>1 DEF LastChunk
  <2>3. kv'[s] = PromptLen[s] /\ Submitted(s) = 0
    BY <1>3, <1>4, <1>5, <1>6, <2>1, <2>2 DEF StepSlots
  <2>4. QED BY <1>3, <1>4, <1>5, <1>6, <2>1, <2>2, <2>3 DEF Grows
<1>7. CASE ~isPrefill
  <2>1. s \in Range(decoding) /\ kv[s] = DecodeInputPosition(s) /\ Submitted(s) >= 1
    BY <1>1, <1>7 DEF AtReturn
  <2>2. Submitted(s) < MaxTokens[s]
    BY <1>1, <1>2, <1>7 DEF RoomInv
  <2>3. kv[s] = PromptLen[s] + Submitted(s) - 1 /\ Submitted(s) \in Nat
    BY <1>2, <1>3, <1>5, <2>1 DEF DecodeInputPosition
  <2>4. kv'[s] = PromptLen[s] + Submitted(s) /\ kv[s] > 0
    BY <1>3, <1>4, <1>7, <2>1, <2>3 DEF StepSlots
  <2>5. s \in resident
    BY <1>1, <2>4 DEF AtReturn
  <2>6. feedback[s] \in {0, Submitted(s)} /\ (inflight[s] > 0 => feedback[s] # 0)
    BY <1>1 DEF FeedInv
  <2>7. Fed(s) = Submitted(s)
    BY <1>3, <1>5, <2>6 DEF Fed
  <2>8. QED BY <1>3, <1>4, <1>5, <1>7, <2>1, <2>2, <2>3, <2>4, <2>5, <2>7 DEF Grows
<1>8. QED BY <1>6, <1>7

\* Who is not in the batch notices nothing.
LEMMA SubmitOthers ==
  ASSUME NEW B, NEW P, Submits(B, P), P \subseteq B, NEW s \in Seqs, s \notin B
  PROVE  /\ kv'[s] = kv[s] /\ inflight'[s] = inflight[s] /\ prefilled'[s] = prefilled[s] /\ status'[s] = status[s]
         /\ feedback'[s] = feedback[s] /\ Submitted(s)' = Submitted(s) /\ (IsReplay(s)' <=> IsReplay(s))
         /\ DecodeInputPosition(s)' = DecodeInputPosition(s) /\ (Holds(s)' <=> Holds(s))
<1>1. /\ kv'[s] = kv[s] /\ inflight'[s] = inflight[s] /\ prefilled'[s] = prefilled[s] /\ status'[s] = status[s]
      /\ feedback'[s] = feedback[s] /\ UNCHANGED <<tokens, cursor, resident, resEnd>>
  BY DEF Submits
<1>2. QED BY <1>1 DEF Submitted, IsReplay, DecodeInputPosition, Holds

\* A forward is submitted: the rows grow, and the tickets gain one.
LEMMA AsyncSubmits == ASSUME AsyncInv, Submit PROVE AsyncInv'
<1>1. PICK X : X = retiring
  OBVIOUS
<1>2. /\ AsyncParts /\ MemInv(X) /\ Parts /\ TypeOK /\ Tickets /\ TicketInv /\ PhaseInv /\ NoReleaseInFlight
      /\ RoomInv /\ InflightExact /\ FeedInv /\ FeedbackCurrent
  BY <1>1, PartsOfAsync DEF AsyncParts, Parts
<1>3. PICK B, P : Submits(B, P)
  BY SubmitParts
<1>4. AtReturn(X) /\ error = "none" /\ None \notin Seqs /\ preempted = None
  <2>1. pc = "returned" /\ scheduled # <<>>
    BY <1>3 DEF Submits
  <2>2. AtReturn(X) /\ error = "none"
    BY <1>2, <2>1, FromReturn DEF PhaseInv
  <2>3. QED BY <2>1, <2>2, SchedulerAssumption DEF AtReturn
<1>5. /\ waiting' \in Seq(Seqs) /\ IsInjective(waiting') /\ Range(waiting') = Range(waiting) \cup (B \ P)
      /\ decoding' \in Seq(Seqs) /\ IsInjective(decoding') /\ Range(decoding') = Range(decoding) \cup P
      /\ Range(waiting') \cap Range(decoding') = {}
      /\ B \subseteq Seqs /\ B \cap Range(waiting) = {} /\ P \subseteq B
      /\ IF isPrefill THEN B = Chosen ELSE P = B /\ B \subseteq Range(decoding) /\ Chosen = {}
  BY <1>2, <1>3, <1>4, SubmitQueues
<1>6. /\ pc = "returned" /\ B = Range(scheduled) /\ \A s \in B : ~IsReplay(s)
      /\ pc' = "fill" /\ asyncInflight' = 0 /\ scheduled' = <<>> /\ isPrefill' = FALSE
      /\ UNCHANGED <<phase, chunk, tokens, cursor, checkpoint, resident, resEnd, error, scan, budget, skipped,
                     batchTokens, refused, failure, blocked, preempted, published, finished, pendingReleases,
                     releaseFailed, aborted, faults, retiring, discarded, caller>>
  BY <1>3 DEF Submits
<1>7. /\ discarded = retiring /\ retiring \subseteq Seqs /\ feedback \in [Seqs -> Nat]
      /\ pending \in Seq(Range(pending)) /\ \A s \in retiring : status[s] = "FINISHED" /\ s \notin Held
      /\ B \cap retiring = {} /\ Held' \subseteq Held
  <2>1. B \subseteq Held /\ Range(scheduled') = {}
    BY <1>6, EmptyFacts DEF Held
  <2>2. Held' \subseteq Held
    BY <1>5, <1>6, <2>1 DEF Held
  <2>3. QED BY <1>2, <2>1, <2>2 DEF TicketInv
<1>8. ASSUME NEW s \in B \ P
      PROVE  /\ Grows(s) /\ kv'[s] = prefilled'[s] /\ prefilled'[s] > 0 /\ inflight'[s] = 0
             /\ status'[s] = "WAITING" /\ feedback'[s] = feedback[s] /\ Submitted(s)' = Submitted(s) /\ tokens[s] = 0
  BY <1>2, <1>3, <1>4, <1>8, GrowsPart
<1>9. ASSUME NEW s \in P
      PROVE  /\ Grows(s) /\ kv'[s] = DecodeInputPosition(s)' /\ inflight'[s] = inflight[s] + 1
             /\ Submitted(s)' = Submitted(s) + 1 /\ Submitted(s)' <= MaxTokens[s] /\ Submitted(s)' >= 1
             /\ status'[s] = "RUNNING" /\ feedback'[s] = Submitted(s)' /\ feedback'[s] # 0
             /\ (IF isPrefill THEN 0 ELSE Fed(s)) = tokens[s] + inflight[s]
  <2>1. s \notin discarded
    BY <1>5, <1>7, <1>9
  <2>2. QED BY <1>2, <1>3, <1>4, <1>9, <2>1, GrowsPub
<1>10. ASSUME NEW s \in Seqs, s \notin B
       PROVE  /\ kv'[s] = kv[s] /\ inflight'[s] = inflight[s] /\ prefilled'[s] = prefilled[s] /\ status'[s] = status[s]
              /\ feedback'[s] = feedback[s] /\ Submitted(s)' = Submitted(s) /\ (IsReplay(s)' <=> IsReplay(s))
              /\ DecodeInputPosition(s)' = DecodeInputPosition(s) /\ (Holds(s)' <=> Holds(s))
  BY <1>3, <1>5, <1>10, SubmitOthers
<1>11. \A s \in B : Grows(s) /\ status'[s] \in {"WAITING", "RUNNING"} /\ ~IsReplay(s)'
  <2>1. \A s \in B : ~IsReplay(s)'
    BY <1>6 DEF IsReplay
  <2>2. QED BY <1>8, <1>9, <2>1
<1>12. TypeOK'
  <2>1. \A s \in Seqs : kv'[s] \in Nat /\ inflight'[s] \in Nat /\ prefilled'[s] \in Nat /\ prefilled'[s] <= PromptLen[s]
                        /\ status'[s] \in Statuses
    <3>1. \A s \in Seqs : kv[s] \in Nat /\ inflight[s] \in Nat /\ prefilled[s] \in Nat /\ prefilled[s] <= PromptLen[s]
                          /\ status[s] \in Statuses
      BY <1>2 DEF TypeOK, RequestTypes
    <3>2. QED BY <1>10, <1>11, <3>1 DEF Grows
  <2>2. /\ kv' = [s \in Seqs |-> kv'[s]] /\ inflight' = [s \in Seqs |-> inflight'[s]]
        /\ prefilled' = [s \in Seqs |-> prefilled'[s]] /\ status' = [s \in Seqs |-> status'[s]]
    BY <1>3 DEF Submits
  <2>3. {prefilled', inflight', kv'} \subseteq [Seqs -> Nat] /\ status' \in [Seqs -> Statuses]
    BY <2>1, <2>2
  <2>4. /\ {tokens', published'} \subseteq [Seqs -> Nat] /\ error' \in Errors /\ faults' \in 0..MaxFaults
        /\ resident' \subseteq Seqs /\ preempted' \in Seqs \cup {None} /\ isPrefill' \in BOOLEAN
        /\ pendingReleases' \subseteq Seqs /\ releaseFailed' \subseteq Seqs /\ aborted' \subseteq Seqs
        /\ asyncInflight' \in Nat /\ pc' \in RestPoints
    BY <1>2, <1>6 DEF TypeOK, RequestTypes, CallTypes, ReleaseTypes, RestPoints
  <2>5. {prefilled', tokens', inflight', kv', published'} \subseteq [Seqs -> Nat] /\ \A s \in Seqs : prefilled'[s] <= PromptLen[s]
    BY <2>1, <2>3, <2>4
  <2>6. QED BY <1>2, <1>5, <1>6, <2>3, <2>4, <2>5, TypesAtRest
<1>13. QueuesAtRest'
  <2>1. \A s \in Seqs : status'[s] \in {"WAITING", "RUNNING"} => s \in Range(waiting') \cup Range(decoding')
    BY <1>4, <1>5, <1>10 DEF AtReturn
  <2>2. \A s \in Range(waiting') \cup Range(decoding') : s \in B \/ (s \in Seqs /\ s \notin B /\ s \in Range(waiting) \cup Range(decoding))
    BY <1>4, <1>5 DEF AtReturn
  <2>3. \A s \in Range(waiting') \cup Range(decoding') : status'[s] \notin {"NEW", "FINISHED"}
    BY <1>4, <1>10, <1>11, <2>2 DEF AtReturn
  <2>4. PublishedOnce'
    BY <1>4, <1>6 DEF AtReturn, PublishedOnce
  <2>5. \A s \in Seqs : status'[s] = "NEW" => tokens'[s] = 0
    BY <1>4, <1>6, <1>10, <1>11 DEF AtReturn
  <2>6. ASSUME NEW s \in Range(waiting'), ~IsReplay(s)' PROVE tokens'[s] = 0
    <3>1. CASE s \in B \ P
      BY <1>6, <1>8, <3>1
    <3>2. CASE s \in Range(waiting)
      BY <1>4, <1>6, <2>6, <3>2 DEF AtReturn, IsReplay
    <3>3. QED BY <1>5, <2>6, <3>1, <3>2
  <2>7. skipped' = <<>> /\ blocked' = None /\ pc' \in RestPoints
    BY <1>4, <1>6 DEF AtReturn, RestPoints
  <2>8. QED BY <1>5, <1>6, <2>1, <2>3, <2>4, <2>5, <2>6, <2>7 DEF QueuesAtRest
<1>14. RowsAtRest(X)'
  <2>1. ASSUME NEW s \in Seqs, kv'[s] > 0 PROVE s \in resident'
    BY <1>4, <1>6, <1>10, <1>11, <2>1 DEF AtReturn, Grows
  <2>2. ASSUME NEW s \in Seqs, Holds(s)'
        PROVE  \/ s \in X \/ s \in Range(decoding')
               \/ s \in Range(waiting') /\ (status'[s] = "RUNNING" \/ prefilled'[s] > 0)
    <3>1. CASE s \in B
      BY <1>5, <1>8, <3>1
    <3>2. CASE s \notin B
      <4>1. Holds(s) /\ s # preempted /\ s \notin Chosen /\ status'[s] = status[s] /\ prefilled'[s] = prefilled[s]
        BY <1>4, <1>5, <1>10, <2>2, <3>2
      <4>2. QED BY <1>4, <1>5, <4>1 DEF AtReturn
    <3>3. QED BY <3>1, <3>2
  <2>3. ASSUME NEW s \in Range(waiting')
        PROVE  kv'[s] = prefilled'[s] /\ (IsReplay(s)' => cursor'[s] = 0 /\ tokens'[s] >= 1) /\ inflight'[s] = 0
    <3>1. CASE s \in B \ P
      BY <1>8, <1>11, <3>1
    <3>2. CASE s \in Range(waiting)
      <4>1. s \in Seqs /\ s \notin B /\ s # preempted
        BY <1>4, <1>5, <3>2 DEF AtReturn
      <4>2. kv[s] = prefilled[s] /\ (IsReplay(s) => cursor[s] = 0 /\ tokens[s] >= 1) /\ inflight[s] = 0
        BY <1>4, <3>2, <4>1 DEF AtReturn
      <4>3. QED BY <1>6, <1>10, <4>1, <4>2
    <3>3. QED BY <1>5, <2>3, <3>1, <3>2
  <2>4. ASSUME NEW s \in Range(decoding')
        PROVE  /\ kv'[s] = DecodeInputPosition(s)' /\ Submitted(s)' >= 1
               /\ (IsReplay(s)' => cursor'[s] + 1 < tokens'[s])
    <3>1. CASE s \in P
      BY <1>5, <1>9, <1>11, <3>1
    <3>2. CASE s \in Range(decoding) /\ s \notin P
      <4>1. s \in Seqs /\ s \notin B
        BY <1>4, <1>5, <3>2 DEF AtReturn
      <4>2. kv[s] = DecodeInputPosition(s) /\ Submitted(s) >= 1 /\ (IsReplay(s) => cursor[s] + 1 < tokens[s])
        BY <1>4, <3>2 DEF AtReturn
      <4>3. QED BY <1>6, <1>10, <4>1, <4>2
    <3>3. QED BY <1>5, <2>4, <3>1, <3>2
  <2>5. \A s \in Seqs : status'[s] = "NEW" => prefilled'[s] = 0 /\ inflight'[s] = 0 /\ ~IsReplay(s)'
    BY <1>4, <1>10, <1>11 DEF AtReturn
  <2>6. /\ preempted' = None /\ resEnd' = [s \in Seqs |-> resEnd'[s]]
        /\ releaseFailed' = {} /\ pendingReleases' = {}
    BY <1>4, <1>6 DEF AtReturn
  <2>7. QED BY <2>1, <2>2, <2>3, <2>4, <2>5, <2>6 DEF RowsAtRest
<1>15. MemInv(X)'
  BY <1>12, <1>13, <1>14, ToRest
<1>16. PhaseInv' /\ RoomInv'
  <2>1. pendingReleases = {}
    BY <1>4 DEF AtReturn
  <2>2. QED BY <1>4, <1>6, <2>1 DEF PhaseInv, RoomInv, InCall
<1>17. PICK t : t = [seqs |-> B, publishes |-> P, fed |-> [s \in B |-> IF isPrefill THEN 0 ELSE Fed(s)]]
  OBVIOUS
<1>18. PICK n : n = Len(pending) + 1
  OBVIOUS
<1>19. /\ t.seqs = B /\ t.publishes = P /\ \A s \in B : t.fed[s] = IF isPrefill THEN 0 ELSE Fed(s)
  BY <1>17
<1>20. pending' = Append(pending, t)
  BY <1>3, <1>17 DEF Submits
<1>21. /\ pending' \in Seq(Range(pending)') /\ DOMAIN pending' = DOMAIN pending \cup {n}
       /\ pending'[n] = t /\ \A i \in DOMAIN pending : pending'[i] = pending[i]
       /\ Referenced' = Referenced \cup B
  BY <1>7, <1>18, <1>19, <1>20, NewTicket
<1>22. ASSUME NEW s
       PROVE  /\ Cardinality(TicketsOf(s)') =
                   IF s \in P THEN Cardinality(TicketsOf(s)) + 1 ELSE Cardinality(TicketsOf(s))
              /\ Before(s, n)' = Cardinality(TicketsOf(s))
              /\ \A i \in DOMAIN pending : Before(s, i)' = Before(s, i)
  BY <1>7, <1>18, <1>19, <1>20, NewTicketOf
<1>23. Referenced \subseteq Seqs /\ \A i \in DOMAIN pending : pending[i].publishes \subseteq Seqs
  BY <1>2, ReferencedSeqs, PublishedReferenced
<1>24. TicketInv'
  <2>1. \A s \in retiring' : status'[s] = "FINISHED" /\ s \notin Held'
    BY <1>6, <1>7, <1>10
  <2>2. ASSUME NEW i \in DOMAIN pending'
        PROVE  /\ pending'[i].publishes \subseteq pending'[i].seqs /\ pending'[i].seqs \subseteq Seqs
               /\ \A s \in pending'[i].publishes \ discarded' : ~IsReplay(s)'
    <3>1. CASE i = n
      BY <1>5, <1>11, <1>19, <1>21, <3>1
    <3>2. CASE i \in DOMAIN pending
      <4>1. /\ pending[i].publishes \subseteq pending[i].seqs /\ pending[i].seqs \subseteq Seqs
            /\ \A s \in pending[i].publishes \ discarded : ~IsReplay(s)
        BY <1>2, <3>2 DEF TicketInv
      <4>2. \A s : IsReplay(s)' <=> IsReplay(s)
        BY <1>6 DEF IsReplay
      <4>3. QED BY <1>6, <1>21, <3>2, <4>1, <4>2
    <3>3. QED BY <1>21, <2>2, <3>1, <3>2
  <2>3. ASSUME NEW s \in Referenced' \ discarded' PROVE status'[s] \in {"WAITING", "RUNNING"}
    <3>1. CASE s \in B
      BY <1>11, <3>1
    <3>2. CASE s \notin B
      <4>1. s \in Referenced \ discarded /\ s \in Seqs
        BY <1>6, <1>21, <1>23, <2>3, <3>2
      <4>2. QED BY <1>2, <1>10, <3>2, <4>1 DEF TicketInv
    <3>3. QED BY <3>1, <3>2
  <2>4. feedback' \in [Seqs -> Nat]
    <3>1. \A s \in Seqs : feedback'[s] \in Nat
      <4>1. \A s \in P : feedback'[s] \in Nat
        <5>1. \A s \in P : Submitted(s)' = Submitted(s) + 1 /\ feedback'[s] = Submitted(s)' /\ s \in Seqs
          BY <1>5, <1>9
        <5>2. \A s \in Seqs : Submitted(s) \in Nat
          BY <1>2, PositionType
        <5>3. QED BY <5>1, <5>2
      <4>2. QED BY <1>7, <1>8, <1>10, <4>1
    <3>2. feedback' = [s \in Seqs |-> feedback'[s]]
      BY <1>3 DEF Submits
    <3>3. QED BY <3>1, <3>2
  <2>5. QED BY <1>6, <1>7, <1>21, <2>1, <2>2, <2>3, <2>4 DEF TicketInv
<1>25. InflightExact'
  <2>1. ASSUME NEW s \in Seqs
        PROVE  inflight'[s] = Cardinality(TicketsOf(s)') /\ Submitted(s)' <= MaxTokens[s]
    <3>1. inflight[s] = Cardinality(TicketsOf(s)) /\ Submitted(s) <= MaxTokens[s]
      BY <1>2 DEF InflightExact
    <3>2. CASE s \in P
      BY <1>9, <1>22, <3>1, <3>2
    <3>3. CASE s \notin P
      <4>1. inflight'[s] = inflight[s] /\ Submitted(s)' = Submitted(s)
        <5>1. CASE s \in B
          <6>1. inflight'[s] = inflight[s]
            BY <1>3, <3>3 DEF Submits
          <6>2. QED BY <1>8, <3>3, <5>1, <6>1
        <5>2. CASE s \notin B
          BY <1>10, <5>2
        <5>3. QED BY <5>1, <5>2
      <4>2. QED BY <1>22, <3>1, <3>3, <4>1
    <3>4. QED BY <3>2, <3>3
  <2>2. QED BY <2>1 DEF InflightExact
<1>26. NoReleaseInFlight'
  <2>1. ASSUME NEW s \in Referenced' PROVE kv'[s] > 0 /\ s \in resident'
    <3>1. CASE s \in B
      BY <1>6, <1>11, <3>1 DEF Grows
    <3>2. CASE s \notin B
      BY <1>2, <1>6, <1>10, <1>21, <1>23, <2>1, <3>2 DEF NoReleaseInFlight
    <3>3. QED BY <3>1, <3>2
  <2>2. QED BY <2>1 DEF NoReleaseInFlight
<1>27. FeedInv'
  <2>1. ASSUME NEW s \in Seqs \ discarded'
        PROVE  feedback'[s] \in {0, Submitted(s)'} /\ (inflight'[s] > 0 => feedback'[s] # 0)
    <3>1. feedback[s] \in {0, Submitted(s)} /\ (inflight[s] > 0 => feedback[s] # 0)
      BY <1>2, <1>6, <2>1 DEF FeedInv
    <3>2. CASE s \in P
      BY <1>9, <3>2
    <3>3. CASE s \in B \ P
      BY <1>8, <3>1, <3>3
    <3>4. CASE s \notin B
      BY <1>10, <2>1, <3>1, <3>4
    <3>5. QED BY <3>2, <3>3, <3>4
  <2>2. QED BY <1>6, <2>1 DEF FeedInv
<1>28. FeedbackCurrent'
  <2>1. ASSUME NEW i \in DOMAIN pending', NEW s \in pending'[i].publishes \ discarded'
        PROVE  pending'[i].fed[s] = tokens'[s] + Before(s, i)'
    <3>1. CASE i = n
      <4>1. s \in P /\ s \in B /\ s \in Seqs /\ pending'[i].fed[s] = IF isPrefill THEN 0 ELSE Fed(s)
        BY <1>5, <1>19, <1>21, <2>1, <3>1
      <4>2. pending'[i].fed[s] = tokens[s] + inflight[s]
        BY <1>9, <4>1
      <4>3. Before(s, n)' = inflight[s]
        BY <1>2, <1>22, <4>1 DEF InflightExact
      <4>4. QED BY <1>6, <3>1, <4>2, <4>3
    <3>2. CASE i \in DOMAIN pending
      <4>1. pending[i].fed[s] = tokens[s] + Before(s, i)
        BY <1>2, <1>6, <1>21, <2>1, <3>2 DEF FeedbackCurrent, Before
      <4>2. QED BY <1>6, <1>21, <1>22, <3>2, <4>1
    <3>3. QED BY <1>21, <2>1, <3>1, <3>2
  <2>2. QED BY <2>1 DEF FeedbackCurrent, Before
<1>29. Tickets'
  BY <1>24, <1>25, <1>26, <1>27, <1>28 DEF Tickets
<1>30. QED BY <1>1, <1>6, <1>15, <1>16, <1>29, Assemble

-----------------------------------------------------------------------------
(* The results, and cancellation *)

\* The oldest result arrives: each request that waits for it gets its token,
\* and those that end leave decoding for the retiring requests.
LEMMA AsyncCollects == ASSUME AsyncInv, Collect PROVE AsyncInv'
<1>1. PICK X : X = retiring
  OBVIOUS
<1>2. PICK Y : Y = retiring'
  OBVIOUS
<1>3. /\ AsyncParts /\ MemInv(X) /\ Parts /\ TypeOK /\ Tickets /\ TicketInv /\ PhaseInv /\ InflightExact
  BY <1>1, PartsOfAsync DEF AsyncParts, Parts
<1>4. PICK eos \in SUBSET Accepted :
        LET ends == {s \in Accepted : s \in eos \/ tokens[s] + 1 >= MaxTokens[s]} IN
        /\ tokens' = [s \in Seqs |-> IF s \in Accepted THEN tokens[s] + 1 ELSE tokens[s]]
        /\ published' = [s \in Seqs |-> IF s \in Accepted THEN published[s] + 1 ELSE published[s]]
        /\ status' = [s \in Seqs |-> IF s \in ends THEN "FINISHED" ELSE status[s]]
        /\ decoding' = Keep(decoding, Seqs \ ends)
        /\ discarded' = discarded \cup ends
        /\ retiring' = retiring \cup ends
  BY DEF Collect
<1>5. PICK E : E = {s \in Accepted : s \in eos \/ tokens[s] + 1 >= MaxTokens[s]}
  OBVIOUS
<1>6. /\ tokens' = [s \in Seqs |-> IF s \in Accepted THEN tokens[s] + 1 ELSE tokens[s]]
      /\ published' = [s \in Seqs |-> IF s \in Accepted THEN published[s] + 1 ELSE published[s]]
      /\ status' = [s \in Seqs |-> IF s \in E THEN "FINISHED" ELSE status[s]]
      /\ decoding' = Keep(decoding, Seqs \ E)
      /\ discarded' = discarded \cup E /\ retiring' = retiring \cup E /\ E \subseteq Accepted
  BY <1>4, <1>5
<1>7. /\ pc = "filled" /\ pending # <<>> /\ pending' = Tail(pending) /\ pc' = "settle"
      /\ inflight' = [s \in Seqs |-> IF s \in Oldest.publishes THEN inflight[s] - 1 ELSE inflight[s]]
      /\ UNCHANGED <<waiting, phase, asyncInflight, prefilled, chunk, cursor, checkpoint, kv, resident, resEnd,
                     error, scan, budget, scheduled, skipped, batchTokens, refused, failure, blocked, isPrefill,
                     preempted, finished, pendingReleases, releaseFailed, aborted, faults, feedback, caller>>
  BY DEF Collect
<1>8. scheduled = <<>> /\ pc \in RestPoints /\ error = "none" /\ ~Broken /\ pendingReleases = {}
  BY <1>3, <1>7 DEF PhaseInv, RestPoints, Broken
<1>9. QueuesAtRest /\ RowsAtRest(X)
  BY <1>3, <1>8, FromRest
<1>10. /\ discarded = retiring /\ retiring \subseteq Seqs /\ Referenced \subseteq Seqs
       /\ \A s \in retiring : status[s] = "FINISHED" /\ s \notin Held
       /\ \A s \in Referenced \ discarded : status[s] \in {"WAITING", "RUNNING"}
       /\ Oldest.publishes \subseteq Referenced
  <2>1. 1 \in DOMAIN pending /\ Oldest = pending[1]
    BY <1>3, <1>7, OldestLeaves DEF TicketInv
  <2>2. QED BY <1>3, <2>1, ReferencedSeqs, PublishedReferenced DEF TicketInv
<1>11. Range(waiting) \subseteq Held /\ Range(decoding) \subseteq Held /\ Range(waiting) \subseteq Seqs /\ Range(decoding) \subseteq Seqs
  BY <1>3 DEF Held, Parts
<1>12. ASSUME NEW s \in Accepted
       PROVE  s \in Seqs /\ s \in Range(decoding) /\ s \notin Range(waiting) /\ inflight[s] >= 1
              /\ status[s] \in {"WAITING", "RUNNING"} /\ ~IsReplay(s)
  <2>1. s \in Seqs /\ s \in Oldest.publishes /\ s \notin discarded /\ status[s] \in {"WAITING", "RUNNING"}
    BY <1>10, <1>12 DEF Accepted
  <2>2. 1 \in DOMAIN pending /\ Oldest = pending[1]
    BY <1>3, <1>7, OldestLeaves DEF TicketInv
  <2>3. ~IsReplay(s)
    BY <1>3, <2>1, <2>2 DEF TicketInv
  <2>4. 1 \in TicketsOf(s)
    BY <2>1, <2>2 DEF TicketsOf
  <2>5. Cardinality(TicketsOf(s)) \in Nat /\ Cardinality(TicketsOf(s)) # 0
    BY <1>3, <2>4, TicketsFinite DEF TicketInv
  <2>6. inflight[s] >= 1
    BY <1>3, <2>1, <2>5 DEF InflightExact
  <2>7. s \notin Range(waiting)
    BY <1>9, <2>6 DEF RowsAtRest
  <2>8. s \in Range(decoding)
    BY <1>9, <2>1, <2>7 DEF QueuesAtRest
  <2>9. QED BY <2>1, <2>3, <2>6, <2>7, <2>8
<1>13. /\ decoding' \in Seq(Seqs) /\ Range(decoding') = Range(decoding) \ E /\ IsInjective(decoding')
  <2>1. decoding \in Seq(Seqs) /\ IsInjective(decoding)
    BY <1>3 DEF Parts
  <2>2. Range(decoding) \cap (Seqs \ E) = Range(decoding) \ E
    BY <1>11
  <2>3. QED BY <1>6, <2>1, <2>2, KeepFacts
<1>14. /\ \A s \in Seqs : s \notin E => status'[s] = status[s]
       /\ \A s \in E : s \in Seqs /\ status'[s] = "FINISHED" /\ s \in Range(decoding) /\ s \notin Range(waiting)
       /\ \A s \in Seqs : s \notin Accepted => tokens'[s] = tokens[s] /\ published'[s] = published[s]
       /\ \A s \in Accepted : tokens'[s] = tokens[s] + 1 /\ published'[s] = published[s] + 1
  BY <1>6, <1>12
<1>15. /\ Held' \subseteq Held /\ E \cap Held' = {}
  <2>1. skipped = <<>> /\ Range(scheduled) = {} /\ Range(skipped) = {}
    BY <1>8, <1>9, EmptyFacts DEF QueuesAtRest
  <2>2. Held' = Range(waiting) \cup (Range(decoding) \ E)
    BY <1>7, <1>13, <2>1 DEF Held
  <2>3. QED BY <1>11, <1>14, <2>2
<1>16. /\ Tickets' /\ inflight' \in [Seqs -> Nat]
       /\ \A s \in Seqs : /\ s \notin discarded => Submitted(s)' = Submitted(s)
                          /\ s \notin Oldest.publishes => Submitted(s)' = Submitted(s) /\ inflight'[s] = inflight[s]
  <2>1. /\ pc' # "postprocess" /\ discarded \subseteq discarded' /\ discarded' = retiring' /\ retiring' \subseteq Seqs
        /\ \A s \in retiring' : status'[s] = "FINISHED" /\ s \notin Held'
        /\ \A s \in Referenced \ discarded' : status'[s] \in {"WAITING", "RUNNING"}
    BY <1>6, <1>7, <1>10, <1>14, <1>15
  <2>2. UNCHANGED <<feedback, kv, resident, cursor>>
    BY <1>7
  <2>3. QED BY <1>3, <1>6, <1>7, <2>1, <2>2, OldestTaken
<1>17. \A s \in Seqs : tokens[s] \in Nat /\ inflight[s] \in Nat /\ MaxTokens[s] \in Nat
  BY <1>3, PositionType
<1>18. PublishedOnce'
  <2>1. ASSUME NEW s \in Seqs PROVE published'[s] = tokens'[s] /\ tokens'[s] <= MaxTokens[s]
    <3>1. published[s] = tokens[s] /\ tokens[s] <= MaxTokens[s]
      BY <1>9 DEF QueuesAtRest, PublishedOnce
    <3>2. CASE s \in Accepted
      <4>1. tokens[s] + inflight[s] <= MaxTokens[s]
        BY <1>3 DEF InflightExact, Submitted
      <4>2. QED BY <1>12, <1>14, <1>17, <3>1, <3>2, <4>1
    <3>3. CASE s \notin Accepted
      BY <1>14, <3>1, <3>3
    <3>4. QED BY <3>2, <3>3
  <2>2. QED BY <2>1 DEF PublishedOnce
<1>19. TypeOK'
  <2>1. /\ status \in [Seqs -> Statuses] /\ {prefilled, tokens, kv, published} \subseteq [Seqs -> Nat]
        /\ \A s \in Seqs : prefilled[s] <= PromptLen[s]
        /\ waiting \in Seq(Seqs) /\ asyncInflight \in Nat /\ error \in Errors /\ faults \in 0..MaxFaults
        /\ resident \subseteq Seqs /\ preempted \in Seqs \cup {None} /\ isPrefill \in BOOLEAN
        /\ pendingReleases \subseteq Seqs /\ releaseFailed \subseteq Seqs /\ aborted \subseteq Seqs
    BY <1>3 DEF TypeOK, QueueTypes, RequestTypes, CallTypes, ReleaseTypes
  <2>2. status' \in [Seqs -> Statuses] /\ tokens' \in [Seqs -> Nat] /\ published' \in [Seqs -> Nat] /\ pc' \in RestPoints
    BY <1>6, <1>7, <2>1 DEF RestPoints
  <2>3. QED BY <1>3, <1>7, <1>8, <1>13, <1>16, <2>1, <2>2, TypesAtRest
<1>20. QueuesAtRest'
  <2>1. \A s \in Seqs : status'[s] \in {"WAITING", "RUNNING"} => s \in Range(waiting') \cup Range(decoding')
    BY <1>7, <1>9, <1>13, <1>14 DEF QueuesAtRest
  <2>2. \A s \in Range(waiting') \cup Range(decoding') : s \in Seqs /\ status'[s] \notin {"NEW", "FINISHED"}
    BY <1>7, <1>8, <1>9, <1>11, <1>13, <1>14 DEF QueuesAtRest
  <2>3. \A s \in Seqs : status'[s] = "NEW" => tokens'[s] = 0
    BY <1>9, <1>12, <1>14 DEF QueuesAtRest
  <2>4. \A s \in Range(waiting') : ~IsReplay(s)' => tokens'[s] = 0
    BY <1>7, <1>9, <1>11, <1>12, <1>14 DEF QueuesAtRest, IsReplay
  <2>5. Range(waiting') \cap Range(decoding') = {} /\ IsInjective(waiting')
    BY <1>7, <1>9, <1>13 DEF QueuesAtRest
  <2>6. skipped' = <<>> /\ blocked' = None /\ scheduled' = <<>> /\ pc' \in RestPoints
    BY <1>7, <1>8, <1>9 DEF QueuesAtRest, RestPoints
  <2>7. QED BY <1>13, <1>18, <2>1, <2>2, <2>3, <2>4, <2>5, <2>6 DEF QueuesAtRest
<1>21. RowsAtRest(Y)'
  <2>1. \A s : (Holds(s)' <=> Holds(s)) /\ (IsReplay(s)' <=> IsReplay(s))
    BY <1>7 DEF Holds, IsReplay
  <2>2. ASSUME NEW s \in Seqs, Holds(s)'
        PROVE  \/ s \in Y \/ s \in pendingReleases' \/ s \in Range(decoding')
               \/ s \in Range(waiting') /\ (status'[s] = "RUNNING" \/ prefilled'[s] > 0)
    <3>1. CASE s \in E
      BY <1>2, <1>6, <3>1
    <3>2. CASE s \notin E
      <4>1. Holds(s) /\ status'[s] = status[s] /\ X \subseteq Y
        BY <1>1, <1>2, <1>6, <1>14, <2>1, <2>2, <3>2
      <4>2. QED BY <1>7, <1>9, <1>13, <3>2, <4>1 DEF RowsAtRest
    <3>3. QED BY <3>1, <3>2
  <2>3. ASSUME NEW s \in Range(waiting')
        PROVE  /\ s \in releaseFailed' \/ kv'[s] = prefilled'[s]
               /\ IsReplay(s)' => cursor'[s] = 0 /\ tokens'[s] >= 1
               /\ inflight'[s] = 0
    <3>1. s \in Range(waiting) /\ s \in Seqs /\ s \notin retiring /\ s \notin Accepted
      BY <1>7, <1>10, <1>11, <1>12, <2>3
    <3>2. s \notin Oldest.publishes
      BY <1>10, <3>1 DEF Accepted
    <3>3. inflight'[s] = inflight[s] /\ tokens'[s] = tokens[s]
      BY <1>14, <1>16, <3>1, <3>2
    <3>4. QED BY <1>7, <1>8, <1>9, <2>1, <3>1, <3>3 DEF RowsAtRest
  <2>4. ASSUME NEW s \in Range(decoding')
        PROVE  /\ s \in releaseFailed' \/ kv'[s] = DecodeInputPosition(s)'
               /\ Submitted(s)' >= 1 /\ (IsReplay(s)' => cursor'[s] + 1 < tokens'[s])
    <3>1. s \in Range(decoding) /\ s \in Seqs /\ s \notin discarded
      BY <1>10, <1>11, <1>13, <2>4
    <3>2. Submitted(s)' = Submitted(s) /\ (IsReplay(s) => tokens'[s] = tokens[s])
      BY <1>12, <1>14, <1>16, <3>1
    <3>3. DecodeInputPosition(s)' = DecodeInputPosition(s)
      BY <1>7, <2>1, <3>2 DEF DecodeInputPosition
    <3>4. QED BY <1>7, <1>8, <1>9, <2>1, <3>1, <3>2, <3>3 DEF RowsAtRest
  <2>5. ASSUME NEW s \in Seqs, status'[s] = "NEW"
        PROVE  prefilled'[s] = 0 /\ inflight'[s] = 0 /\ ~IsReplay(s)'
    <3>1. status[s] = "NEW" /\ s \notin E
      BY <1>14, <2>5
    <3>2. s \notin Oldest.publishes
      BY <1>10, <3>1
    <3>3. QED BY <1>7, <1>9, <1>16, <2>1, <3>1, <3>2 DEF RowsAtRest
  <2>6. /\ preempted' = None /\ resEnd' = [s \in Seqs |-> resEnd'[s]] /\ releaseFailed' \subseteq pendingReleases'
        /\ pendingReleases' = {} /\ \A s \in Seqs : kv'[s] > 0 => s \in resident'
    BY <1>7, <1>8, <1>9 DEF RowsAtRest
  <2>7. QED BY <2>2, <2>3, <2>4, <2>5, <2>6 DEF RowsAtRest
<1>22. MemInv(Y)'
  BY <1>19, <1>20, <1>21, ToRest
<1>23. PhaseInv' /\ RoomInv'
  <2>1. preempted = None
    BY <1>9 DEF RowsAtRest
  <2>2. QED BY <1>7, <1>8, <2>1 DEF PhaseInv, RoomInv, InCall
<1>24. QED BY <1>2, <1>16, <1>22, <1>23, Assemble

\* AsyncScheduler.abort takes a request out of the queues; what it may own, or
\* a ticket still uses, waits among the retiring requests.
LEMMA AsyncAborts == ASSUME AsyncInv, NEW a \in Seqs, AsyncAbort(a) PROVE AsyncInv'
<1>1. PICK X : X = retiring
  OBVIOUS
<1>2. PICK Y : Y = retiring'
  OBVIOUS
<1>3. /\ AsyncParts /\ MemInv(X) /\ Parts /\ TypeOK /\ Tickets /\ TicketInv /\ PhaseInv /\ NoReleaseInFlight
  BY <1>1, PartsOfAsync DEF AsyncParts, Parts
<1>4. PICK G : G = {x \in {a} : MustRetire(a)}
  OBVIOUS
<1>5. /\ pc \in {"idle", "raised"} /\ discarded' = discarded \cup G /\ retiring' = retiring \cup G
      /\ waiting' = Without(waiting, a) /\ decoding' = Without(decoding, a)
      /\ status' = [status EXCEPT ![a] = "FINISHED"]
      /\ aborted' = aborted \cup {a} /\ pc' = "settle"
      /\ UNCHANGED <<phase, asyncInflight, prefilled, chunk, tokens, inflight, cursor, checkpoint,
                     kv, resident, resEnd, error, scan, budget, scheduled, skipped, batchTokens, refused, failure,
                     blocked, isPrefill, preempted, published, finished, pendingReleases,
                     releaseFailed, faults, pending, feedback>>
  BY <1>4 DEF AsyncAbort, Dequeue
<1>6. /\ scheduled = <<>> /\ pc \in RestPoints /\ (~Broken' => ~Broken) /\ (Broken => Broken')
  BY <1>3, <1>5 DEF PhaseInv, RestPoints, Broken
<1>7. QueuesAtRest /\ RowsAtRest(X)
  BY <1>3, <1>6, FromRest
<1>8. /\ waiting' \in Seq(Seqs) /\ IsInjective(waiting') /\ Range(waiting') = Range(waiting) \ {a}
      /\ decoding' \in Seq(Seqs) /\ IsInjective(decoding') /\ Range(decoding') = Range(decoding) \ {a}
  BY <1>3, <1>5, RemoveFacts DEF Parts, Without
<1>9. /\ status' \in [Seqs -> Statuses] /\ status'[a] = "FINISHED" /\ \A s \in Seqs : s # a => status'[s] = status[s]
  <2>1. status \in [Seqs -> Statuses]
    BY <1>3 DEF TypeOK, RequestTypes
  <2>2. QED BY <1>5, <2>1
<1>10. Range(waiting) \subseteq Seqs /\ Range(decoding) \subseteq Seqs
  BY <1>3 DEF Parts
<1>11. /\ Held' \subseteq Held /\ a \notin Held'
  <2>1. skipped = <<>> /\ Range(scheduled) = {} /\ Range(skipped) = {}
    BY <1>6, <1>7, EmptyFacts DEF QueuesAtRest
  <2>2. Held' = (Range(waiting) \cup Range(decoding)) \ {a}
    BY <1>5, <1>8, <2>1 DEF Held
  <2>3. QED BY <2>2 DEF Held
<1>12. \A s : /\ (Holds(s)' <=> Holds(s)) /\ (IsReplay(s)' <=> IsReplay(s))
              /\ DecodeInputPosition(s)' = DecodeInputPosition(s) /\ Submitted(s)' = Submitted(s)
  BY <1>5 DEF Holds, IsReplay, DecodeInputPosition, Submitted
<1>13. TypeOK'
  <2>1. /\ {prefilled, tokens, inflight, kv, published} \subseteq [Seqs -> Nat]
        /\ \A s \in Seqs : prefilled[s] <= PromptLen[s]
        /\ asyncInflight \in Nat /\ error \in Errors /\ faults \in 0..MaxFaults
        /\ resident \subseteq Seqs /\ preempted \in Seqs \cup {None} /\ isPrefill \in BOOLEAN
        /\ pendingReleases \subseteq Seqs /\ releaseFailed \subseteq Seqs /\ aborted' \subseteq Seqs
        /\ pc' \in RestPoints
    BY <1>3, <1>5 DEF TypeOK, QueueTypes, RequestTypes, CallTypes, ReleaseTypes, RestPoints
  <2>2. QED BY <1>3, <1>5, <1>6, <1>8, <1>9, <2>1, TypesAtRest
<1>14. QueuesAtRest'
  <2>1. \A s \in Seqs : status'[s] \in {"WAITING", "RUNNING"} => s \in Range(waiting') \cup Range(decoding')
    BY <1>7, <1>8, <1>9 DEF QueuesAtRest
  <2>2. /\ \A s \in Range(waiting') : status'[s] \notin {"NEW", "FINISHED"}
        /\ \A s \in Range(decoding') : status'[s] # "NEW" /\ (status'[s] = "FINISHED" => Broken')
    BY <1>6, <1>7, <1>8, <1>9, <1>10 DEF QueuesAtRest
  <2>3. /\ \A s \in Seqs : status'[s] = "NEW" => tokens'[s] = 0
        /\ \A s \in Range(waiting') : ~IsReplay(s)' => tokens'[s] = 0
    BY <1>5, <1>7, <1>8, <1>9, <1>12 DEF QueuesAtRest
  <2>4. PublishedOnce' /\ Range(waiting') \cap Range(decoding') = {}
    BY <1>5, <1>7, <1>8 DEF QueuesAtRest, PublishedOnce
  <2>5. skipped' = <<>> /\ blocked' = None /\ scheduled' = <<>> /\ pc' \in RestPoints
    BY <1>5, <1>6, <1>7 DEF QueuesAtRest, RestPoints
  <2>6. QED BY <1>8, <2>1, <2>2, <2>3, <2>4, <2>5 DEF QueuesAtRest
<1>15. X \subseteq Y /\ (MustRetire(a) => a \in Y)
  BY <1>1, <1>2, <1>4, <1>5
<1>16. RowsAtRest(Y)'
  <2>1. ASSUME NEW s \in Seqs, Holds(s)'
        PROVE  \/ s \in Y \/ s \in pendingReleases' \/ s \in Range(decoding')
               \/ s \in Range(waiting') /\ (status'[s] = "RUNNING" \/ prefilled'[s] > 0)
    <3>1. \/ s \in X \/ s \in pendingReleases \/ MayOwnSlots(s)
      BY <1>7, <1>12, <2>1 DEF RowsAtRest, MayOwnSlots
    <3>2. CASE s = a
      BY <1>5, <1>15, <3>1, <3>2 DEF MustRetire
    <3>3. CASE s # a
      BY <1>5, <1>8, <1>9, <1>15, <3>1, <3>3 DEF MayOwnSlots
    <3>4. QED BY <3>2, <3>3
  <2>2. ~Broken' =>
       /\ \A s \in Range(waiting') : /\ s \in releaseFailed' \/ kv'[s] = prefilled'[s]
                                     /\ IsReplay(s)' => cursor'[s] = 0 /\ tokens'[s] >= 1
       /\ \A s \in Range(decoding') : /\ s \in releaseFailed' \/ kv'[s] = DecodeInputPosition(s)'
                                      /\ Submitted(s)' >= 1 /\ (IsReplay(s)' => cursor'[s] + 1 < tokens'[s])
    BY <1>5, <1>6, <1>7, <1>8, <1>12 DEF RowsAtRest
  <2>3. /\ \A s \in Seqs : status'[s] = "NEW" => prefilled'[s] = 0 /\ inflight'[s] = 0 /\ ~IsReplay(s)'
        /\ \A s \in Range(waiting') : inflight'[s] = 0
    BY <1>5, <1>7, <1>8, <1>9, <1>12 DEF RowsAtRest
  <2>4. /\ preempted' = None /\ resEnd' = [s \in Seqs |-> resEnd'[s]] /\ releaseFailed' \subseteq pendingReleases'
        /\ pc' = "settle" /\ \A s \in Seqs : kv'[s] > 0 => s \in resident'
    BY <1>5, <1>7 DEF RowsAtRest
  <2>5. QED BY <2>1, <2>2, <2>3, <2>4 DEF RowsAtRest
<1>17. MemInv(Y)'
  BY <1>13, <1>14, <1>16, ToRest
<1>18. PhaseInv' /\ RoomInv'
  <2>1. preempted = None
    BY <1>7 DEF RowsAtRest
  <2>2. QED BY <1>5, <1>6, <2>1 DEF PhaseInv, RoomInv, InCall
<1>19. Tickets'
  <2>1. /\ discarded = retiring /\ retiring \subseteq Seqs /\ feedback \in [Seqs -> Nat] /\ Referenced \subseteq Seqs
        /\ \A s \in retiring : status[s] = "FINISHED" /\ s \notin Held
        /\ \A s \in Referenced \ discarded : status[s] \in {"WAITING", "RUNNING"}
    BY <1>3, ReferencedSeqs DEF TicketInv
  <2>2. G \subseteq {a} /\ (a \in Referenced => a \in G)
    BY <1>4 DEF MustRetire
  <2>3. /\ discarded' = retiring' /\ retiring' \subseteq Seqs /\ pc' # "postprocess" /\ feedback' \in [Seqs -> Nat]
    BY <1>5, <2>1, <2>2
  <2>4. \A s \in retiring' : status'[s] = "FINISHED" /\ s \notin Held'
    BY <1>5, <1>9, <1>11, <2>1, <2>2
  <2>5. \A s \in Referenced : kv'[s] > 0 /\ s \in resident'
    BY <1>3, <1>5 DEF NoReleaseInFlight
  <2>6. \A s \in Referenced \ discarded' :
            s \notin discarded /\ status'[s] \in {"WAITING", "RUNNING"} /\ cursor'[s] = cursor[s]
    BY <1>5, <1>9, <2>1, <2>2
  <2>7. \A s \in Seqs \ discarded' : s \notin discarded /\ feedback'[s] = feedback[s]
    BY <1>5
  <2>8. QED BY <1>3, <1>5, <2>3, <2>4, <2>5, <2>6, <2>7, PendingKept
<1>20. QED BY <1>2, <1>17, <1>18, <1>19, Assemble

-----------------------------------------------------------------------------
(* The synchronous fallback, and the theorems *)

\* Where a step of the fallback leads.
FallbackMove ==
  /\ pc' \in {"postprocess", "release", "reclaim", "raised", "idle"}
  /\ pc' \in {"idle", "postprocess", "release"} => error' = "none"
  /\ pc' = "raised" => error' # "none"
  /\ pc' \in {"idle", "raised"} => scheduled' = <<>>

\* The fallback reports every failure, and ends with an empty batch.
LEMMA FallbackMoves ==
  ASSUME AsyncParts, SyncRun \/ SyncRelease \/ SyncRest
  PROVE  FallbackMove
<1>1. /\ pc = "returned" => error = "none"
      /\ pc \in {"postprocess", "release"} => error = "none"
      /\ pc = "release" => scheduled = <<>>
  BY DEF AsyncParts, PhaseInv, Parts, CallInv
<1>2. CASE RunModel \/ RunModelFails
  BY <1>1, <1>2 DEF RunModel, RunModelFails, FallbackMove
<1>3. CASE StepWithoutBatch
  BY <1>1, <1>3 DEF StepWithoutBatch, Raise, FallbackMove
<1>4. CASE ReclaimOne \/ ReclaimDone
  BY <1>4 DEF ReclaimOne, ReclaimDone, Raise, FallbackMove
<1>5. CASE PostPartialPrefill \/ PostLastPrefill \/ PostDecode
  BY <1>1, <1>5 DEF PostPartialPrefill, PostLastPrefill, PostDecode, PostTail, NextPost, FallbackMove
<1>6. CASE StartRelease \/ ReleaseFinished \/ StepDone
  BY <1>1, <1>6 DEF StartRelease, ReleaseFinished, StepDone, Raise, FallbackMove
<1>7. QED BY <1>2, <1>3, <1>4, <1>5, <1>6 DEF SyncRun, SyncRelease, SyncRest

\* The fallback brings no request into a queue.
LEMMA FallbackHolds ==
  ASSUME AsyncParts, SyncRun \/ SyncRelease \/ SyncRest
  PROVE  Held' \subseteq Held
<1>1. Parts
  BY DEF AsyncParts
<1>2. CASE RunModel \/ StepWithoutBatch \/ ReclaimDone \/ StartRelease \/ StepDone
  BY <1>2 DEF RunModel, StepWithoutBatch, ReclaimDone, StartRelease, StepDone, Held
<1>3. CASE RunModelFails
  <2>1. Range(scheduled \o waiting) = Range(scheduled) \cup Range(waiting)
    BY <1>1, ConcatFacts DEF Parts
  <2>2. /\ waiting' = IF isPrefill THEN scheduled \o waiting ELSE waiting
        /\ UNCHANGED <<decoding, scheduled, skipped>>
    BY <1>3 DEF RunModelFails
  <2>3. Range(waiting') \subseteq Range(scheduled) \cup Range(waiting)
    BY <2>1, <2>2
  <2>4. QED BY <2>2, <2>3 DEF Held
<1>4. CASE ReclaimOne
  <2>1. scheduled # <<>> /\ Leaves(Head(scheduled)) /\ scheduled' = Tail(scheduled) /\ UNCHANGED skipped
    BY <1>4 DEF ReclaimOne, Dequeue, Leaves
  <2>2. Head(scheduled) \in Seqs /\ Range(Tail(scheduled)) \subseteq Range(scheduled)
    BY <1>1, <2>1, HeadTailFacts DEF Parts
  <2>3. Range(waiting') \subseteq Range(waiting) /\ Range(decoding') \subseteq Range(decoding)
    BY <1>1, <2>1, <2>2, LeavesFacts DEF LeftOver
  <2>4. QED BY <2>1, <2>2, <2>3 DEF Held
<1>5. CASE ReleaseFinished
  <2>1. finished # <<>> /\ Leaves(Head(finished)) /\ UNCHANGED <<scheduled, skipped>>
    BY <1>5 DEF ReleaseFinished, Dequeue, Leaves
  <2>2. Head(finished) \in Seqs
    BY <1>1, <2>1, HeadTailFacts DEF Parts
  <2>3. Range(waiting') \subseteq Range(waiting) /\ Range(decoding') \subseteq Range(decoding)
    BY <1>1, <2>1, <2>2, LeavesFacts DEF LeftOver
  <2>4. QED BY <2>1, <2>3 DEF Held
<1>6. CASE PostPartialPrefill \/ PostLastPrefill \/ PostDecode
  <2>1. PICK h : h = Head(scheduled)
    OBVIOUS
  <2>2. /\ scheduled # <<>> /\ scheduled' = Tail(scheduled) /\ UNCHANGED skipped
        /\ waiting' \in {waiting, <<h>> \o waiting} /\ decoding' \in {decoding, Append(decoding, h)}
    BY <1>6, <2>1 DEF PostPartialPrefill, PostLastPrefill, PostDecode, PostTail, NextPost
  <2>3. h \in Seqs /\ h \in Range(scheduled) /\ Range(Tail(scheduled)) \subseteq Range(scheduled)
    BY <1>1, <2>1, <2>2, HeadTailFacts DEF Parts
  <2>4. Range(<<h>> \o waiting) = Range(waiting) \cup {h} /\ Range(Append(decoding, h)) = Range(decoding) \cup {h}
    BY <1>1, <2>3, PrependFacts, AppendFacts DEF Parts
  <2>5. Range(waiting') \subseteq Range(waiting) \cup {h} /\ Range(decoding') \subseteq Range(decoding) \cup {h}
    BY <2>2, <2>4
  <2>6. QED BY <2>2, <2>3, <2>5 DEF Held
<1>7. QED BY <1>2, <1>3, <1>4, <1>5, <1>6 DEF SyncRun, SyncRelease, SyncRest

\* The synchronous step runs with no ticket pending: it forgets what the
\* device holds and moves the requests on from their accepted history.
LEMMA AsyncFallsBack == ASSUME AsyncInv, SyncFallback PROVE AsyncInv'
<1>1. PICK X : X = retiring
  OBVIOUS
<1>2. /\ AsyncParts /\ MemInv(X) /\ IInv /\ PhaseInv /\ Tickets /\ TicketInv /\ InflightExact /\ FeedInv
  BY <1>1, PartsOfAsync DEF AsyncParts
<1>3. /\ caller = "sync" /\ (SyncRun \/ SyncRelease \/ SyncRest)
      /\ UNCHANGED <<pending, retiring, discarded, caller>>
  BY DEF SyncFallback
<1>4. /\ pc \in {"returned", "postprocess", "release", "reclaim"}
      /\ tokens' = tokens \/ pc = "postprocess"
      /\ pc' = "postprocess" => pc = "postprocess" \/ SyncRun
  <2>1. CASE SyncRun
    BY <2>1 DEF SyncRun, RunModel, RunModelFails
  <2>2. CASE SyncRelease
    BY <2>2 DEF SyncRelease, StepWithoutBatch, Raise
  <2>3. CASE SyncRest
    BY <2>3 DEF SyncRest, ReclaimOne, ReclaimDone, PostPartialPrefill, PostLastPrefill, PostDecode,
       PostTail, NextPost, StartRelease, ReleaseFinished, StepDone, Raise
  <2>4. QED BY <1>3, <2>1, <2>2, <2>3
<1>5. pending = <<>>
  BY <1>2, <1>3, <1>4 DEF PhaseInv
<1>6. NothingInFlight
  BY <1>2, <1>5, NoTickets DEF InflightExact, NothingInFlight
<1>7. SyncStep
  BY <1>3 DEF SyncStep, SyncRun, SyncRelease, SyncRest
<1>8. [Next]_vars
  BY <1>7 DEF Next, Driver
<1>9. IInv' /\ inflight' = inflight
  BY <1>2, <1>8, NextInv, SyncInflight
<1>10. KVInv(X)'
  <2>1. CASE SyncRun
    BY <1>2, <1>6, <2>1, RunModelKV, RunFailsKV DEF SyncRun
  <2>2. CASE SyncRelease
    BY <1>2, <2>2, WithoutBatchKV DEF SyncRelease
  <2>3. CASE SyncRest
    BY <1>2, <2>3, ReleasesKV, StepEndsKV, PostPartialKV, PostLastKV, PostDecodeKV DEF SyncRest
  <2>4. QED BY <1>3, <2>1, <2>2, <2>3
<1>11. FallbackMove /\ Held' \subseteq Held
  BY <1>2, <1>3, FallbackMoves, FallbackHolds
<1>12. PhaseInv' /\ RoomInv'
  <2>1. pending' = <<>>
    BY <1>3, <1>5
  <2>2. QED BY <1>11, <2>1 DEF FallbackMove, PhaseInv, RoomInv, InCall
<1>13. ASSUME NEW s \in retiring PROVE status'[s] = "FINISHED" /\ s \notin Held'
  <2>1. [FinalStep]_vars
    BY <1>2, <1>8, FinalNext
  <2>2. FinalStep
    BY <2>1 DEF FinalStep, vars, schedVars
  <2>3. s \in Seqs /\ status[s] = "FINISHED" /\ s \notin Held
    BY <1>2, <1>13 DEF TicketInv
  <2>4. QED BY <1>11, <2>2, <2>3 DEF FinalStep
<1>14. /\ feedback' \in [Seqs -> Nat]
       /\ \A s \in Seqs : feedback'[s] = 0 \/ (feedback'[s] = feedback[s] /\ tokens'[s] = tokens[s])
       /\ pc' = "postprocess" => \A s \in Seqs : feedback'[s] = 0
  <2>1. feedback \in [Seqs -> Nat] /\ (pc = "postprocess" => \A s \in Seqs : feedback[s] = 0)
    BY <1>2 DEF TicketInv, FeedInv
  <2>2. CASE SyncRun
    <3>1. feedback' = [s \in Seqs |-> 0]
      BY <2>2 DEF SyncRun
    <3>2. QED BY <3>1
  <2>3. CASE SyncRelease
    <3>1. PICK F : F = {preempted} \ pendingReleases'
      OBVIOUS
    <3>2. feedback' = [s \in Seqs |-> IF s \in F THEN 0 ELSE feedback[s]]
      BY <2>3, <3>1 DEF SyncRelease, Forget
    <3>3. pc' # "postprocess" /\ tokens' = tokens
      BY <2>3 DEF SyncRelease, StepWithoutBatch, Raise
    <3>4. QED BY <2>1, <3>2, <3>3
  <2>4. CASE SyncRest
    <3>1. feedback' = feedback /\ (pc' = "postprocess" => pc = "postprocess")
      BY <2>4 DEF SyncRest, ReclaimOne, ReclaimDone, PostPartialPrefill, PostLastPrefill, PostDecode,
         PostTail, NextPost, StartRelease, ReleaseFinished, StepDone, Raise
    <3>2. QED BY <1>4, <2>1, <3>1
  <2>5. QED BY <1>3, <2>2, <2>3, <2>4
<1>15. Tickets'
  BY <1>2, <1>3, <1>5, <1>9, <1>13, <1>14, NonePending
<1>16. QED BY <1>1, <1>3, <1>9, <1>10, <1>12, <1>15, Assemble DEF MemInv

\* Initially nothing is submitted.
LEMMA AsyncInitInv == ASSUME AsyncInit PROVE AsyncInv
<1>1. Init /\ pending = <<>> /\ retiring = {} /\ discarded = {} /\ feedback = [s \in Seqs |-> 0]
  BY DEF AsyncInit
<1>2. IInv /\ KVInv({})
  BY <1>1, InitInv, InitKV
<1>3. KVInv(retiring)
  <2>1. OwnerInv(retiring)
    BY <1>1, <1>2 DEF KVInv, OwnerInv
  <2>2. QED BY <1>2, <2>1 DEF KVInv
<1>4. /\ pc = "idle" /\ error = "none" /\ scheduled = <<>> /\ preempted = None
      /\ \A s \in Seqs : inflight[s] = 0 /\ tokens[s] = 0
  BY <1>1 DEF Init
<1>5. PhaseInv /\ RoomInv
  BY <1>1, <1>4 DEF PhaseInv, RoomInv, InCall
<1>6. \A s \in Seqs : MaxTokens[s] \in Nat
  BY SchedulerAssumption
<1>7. Referenced = {} /\ DOMAIN pending = {} /\ \A s : Cardinality(TicketsOf(s)) = 0
  BY <1>1, NoTickets
<1>8. TicketInv
  BY <1>1, <1>7 DEF TicketInv
<1>9. InflightExact
  BY <1>4, <1>6, <1>7 DEF InflightExact, Submitted
<1>10. NoReleaseInFlight /\ FeedbackCurrent
  BY <1>7 DEF NoReleaseInFlight, FeedbackCurrent
<1>11. FeedInv
  BY <1>1, <1>4 DEF FeedInv
<1>12. QED BY <1>2, <1>3, <1>5, <1>8, <1>9, <1>10, <1>11 DEF AsyncInv

\* A step that changes no variable keeps the invariant.
LEMMA AsyncStutters == ASSUME AsyncInv, UNCHANGED allVars PROVE AsyncInv'
<1>1. PICK X : X = retiring
  OBVIOUS
<1>2. /\ AsyncParts /\ MemInv(X) /\ IInv /\ KVInv(X) /\ PhaseInv /\ RoomInv /\ Tickets
      /\ TicketInv /\ InflightExact /\ NoReleaseInFlight /\ FeedInv /\ FeedbackCurrent
  BY <1>1, PartsOfAsync DEF AsyncParts, MemInv
<1>3. UNCHANGED vars /\ UNCHANGED <<pending, retiring, discarded, feedback, caller>>
  BY DEF allVars, asyncVars
<1>4. IInv' /\ KVInv(X)'
  BY <1>2, <1>3, NextInv, StutterKV
<1>5. UNCHANGED <<waiting, decoding, scheduled, skipped, pc, error, asyncInflight, isPrefill, preempted, kv,
                  resident, tokens, cursor, inflight, status, pendingReleases>>
  BY <1>3 DEF vars, schedVars
<1>6. /\ Referenced' = Referenced /\ Held' = Held /\ (\A s : TicketsOf(s)' = TicketsOf(s))
      /\ \A s : Submitted(s)' = Submitted(s) /\ (IsReplay(s)' <=> IsReplay(s))
  BY <1>3, <1>5 DEF Referenced, Held, TicketsOf, Submitted, IsReplay
<1>7. PhaseInv' /\ RoomInv'
  BY <1>2, <1>3, <1>5, <1>6 DEF PhaseInv, RoomInv, InCall
<1>8. TicketInv' /\ NoReleaseInFlight' /\ InflightExact'
  BY <1>2, <1>3, <1>5, <1>6 DEF TicketInv, NoReleaseInFlight, InflightExact
<1>9. FeedInv' /\ FeedbackCurrent'
  BY <1>2, <1>3, <1>5, <1>6 DEF FeedInv, FeedbackCurrent
<1>10. QED BY <1>1, <1>3, <1>4, <1>7, <1>8, <1>9, Assemble DEF MemInv, Tickets

\* Every step of the asynchronous engine keeps the invariant.
LEMMA AsyncNextInv == AsyncInv /\ [AsyncNext]_allVars => AsyncInv'
<1>1. SUFFICES ASSUME AsyncInv, [AsyncNext]_allVars PROVE AsyncInv'
  OBVIOUS
<1>2. ASSUME NEW s \in Seqs, AdmitRequest(s), UNCHANGED asyncVars PROVE AsyncInv'
  BY <1>1, <1>2, AsyncAdmits
<1>3. ASSUME NEW s \in Seqs, AsyncAbort(s) PROVE AsyncInv'
  BY <1>1, <1>3, AsyncAborts
<1>4. CASE AsyncStep \/ StopFilling \/ SubmitDrain \/ CollectFails \/ DrainFails
           \/ (StepRefused /\ UNCHANGED asyncVars)
  BY <1>1, <1>4, AsyncIdles
<1>5. CASE EnterSchedule \/ FallBack
  BY <1>1, <1>5, AsyncEnters
<1>6. CASE SubmitNothing
  BY <1>1, <1>6, AsyncSubmitsNothing
<1>7. CASE SubmitReplay \/ SubmitFails
  BY <1>1, <1>7, AsyncPutsBack
<1>8. CASE Submit
  BY <1>1, <1>8, AsyncSubmits
<1>9. CASE Collect
  BY <1>1, <1>9, AsyncCollects
<1>10. CASE DrainDiscarded
  BY <1>1, <1>10, AsyncDrains
<1>11. CASE RetireReady \/ RetireFails
  BY <1>1, <1>11, AsyncRetires
<1>12. CASE Scheduling /\ UNCHANGED asyncVars
  BY <1>1, <1>12, AsyncSchedules
<1>13. CASE HookFault /\ UNCHANGED asyncVars
  BY <1>1, <1>13, AsyncHookFault
<1>14. CASE SyncFallback
  BY <1>1, <1>14, AsyncFallsBack
<1>15. CASE UNCHANGED allVars
  BY <1>1, <1>15, AsyncStutters
<1>16. CASE AsyncDriver
  BY <1>16, <1>4, <1>5, <1>6, <1>7, <1>8, <1>9, <1>10, <1>11, <1>12, <1>13, <1>14 DEF AsyncDriver
<1>17. QED BY <1>1, <1>2, <1>3, <1>15, <1>16 DEF AsyncNext

\* AsyncInv is inductive: submission, collection, cancellation, settling and
\* the synchronous fallback, with every failure of each, keep it, for every
\* pipeline depth, every set of requests and every cache.
THEOREM AsyncInvariance == AsyncSpec => []AsyncInv
<1>1. AsyncInit => AsyncInv
  BY AsyncInitInv
<1>2. QED BY <1>1, AsyncNextInv, PTL DEF AsyncSpec

\* num_pending_outputs counts exactly the results that tickets still owe, and
\* never more outputs are asked for than max_tokens allows.
THEOREM PendingOutputsExact == AsyncSpec => []InflightExact
<1>1. AsyncInv => InflightExact
  BY DEF AsyncInv
<1>2. QED BY <1>1, AsyncInvariance, PTL

\* _retire_ready, a preemption and the synchronous step never release the row
\* of a request that a submitted forward still refers to.
THEOREM NothingReleasedInFlight == AsyncSpec => []NoReleaseInFlight
<1>1. AsyncInv => NoReleaseInFlight
  BY DEF AsyncInv
<1>2. QED BY <1>1, AsyncInvariance, PTL

\* The device is fed the token that precedes the one it computes, however the
\* request got there: from its own last output or from accepted history.
THEOREM FeedbackIsCurrent == AsyncSpec => []FeedbackCurrent
<1>1. AsyncInv => FeedbackCurrent
  BY DEF AsyncInv
<1>2. QED BY <1>1, AsyncInvariance, PTL

\* With tickets in flight, cancellations and failed releases KV still has an
\* owner that some later step releases.
THEOREM NoAsyncKVOrphaned == AsyncSpec => []NoOrphanAsyncKV
<1>1. AsyncInv => NoOrphanAsyncKV
  <2>1. SUFFICES ASSUME AsyncInv PROVE NoOrphanAsyncKV
    OBVIOUS
  <2>2. OwnerInv(retiring)
    BY <2>1 DEF AsyncInv, KVInv
  <2>3. \A s \in Prefills : s \in Range(waiting) \/ s \in Popped
    BY DEF Prefills, Chosen, Popped
  <2>4. \A s \in Decodes : s \in Range(decoding) \/ s \in Popped
    BY DEF Decodes, Popped
  <2>5. QED BY <2>2, <2>3, <2>4 DEF OwnerInv, NoOrphanAsyncKV, MayOwnSlots, Holds
<1>2. QED BY <1>1, AsyncInvariance, PTL

\* Asynchronous scheduling neither loses nor duplicates a request: postponed
\* results, discarded tickets and late releases included.
THEOREM AsyncOwnership == AsyncSpec => []OwnedOnce
<1>1. AsyncInv => OwnedOnce
  BY DEF AsyncInv, IInv
<1>2. QED BY <1>1, AsyncInvariance, PTL

\* Nor does it publish a token twice, or one more than max_tokens.
THEOREM AsyncPublication == AsyncSpec => []PublishedOnce
<1>1. AsyncInv => PublishedOnce
  BY DEF AsyncInv, IInv, TokenInv
<1>2. QED BY <1>1, AsyncInvariance, PTL

\* A result that arrives late finds its request discarded, and what is
\* submitted or postponed is alive.
LEMMA AsyncFinalNext == AsyncInv /\ [AsyncNext]_allVars => [FinalStep]_vars
<1>1. SUFFICES ASSUME AsyncInv, AsyncNext PROVE [FinalStep]_vars
  BY DEF allVars
<1>2. AsyncParts /\ IInv /\ Parts /\ TicketInv /\ status \in [Seqs -> Statuses] /\ tokens \in [Seqs -> Nat]
  BY <1>1, PartsOfAsync DEF AsyncParts, Parts, TypeOK, RequestTypes
<1>3. ASSUME NEW s \in Seqs, AdmitRequest(s) PROVE [FinalStep]_vars
  BY <1>2, <1>3, FinalNext DEF Next
<1>4. ASSUME NEW s \in Seqs, AsyncAbort(s) PROVE FinalStep
  <2>1. status' = [status EXCEPT ![s] = "FINISHED"] /\ tokens' = tokens
    BY <1>4 DEF AsyncAbort, Dequeue
  <2>2. QED BY <1>2, <2>1 DEF FinalStep
<1>5. CASE Scheduling \/ HookFault \/ StepRefused \/ SyncFallback
  BY <1>2, <1>5, FinalNext DEF Next, Driver, SyncStep, SyncFallback, SyncRun, SyncRelease, SyncRest
<1>6. CASE Submit
  <2>1. pc = "returned" /\ \A s \in Range(scheduled) : status[s] # "FINISHED"
    BY <1>2, <1>6 DEF Submit, InSubmit, Parts, FinishInv, Broken
  <2>2. tokens' = tokens /\ \A s \in Seqs : s \notin Range(scheduled) => status'[s] = status[s]
    BY <1>6 DEF Submit
  <2>3. QED BY <2>1, <2>2 DEF FinalStep
<1>7. CASE Collect
  <2>1. \A s \in Accepted : status[s] # "FINISHED"
    <3>1. pending # <<>> /\ pending \in Seq(Range(pending))
      BY <1>2, <1>7 DEF Collect, TicketInv
    <3>2. 1 \in DOMAIN pending /\ Oldest = pending[1]
      BY <3>1, TailPositions DEF Oldest
    <3>3. Accepted \subseteq Referenced \ discarded
      BY <1>2, <3>2, PublishedReferenced DEF Accepted
    <3>4. QED BY <1>2, <3>3 DEF TicketInv
  <2>2. \A s \in Seqs : s \notin Accepted => status'[s] = status[s] /\ tokens'[s] = tokens[s]
    BY <1>7 DEF Collect
  <2>3. QED BY <2>1, <2>2 DEF FinalStep
<1>8. CASE AsyncDriver /\ UNCHANGED <<status, tokens>>
  BY <1>8 DEF FinalStep
<1>9. AsyncDriver => \/ Scheduling \/ HookFault \/ StepRefused \/ SyncFallback \/ Submit \/ Collect
                     \/ UNCHANGED <<status, tokens>>
  BY DEF AsyncDriver, AsyncStep, EnterSchedule, FallBack, Schedule, StopFilling, SubmitDrain, SubmitNothing,
     SubmitReplay, SubmitFails, CollectFails, DrainDiscarded, DrainFails, RetireReady, RetireFails
<1>10. QED BY <1>1, <1>3, <1>4, <1>5, <1>6, <1>7, <1>8, <1>9 DEF AsyncNext

\* Asynchronous scheduling revives no FINISHED request and adds no token to
\* one, though results for it still arrive.
THEOREM AsyncFinality == AsyncSpec => FinishedIsFinal
BY AsyncInvariance, AsyncFinalNext, PTL DEF AsyncSpec, FinishedIsFinal
-----------------------------------------------------------------------------
(* Slots *)

\* One call that releases several requests puts the slots of each back once.
LEMMA FreeSeqsPool ==
  ASSUME TypeOK, PoolInv, NEW S \in SUBSET Seqs, FreeSeqs(S)
  PROVE  PoolInv'
<1>1. /\ IsFiniteSet(Seqs) /\ Weights(kv, Seqs) /\ kv \in [Seqs -> Nat] /\ freeSlots \in Nat
      /\ SumFunctionOnSet(kv, Seqs) \in Int /\ NumSlots \in Nat
      /\ freeSlots + SumFunctionOnSet(kv, Seqs) = NumSlots
  BY PoolFacts
<1>2. PICK g, h : g = kv /\ h = [s \in Seqs |-> IF s \in S THEN 0 ELSE kv[s]]
  OBVIOUS
<1>3. /\ h \in [Seqs -> Nat] /\ Weights(h, Seqs) /\ Weights(g, S) /\ IsFiniteSet(S)
      /\ (\A x \in S : g[x] = h[x] + g[x]) /\ (\A x \in Seqs \ S : g[x] = h[x])
      /\ \A x \in S : g[x] \in Nat
  <2>1. h \in [Seqs -> Nat] /\ \A x \in Seqs : g[x] \in Nat
    BY <1>1, <1>2
  <2>2. Weights(h, Seqs) /\ Weights(g, S)
    BY <2>1 DEF Weights
  <2>3. IsFiniteSet(S)
    BY <1>1, FS_Subset
  <2>4. (\A x \in S : h[x] = 0) /\ (\A x \in Seqs \ S : g[x] = h[x])
    BY <1>2
  <2>5. QED BY <2>1, <2>2, <2>3, <2>4
<1>4. SumFunctionOnSet(g, Seqs) = SumFunctionOnSet(h, Seqs) + SumFunctionOnSet(g, S)
  BY <1>1, <1>3, SumPlus
<1>5. SumFunctionOnSet(h, Seqs) \in Int /\ SumFunctionOnSet(g, S) \in Nat
  BY <1>1, <1>3, SumFacts, SumNat
<1>6. /\ kv' = h /\ freeSlots' = freeSlots + SumFunctionOnSet(g, S)
      /\ resEnd' = [s \in Seqs |-> IF s \in S THEN 0 ELSE resEnd[s]]
  BY <1>2 DEF FreeSeqs
<1>7. freeSlots' \in Nat /\ freeSlots' + SumFunctionOnSet(h, Seqs) = NumSlots
  BY <1>1, <1>2, <1>4, <1>5, <1>6
<1>8. resEnd' \in [Seqs -> Nat]
  BY <1>6 DEF PoolInv
<1>9. QED BY <1>6, <1>7, <1>8 DEF PoolInv

\* What the asynchronous driver does beside schedule() and the fallback keeps
\* the pool whole: the forwards it submits, also half way, and what it retires.
LEMMA DriverSlots ==
  ASSUME AsyncInv, SlotInv,
         \/ AsyncStep \/ EnterSchedule \/ StopFilling \/ SubmitDrain \/ SubmitNothing
         \/ SubmitReplay \/ Submit \/ SubmitFails \/ FallBack \/ Collect \/ CollectFails
         \/ DrainDiscarded \/ DrainFails \/ RetireReady \/ RetireFails
         \/ \E s \in Seqs : AsyncAbort(s)
  PROVE  SlotInv'
<1>1. IInv /\ TypeOK /\ PoolInv /\ retiring \subseteq Seqs
  BY DEF AsyncInv, IInv, SlotInv, TicketInv
<1>2. ASSUME UNCHANGED <<kv, freeSlots, resEnd>> PROVE PoolInv'
  BY <1>1, <1>2 DEF PoolInv
<1>3. CASE \/ AsyncStep \/ EnterSchedule \/ StopFilling \/ SubmitDrain \/ SubmitReplay \/ FallBack
           \/ Collect \/ CollectFails \/ DrainDiscarded \/ DrainFails \/ \E s \in Seqs : AsyncAbort(s)
  <2>1. UNCHANGED <<kv, freeSlots, resEnd>>
    BY <1>3 DEF AsyncStep, EnterSchedule, StopFilling, SubmitDrain, SubmitReplay, FallBack, Schedule,
                Collect, CollectFails, DrainDiscarded, DrainFails, AsyncAbort
  <2>2. pc' \notin {"affinity", "prefill", "decode", "returned"}
    BY <1>3 DEF AsyncStep, EnterSchedule, StopFilling, SubmitDrain, SubmitReplay, FallBack, Schedule,
                Collect, CollectFails, DrainDiscarded, DrainFails, AsyncAbort, Raise, Resume
  <2>3. QED BY <1>2, <2>1, <2>2, OutsideScans
<1>4. CASE SubmitNothing
  <2>1. PoolInv'
    <3>1. CASE preempted # None
      <4>1. preempted \in Seqs
        BY <1>1, <3>1 DEF TypeOK, CallTypes
      <4>2. ReleaseOk(preempted) \/ ReleaseFails(preempted)
        BY <1>4, <3>1 DEF SubmitNothing
      <4>3. QED BY <1>1, <4>1, <4>2, ReleasePool
    <3>2. CASE preempted = None
      BY <1>2, <1>4, <3>2 DEF SubmitNothing
    <3>3. QED BY <3>1, <3>2
  <2>2. pc' \in {"filled", "raised"}
    BY <1>4 DEF SubmitNothing, Raise
  <2>3. QED BY <2>1, <2>2, OutsideScans
<1>5. CASE Submit
  <2>1. pc = "returned" /\ Allocate(Range(scheduled)) /\ pc' = "fill"
    BY <1>5 DEF Submit, InSubmit
  <2>2. PoolInv'
    BY <1>1, <2>1, RunSlots
  <2>3. QED BY <2>1, <2>2, OutsideScans
<1>6. CASE SubmitFails
  <2>1. pc = "returned" /\ PartlyAllocated /\ pc' = "raised"
    BY <1>6 DEF SubmitFails, InSubmit, Raise
  <2>2. PoolInv'
    BY <1>1, <2>1, PartSlots
  <2>3. QED BY <2>1, <2>2, OutsideScans
<1>7. CASE RetireReady \/ RetireFails
  <2>1. PICK S \in SUBSET Ready : FreeSeqs(S)
    BY <1>7 DEF RetireReady, RetireFails
  <2>2. S \in SUBSET Seqs
    BY <1>1 DEF Ready
  <2>3. PoolInv'
    BY <1>1, <2>1, <2>2, FreeSeqsPool
  <2>4. pc' \in {"idle", "raised"}
    BY <1>7 DEF RetireReady, RetireFails, Resume, Raise
  <2>5. QED BY <2>3, <2>4, OutsideScans
<1>8. QED BY <1>3, <1>4, <1>5, <1>6, <1>7

\* Every step of the asynchronous engine keeps the pool whole.
LEMMA AsyncNextSlots == AsyncInv /\ SlotInv /\ [AsyncNext]_allVars => SlotInv'
<1>1. SUFFICES ASSUME AsyncInv, SlotInv, [AsyncNext]_allVars PROVE SlotInv'
  OBVIOUS
<1>2. PICK X : X = retiring
  OBVIOUS
<1>3. MemInv(X) /\ IInv
  BY <1>1, <1>2 DEF AsyncInv, MemInv
<1>4. CASE Scheduling
  BY <1>1, <1>3, <1>4, SchedulingSlots
<1>5. CASE HookFault \/ StepRefused \/ SyncFallback \/ \E s \in Seqs : AdmitRequest(s)
  <2>1. StepRefused \/ SyncStep \/ \E s \in Seqs : AdmitRequest(s)
    BY <1>5 DEF SyncFallback, SyncRun, SyncRelease, SyncRest, SyncStep
  <2>2. QED BY <1>1, <1>3, <2>1, StepSlotsInv
<1>6. CASE UNCHANGED allVars
  BY <1>1, <1>6 DEF allVars, vars, schedVars, SlotInv, PoolInv, BatchInv, Cost
<1>7. CASE AsyncNext
  BY <1>1, <1>4, <1>5, <1>7, DriverSlots DEF AsyncNext, AsyncDriver
<1>8. QED BY <1>1, <1>6, <1>7

\* With forwards in flight, requests that retire late and releases that stop
\* half way, every slot is still free or held by exactly one request.
THEOREM NoAsyncSlotLost == AsyncSpec => []SlotsConserved
<1>1. AsyncInit => SlotInv
  BY InitSlots DEF AsyncInit
<1>2. SlotInv => SlotsConserved
  BY DEF SlotInv, PoolInv, SlotsConserved
<1>3. QED BY <1>1, <1>2, AsyncInvariance, AsyncNextSlots, PTL DEF AsyncSpec
-----------------------------------------------------------------------------
(* The asynchronous engine never idles *)

DriverStep ==
  \/ AsyncStep \/ EnterSchedule \/ StopFilling \/ SubmitDrain \/ SubmitNothing
  \/ SubmitReplay \/ Submit \/ SubmitFails \/ FallBack \/ Collect \/ CollectFails
  \/ DrainDiscarded \/ DrainFails \/ RetireReady \/ RetireFails
  \/ \E s \in Seqs : AsyncAbort(s)

\* While a release may not be owed and no ticket is pending, nothing retires.
LEMMA NothingRetires ==
  ASSUME AsyncInv, SettledInv, pending = <<>>, pc \notin {"idle", "settle", "reclaim", "raised"}
  PROVE  retiring = {}
<1>1. pendingReleases = {}
  BY DEF AsyncInv, KVInv, DebtInv
<1>2. QED BY <1>1 DEF SettledInv

\* Outside a call, what waits is what there is to prefill.
LEMMA PrefillsOutside ==
  ASSUME Parts, pc \in RestPoints, scheduled = <<>>
  PROVE  Prefills = Range(waiting) /\ Chosen = {} /\ Range(skipped) = {}
<1>1. Range(skipped) = {} /\ Range(scheduled) = {}
  BY EmptyFacts DEF Parts, CallInv, RestPoints
<1>2. QED BY <1>1 DEF Prefills, Chosen

\* The driver keeps every prompt in the cache while it only moves its own state,
\* collects, discards, or takes a request out of the queues.
LEMMA DriverRests ==
  ASSUME AsyncInv, PromptInv, FitInv,
         \/ AsyncStep \/ EnterSchedule \/ FallBack \/ StopFilling \/ SubmitDrain \/ Collect \/ CollectFails
         \/ DrainDiscarded \/ DrainFails \/ \E s \in Seqs : AsyncAbort(s)
  PROVE  PromptInv' /\ FitInv'
<1>1. AsyncParts /\ Parts /\ PhaseInv /\ waiting \in Seq(Seqs) /\ IsInjective(waiting)
  <2>1. PICK X : X = retiring
    OBVIOUS
  <2>2. QED BY <2>1, PartsOfAsync DEF AsyncParts, Parts
<1>2. pc \in RestPoints /\ scheduled = <<>>
  BY <1>1 DEF AsyncStep, EnterSchedule, FallBack, StopFilling, SubmitDrain, Collect, CollectFails,
                DrainDiscarded, DrainFails, AsyncAbort, RestPoints, PhaseInv
<1>3. Prefills = Range(waiting) /\ Chosen = {} /\ Range(skipped) = {} /\ preempted = None
  <2>1. preempted = None
    BY <1>2 DEF AsyncInv, KVInv, DebtInv, RestPoints
  <2>2. QED BY <1>1, <1>2, <2>1, PrefillsOutside
<1>4. /\ UNCHANGED <<prefilled, resEnd, pendingReleases, preempted>> /\ pc' # "prefill" /\ scheduled' = <<>>
      /\ Range(skipped') = {} /\ Range(waiting') \subseteq Range(waiting)
  <2>1. CASE EnterSchedule \/ FallBack
    BY <1>3, <2>1, EmptyFacts DEF EnterSchedule, FallBack, Schedule, ClearLocals
  <2>2. CASE \E s \in Seqs : AsyncAbort(s)
    <3>1. PICK s \in Seqs : AsyncAbort(s)
      BY <2>2
    <3>2. waiting' = Without(waiting, s) /\ UNCHANGED <<prefilled, resEnd, pendingReleases, scheduled, skipped, preempted>>
          /\ pc' = "settle"
      BY <3>1 DEF AsyncAbort, Dequeue
    <3>3. Range(waiting') \subseteq Range(waiting)
      BY <1>1, <3>2, RemoveFacts DEF Without
    <3>4. QED BY <1>2, <1>3, <3>2, <3>3
  <2>3. CASE \/ AsyncStep \/ StopFilling \/ SubmitDrain \/ Collect \/ CollectFails \/ DrainDiscarded \/ DrainFails
    <3>1. UNCHANGED <<prefilled, resEnd, pendingReleases, scheduled, skipped, waiting, preempted>>
          /\ pc' # "prefill"
      BY <2>3 DEF AsyncStep, StopFilling, SubmitDrain, Collect, CollectFails, DrainDiscarded, DrainFails,
                  Raise, Resume
    <3>2. QED BY <1>2, <1>3, <3>1
  <2>4. QED BY <2>1, <2>2, <2>3
<1>5. Broken => Broken'
  BY <1>1 DEF AsyncStep, EnterSchedule, FallBack, StopFilling, SubmitDrain, Collect, CollectFails,
                DrainDiscarded, DrainFails, AsyncAbort, Broken, Raise, Resume, PhaseInv
<1>6. Chosen' = {} /\ Prefills' \subseteq Prefills
  BY <1>3, <1>4, EmptyFacts DEF Chosen, Prefills
<1>7. \A x \in Prefills' : Kept(x)
  BY <1>3, <1>4, <1>6 DEF Kept
<1>8. QED BY <1>3, <1>4, <1>5, <1>6, <1>7, RestPrompts

\* So it does when it retires: the windows it closes are closed for good.
LEMMA RetirePrompts ==
  ASSUME AsyncInv, PoolInv, PromptInv, FitInv, RetireReady \/ RetireFails
  PROVE  PromptInv' /\ FitInv'
<1>1. Parts /\ PhaseInv /\ retiring \subseteq Seqs
  BY PartsOfInv DEF AsyncInv, TicketInv
<1>2. pc = "settle" /\ scheduled = <<>> /\ UNCHANGED <<waiting, scheduled, skipped, prefilled, preempted>>
  BY <1>1 DEF RetireReady, RetireFails, PhaseInv
<1>3. Prefills = Range(waiting) /\ Chosen = {} /\ Range(skipped) = {} /\ Range(waiting) \subseteq Seqs
  BY <1>1, <1>2, PrefillsOutside DEF RestPoints, Parts
<1>4. pc' \in {"idle", "raised"} /\ (Broken => Broken')
  BY <1>2 DEF RetireReady, RetireFails, Resume, Raise, Broken
<1>5. Chosen' = {} /\ Prefills' = Prefills
  BY <1>2, <1>3, EmptyFacts DEF Chosen, Prefills
<1>6. resEnd \in [Seqs -> Nat]
  BY DEF PoolInv
<1>7. ASSUME NEW x \in Prefills' PROVE Kept(x)
  <2>1. x \in Seqs
    BY <1>3, <1>5
  <2>2. CASE RetireReady
    <3>1. /\ resEnd' = [s \in Seqs |-> IF s \in Ready THEN 0 ELSE resEnd[s]]
          /\ pendingReleases' = pendingReleases \ Ready
      BY <2>2 DEF RetireReady, FreeSeqs
    <3>2. QED BY <1>2, <2>1, <3>1 DEF Kept
  <2>3. CASE RetireFails
    <3>1. PICK S : resEnd' = [s \in Seqs |-> IF s \in S THEN 0 ELSE resEnd[s]]
      BY <2>3 DEF RetireFails, FreeSeqs
    <3>2. pendingReleases' = pendingReleases \cup Ready
      BY <2>3 DEF RetireFails
    <3>3. QED BY <1>2, <2>1, <3>1, <3>2 DEF Kept
  <2>4. QED BY <2>2, <2>3
<1>8. QED BY <1>2, <1>4, <1>5, <1>7, RestPrompts

\* And when it finds nothing to submit, or puts the batch back.
LEMMA PutBackPrompts ==
  ASSUME AsyncInv, PoolInv, PromptInv, FitInv, SubmitNothing \/ SubmitReplay \/ SubmitFails
  PROVE  PromptInv' /\ FitInv'
<1>1. PICK X : X = retiring
  OBVIOUS
<1>2. MemInv(X) /\ pc = "returned"
  BY <1>1, PartsOfAsync DEF SubmitNothing, SubmitReplay, SubmitFails, InSubmit
<1>3. AtReturn(X) /\ Parts
  BY <1>2, FromReturn
<1>4. /\ Range(skipped) = {} /\ Range(waiting) \subseteq Seqs /\ waiting \in Seq(Seqs) /\ scheduled \in Seq(Seqs)
      /\ pendingReleases = {} /\ (isPrefill => Chosen = Range(scheduled)) /\ Prefills = Range(waiting) \cup Chosen
  <2>1. Range(skipped) = {}
    BY <1>3, EmptyFacts DEF AtReturn
  <2>2. QED BY <1>3, <2>1 DEF AtReturn, Parts, Prefills
<1>5. UNCHANGED <<prefilled, skipped>> /\ pc' \in {"filled", "raised"} /\ ~Broken
  BY <1>2 DEF SubmitNothing, SubmitReplay, SubmitFails, Raise, Broken
<1>6. Chosen' = {}
  BY <1>5 DEF Chosen
<1>7. CASE SubmitNothing
  <2>1. waiting' = waiting
    BY <1>7 DEF SubmitNothing
  <2>2. Prefills' \subseteq Prefills
    BY <1>4, <1>5, <1>6, <2>1 DEF Prefills
  <2>3. ASSUME NEW x \in Prefills' PROVE Kept(x)
    <3>1. x \in Seqs /\ x # None
      BY <1>4, <1>5, <1>6, <2>1, <2>3, SchedulerAssumption DEF Prefills
    <3>2. CASE preempted = None
      <4>1. UNCHANGED <<resEnd, pendingReleases>>
        BY <1>7, <3>2 DEF SubmitNothing
      <4>2. QED BY <3>1, <3>2, <4>1 DEF Kept
    <3>3. CASE preempted # None
      <4>1. preempted \in Seqs
        BY <1>3, <1>4, <3>3 DEF AtReturn
      <4>2. CASE ReleaseOk(preempted)
        <5>1. resEnd'[preempted] = 0 /\ (resEnd'[x] = 0 \/ resEnd'[x] = resEnd[x])
          BY <3>1, <4>1, <4>2, ReleaseKeeps
        <5>2. QED BY <1>4, <5>1 DEF Kept
      <4>3. CASE ReleaseFails(preempted) /\ Raise("release")
        BY <4>3 DEF Kept, Broken, Raise
      <4>4. QED BY <1>7, <3>3, <4>2, <4>3 DEF SubmitNothing
    <3>4. QED BY <3>2, <3>3
  <2>4. QED BY <1>5, <1>6, <2>2, <2>3, RestPrompts
<1>8. CASE SubmitReplay \/ SubmitFails
  <2>1. waiting' = IF isPrefill THEN scheduled \o waiting ELSE waiting
    BY <1>8 DEF SubmitReplay, SubmitFails
  <2>2. Range(waiting') \subseteq Prefills
    <3>1. CASE isPrefill
      BY <1>4, <2>1, <3>1, ConcatFacts
    <3>2. CASE ~isPrefill
      BY <1>4, <2>1, <3>2
    <3>3. QED BY <3>1, <3>2
  <2>3. Prefills' \subseteq Prefills
    BY <1>4, <1>5, <1>6, <2>2 DEF Prefills
  <2>4. CASE SubmitReplay
    <3>1. UNCHANGED <<resEnd, pendingReleases, preempted>>
      BY <2>4 DEF SubmitReplay
    <3>2. \A x \in Prefills' : Kept(x)
      BY <3>1 DEF Kept
    <3>3. QED BY <1>5, <1>6, <2>3, <3>2, RestPrompts
  <2>5. CASE SubmitFails
    <3>1. Broken'
      BY <2>5 DEF SubmitFails, Raise, Broken
    <3>2. \A x \in Prefills' : Kept(x)
      BY <3>1 DEF Kept
    <3>3. QED BY <1>5, <1>6, <2>3, <3>1, <3>2, RestPrompts
  <2>6. QED BY <1>8, <2>4, <2>5
<1>9. QED BY <1>7, <1>8

\* A chunk that is submitted leaves the rest of its prompt waiting.
LEMMA SubmitPrompts ==
  ASSUME AsyncInv, PromptInv, FitInv, Submit
  PROVE  PromptInv' /\ FitInv'
<1>1. PICK X : X = retiring
  OBVIOUS
<1>2. MemInv(X) /\ pc = "returned"
  BY <1>1, PartsOfAsync DEF Submit, InSubmit
<1>3. AtReturn(X) /\ Parts
  BY <1>2, FromReturn
<1>4. PICK B, P : Submits(B, P)
  BY SubmitParts
<1>5. /\ Range(waiting') = Range(waiting) \cup (B \ P) /\ P \subseteq B /\ B \subseteq Seqs
      /\ B \cap Range(waiting) = {}
      /\ IF isPrefill THEN B = Chosen ELSE P = B /\ Chosen = {}
  BY <1>3, <1>4, SubmitQueues
<1>6. /\ prefilled' = [s \in Seqs |-> IF isPrefill /\ s \in B THEN prefilled[s] + chunk[s] ELSE prefilled[s]]
      /\ P = {s \in B : ~isPrefill \/ LastChunk(s)} /\ pc' = "fill" /\ pc = "returned"
      /\ UNCHANGED <<skipped, resEnd, pendingReleases, preempted>>
  BY <1>4 DEF Submits
<1>7. Range(skipped) = {} /\ Range(waiting) \subseteq Seqs /\ Prefills = Range(waiting) \cup Chosen
  <2>1. Range(skipped) = {}
    BY <1>3, EmptyFacts DEF AtReturn
  <2>2. QED BY <1>3, <2>1 DEF Parts, Prefills
<1>8. Chosen' = {} /\ Prefills' = Range(waiting) \cup (B \ P) /\ (Broken => Broken')
  BY <1>5, <1>6, <1>7 DEF Chosen, Prefills, Broken
<1>9. ASSUME NEW x \in Prefills' PROVE Carried(x)
  <2>1. Kept(x)
    BY <1>6 DEF Kept
  <2>2. x \in Seqs
    BY <1>5, <1>7, <1>8, <1>9
  <2>3. CASE x \in Range(waiting)
    <3>1. prefilled'[x] = prefilled[x] /\ x \in Prefills
      BY <1>5, <1>6, <1>7, <2>2, <2>3
    <3>2. QED BY <1>8, <2>1, <3>1 DEF Carried, PromptInv, Underway
  <2>4. CASE x \in B \ P
    <3>1. isPrefill /\ x \in Chosen /\ ~LastChunk(x)
      BY <1>5, <1>6, <2>4
    <3>2. prefilled[x] \in Nat /\ chunk[x] \in Nat /\ PromptLen[x] \in Nat /\ prefilled[x] + chunk[x] <= PromptLen[x]
      BY <1>3, <2>2, <3>1, PositionType DEF AtReturn, Parts, TypeOK, RequestTypes
    <3>3. prefilled'[x] = prefilled[x] + chunk[x]
      BY <1>6, <2>2, <2>4, <3>1
    <3>4. prefilled'[x] < PromptLen[x]
      BY <3>1, <3>2, <3>3 DEF LastChunk
    <3>5. QED BY <1>7, <2>1, <3>1, <3>4 DEF Carried, Underway
  <2>5. QED BY <1>8, <1>9, <2>3, <2>4
<1>10. QED BY <1>6, <1>8, <1>9, CarriedPrompts

\* A result that reaches max_tokens ends its request, whatever is still in
\* flight for it.
LEMMA DriverRoom ==
  ASSUME AsyncInv, RoomLeft, FinalStep, DriverStep
  PROVE  RoomLeft'
<1>1. TicketInv /\ tokens \in [Seqs -> Nat]
  BY DEF AsyncInv, IInv, TypeOK, RequestTypes
<1>2. ASSUME tokens' = tokens PROVE RoomLeft'
  BY <1>2 DEF RoomLeft, FinalStep
<1>3. CASE Collect
  <2>1. PICK eos \in SUBSET Accepted :
          LET ends == {s \in Accepted : s \in eos \/ tokens[s] + 1 >= MaxTokens[s]} IN
          /\ tokens' = [s \in Seqs |-> IF s \in Accepted THEN tokens[s] + 1 ELSE tokens[s]]
          /\ published' = [s \in Seqs |-> IF s \in Accepted THEN published[s] + 1 ELSE published[s]]
          /\ status' = [s \in Seqs |-> IF s \in ends THEN "FINISHED" ELSE status[s]]
          /\ decoding' = Keep(decoding, Seqs \ ends)
          /\ discarded' = discarded \cup ends
          /\ retiring' = retiring \cup ends
    BY <1>3 DEF Collect
  <2>2. PICK live, ends :
          /\ live = Accepted /\ ends = {s \in live : s \in eos \/ tokens[s] + 1 >= MaxTokens[s]}
          /\ tokens' = [s \in Seqs |-> IF s \in live THEN tokens[s] + 1 ELSE tokens[s]]
          /\ status' = [s \in Seqs |-> IF s \in ends THEN "FINISHED" ELSE status[s]]
    BY <2>1
  <2>3. ASSUME NEW x \in Seqs, status'[x] # "FINISHED" PROVE tokens'[x] < MaxTokens[x]
    <3>1. tokens[x] \in Nat /\ MaxTokens[x] \in Nat /\ x \notin ends /\ status[x] # "FINISHED"
      BY <1>1, <2>2, <2>3, SchedulerAssumption
    <3>2. CASE x \in live
      <4>1. ~(tokens[x] + 1 >= MaxTokens[x]) /\ tokens'[x] = tokens[x] + 1
        BY <2>2, <3>1, <3>2
      <4>2. QED BY <3>1, <4>1
    <3>3. CASE x \notin live
      BY <2>2, <3>1, <3>3 DEF RoomLeft
    <3>4. QED BY <3>2, <3>3
  <2>4. QED BY <2>3 DEF RoomLeft
<1>4. CASE DriverStep /\ ~Collect
  <2>1. tokens' = tokens
    BY <1>4 DEF DriverStep, AsyncStep, EnterSchedule, StopFilling, SubmitDrain, SubmitNothing, SubmitReplay, Submit,
                SubmitFails, FallBack, Schedule, CollectFails, DrainDiscarded, DrainFails, RetireReady, RetireFails,
                AsyncAbort
  <2>2. QED BY <1>2, <2>1
<1>5. QED BY <1>3, <1>4

\* The driver enters schedule() only with something to run, and never raises
\* that there is nothing.
LEMMA DriverScan ==
  ASSUME AsyncInv, SettledInv, ScanInv, NeverHangs, DriverStep
  PROVE  ScanInv' /\ NeverHangs'
<1>1. CASE EnterSchedule \/ FallBack
  <2>1. ~IsFinished
    <3>1. CASE EnterSchedule
      <4>1. waiting # <<>> \/ \E s \in Range(decoding) : TRUE
        BY <3>1 DEF EnterSchedule, MaySubmit
      <4>2. QED BY <4>1, EmptyFacts DEF IsFinished
    <3>2. CASE FallBack
      BY <3>2 DEF FallBack, SettledInv
    <3>3. QED BY <1>1, <3>1, <3>2
  <2>2. pc' = "reserve" /\ batchTokens' = 0 /\ UNCHANGED <<waiting, decoding, error>>
    BY <1>1 DEF EnterSchedule, FallBack, Schedule, ClearLocals
  <2>3. QED BY <2>1, <2>2 DEF ScanInv, IsFinished, NeverHangs
<1>2. CASE DriverStep /\ ~EnterSchedule /\ ~FallBack
  <2>1. /\ pc' \in RestPoints
        /\ UNCHANGED error \/ error' \in {"submit", "release", "collect"}
    BY <1>2 DEF DriverStep, AsyncStep, StopFilling, SubmitDrain, SubmitNothing, SubmitReplay, Submit,
                SubmitFails, Collect, CollectFails, DrainDiscarded, DrainFails, RetireReady, RetireFails,
                AsyncAbort, Raise, Resume, RestPoints
  <2>2. QED BY <2>1 DEF ScanInv, NeverHangs, RestPoints
<1>3. QED BY <1>1, <1>2

\* Filling ends with something to collect or something to run.
LEMMA FillsForSomething ==
  ASSUME AsyncInv, SettledInv, ScanInv,
         \/ AsyncStep \/ StopFilling \/ SubmitDrain \/ SubmitNothing \/ SubmitReplay \/ Submit
  PROVE  SettledInv'
<1>1. PICK X : X = retiring
  OBVIOUS
<1>2. AsyncParts /\ MemInv(X) /\ Parts /\ PhaseInv
  BY <1>1, PartsOfAsync DEF AsyncParts
<1>3. retiring' = retiring /\ pc' \in {"fill", "filled", "raised"}
  BY DEF AsyncStep, StopFilling, SubmitDrain, SubmitNothing, SubmitReplay, Submit, Raise, asyncVars
<1>4. CASE AsyncStep
  <2>1. pendingReleases = {} /\ ~EngineFinished /\ UNCHANGED <<pending, pendingReleases, waiting, decoding>> /\ pc = "idle"
    BY <1>4 DEF AsyncStep, asyncVars
  <2>2. QED BY <1>3, <2>1 DEF SettledInv, EngineFinished, IsFinished
<1>5. CASE StopFilling
  BY <1>5 DEF StopFilling, SettledInv, IsFinished, asyncVars
<1>6. CASE SubmitDrain
  <2>1. pending # <<>> /\ pending' = pending
    BY <1>2, <1>6 DEF SubmitDrain, PhaseInv, AsyncParts, asyncVars
  <2>2. QED BY <1>3, <2>1 DEF SettledInv
<1>7. CASE SubmitNothing
  <2>1. pc = "returned" /\ scheduled = <<>> /\ UNCHANGED <<pending, waiting>>
    BY <1>7 DEF SubmitNothing, InSubmit
  <2>2. CASE pending = <<>>
    <3>1. retiring = {}
      BY <2>1, <2>2, NothingRetires
    <3>2. preempted # None
      BY <1>2, <2>1, <2>2 DEF AsyncParts, PhaseInv, ScanInv
    <3>3. waiting # <<>>
      BY <1>2, <3>2, EmptyFacts DEF MemInv, KVInv, DebtInv
    <3>4. QED BY <1>3, <2>1, <3>1, <3>3 DEF SettledInv, IsFinished
  <2>3. CASE pending # <<>>
    BY <1>3, <2>1, <2>3 DEF SettledInv
  <2>4. QED BY <2>2, <2>3
<1>8. CASE SubmitReplay
  <2>1. /\ pc = "returned" /\ UNCHANGED <<pending, decoding>> /\ scheduled # <<>>
        /\ waiting' = IF isPrefill THEN scheduled \o waiting ELSE waiting
    BY <1>8, EmptyFacts DEF SubmitReplay, InSubmit, asyncVars
  <2>2. AtReturn(X) /\ waiting \in Seq(Seqs) /\ scheduled \in Seq(Seqs)
    BY <1>2, <2>1, FromReturn DEF Parts
  <2>3. waiting' # <<>> \/ decoding' # <<>>
    <3>1. CASE isPrefill
      BY <2>1, <2>2, <3>1
    <3>2. CASE ~isPrefill
      <4>1. Range(scheduled) # {} /\ Range(scheduled) \subseteq Range(decoding)
        BY <2>1, <2>2, <3>2, RangeFacts DEF AtReturn
      <4>2. QED BY <2>1, <4>1, EmptyFacts
    <3>3. QED BY <3>1, <3>2
  <2>4. pending = <<>> => retiring = {}
    BY <2>1, NothingRetires
  <2>5. QED BY <1>3, <2>1, <2>3, <2>4 DEF SettledInv, IsFinished
<1>9. CASE Submit
  <2>1. PICK t : pending' = Append(pending, t)
    BY <1>9 DEF Submit
  <2>2. pending \in Seq(Range(pending))
    BY DEF AsyncInv, TicketInv
  <2>3. pending' # <<>>
    <3>1. PICK S : S = Range(pending) \cup {t}
      OBVIOUS
    <3>2. pending \in Seq(S) /\ t \in S
      BY <2>2, <3>1
    <3>3. QED BY <2>1, <3>2
  <2>4. QED BY <1>3, <2>3 DEF SettledInv
<1>10. QED BY <1>4, <1>5, <1>6, <1>7, <1>8, <1>9

\* Settling without a ticket releases everything that retires, or owes it.
LEMMA SettlesAll ==
  ASSUME AsyncInv, SettledInv,
         \/ DrainDiscarded \/ DrainFails \/ RetireReady \/ RetireFails \/ Collect \/ CollectFails \/ SubmitFails
         \/ EnterSchedule \/ FallBack \/ \E s \in Seqs : AsyncAbort(s)
  PROVE  SettledInv'
<1>1. CASE DrainDiscarded \/ Collect \/ CollectFails \/ SubmitFails \/ \E s \in Seqs : AsyncAbort(s)
  <2>1. pc' \in {"settle", "raised"}
    BY <1>1 DEF DrainDiscarded, Collect, CollectFails, SubmitFails, AsyncAbort, Raise
  <2>2. QED BY <2>1 DEF SettledInv
<1>2. CASE DrainFails
  <2>1. pending # <<>> /\ pending' = pending /\ pc' \in {"idle", "raised"}
    BY <1>2 DEF DrainFails, Droppable, asyncVars, Resume, Raise
  <2>2. QED BY <2>1 DEF SettledInv
<1>3. CASE RetireReady \/ RetireFails
  <2>1. pc' \in {"idle", "raised"} /\ pending' = pending
        /\ \/ retiring' = retiring \ Ready
           \/ retiring' = retiring /\ pendingReleases' = pendingReleases \cup Ready
    BY <1>3 DEF RetireReady, RetireFails, asyncVars, Resume, Raise
  <2>2. ASSUME pending = <<>> PROVE Ready = retiring
    <3>1. Range(pending) = {}
      BY <2>2, EmptyFacts
    <3>2. QED BY <3>1 DEF Ready, Referenced
  <2>3. QED BY <2>1, <2>2 DEF SettledInv
<1>4. CASE EnterSchedule \/ FallBack
  <2>1. pc \in {"fill", "filled"} /\ pc' = "reserve" /\ UNCHANGED <<pending, retiring, pendingReleases>>
    BY <1>4 DEF EnterSchedule, FallBack, Schedule
  <2>2. QED BY <2>1 DEF SettledInv
<1>5. QED BY <1>1, <1>2, <1>3, <1>4

\* The steps of schedule() are inside the call.
LEMMA SchedulingCalls ==
  ASSUME Scheduling \/ HookFault
  PROVE  pc \in {"reserve", "affinity", "prefill", "decode"}
BY DEF Scheduling, ScheduleStep, AcquireWindow, PreemptUnreserved, StartPrefill, StartAffinity,
            AffinityScan, AffinityDecode, AffinityPrefill, PrefillSkip, PrefillDefer, PrefillTake,
            NextBucket, PrefillReturn, PreemptSoleUnreserved, StartDecode, DecodeRotate, DecodeTake, DecodeBlock,
            DecodePreempt, DecodeReturn, NothingToRun, PreemptDecodeVictim, HookFault, PrefillHookFails,
            InBucket, InDecode, PrefillOver, DecodeOver, Acquired, AffinityScanned

\* The calls and the synchronous step run while nothing retires, and release
\* only what they hold.
LEMMA StepsSettled ==
  ASSUME AsyncInv, SettledInv,
         \/ (Scheduling \/ HookFault \/ StepRefused) /\ UNCHANGED asyncVars
         \/ SyncFallback
         \/ \E s \in Seqs : AdmitRequest(s) /\ UNCHANGED asyncVars
  PROVE  SettledInv'
<1>1. UNCHANGED <<pending, retiring>>
  BY DEF asyncVars, SyncFallback
<1>2. CASE Scheduling \/ HookFault
  <2>1. pc \in {"reserve", "affinity", "prefill", "decode"}
    BY <1>2, SchedulingCalls
  <2>2. pc' \notin {"fill", "filled"}
    BY <1>2, <2>1 DEF Scheduling, ScheduleStep, AcquireWindow, PreemptUnreserved, StartPrefill, StartAffinity,
                AffinityScan, AffinityDecode, AffinityPrefill, OpenPrefill, PrefillSkip, PrefillDefer, PrefillTake,
                NextBucket, PrefillReturn, PreemptSoleUnreserved, StartDecode, DecodeRotate, DecodeTake, DecodeBlock,
                DecodePreempt, DecodeReturn, NothingToRun, PreemptDecodeVictim, HookFault, PrefillHookFails, Raise,
                Return, DrainRequired, RejectPreemption, StartReplay
  <2>3. pending = <<>> => retiring = {}
    BY <2>1, NothingRetires
  <2>4. QED BY <1>1, <2>2, <2>3 DEF SettledInv
<1>3. CASE StepRefused \/ \E s \in Seqs : AdmitRequest(s)
  <2>1. pc' = "raised" \/ (pc = "idle" /\ pc' = "idle" /\ UNCHANGED pendingReleases)
    BY <1>3 DEF StepRefused, AdmitRequest, Raise
  <2>2. QED BY <1>1, <2>1 DEF SettledInv
<1>4. CASE SyncFallback
  <2>1. CASE ReclaimOne
    <3>1. PICK h : h = Head(scheduled)
      OBVIOUS
    <3>2. pc = "reclaim" /\ pc' = "reclaim" /\ scheduled # <<>> /\ (ReleaseOk(h) \/ ReleaseFails(h))
      BY <2>1, <3>1 DEF ReclaimOne
    <3>3. scheduled \in Seq(Seqs)
      BY PartsOfInv DEF AsyncInv, Parts
    <3>4. h \in Range(scheduled)
      BY <3>1, <3>2, <3>3, HeadTailFacts
    <3>5. h \notin retiring
      BY <3>4 DEF AsyncInv, TicketInv, Held
    <3>6. pendingReleases \ {h} \subseteq pendingReleases'
      BY <3>2 DEF ReleaseOk, ReleaseFails
    <3>7. QED BY <1>1, <3>2, <3>5, <3>6 DEF SettledInv
  <2>2. CASE ReclaimDone
    BY <2>2 DEF ReclaimDone, Raise, SettledInv
  <2>3. CASE \/ RunModel \/ RunModelFails \/ StepWithoutBatch \/ PostPartialPrefill \/ PostLastPrefill \/ PostDecode
             \/ StartRelease \/ ReleaseFinished \/ StepDone
    <3>1. pc \in {"returned", "postprocess", "release"} /\ pc' \notin {"fill", "filled"}
      BY <2>3 DEF RunModel, RunModelFails, StepWithoutBatch, PostPartialPrefill, PostLastPrefill, PostDecode, PostTail,
                  NextPost, StartRelease, ReleaseFinished, StepDone, Raise
    <3>2. pending = <<>> => retiring = {}
      BY <3>1, NothingRetires
    <3>3. QED BY <1>1, <3>1, <3>2 DEF SettledInv
  <2>4. QED BY <1>4, <2>1, <2>2, <2>3 DEF SyncFallback, SyncRun, SyncRelease, SyncRest
<1>5. QED BY <1>2, <1>3, <1>4

AsyncRunnable == AsyncInv /\ SlotInv /\ RunnableInv /\ SettledInv

\* Every step of the asynchronous engine keeps it runnable.
LEMMA AsyncNextRunnable == AsyncRunnable /\ [AsyncNext]_allVars => AsyncRunnable'
<1>1. SUFFICES ASSUME AsyncRunnable, [AsyncNext]_allVars PROVE AsyncRunnable'
  OBVIOUS
<1>2. /\ AsyncInv /\ SlotInv /\ PoolInv /\ RunnableInv /\ SettledInv
      /\ RoomLeft /\ PromptInv /\ FitInv /\ ScanInv /\ NeverHangs
  BY <1>1 DEF AsyncRunnable, RunnableInv, SlotInv
<1>3. AsyncInv' /\ SlotInv'
  BY <1>1, <1>2, AsyncNextInv, AsyncNextSlots
<1>4. PICK X : X = retiring
  OBVIOUS
<1>5. AsyncParts /\ MemInv(X) /\ IInv /\ PhaseInv /\ \A x \in X : status[x] = "FINISHED"
  BY <1>2, <1>4, PartsOfAsync DEF AsyncParts, TicketInv
<1>6. CASE UNCHANGED allVars
  <2>1. UNCHANGED vars /\ UNCHANGED <<pending, retiring>>
    BY <1>6 DEF allVars, asyncVars
  <2>2. RunnableInv'
    BY <1>2, <2>1, StutterRunnable
  <2>3. UNCHANGED <<pc, waiting, decoding, pendingReleases>>
    BY <2>1 DEF vars, schedVars
  <2>4. SettledInv'
    BY <1>2, <2>1, <2>3 DEF SettledInv, IsFinished
  <2>5. QED BY <1>3, <2>2, <2>4 DEF AsyncRunnable
<1>7. CASE AsyncNext
  <2>1. FinalStep
    <3>1. FinalStep \/ UNCHANGED vars
      BY <1>2, <1>7, AsyncFinalNext
    <3>2. UNCHANGED vars => FinalStep
      BY DEF FinalStep, vars, schedVars
    <3>3. QED BY <3>1, <3>2
  <2>2. CASE Scheduling /\ UNCHANGED asyncVars
    <3>1. asyncInflight = 0 => X = {}
      <4>1. pc \in {"reserve", "affinity", "prefill", "decode"}
        BY <2>2, SchedulingCalls
      <4>2. asyncInflight = 0 => pending = <<>>
        BY <1>5, <4>1 DEF PhaseInv, AsyncParts, InCall
      <4>3. QED BY <1>2, <1>4, <4>1, <4>2, NothingRetires
    <3>2. ScanInv' /\ NeverHangs'
      BY <1>2, <1>5, <2>2, <3>1, SchedulingScan
    <3>3. PromptInv' /\ FitInv'
      BY <1>2, <1>5, <2>2, SchedulingPrompts
    <3>4. RoomLeft'
      BY <1>2, <1>5, <2>1, <2>2, StepRoom
    <3>5. SettledInv'
      BY <1>2, <2>2, StepsSettled
    <3>6. QED BY <1>3, <3>2, <3>3, <3>4, <3>5 DEF AsyncRunnable, RunnableInv
  <2>3. CASE \/ (HookFault \/ StepRefused) /\ UNCHANGED asyncVars
             \/ SyncFallback
             \/ \E s \in Seqs : AdmitRequest(s) /\ UNCHANGED asyncVars
    <3>1. StepRefused \/ SyncStep \/ \E s \in Seqs : AdmitRequest(s)
      BY <2>3 DEF SyncFallback, SyncRun, SyncRelease, SyncRest, SyncStep
    <3>2. StepWithoutBatch => asyncInflight = 0
      <4>1. SUFFICES ASSUME StepWithoutBatch PROVE asyncInflight = 0
        OBVIOUS
      <4>2. pc = "returned"
        BY <4>1 DEF StepWithoutBatch
      <4>3. caller = "sync"
        BY <2>3, <4>2 DEF SyncFallback, HookFault, PrefillHookFails, StepRefused, AdmitRequest, InBucket
      <4>4. QED BY <1>5, <4>2, <4>3 DEF PhaseInv, AsyncParts
    <3>3. ~StepSync
      <4>1. pc' # "reserve"
        BY <3>1 DEF StepRefused, SyncStep, HookFault, PrefillHookFails, StepWithoutBatch, RunModel, RunModelFails,
                    ReclaimOne, ReclaimDone, PostPartialPrefill, PostLastPrefill, PostDecode, PostTail, NextPost,
                    StartRelease, ReleaseFinished, StepDone, AdmitRequest, Raise
      <4>2. QED BY <4>1 DEF StepSync, Schedule
    <3>4. PromptInv' /\ FitInv'
      BY <1>2, <1>5, <3>1, <3>3, StepPrompts
    <3>5. RoomLeft'
      BY <1>2, <1>5, <2>1, <3>1, StepRoom
    <3>6. ScanInv' /\ NeverHangs'
      BY <1>2, <1>5, <3>1, <3>2, StepScan
    <3>7. SettledInv'
      BY <1>2, <2>3, StepsSettled
    <3>8. QED BY <1>3, <3>4, <3>5, <3>6, <3>7 DEF AsyncRunnable, RunnableInv
  <2>4. CASE DriverStep
    <3>1. PromptInv' /\ FitInv'
      BY <1>2, <2>4, DriverRests, RetirePrompts, PutBackPrompts, SubmitPrompts DEF DriverStep
    <3>2. RoomLeft'
      BY <1>2, <2>1, <2>4, DriverRoom
    <3>3. ScanInv' /\ NeverHangs'
      BY <1>2, <2>4, DriverScan
    <3>4. SettledInv'
      BY <1>2, <2>4, FillsForSomething, SettlesAll DEF DriverStep
    <3>5. QED BY <1>3, <3>1, <3>2, <3>3, <3>4 DEF AsyncRunnable, RunnableInv
  <2>5. QED BY <1>7, <2>2, <2>3, <2>4 DEF AsyncNext, AsyncDriver, DriverStep
<1>8. QED BY <1>1, <1>6, <1>7

\* With forwards in flight too, a call of schedule() runs something, preempts,
\* waits for a ticket, or raises an error that names what does not fit; the
\* fallback that has no ticket to collect never finds an idle scheduler.
THEOREM AsyncNeverIdle == AsyncSpec => []NeverHangs
<1>1. AsyncInit => AsyncRunnable
  <2>1. SUFFICES ASSUME AsyncInit PROVE AsyncRunnable
    OBVIOUS
  <2>2. Init /\ retiring = {} /\ pc = "idle"
    BY <2>1 DEF AsyncInit, Init
  <2>3. SettledInv
    BY <2>2 DEF SettledInv
  <2>4. QED BY <2>1, <2>2, <2>3, AsyncInitInv, InitSlots, InitRunnable DEF AsyncRunnable
<1>2. AsyncRunnable => NeverHangs
  BY DEF AsyncRunnable, RunnableInv
<1>3. QED BY <1>1, <1>2, AsyncNextRunnable, PTL DEF AsyncSpec
=============================================================================
