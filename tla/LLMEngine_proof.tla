-------------------------- MODULE LLMEngine_proof --------------------------
(***************************************************************************)
(* Safety of the synchronous engine, for every set of requests and every   *)
(* cache, batch and window size.                                           *)
(*                                                                         *)
(* IInv is inductive: OwnedOnce needs to know which queue each local of a  *)
(* running schedule() call was taken from (CallInv), PublishedOnce that a  *)
(* selected request still has room for a token (TokenInv), and             *)
(* FinishedIsFinal where a finished request may still be seen before its   *)
(* release (FinishInv).  One lemma per action, in the order of the code:   *)
(* it first says what the action changes of the state the invariant reads, *)
(* then what that does to the queues as sets, then takes the conjuncts.    *)
(***************************************************************************)
EXTENDS LLMEngine, SequenceFacts, TLAPS

\* The conjuncts of the invariant, and that the queues hold requests.
Parts ==
  /\ TypeOK /\ OwnedOnce /\ CallInv /\ FinishInv /\ TokenInv
  /\ Range(waiting) \subseteq Seqs /\ Range(decoding) \subseteq Seqs
  /\ Range(scheduled) \subseteq Seqs /\ Range(skipped) \subseteq Seqs
  /\ Range(finished) \subseteq Seqs
  /\ waiting \in Seq(Seqs) /\ decoding \in Seq(Seqs) /\ scheduled \in Seq(Seqs)
  /\ skipped \in Seq(Seqs) /\ finished \in Seq(Seqs)
  /\ IsInjective(waiting) /\ IsInjective(decoding)
  /\ IsInjective(scheduled) /\ IsInjective(skipped)
  /\ \A s \in Range(waiting) \cup Range(decoding) \cup Range(scheduled) \cup Range(skipped) :
       status[s] # "NEW"

USE DEF queueVars, seqVars, memVars, scanVars, retVars, engineVars, NoReplay, Statuses

\* IInv, taken apart.
LEMMA PartsOfInv == ASSUME IInv PROVE Parts
<1>1. TypeOK /\ OwnedOnce /\ CallInv /\ FinishInv /\ TokenInv
  BY DEF IInv
<1>2. {waiting, decoding, scheduled, skipped, finished} \subseteq Seq(Seqs)
  BY <1>1 DEF TypeOK, QueueTypes
<1>3. \A s \in Range(waiting) \cup Range(decoding) \cup Range(scheduled) \cup Range(skipped) :
        status[s] # "NEW"
  BY <1>1 DEF CallInv, Held
<1>4. \A q \in {waiting, decoding, scheduled, skipped} : IsInjective(q)
  BY <1>1 DEF OwnedOnce
<1>5. QED BY <1>1, <1>2, <1>3, <1>4, RangeFacts DEF Parts

\* Initially no request is admitted.
LEMMA InitInv == Init => IInv
<1>1. SUFFICES ASSUME Init PROVE IInv
  OBVIOUS
<1>2. TypeOK
  <2>1. QueueTypes
    BY <1>1, EmptyFacts DEF Init, QueueTypes
  <2>2. RequestTypes
    BY <1>1, SchedulerAssumption DEF Init, RequestTypes
  <2>3. CallTypes
    <3>1. pc \in Points /\ error \in Errors /\ isPrefill \in BOOLEAN
      BY <1>1 DEF Init, Points, Errors
    <3>2. QED BY <1>1, <3>1 DEF Init, CallTypes
  <2>4. ReleaseTypes
    BY <1>1, FaultAssumption DEF Init, ReleaseTypes
  <2>5. QED BY <2>1, <2>2, <2>3, <2>4 DEF TypeOK
<1>3. OwnedOnce
  BY <1>1, EmptyFacts DEF Init, OwnedOnce, Popped
<1>4. CallInv
  BY <1>1, EmptyFacts DEF Init, CallInv, Held
<1>5. FinishInv
  BY <1>1, EmptyFacts DEF Init, FinishInv, Broken
<1>6. TokenInv
  BY <1>1, EmptyFacts, SchedulerAssumption DEF Init, TokenInv, PublishedOnce
<1>7. QED BY <1>2, <1>3, <1>4, <1>5, <1>6 DEF IInv

\* admit_request: the id is new, so it is in no queue.
LEMMA AdmitInv ==
  ASSUME IInv, NEW s \in Seqs, AdmitRequest(s)
  PROVE  IInv'
<1>1. Parts
  BY PartsOfInv
<1>2. /\ UNCHANGED <<decoding, scheduled, skipped, finished, asyncInflight, prefilled,
                      chunk, tokens, inflight, checkpoint, kv, published, cursor, resident,
                      pc, error, scan, budget, batchTokens, refused, failure, blocked,
                      preempted, isPrefill, modes, pendingReleases, releaseFailed, aborted,
                      faults>>
      /\ waiting' = Append(waiting, s)
      /\ status[s] = "NEW" /\ status' = [status EXCEPT ![s] = "WAITING"]
      /\ phase' \in {phase, "prefill"}
  BY DEF AdmitRequest
<1>3. /\ waiting' \in Seq(Seqs) /\ Range(waiting') = Range(waiting) \cup {s}
      /\ s \notin Range(waiting) \cup Range(decoding) \cup Range(scheduled) \cup Range(skipped)
      /\ IsInjective(waiting')
  BY <1>1, <1>2, AppendFacts DEF Parts
<1>4. status'[s] = "WAITING" /\ \A x \in Seqs : x # s => status'[x] = status[x]
  BY <1>1, <1>2 DEF Parts, TypeOK, RequestTypes
<1>5. TypeOK'
  <2>1. QueueTypes'
    BY <1>1, <1>2, <1>3, <1>4 DEF Parts, TypeOK, QueueTypes
  <2>2. RequestTypes'
    BY <1>1, <1>2 DEF Parts, TypeOK, RequestTypes
  <2>3. CallTypes'
    BY <1>1, <1>2 DEF Parts, TypeOK, CallTypes, Points, Errors
  <2>4. ReleaseTypes'
    BY <1>1, <1>2 DEF Parts, TypeOK, ReleaseTypes
  <2>5. QED BY <2>1, <2>2, <2>3, <2>4 DEF TypeOK
<1>6. OwnedOnce'
  BY <1>1, <1>2, <1>3, <1>4 DEF Parts, OwnedOnce, Popped
<1>7. CallInv'
  BY <1>1, <1>2, <1>3, <1>4 DEF Parts, CallInv, Held
<1>8. FinishInv'
  BY <1>1, <1>2, <1>3, <1>4 DEF Parts, FinishInv, Broken
<1>9. TokenInv'
  BY <1>1, <1>2, <1>3, <1>4 DEF Parts, TokenInv, PublishedOnce, IsReplay
<1>10. QED BY <1>5, <1>6, <1>7, <1>8, <1>9 DEF IInv

\* A window is taken, or its owner remembered as the failure.
LEMMA AcquireInv ==
  ASSUME IInv, AcquireWindow, UNCHANGED engineVars
  PROVE  IInv'
<1>1. Parts
  BY PartsOfInv
<1>2. /\ UNCHANGED <<waiting, decoding, scheduled, skipped, finished, phase, asyncInflight,
                      status, prefilled, chunk, tokens, inflight, checkpoint, kv, published,
                      cursor, resident, pc, error, budget, batchTokens, refused, blocked,
                      preempted, isPrefill, modes, pendingReleases, releaseFailed, aborted,
                      faults>>
      /\ scan' \in {scan, scan + 1} /\ scan <= Len(decoding)
      /\ pc = "reserve" /\ failure' \in {failure, decoding[scan]}
  BY DEF AcquireWindow
<1>3. scan \in DOMAIN decoding /\ scan \in Nat /\ decoding[scan] \in Seqs
  BY <1>1, <1>2 DEF Parts, TypeOK, CallTypes
<1>4. decoding[scan] \in Range(decoding)
  BY <1>3 DEF Range
<1>5. TypeOK'
  <2>1. QueueTypes'
    BY <1>1, <1>2, <1>3, <1>4 DEF Parts, TypeOK, QueueTypes
  <2>2. RequestTypes'
    BY <1>1, <1>2 DEF Parts, TypeOK, RequestTypes
  <2>3. CallTypes'
    BY <1>1, <1>2, <1>3 DEF Parts, TypeOK, CallTypes, Points, Errors
  <2>4. ReleaseTypes'
    BY <1>1, <1>2 DEF Parts, TypeOK, ReleaseTypes
  <2>5. QED BY <2>1, <2>2, <2>3, <2>4 DEF TypeOK
<1>6. OwnedOnce'
  BY <1>1, <1>2, <1>3, <1>4 DEF Parts, OwnedOnce, Popped
<1>7. CallInv'
  BY <1>1, <1>2, <1>3, <1>4 DEF Parts, CallInv, Held
<1>8. FinishInv'
  BY <1>1, <1>2, <1>3, <1>4 DEF Parts, FinishInv, Broken
<1>9. TokenInv'
  BY <1>1, <1>2, <1>3, <1>4 DEF Parts, TokenInv, PublishedOnce, IsReplay
<1>10. QED BY <1>5, <1>6, <1>7, <1>8, <1>9 DEF IInv

\* The victim returns to the front of decoding.
LEMMA PutBackInv ==
  ASSUME IInv, NEW v \in Range(decoding), NEW others \in Seq(Seqs),
         IsInjective(others), Range(others) = Range(decoding) \ {v},
         pc \in {"reserve", "prefill", "decode"}, scheduled = <<>>, skipped = <<>>,
         scheduled' = <<>>, isPrefill' = FALSE, ClearLocals,
         UNCHANGED <<phase, asyncInflight, tokens, inflight, memVars, engineVars>>,
         DrainRequired(v, others) \/ RejectPreemption(v, others)
  PROVE  IInv'
<1>1. Parts
  BY PartsOfInv
<1>2. /\ UNCHANGED <<waiting, finished, phase, asyncInflight, status, prefilled, chunk,
                      tokens, inflight, checkpoint, kv, published, cursor, resident,
                      preempted, pendingReleases, releaseFailed, aborted, faults>>
      /\ decoding' = <<v>> \o others
      /\ pc' \in {"drain", "raised"} /\ error' \in {error, "sole_decode"}
      /\ scheduled' = <<>> /\ skipped' = <<>> /\ isPrefill' = FALSE
      /\ scan' = 1 /\ budget' = 0 /\ batchTokens' = 0 /\ refused' = {}
      /\ failure' = None /\ blocked' = None
  BY DEF DrainRequired, RejectPreemption, ClearLocals, Raise
<1>3. /\ decoding' \in Seq(Seqs) /\ IsInjective(decoding')
      /\ Range(decoding') = Range(decoding)
  <2>1. v \in Seqs /\ v \notin Range(others)
    BY <1>1 DEF Parts
  <2>2. /\ <<v>> \o others \in Seq(Seqs) /\ IsInjective(<<v>> \o others)
        /\ Range(<<v>> \o others) = Range(others) \cup {v}
    BY <2>1, PrependFacts
  <2>3. QED BY <1>2, <2>2
<1>4. <<>> \in Seq(Seqs) /\ IsInjective(<<>>) /\ Range(<<>>) = {}
  BY EmptyFacts
<1>5. TypeOK'
  <2>1. QueueTypes'
    BY <1>1, <1>2, <1>3, <1>4 DEF Parts, TypeOK, QueueTypes
  <2>2. RequestTypes'
    BY <1>1, <1>2, SMTT(60) DEF Parts, TypeOK, RequestTypes
  <2>3. CallTypes'
    <3>1. pc' \in Points /\ error' \in Errors /\ isPrefill' \in BOOLEAN
      BY <1>1, <1>2 DEF Parts, TypeOK, CallTypes, Points, Errors
    <3>2. QED BY <1>1, <1>2, <3>1 DEF Parts, TypeOK, CallTypes
  <2>4. ReleaseTypes'
    BY <1>1, <1>2 DEF Parts, TypeOK, ReleaseTypes
  <2>5. QED BY <2>1, <2>2, <2>3, <2>4 DEF TypeOK
<1>6. OwnedOnce'
  BY <1>1, <1>2, <1>3, <1>4 DEF Parts, OwnedOnce, Popped
<1>7. CallInv'
  BY <1>1, <1>2, <1>3, <1>4 DEF Parts, CallInv, Held
<1>8. FinishInv'
  BY <1>1, <1>2, <1>3, <1>4 DEF Parts, FinishInv, Broken
<1>9. TokenInv'
  BY <1>1, <1>2, <1>3, <1>4 DEF Parts, TokenInv, PublishedOnce, IsReplay
<1>10. QED BY <1>5, <1>6, <1>7, <1>8, <1>9 DEF IInv

\* The victim moves to the tail of waiting, to be recomputed.
LEMMA ReplayInv ==
  ASSUME IInv, NEW v \in Range(decoding), NEW others \in Seq(Seqs),
         IsInjective(others), Range(others) = Range(decoding) \ {v},
         pc \in {"reserve", "prefill", "decode"}, scheduled = <<>>, skipped = <<>>,
         scheduled' = <<>>, isPrefill' = FALSE, ClearLocals,
         UNCHANGED <<phase, asyncInflight, tokens, inflight, memVars, engineVars>>,
         StartReplay(v, others)
  PROVE  IInv'
<1>1. Parts
  BY PartsOfInv
<1>2. /\ UNCHANGED <<finished, phase, asyncInflight, tokens, inflight, kv, published,
                      resident, error, pendingReleases, releaseFailed, aborted, faults>>
      /\ waiting' = Append(waiting, v) /\ decoding' = others
      /\ pc' = "returned" /\ preempted' = v
      /\ status' = [status EXCEPT ![v] = "WAITING"]
      /\ cursor' = [cursor EXCEPT ![v] = IF tokens[v] > 0 THEN 0 ELSE @]
      /\ prefilled' = [prefilled EXCEPT ![v] = 0]
      /\ chunk' = [chunk EXCEPT ![v] = IF tokens[v] > 0 THEN 0 ELSE @]
      /\ checkpoint' = [s \in Seqs |->
                          IF s \in Range(others) \/ (s = v /\ tokens[v] > 0)
                          THEN tokens[s] ELSE checkpoint[s]]
      /\ scheduled' = <<>> /\ skipped' = <<>> /\ isPrefill' = FALSE
      /\ scan' = 1 /\ budget' = 0 /\ batchTokens' = 0 /\ refused' = {}
      /\ failure' = None /\ blocked' = None
  BY DEF StartReplay, ClearLocals
<1>3. v \in Seqs /\ v \notin Range(waiting) /\ status[v] # "FINISHED"
  BY <1>1 DEF Parts, OwnedOnce, FinishInv, Broken
<1>4. /\ waiting' \in Seq(Seqs) /\ IsInjective(waiting')
      /\ Range(waiting') = Range(waiting) \cup {v}
  BY <1>1, <1>2, <1>3, AppendFacts DEF Parts
<1>5. /\ status'[v] = "WAITING" /\ (tokens[v] > 0 => cursor'[v] = 0)
      /\ \A x \in Seqs : x # v => status'[x] = status[x] /\ cursor'[x] = cursor[x]
  BY <1>1, <1>2, <1>3 DEF Parts, TypeOK, RequestTypes
<1>6. tokens[v] \in Nat /\ PromptLen[v] \in Nat
  BY <1>1, <1>3, SchedulerAssumption DEF Parts, TypeOK, RequestTypes
<1>7. <<>> \in Seq(Seqs) /\ IsInjective(<<>>) /\ Range(<<>>) = {}
  BY EmptyFacts
<1>8. TypeOK'
  <2>1. QueueTypes'
    BY <1>1, <1>2, <1>3, <1>4, <1>5, <1>6, <1>7 DEF Parts, TypeOK, QueueTypes
  <2>2. RequestTypes'
    <3>1. status' \in [Seqs -> Statuses] /\ cursor' \in [Seqs -> Nat \cup {NoReplay}]
      BY <1>1, <1>2, <1>3 DEF Parts, TypeOK, RequestTypes
    <3>2. RequestTypes
      BY <1>1 DEF Parts, TypeOK
    <3>3. prefilled' = [prefilled EXCEPT ![v] = 0]
      BY <1>2
    <3>4. prefilled' \in [Seqs -> Nat] /\ \A s \in Seqs : prefilled'[s] <= PromptLen[s]
      <4>1. prefilled \in [Seqs -> Nat] /\ \A s \in Seqs : prefilled[s] <= PromptLen[s]
        BY <3>2 DEF RequestTypes
      <4>2. QED BY <1>3, <1>6, <3>3, <4>1
    <3>5. chunk' \in [Seqs -> Nat] /\ checkpoint' \in [Seqs -> Nat]
      BY <1>2, <3>2 DEF RequestTypes
    <3>6. UNCHANGED <<tokens, inflight, kv, published, resident>>
      BY <1>2
    <3>7. QED BY <3>1, <3>2, <3>4, <3>5, <3>6 DEF RequestTypes
  <2>3. CallTypes'
    <3>1. pc' \in Points /\ error' \in Errors /\ isPrefill' \in BOOLEAN
      BY <1>1, <1>2 DEF Parts, TypeOK, CallTypes, Points, Errors
    <3>2. QED BY <1>1, <1>2, <3>1, <1>3 DEF Parts, TypeOK, CallTypes
  <2>4. ReleaseTypes'
    BY <1>1, <1>2 DEF Parts, TypeOK, ReleaseTypes
  <2>5. QED BY <2>1, <2>2, <2>3, <2>4 DEF TypeOK
<1>9. OwnedOnce'
  BY <1>1, <1>2, <1>3, <1>4, <1>5, <1>6, <1>7 DEF Parts, OwnedOnce, Popped
<1>10. CallInv'
  BY <1>1, <1>2, <1>3, <1>4, <1>5, <1>6, <1>7 DEF Parts, CallInv, Held
<1>11. FinishInv'
  BY <1>1, <1>2, <1>3, <1>4, <1>5, <1>6, <1>7 DEF Parts, FinishInv, Broken
<1>12. TokenInv'
  BY <1>1, <1>2, <1>3, <1>4, <1>5, <1>6, <1>7 DEF Parts, TokenInv, PublishedOnce, IsReplay
<1>13. QED BY <1>8, <1>9, <1>10, <1>11, <1>12 DEF IInv

\* _preempt_decode_victim, from any of its three call sites.
LEMMA PreemptInv ==
  ASSUME IInv, NEW v \in Range(decoding), NEW others \in Seq(Seqs),
         IsInjective(others), Range(others) = Range(decoding) \ {v},
         pc \in {"reserve", "prefill", "decode"}, scheduled = <<>>, skipped = <<>>,
         PreemptDecodeVictim(v, others), UNCHANGED engineVars
  PROVE  IInv'
<1>1. /\ scheduled' = <<>> /\ isPrefill' = FALSE /\ ClearLocals
      /\ UNCHANGED <<phase, asyncInflight, tokens, inflight, memVars, engineVars>>
  BY DEF PreemptDecodeVictim
<1>2. CASE DrainRequired(v, others) \/ RejectPreemption(v, others)
  BY <1>1, <1>2, PutBackInv
<1>3. CASE StartReplay(v, others)
  BY <1>1, <1>3, ReplayInv
<1>4. QED BY <1>2, <1>3 DEF PreemptDecodeVictim

\* The prefill scan starts on a permutation of waiting.
LEMMA OpenPrefillInv ==
  ASSUME IInv, NEW queue \in Seq(Seqs), IsInjective(queue), Range(queue) = Range(waiting),
         pc \in {"reserve", "affinity"}, OpenPrefill(queue), UNCHANGED engineVars
  PROVE  IInv'
<1>1. Parts
  BY PartsOfInv
<1>2. /\ UNCHANGED <<decoding, skipped, finished, phase, asyncInflight, status, prefilled,
                      chunk, tokens, inflight, checkpoint, kv, published, cursor, resident,
                      error, scan, batchTokens, refused, failure, blocked, preempted,
                      isPrefill, pendingReleases, releaseFailed, aborted, faults>>
      /\ waiting' = queue /\ pc' = "prefill" /\ scheduled' = <<>> /\ budget' = Len(queue)
  BY DEF OpenPrefill
<1>3. Len(queue) \in Nat /\ skipped = <<>>
  BY <1>1, RangeFacts DEF Parts, CallInv
<1>4. <<>> \in Seq(Seqs) /\ IsInjective(<<>>) /\ Range(<<>>) = {}
  BY EmptyFacts
<1>5. TypeOK'
  <2>1. QueueTypes'
    BY <1>1, <1>2, <1>3, <1>4 DEF Parts, TypeOK, QueueTypes
  <2>2. RequestTypes'
    BY <1>1, <1>2 DEF Parts, TypeOK, RequestTypes
  <2>3. CallTypes'
    <3>1. pc' \in Points /\ error' \in Errors /\ isPrefill' \in BOOLEAN
      BY <1>1, <1>2 DEF Parts, TypeOK, CallTypes, Points, Errors
    <3>2. QED BY <1>1, <1>2, <3>1, <1>3 DEF Parts, TypeOK, CallTypes
  <2>4. ReleaseTypes'
    BY <1>1, <1>2 DEF Parts, TypeOK, ReleaseTypes
  <2>5. QED BY <2>1, <2>2, <2>3, <2>4 DEF TypeOK
<1>6. OwnedOnce'
  BY <1>1, <1>2, <1>3, <1>4 DEF Parts, OwnedOnce, Popped
<1>7. CallInv'
  BY <1>1, <1>2, <1>3, <1>4 DEF Parts, CallInv, Held
<1>8. FinishInv'
  BY <1>1, <1>2, <1>3, <1>4 DEF Parts, FinishInv, Broken
<1>9. TokenInv'
  BY <1>1, <1>2, <1>3, <1>4 DEF Parts, TokenInv, PublishedOnce, IsReplay
<1>10. QED BY <1>5, <1>6, <1>7, <1>8, <1>9 DEF IInv

\* The two early preemptions of _schedule_impl: v is the decode whose window
\* could not be renewed.
LEMMA UnreservedInv ==
  ASSUME IInv, PreemptUnreserved \/ PreemptSoleUnreserved, UNCHANGED engineVars
  PROVE  IInv'
<1>1. Parts
  BY PartsOfInv
<1>2. /\ pc \in {"reserve", "prefill", "decode"} /\ scheduled = <<>> /\ skipped = <<>>
      /\ failure \in Range(decoding)
      /\ PreemptDecodeVictim(failure, Without(decoding, failure))
  BY <1>1 DEF Parts, CallInv, PreemptUnreserved, PreemptSoleUnreserved, Acquired, PrefillOver
<1>3. /\ Without(decoding, failure) \in Seq(Seqs)
      /\ Range(Without(decoding, failure)) = Range(decoding) \ {failure}
      /\ IsInjective(Without(decoding, failure))
  BY <1>1, RemoveFacts DEF Parts, Without
<1>4. QED BY <1>2, <1>3, PreemptInv

\* Prefill is opened on waiting, or on waiting sorted by wait time.
LEMMA StartPrefillInv ==
  ASSUME IInv, StartPrefill \/ AffinityPrefill, UNCHANGED engineVars
  PROVE  IInv'
<1>1. Parts /\ pc \in {"reserve", "affinity"}
  BY PartsOfInv DEF StartPrefill, AffinityPrefill, Acquired
<1>2. CASE OpenPrefill(waiting)
  BY <1>1, <1>2, OpenPrefillInv DEF Parts
<1>3. ASSUME NEW p \in WaitSorts, OpenPrefill(Reordered(p))
      PROVE  IInv'
  <2>1. p \in Bijection(DOMAIN waiting, DOMAIN waiting)
    BY <1>3 DEF WaitSorts
  <2>2. /\ Reordered(p) \in Seq(Seqs) /\ Range(Reordered(p)) = Range(waiting)
        /\ IsInjective(Reordered(p))
    BY <1>1, <2>1, PermuteFacts DEF Parts, Reordered
  <2>3. QED BY <1>1, <1>3, <2>2, OpenPrefillInv
<1>4. QED BY <1>2, <1>3 DEF StartPrefill, AffinityPrefill

\* The affinity scan starts with an empty batch.
LEMMA StartAffinityInv ==
  ASSUME IInv, StartAffinity, UNCHANGED engineVars
  PROVE  IInv'
<1>1. Parts
  BY PartsOfInv
<1>2. /\ UNCHANGED <<waiting, decoding, scheduled, skipped, finished, phase, asyncInflight,
                      status, prefilled, chunk, tokens, inflight, checkpoint, kv, published,
                      cursor, resident, error, budget, batchTokens, refused, failure,
                      blocked, preempted, isPrefill, modes, pendingReleases, releaseFailed,
                      aborted, faults>>
      /\ pc = "reserve" /\ pc' = "affinity" /\ scan' = 1
  BY DEF StartAffinity, Acquired
<1>3. scheduled = <<>> /\ skipped = <<>> /\ Range(scheduled) = {} /\ DOMAIN scheduled = {}
  BY <1>1, <1>2, EmptyFacts DEF Parts, CallInv
<1>4. TypeOK'
  <2>1. QueueTypes'
    BY <1>1, <1>2, <1>3 DEF Parts, TypeOK, QueueTypes
  <2>2. RequestTypes'
    BY <1>1, <1>2, SMTT(60) DEF Parts, TypeOK, RequestTypes
  <2>3. CallTypes'
    <3>1. pc' \in Points /\ error' \in Errors /\ isPrefill' \in BOOLEAN
      BY <1>1, <1>2 DEF Parts, TypeOK, CallTypes, Points, Errors
    <3>2. QED BY <1>1, <1>2, <3>1 DEF Parts, TypeOK, CallTypes
  <2>4. ReleaseTypes'
    BY <1>1, <1>2 DEF Parts, TypeOK, ReleaseTypes
  <2>5. QED BY <2>1, <2>2, <2>3, <2>4 DEF TypeOK
<1>5. OwnedOnce'
  BY <1>1, <1>2, <1>3 DEF Parts, OwnedOnce, Popped
<1>6. CallInv'
  BY <1>1, <1>2, <1>3 DEF Parts, CallInv, Held
<1>7. FinishInv'
  BY <1>1, <1>2, <1>3 DEF Parts, FinishInv, Broken
<1>8. TokenInv'
  BY <1>1, <1>2, <1>3 DEF Parts, TokenInv, PublishedOnce, IsReplay
<1>9. QED BY <1>4, <1>5, <1>6, <1>7, <1>8 DEF IInv

\* The affinity scan takes a copy of the decode it looks at.
LEMMA AffinityScanInv ==
  ASSUME IInv, AffinityScan, UNCHANGED engineVars
  PROVE  IInv'
<1>1. Parts
  BY PartsOfInv
<1>2. /\ UNCHANGED <<waiting, decoding, skipped, finished, phase, asyncInflight, status,
                      prefilled, chunk, tokens, inflight, checkpoint, kv, published, cursor,
                      resident, pc, error, budget, batchTokens, refused, failure, blocked,
                      preempted, isPrefill, modes, pendingReleases, releaseFailed, aborted,
                      faults>>
      /\ pc = "affinity" /\ scan' = scan + 1 /\ ~(scan > Len(decoding))
      /\ \/ scheduled' = scheduled
         \/ /\ scheduled' = Append(scheduled, decoding[scan])
            /\ Submitted(decoding[scan]) < MaxTokens[decoding[scan]]
  BY DEF AffinityScan, AffinityScanned
<1>3. scan \in DOMAIN decoding /\ scan \in Nat /\ decoding[scan] \in Seqs
  BY <1>1, <1>2 DEF Parts, TypeOK, CallTypes
<1>4. decoding[scan] \in Range(decoding)
  BY <1>3 DEF Range
<1>5. \A i \in DOMAIN scheduled : \E j \in DOMAIN decoding :
        j < scan /\ decoding[j] = scheduled[i]
  BY <1>1, <1>2 DEF Parts, CallInv
<1>6. decoding[scan] \notin Range(scheduled)
  <2>1. SUFFICES ASSUME NEW i \in DOMAIN scheduled, scheduled[i] = decoding[scan]
                 PROVE  FALSE
    BY DEF Range
  <2>2. PICK j \in DOMAIN decoding : j < scan /\ decoding[j] = scheduled[i]
    BY <1>5
  <2>3. j = scan
    BY <1>1, <1>3, <2>1, <2>2 DEF Parts, IsInjective
  <2>4. QED BY <1>3, <2>2, <2>3
<1>7. /\ Append(scheduled, decoding[scan]) \in Seq(Seqs)
      /\ IsInjective(Append(scheduled, decoding[scan]))
      /\ Range(Append(scheduled, decoding[scan])) = Range(scheduled) \cup {decoding[scan]}
  BY <1>1, <1>3, <1>6, AppendFacts DEF Parts
<1>8. \A i \in DOMAIN scheduled' : \E j \in DOMAIN decoding :
        j < scan + 1 /\ decoding[j] = scheduled'[i]
  <2>0. \A j \in DOMAIN decoding : j < scan => j < scan + 1
    BY <1>1, <1>3 DEF Parts
  <2>1. CASE scheduled' = scheduled
    BY <1>5, <2>0, <2>1
  <2>2. CASE scheduled' = Append(scheduled, decoding[scan])
    <3>1. SUFFICES ASSUME NEW i \in DOMAIN scheduled'
                   PROVE  \E j \in DOMAIN decoding : j < scan + 1 /\ decoding[j] = scheduled'[i]
      OBVIOUS
    <3>2. CASE i \in DOMAIN scheduled
      <4>1. scheduled'[i] = scheduled[i]
        BY <1>1, <1>3, <2>2, <3>2 DEF Parts
      <4>2. QED BY <1>5, <2>0, <3>2, <4>1
    <3>3. CASE i \notin DOMAIN scheduled
      <4>1. scheduled'[i] = decoding[scan]
        BY <1>1, <1>3, <2>2, <3>1, <3>3 DEF Parts
      <4>2. QED BY <1>3, <4>1
    <3>4. QED BY <3>2, <3>3
  <2>3. QED BY <1>2, <2>1, <2>2
<1>9. \A x \in Seqs : Submitted(x) < MaxTokens[x] => tokens[x] < MaxTokens[x]
  <2>1. SUFFICES ASSUME NEW x \in Seqs PROVE Submitted(x) < MaxTokens[x] => tokens[x] < MaxTokens[x]
    OBVIOUS
  <2>2. tokens[x] \in Nat /\ inflight[x] \in Nat /\ MaxTokens[x] \in Nat
    BY <1>1, SchedulerAssumption DEF Parts, TypeOK, RequestTypes
  <2>3. QED BY <2>2 DEF Submitted
<1>10. pc' = "affinity" /\ skipped' = <<>> /\ scan' \in Nat
  BY <1>1, <1>2, <1>3 DEF Parts, CallInv
<1>11. \A x \in Range(scheduled) : tokens[x] < MaxTokens[x] /\ status[x] # "FINISHED"
  BY <1>1, <1>2 DEF Parts, TokenInv, FinishInv, Broken
<1>12. \A x \in Range(scheduled) \cup {decoding[scan]} : x \in Range(decoding)
  BY <1>3, <1>4, <1>5 DEF Range
<1>13. TypeOK'
  <2>1. QueueTypes'
    BY <1>1, <1>2, <1>3, <1>4, <1>5, <1>6, <1>7, <1>8, <1>9, <1>10, <1>11, <1>12 DEF Parts, TypeOK, QueueTypes
  <2>2. RequestTypes'
    BY <1>1, <1>2 DEF Parts, TypeOK, RequestTypes
  <2>3. CallTypes'
    BY <1>1, <1>2 DEF Parts, TypeOK, CallTypes, Points, Errors
  <2>4. ReleaseTypes'
    BY <1>1, <1>2 DEF Parts, TypeOK, ReleaseTypes
  <2>5. QED BY <2>1, <2>2, <2>3, <2>4 DEF TypeOK
<1>14. OwnedOnce'
  BY <1>1, <1>2, <1>3, <1>4, <1>5, <1>6, <1>7, <1>8, <1>9, <1>10, <1>11, <1>12 DEF Parts, OwnedOnce, Popped
<1>15. CallInv'
  <2>1. \A s \in Held' : status'[s] # "NEW"
    <3>1. Range(scheduled') \subseteq Range(scheduled) \cup {decoding[scan]}
      BY <1>2, <1>7
    <3>2. UNCHANGED <<waiting, decoding, skipped, status>>
      BY <1>2
    <3>3. QED BY <1>1, <1>4, <3>1, <3>2 DEF Parts, Held
  <2>2. blocked = None /\ (failure # None => failure \in Range(decoding))
    BY <1>1, <1>2 DEF Parts, CallInv
  <2>3. QED BY <1>2, <1>8, <1>10, <2>1, <2>2 DEF CallInv
<1>16. FinishInv'
  BY <1>1, <1>2, <1>3, <1>4, <1>5, <1>6, <1>7, <1>8, <1>9, <1>10, <1>11, <1>12 DEF Parts, FinishInv, Broken
<1>17. TokenInv'
  BY <1>1, <1>2, <1>3, <1>4, <1>5, <1>6, <1>7, <1>8, <1>9, <1>10, <1>11, <1>12 DEF Parts, TokenInv, PublishedOnce, IsReplay
<1>18. QED BY <1>13, <1>14, <1>15, <1>16, <1>17 DEF IInv

\* The affinity batch stays in decoding.
LEMMA AffinityDecodeInv ==
  ASSUME IInv, AffinityDecode, UNCHANGED engineVars
  PROVE  IInv'
<1>1. Parts
  BY PartsOfInv
<1>2. /\ UNCHANGED <<waiting, decoding, scheduled, finished, asyncInflight, status,
                      prefilled, chunk, tokens, inflight, checkpoint, kv, published, cursor,
                      resident, error, pendingReleases, releaseFailed, aborted, faults>>
      /\ pc = "affinity"
      /\ pc' = "returned" /\ isPrefill' = FALSE /\ preempted' = None /\ phase' = "decode"
      /\ skipped' = <<>>
      /\ scan' = 1 /\ budget' = 0 /\ batchTokens' = 0 /\ refused' = {}
      /\ failure' = None /\ blocked' = None
  BY DEF AffinityDecode, Return, ClearLocals
<1>3. Range(scheduled) \subseteq Range(decoding) /\ skipped = <<>>
  <2>1. \A i \in DOMAIN scheduled : \E j \in DOMAIN decoding :
           j < scan /\ decoding[j] = scheduled[i]
    BY <1>1, <1>2 DEF Parts, CallInv
  <2>2. QED BY <1>1, <1>2, <2>1 DEF Parts, CallInv, Range
<1>4. <<>> \in Seq(Seqs) /\ IsInjective(<<>>) /\ Range(<<>>) = {}
  BY EmptyFacts
<1>5. TypeOK'
  <2>1. QueueTypes'
    BY <1>1, <1>2, <1>3, <1>4 DEF Parts, TypeOK, QueueTypes
  <2>2. RequestTypes'
    BY <1>1, <1>2 DEF Parts, TypeOK, RequestTypes
  <2>3. CallTypes'
    <3>1. pc' \in Points /\ error' \in Errors /\ isPrefill' \in BOOLEAN
      BY <1>1, <1>2 DEF Parts, TypeOK, CallTypes, Points, Errors
    <3>2. QED BY <1>1, <1>2, <3>1 DEF Parts, TypeOK, CallTypes
  <2>4. ReleaseTypes'
    BY <1>1, <1>2 DEF Parts, TypeOK, ReleaseTypes
  <2>5. QED BY <2>1, <2>2, <2>3, <2>4 DEF TypeOK
<1>6. OwnedOnce'
  BY <1>1, <1>2, <1>3, <1>4 DEF Parts, OwnedOnce, Popped
<1>7. CallInv'
  BY <1>1, <1>2, <1>3, <1>4 DEF Parts, CallInv, Held
<1>8. FinishInv'
  BY <1>1, <1>2, <1>3, <1>4 DEF Parts, FinishInv, Broken
<1>9. TokenInv'
  BY <1>1, <1>2, <1>3, <1>4 DEF Parts, TokenInv, PublishedOnce, IsReplay
<1>10. QED BY <1>5, <1>6, <1>7, <1>8, <1>9 DEF IInv

\* A request of another bucket moves from waiting to skipped.
LEMMA PrefillSkipInv ==
  ASSUME IInv, PrefillSkip, UNCHANGED engineVars
  PROVE  IInv'
<1>1. Parts
  BY PartsOfInv
<1>2. /\ UNCHANGED <<decoding, scheduled, finished, phase, asyncInflight, status,
                      prefilled, chunk, tokens, inflight, checkpoint, kv, published, cursor,
                      resident, pc, error, scan, budget, batchTokens, refused, failure,
                      blocked, preempted, isPrefill, modes, pendingReleases, releaseFailed,
                      aborted, faults>>
      /\ pc = "prefill" /\ modes # <<>> /\ waiting # <<>>
      /\ skipped' = Append(skipped, Head(waiting)) /\ waiting' = Tail(waiting)
  BY DEF PrefillSkip, InBucket, CanContinuePrefillBatch
<1>3. /\ Head(waiting) \in Seqs /\ Tail(waiting) \in Seq(Seqs) /\ IsInjective(Tail(waiting))
      /\ Range(waiting) = Range(Tail(waiting)) \cup {Head(waiting)} /\ Head(waiting) \notin Range(Tail(waiting))
  BY <1>1, <1>2, HeadTailFacts DEF Parts
<1>4. Head(waiting) \notin Range(decoding) \cup Range(scheduled) \cup Range(skipped)
  BY <1>1, <1>2, <1>3 DEF Parts, OwnedOnce, Popped
<1>5. /\ skipped' \in Seq(Seqs) /\ IsInjective(skipped')
      /\ Range(skipped') = Range(skipped) \cup {Head(waiting)}
  BY <1>1, <1>2, <1>3, <1>4, AppendFacts DEF Parts
<1>6. TypeOK'
  <2>1. QueueTypes'
    BY <1>1, <1>2, <1>3, <1>4, <1>5 DEF Parts, TypeOK, QueueTypes
  <2>2. RequestTypes'
    BY <1>1, <1>2, SMTT(60) DEF Parts, TypeOK, RequestTypes
  <2>3. CallTypes'
    BY <1>1, <1>2 DEF Parts, TypeOK, CallTypes, Points, Errors
  <2>4. ReleaseTypes'
    BY <1>1, <1>2 DEF Parts, TypeOK, ReleaseTypes
  <2>5. QED BY <2>1, <2>2, <2>3, <2>4 DEF TypeOK
<1>7. OwnedOnce'
  BY <1>1, <1>2, <1>3, <1>4, <1>5 DEF Parts, OwnedOnce, Popped
<1>8. CallInv'
  BY <1>1, <1>2, <1>3, <1>4, <1>5 DEF Parts, CallInv, Held
<1>9. FinishInv'
  BY <1>1, <1>2, <1>3, <1>4, <1>5 DEF Parts, FinishInv, Broken
<1>10. TokenInv'
  BY <1>1, <1>2, <1>3, <1>4, <1>5 DEF Parts, TokenInv, PublishedOnce, IsReplay
<1>11. QED BY <1>6, <1>7, <1>8, <1>9, <1>10 DEF IInv

\* A deferred request moves to the tail of waiting.
LEMMA PrefillDeferInv ==
  ASSUME IInv, PrefillDefer, UNCHANGED engineVars
  PROVE  IInv'
<1>1. Parts
  BY PartsOfInv
<1>2. /\ UNCHANGED <<decoding, scheduled, skipped, finished, phase, asyncInflight, status,
                      prefilled, chunk, tokens, inflight, checkpoint, kv, published, cursor,
                      resident, pc, error, scan, batchTokens, failure, blocked, preempted,
                      isPrefill, modes, pendingReleases, releaseFailed, aborted, faults>>
      /\ pc = "prefill" /\ modes # <<>> /\ waiting # <<>> /\ budget > 0 /\ budget' = budget - 1
      /\ waiting' = Append(Tail(waiting), Head(waiting))
      /\ refused' \subseteq refused \cup {"atomic", "window", "deferred"}
  BY DEF PrefillDefer, InBucket, CanContinuePrefillBatch, ChunkRefusals
<1>3. /\ Head(waiting) \in Seqs /\ Tail(waiting) \in Seq(Seqs) /\ IsInjective(Tail(waiting))
      /\ Range(waiting) = Range(Tail(waiting)) \cup {Head(waiting)} /\ Head(waiting) \notin Range(Tail(waiting))
  BY <1>1, <1>2, HeadTailFacts DEF Parts
<1>4. /\ waiting' \in Seq(Seqs) /\ IsInjective(waiting') /\ Range(waiting') = Range(waiting)
  BY <1>1, <1>2, RotateFacts DEF Parts
<1>5. TypeOK'
  <2>1. QueueTypes'
    BY <1>1, <1>2, <1>3, <1>4 DEF Parts, TypeOK, QueueTypes
  <2>2. RequestTypes'
    BY <1>1, <1>2, SMTT(60) DEF Parts, TypeOK, RequestTypes
  <2>3. CallTypes'
    BY <1>1, <1>2 DEF Parts, TypeOK, CallTypes, Points, Errors
  <2>4. ReleaseTypes'
    BY <1>1, <1>2 DEF Parts, TypeOK, ReleaseTypes
  <2>5. QED BY <2>1, <2>2, <2>3, <2>4 DEF TypeOK
<1>6. OwnedOnce'
  BY <1>1, <1>2, <1>3, <1>4 DEF Parts, OwnedOnce, Popped
<1>7. CallInv'
  BY <1>1, <1>2, <1>3, <1>4 DEF Parts, CallInv, Held
<1>8. FinishInv'
  BY <1>1, <1>2, <1>3, <1>4 DEF Parts, FinishInv, Broken
<1>9. TokenInv'
  BY <1>1, <1>2, <1>3, <1>4 DEF Parts, TokenInv, PublishedOnce, IsReplay
<1>10. QED BY <1>5, <1>6, <1>7, <1>8, <1>9 DEF IInv

\* The head of waiting joins the batch with a chunk that fits its prompt.
LEMMA PrefillTakeInv ==
  ASSUME IInv, PrefillTake, UNCHANGED engineVars
  PROVE  IInv'
<1>1. Parts
  BY PartsOfInv
<1>2. /\ UNCHANGED <<decoding, skipped, finished, phase, asyncInflight, prefilled, tokens,
                      inflight, checkpoint, kv, published, cursor, pc, error, scan, refused,
                      failure, blocked, preempted, isPrefill, modes, pendingReleases,
                      releaseFailed, aborted, faults>>
      /\ pc = "prefill" /\ modes # <<>> /\ waiting # <<>> /\ budget > 0 /\ budget' = budget - 1
      /\ waiting' = Tail(waiting) /\ scheduled' = Append(scheduled, Head(waiting))
      /\ PrefillTokens(Head(waiting)) \in 1..Remaining(Head(waiting))
      /\ chunk' = [chunk EXCEPT ![Head(waiting)] = PrefillTokens(Head(waiting))]
      /\ status' = [status EXCEPT ![Head(waiting)] = "RUNNING"]
      /\ batchTokens' = batchTokens + PrefillTokens(Head(waiting))
      /\ resident' \subseteq resident \cup {Head(waiting)}
  BY DEF PrefillTake, InBucket, CanContinuePrefillBatch, HasChunk
<1>3. /\ Head(waiting) \in Seqs /\ Tail(waiting) \in Seq(Seqs) /\ IsInjective(Tail(waiting))
      /\ Range(waiting) = Range(Tail(waiting)) \cup {Head(waiting)} /\ Head(waiting) \notin Range(Tail(waiting))
  BY <1>1, <1>2, HeadTailFacts DEF Parts
<1>4. Head(waiting) \notin Range(decoding) \cup Range(scheduled) \cup Range(skipped)
  BY <1>1, <1>2, <1>3 DEF Parts, OwnedOnce, Popped
<1>5. /\ scheduled' \in Seq(Seqs) /\ IsInjective(scheduled')
      /\ Range(scheduled') = Range(scheduled) \cup {Head(waiting)}
  BY <1>1, <1>2, <1>3, <1>4, AppendFacts DEF Parts
<1>6. /\ prefilled[Head(waiting)] \in Nat /\ PromptLen[Head(waiting)] \in Nat
      /\ Remaining(Head(waiting)) = PromptLen[Head(waiting)] - prefilled[Head(waiting)]
  BY <1>1, <1>3, SchedulerAssumption DEF Parts, TypeOK, RequestTypes, Remaining
<1>7. /\ PrefillTokens(Head(waiting)) \in Nat
      /\ prefilled[Head(waiting)] + PrefillTokens(Head(waiting)) <= PromptLen[Head(waiting)]
  BY <1>2, <1>6
<1>8. /\ status'[Head(waiting)] = "RUNNING" /\ chunk'[Head(waiting)] = PrefillTokens(Head(waiting))
      /\ \A x \in Seqs : x # Head(waiting) => status'[x] = status[x] /\ chunk'[x] = chunk[x]
  BY <1>1, <1>2, <1>3, <1>7 DEF Parts, TypeOK, RequestTypes
<1>9. TypeOK'
  <2>1. QueueTypes'
    BY <1>1, <1>2, <1>3, <1>4, <1>5, <1>6, <1>7, <1>8 DEF Parts, TypeOK, QueueTypes
  <2>2. RequestTypes'
    <3>1. RequestTypes
      BY <1>1 DEF Parts, TypeOK
    <3>2. chunk' \in [Seqs -> Nat] /\ status' \in [Seqs -> Statuses]
      BY <1>2, <1>3, <1>7, <3>1 DEF RequestTypes
    <3>3. UNCHANGED <<prefilled, tokens, inflight, checkpoint, kv, published, cursor>>
      BY <1>2
    <3>4. resident' \subseteq Seqs
      BY <1>2, <1>3, <3>1 DEF RequestTypes
    <3>5. QED BY <3>1, <3>2, <3>3, <3>4 DEF RequestTypes
  <2>3. CallTypes'
    BY <1>1, <1>2, <1>7 DEF Parts, TypeOK, CallTypes, Points, Errors
  <2>4. ReleaseTypes'
    BY <1>1, <1>2 DEF Parts, TypeOK, ReleaseTypes
  <2>5. QED BY <2>1, <2>2, <2>3, <2>4 DEF TypeOK
<1>10. OwnedOnce'
  BY <1>1, <1>2, <1>3, <1>4, <1>5, <1>6, <1>7, <1>8, SMTT(60) DEF Parts, OwnedOnce, Popped
<1>11. CallInv'
  BY <1>1, <1>2, <1>3, <1>4, <1>5, <1>6, <1>7, <1>8 DEF Parts, CallInv, Held
<1>12. FinishInv'
  BY <1>1, <1>2, <1>3, <1>4, <1>5, <1>6, <1>7, <1>8 DEF Parts, FinishInv, Broken
<1>13. TokenInv'
  BY <1>1, <1>2, <1>3, <1>4, <1>5, <1>6, <1>7, <1>8 DEF Parts, TokenInv, PublishedOnce, IsReplay
<1>14. QED BY <1>9, <1>10, <1>11, <1>12, <1>13 DEF IInv

\* Skipped requests return to the front of waiting.
LEMMA NextBucketInv ==
  ASSUME IInv, NextBucket, UNCHANGED engineVars
  PROVE  IInv'
<1>1. Parts
  BY PartsOfInv
<1>2. /\ UNCHANGED <<decoding, scheduled, finished, phase, asyncInflight, status,
                      prefilled, chunk, tokens, inflight, checkpoint, kv, published, cursor,
                      resident, pc, error, scan, batchTokens, refused, failure, blocked,
                      preempted, isPrefill, pendingReleases, releaseFailed, aborted, faults>>
      /\ pc = "prefill" /\ modes # <<>>
      /\ waiting' = skipped \o waiting /\ skipped' = <<>>
      /\ budget' = Len(skipped) + Len(waiting)
  BY DEF NextBucket
<1>3. Range(skipped) \cap Range(waiting) = {} /\ budget' \in Nat
  BY <1>1, <1>2, RangeFacts DEF Parts, OwnedOnce, Popped
<1>4. /\ waiting' \in Seq(Seqs) /\ IsInjective(waiting')
      /\ Range(waiting') = Range(skipped) \cup Range(waiting)
  BY <1>1, <1>2, <1>3, ConcatFacts DEF Parts
<1>5. <<>> \in Seq(Seqs) /\ IsInjective(<<>>) /\ Range(<<>>) = {}
  BY EmptyFacts
<1>6. TypeOK'
  <2>1. QueueTypes'
    BY <1>1, <1>2, <1>3, <1>4, <1>5 DEF Parts, TypeOK, QueueTypes
  <2>2. RequestTypes'
    BY <1>1, <1>2 DEF Parts, TypeOK, RequestTypes
  <2>3. CallTypes'
    BY <1>1, <1>2, <1>3 DEF Parts, TypeOK, CallTypes, Points, Errors
  <2>4. ReleaseTypes'
    BY <1>1, <1>2 DEF Parts, TypeOK, ReleaseTypes
  <2>5. QED BY <2>1, <2>2, <2>3, <2>4 DEF TypeOK
<1>7. OwnedOnce'
  BY <1>1, <1>2, <1>3, <1>4, <1>5 DEF Parts, OwnedOnce, Popped
<1>8. CallInv'
  BY <1>1, <1>2, <1>3, <1>4, <1>5 DEF Parts, CallInv, Held
<1>9. FinishInv'
  BY <1>1, <1>2, <1>3, <1>4, <1>5 DEF Parts, FinishInv, Broken
<1>10. TokenInv'
  BY <1>1, <1>2, <1>3, <1>4, <1>5 DEF Parts, TokenInv, PublishedOnce, IsReplay
<1>11. QED BY <1>6, <1>7, <1>8, <1>9, <1>10 DEF IInv

\* The prefill batch is returned and stays out of the queues.
LEMMA PrefillReturnInv ==
  ASSUME IInv, PrefillReturn, UNCHANGED engineVars
  PROVE  IInv'
<1>1. Parts
  BY PartsOfInv
<1>2. /\ UNCHANGED <<waiting, decoding, scheduled, finished, asyncInflight, status,
                      prefilled, chunk, tokens, inflight, checkpoint, kv, published, cursor,
                      resident, error, pendingReleases, releaseFailed, aborted, faults>>
      /\ pc = "prefill" /\ modes = <<>>
      /\ pc' = "returned" /\ isPrefill' = TRUE /\ preempted' = None /\ phase' = "prefill"
      /\ skipped' = <<>>
      /\ scan' = 1 /\ budget' = 0 /\ batchTokens' = 0 /\ refused' = {}
      /\ failure' = None /\ blocked' = None
  BY DEF PrefillReturn, PrefillOver, Return, ClearLocals
<1>3. skipped = <<>>
  BY <1>1, <1>2 DEF Parts, CallInv
<1>4. <<>> \in Seq(Seqs) /\ IsInjective(<<>>) /\ Range(<<>>) = {}
  BY EmptyFacts
<1>5. TypeOK'
  <2>1. QueueTypes'
    BY <1>1, <1>2, <1>3, <1>4 DEF Parts, TypeOK, QueueTypes
  <2>2. RequestTypes'
    BY <1>1, <1>2 DEF Parts, TypeOK, RequestTypes
  <2>3. CallTypes'
    <3>1. pc' \in Points /\ error' \in Errors /\ isPrefill' \in BOOLEAN
      BY <1>1, <1>2 DEF Parts, TypeOK, CallTypes, Points, Errors
    <3>2. QED BY <1>1, <1>2, <3>1 DEF Parts, TypeOK, CallTypes
  <2>4. ReleaseTypes'
    BY <1>1, <1>2 DEF Parts, TypeOK, ReleaseTypes
  <2>5. QED BY <2>1, <2>2, <2>3, <2>4 DEF TypeOK
<1>6. OwnedOnce'
  BY <1>1, <1>2, <1>3, <1>4 DEF Parts, OwnedOnce, Popped
<1>7. CallInv'
  BY <1>1, <1>2, <1>3, <1>4 DEF Parts, CallInv, Held
<1>8. FinishInv'
  BY <1>1, <1>2, <1>3, <1>4 DEF Parts, FinishInv, Broken
<1>9. TokenInv'
  BY <1>1, <1>2, <1>3, <1>4 DEF Parts, TokenInv, PublishedOnce, IsReplay
<1>10. QED BY <1>5, <1>6, <1>7, <1>8, <1>9 DEF IInv

\* The decode scan starts with an empty batch.
LEMMA StartDecodeInv ==
  ASSUME IInv, StartDecode, UNCHANGED engineVars
  PROVE  IInv'
<1>1. Parts
  BY PartsOfInv
<1>2. /\ UNCHANGED <<waiting, decoding, scheduled, skipped, finished, phase, asyncInflight,
                      status, prefilled, chunk, tokens, inflight, checkpoint, kv, published,
                      cursor, resident, error, scan, batchTokens, refused, failure, blocked,
                      preempted, isPrefill, modes, pendingReleases, releaseFailed, aborted,
                      faults>>
      /\ pc = "prefill" /\ modes = <<>> /\ scheduled = <<>>
      /\ pc' = "decode" /\ budget' = Len(decoding) /\ failure = None
  BY DEF StartDecode, PrefillOver
<1>3. skipped = <<>> /\ Len(decoding) \in Nat /\ Range(scheduled) = {} /\ Range(skipped) = {}
  BY <1>1, <1>2, RangeFacts, EmptyFacts DEF Parts, CallInv
<1>4. blocked # None => blocked \in Range(decoding)
  BY <1>1, <1>2 DEF Parts, CallInv
<1>5. TypeOK'
  <2>1. QueueTypes'
    BY <1>1, <1>2, <1>3, <1>4 DEF Parts, TypeOK, QueueTypes
  <2>2. RequestTypes'
    BY <1>1, <1>2 DEF Parts, TypeOK, RequestTypes
  <2>3. CallTypes'
    <3>1. pc' \in Points /\ error' \in Errors /\ isPrefill' \in BOOLEAN
      BY <1>1, <1>2 DEF Parts, TypeOK, CallTypes, Points, Errors
    <3>2. QED BY <1>1, <1>2, <3>1, <1>3 DEF Parts, TypeOK, CallTypes
  <2>4. ReleaseTypes'
    BY <1>1, <1>2 DEF Parts, TypeOK, ReleaseTypes
  <2>5. QED BY <2>1, <2>2, <2>3, <2>4 DEF TypeOK
<1>6. OwnedOnce'
  BY <1>1, <1>2, <1>3, <1>4 DEF Parts, OwnedOnce, Popped
<1>7. CallInv'
  BY <1>1, <1>2, <1>3, <1>4 DEF Parts, CallInv, Held
<1>8. FinishInv'
  BY <1>1, <1>2, <1>3, <1>4 DEF Parts, FinishInv, Broken
<1>9. TokenInv'
  BY <1>1, <1>2, <1>3, <1>4 DEF Parts, TokenInv, PublishedOnce, IsReplay
<1>10. QED BY <1>5, <1>6, <1>7, <1>8, <1>9 DEF IInv

\* A decode whose last token is in flight moves to the tail.
LEMMA DecodeRotateInv ==
  ASSUME IInv, DecodeRotate, UNCHANGED engineVars
  PROVE  IInv'
<1>1. Parts
  BY PartsOfInv
<1>2. /\ UNCHANGED <<waiting, scheduled, skipped, finished, phase, asyncInflight, status,
                      prefilled, chunk, tokens, inflight, checkpoint, kv, published, cursor,
                      resident, pc, error, scan, batchTokens, refused, failure, blocked,
                      preempted, isPrefill, modes, pendingReleases, releaseFailed, aborted,
                      faults>>
      /\ pc = "decode" /\ blocked = None /\ budget > 0 /\ budget' = budget - 1
      /\ decoding' = Append(Tail(decoding), Head(decoding))
  BY DEF DecodeRotate, InDecode
<1>3. decoding # <<>> /\ budget <= Len(decoding) /\ Len(decoding) \in Nat /\ budget \in Nat
  BY <1>1, <1>2, RangeFacts DEF Parts, CallInv, TypeOK, CallTypes
<1>4. /\ Head(decoding) \in Seqs /\ Tail(decoding) \in Seq(Seqs) /\ IsInjective(Tail(decoding))
      /\ Range(decoding) = Range(Tail(decoding)) \cup {Head(decoding)}
      /\ Head(decoding) \notin Range(Tail(decoding)) /\ Len(Tail(decoding)) = Len(decoding) - 1
  BY <1>1, <1>3, HeadTailFacts DEF Parts
<1>5. /\ decoding' \in Seq(Seqs) /\ IsInjective(decoding') /\ Range(decoding') = Range(decoding)
      /\ Len(decoding') = Len(decoding)
  BY <1>1, <1>2, <1>3, RotateFacts DEF Parts
<1>6. TypeOK'
  <2>1. QueueTypes'
    BY <1>1, <1>2, <1>3, <1>4, <1>5 DEF Parts, TypeOK, QueueTypes
  <2>2. RequestTypes'
    BY <1>1, <1>2, SMTT(60) DEF Parts, TypeOK, RequestTypes
  <2>3. CallTypes'
    BY <1>1, <1>2 DEF Parts, TypeOK, CallTypes, Points, Errors
  <2>4. ReleaseTypes'
    BY <1>1, <1>2 DEF Parts, TypeOK, ReleaseTypes
  <2>5. QED BY <2>1, <2>2, <2>3, <2>4 DEF TypeOK
<1>7. OwnedOnce'
  BY <1>1, <1>2, <1>3, <1>4, <1>5 DEF Parts, OwnedOnce, Popped
<1>8. CallInv'
  BY <1>1, <1>2, <1>3, <1>4, <1>5 DEF Parts, CallInv, Held
<1>9. FinishInv'
  BY <1>1, <1>2, <1>3, <1>4, <1>5 DEF Parts, FinishInv, Broken
<1>10. TokenInv'
  BY <1>1, <1>2, <1>3, <1>4, <1>5 DEF Parts, TokenInv, PublishedOnce, IsReplay
<1>11. QED BY <1>6, <1>7, <1>8, <1>9, <1>10 DEF IInv

\* A decode with a token left moves to the batch.
LEMMA DecodeTakeInv ==
  ASSUME IInv, DecodeTake, UNCHANGED engineVars
  PROVE  IInv'
<1>1. Parts
  BY PartsOfInv
<1>2. /\ UNCHANGED <<waiting, skipped, finished, phase, asyncInflight, status, prefilled,
                      chunk, tokens, inflight, checkpoint, kv, published, cursor, resident,
                      pc, error, scan, batchTokens, refused, failure, blocked, preempted,
                      isPrefill, modes, pendingReleases, releaseFailed, aborted, faults>>
      /\ pc = "decode" /\ blocked = None /\ budget > 0 /\ budget' = budget - 1
      /\ decoding' = Tail(decoding) /\ scheduled' = Append(scheduled, Head(decoding))
      /\ Submitted(Head(decoding)) < MaxTokens[Head(decoding)]
  BY DEF DecodeTake, InDecode
<1>3. decoding # <<>> /\ budget <= Len(decoding) /\ Len(decoding) \in Nat /\ budget \in Nat
  BY <1>1, <1>2, RangeFacts DEF Parts, CallInv, TypeOK, CallTypes
<1>4. /\ Head(decoding) \in Seqs /\ Tail(decoding) \in Seq(Seqs) /\ IsInjective(Tail(decoding))
      /\ Range(decoding) = Range(Tail(decoding)) \cup {Head(decoding)}
      /\ Head(decoding) \notin Range(Tail(decoding)) /\ Len(Tail(decoding)) = Len(decoding) - 1
  BY <1>1, <1>3, HeadTailFacts DEF Parts
<1>5. Head(decoding) \notin Range(waiting) \cup Range(scheduled) \cup Range(skipped)
  BY <1>1, <1>2, <1>4 DEF Parts, OwnedOnce, Popped
<1>6. /\ scheduled' \in Seq(Seqs) /\ IsInjective(scheduled')
      /\ Range(scheduled') = Range(scheduled) \cup {Head(decoding)}
  BY <1>1, <1>2, <1>4, <1>5, AppendFacts DEF Parts
<1>7. tokens[Head(decoding)] < MaxTokens[Head(decoding)]
  <2>1. /\ tokens[Head(decoding)] \in Nat /\ inflight[Head(decoding)] \in Nat
        /\ MaxTokens[Head(decoding)] \in Nat
    BY <1>1, <1>4, SchedulerAssumption DEF Parts, TypeOK, RequestTypes
  <2>2. QED BY <1>2, <2>1 DEF Submitted
<1>8. TypeOK'
  <2>1. QueueTypes'
    BY <1>1, <1>2, <1>3, <1>4, <1>5, <1>6, <1>7 DEF Parts, TypeOK, QueueTypes
  <2>2. RequestTypes'
    BY <1>1, <1>2 DEF Parts, TypeOK, RequestTypes
  <2>3. CallTypes'
    BY <1>1, <1>2, <1>3 DEF Parts, TypeOK, CallTypes, Points, Errors
  <2>4. ReleaseTypes'
    BY <1>1, <1>2 DEF Parts, TypeOK, ReleaseTypes
  <2>5. QED BY <2>1, <2>2, <2>3, <2>4 DEF TypeOK
<1>9. OwnedOnce'
  BY <1>1, <1>2, <1>3, <1>4, <1>5, <1>6, <1>7 DEF Parts, OwnedOnce, Popped
<1>10. CallInv'
  BY <1>1, <1>2, <1>3, <1>4, <1>5, <1>6, <1>7 DEF Parts, CallInv, Held
<1>11. FinishInv'
  BY <1>1, <1>2, <1>3, <1>4, <1>5, <1>6, <1>7 DEF Parts, FinishInv, Broken
<1>12. TokenInv'
  BY <1>1, <1>2, <1>3, <1>4, <1>5, <1>6, <1>7 DEF Parts, TokenInv, PublishedOnce, IsReplay
<1>13. QED BY <1>8, <1>9, <1>10, <1>11, <1>12 DEF IInv

\* A decode out of slots is remembered and rotated.
LEMMA DecodeBlockInv ==
  ASSUME IInv, DecodeBlock, UNCHANGED engineVars
  PROVE  IInv'
<1>1. Parts
  BY PartsOfInv
<1>2. /\ UNCHANGED <<waiting, scheduled, skipped, finished, phase, asyncInflight, status,
                      prefilled, chunk, tokens, inflight, checkpoint, kv, published, cursor,
                      resident, pc, error, scan, batchTokens, refused, failure, preempted,
                      isPrefill, modes, pendingReleases, releaseFailed, aborted, faults>>
      /\ pc = "decode" /\ blocked = None /\ budget > 0 /\ budget' = budget - 1
      /\ decoding' = Append(Tail(decoding), Head(decoding)) /\ blocked' = Head(decoding)
  BY DEF DecodeBlock, InDecode
<1>3. decoding # <<>> /\ budget <= Len(decoding) /\ Len(decoding) \in Nat /\ budget \in Nat
  BY <1>1, <1>2, RangeFacts DEF Parts, CallInv, TypeOK, CallTypes
<1>4. /\ Head(decoding) \in Seqs /\ Tail(decoding) \in Seq(Seqs) /\ IsInjective(Tail(decoding))
      /\ Range(decoding) = Range(Tail(decoding)) \cup {Head(decoding)}
      /\ Head(decoding) \notin Range(Tail(decoding)) /\ Len(Tail(decoding)) = Len(decoding) - 1
  BY <1>1, <1>3, HeadTailFacts DEF Parts
<1>5. /\ decoding' \in Seq(Seqs) /\ IsInjective(decoding') /\ Range(decoding') = Range(decoding)
      /\ Len(decoding') = Len(decoding)
  BY <1>1, <1>2, <1>3, RotateFacts DEF Parts
<1>6. TypeOK'
  <2>1. QueueTypes'
    BY <1>1, <1>2, <1>3, <1>4, <1>5 DEF Parts, TypeOK, QueueTypes
  <2>2. RequestTypes'
    BY <1>1, <1>2, SMTT(60) DEF Parts, TypeOK, RequestTypes
  <2>3. CallTypes'
    BY <1>1, <1>2, <1>4 DEF Parts, TypeOK, CallTypes, Points, Errors
  <2>4. ReleaseTypes'
    BY <1>1, <1>2 DEF Parts, TypeOK, ReleaseTypes
  <2>5. QED BY <2>1, <2>2, <2>3, <2>4 DEF TypeOK
<1>7. OwnedOnce'
  BY <1>1, <1>2, <1>3, <1>4, <1>5 DEF Parts, OwnedOnce, Popped
<1>8. CallInv'
  BY <1>1, <1>2, <1>3, <1>4, <1>5 DEF Parts, CallInv, Held
<1>9. FinishInv'
  BY <1>1, <1>2, <1>3, <1>4, <1>5 DEF Parts, FinishInv, Broken
<1>10. TokenInv'
  BY <1>1, <1>2, <1>3, <1>4, <1>5 DEF Parts, TokenInv, PublishedOnce, IsReplay
<1>11. QED BY <1>6, <1>7, <1>8, <1>9, <1>10 DEF IInv

\* A decode out of slots with nothing scheduled is preempted.
LEMMA DecodePreemptInv ==
  ASSUME IInv, DecodePreempt, UNCHANGED engineVars
  PROVE  IInv'
<1>1. Parts
  BY PartsOfInv
<1>2. /\ pc = "decode" /\ scheduled = <<>> /\ skipped = <<>> /\ budget > 0
      /\ PreemptDecodeVictim(Head(decoding), Tail(decoding))
  BY <1>1 DEF Parts, CallInv, DecodePreempt, InDecode
<1>3. decoding # <<>>
  BY <1>1, <1>2, RangeFacts DEF Parts, CallInv, TypeOK, CallTypes
<1>4. /\ Head(decoding) \in Range(decoding) /\ Tail(decoding) \in Seq(Seqs)
      /\ Range(Tail(decoding)) = Range(decoding) \ {Head(decoding)}
      /\ IsInjective(Tail(decoding))
  BY <1>1, <1>3, HeadTailFacts DEF Parts
<1>5. QED BY <1>2, <1>4, PreemptInv

\* The batch returns to the front of decoding, a blocked decode before it.
LEMMA DecodeReturnInv ==
  ASSUME IInv, DecodeReturn, UNCHANGED engineVars
  PROVE  IInv'
<1>1. Parts
  BY PartsOfInv
<1>2. /\ UNCHANGED <<waiting, scheduled, finished, asyncInflight, status, prefilled, chunk,
                      tokens, inflight, checkpoint, kv, published, cursor, resident, error,
                      pendingReleases, releaseFailed, aborted, faults>>
      /\ pc = "decode"
      /\ decoding' = IF blocked = None
                     THEN scheduled \o decoding
                     ELSE <<blocked>> \o Without(scheduled \o decoding, blocked)
      /\ pc' = "returned" /\ isPrefill' = FALSE /\ preempted' = None /\ phase' = "decode"
      /\ skipped' = <<>>
      /\ scan' = 1 /\ budget' = 0 /\ batchTokens' = 0 /\ refused' = {}
      /\ failure' = None /\ blocked' = None
  BY DEF DecodeReturn, DecodeOver, Return, ClearLocals
<1>3. /\ scheduled \o decoding \in Seq(Seqs) /\ IsInjective(scheduled \o decoding)
      /\ Range(scheduled \o decoding) = Range(scheduled) \cup Range(decoding)
  <2>1. Range(scheduled) \cap Range(decoding) = {}
    BY <1>1, <1>2 DEF Parts, OwnedOnce, Popped
  <2>2. QED BY <1>1, <2>1, ConcatFacts DEF Parts
<1>4. /\ decoding' \in Seq(Seqs) /\ IsInjective(decoding')
      /\ Range(decoding') = Range(scheduled) \cup Range(decoding)
  <2>1. CASE blocked = None
    BY <1>2, <1>3, <2>1
  <2>2. CASE blocked # None
    <3> DEFINE rest == Without(scheduled \o decoding, blocked)
    <3>1. blocked \in Range(decoding) /\ blocked \in Seqs
      BY <1>1, <2>2 DEF Parts, CallInv
    <3>2. /\ rest \in Seq(Seqs) /\ IsInjective(rest)
          /\ Range(rest) = Range(scheduled \o decoding) \ {blocked}
      BY <1>3, RemoveFacts DEF Without
    <3> HIDE DEF rest
    <3>3. /\ <<blocked>> \o rest \in Seq(Seqs) /\ IsInjective(<<blocked>> \o rest)
          /\ Range(<<blocked>> \o rest) = Range(rest) \cup {blocked}
      BY <3>1, <3>2, PrependFacts
    <3>4. decoding' = <<blocked>> \o rest
      BY <1>2, <2>2 DEF rest
    <3>5. QED BY <1>3, <3>1, <3>2, <3>3, <3>4
  <2>3. QED BY <2>1, <2>2
<1>5. skipped = <<>>
  BY <1>1, <1>2 DEF Parts, CallInv
<1>6. <<>> \in Seq(Seqs) /\ IsInjective(<<>>) /\ Range(<<>>) = {}
  BY EmptyFacts
<1>7. TypeOK'
  <2>1. QueueTypes'
    BY <1>1, <1>2, <1>3, <1>4, <1>5, <1>6 DEF Parts, TypeOK, QueueTypes
  <2>2. RequestTypes'
    BY <1>1, <1>2 DEF Parts, TypeOK, RequestTypes
  <2>3. CallTypes'
    <3>1. pc' \in Points /\ error' \in Errors /\ isPrefill' \in BOOLEAN
      BY <1>1, <1>2 DEF Parts, TypeOK, CallTypes, Points, Errors
    <3>2. QED BY <1>1, <1>2, <3>1 DEF Parts, TypeOK, CallTypes
  <2>4. ReleaseTypes'
    BY <1>1, <1>2 DEF Parts, TypeOK, ReleaseTypes
  <2>5. QED BY <2>1, <2>2, <2>3, <2>4 DEF TypeOK
<1>8. OwnedOnce'
  BY <1>1, <1>2, <1>3, <1>4, <1>5, <1>6 DEF Parts, OwnedOnce, Popped
<1>9. CallInv'
  BY <1>1, <1>2, <1>3, <1>4, <1>5, <1>6 DEF Parts, CallInv, Held
<1>10. FinishInv'
  BY <1>1, <1>2, <1>3, <1>4, <1>5, <1>6 DEF Parts, FinishInv, Broken
<1>11. TokenInv'
  BY <1>1, <1>2, <1>3, <1>4, <1>5, <1>6 DEF Parts, TokenInv, PublishedOnce, IsReplay
<1>12. QED BY <1>7, <1>8, <1>9, <1>10, <1>11 DEF IInv

\* Nothing is selected and nothing was popped.
LEMMA NothingToRunInv ==
  ASSUME IInv, NothingToRun, UNCHANGED engineVars
  PROVE  IInv'
<1>1. Parts
  BY PartsOfInv
<1>2. /\ UNCHANGED <<waiting, decoding, scheduled, finished, phase, asyncInflight, status,
                      prefilled, chunk, tokens, inflight, checkpoint, kv, published, cursor,
                      resident, preempted, pendingReleases, releaseFailed, aborted, faults>>
      /\ pc = "decode" /\ scheduled = <<>> /\ isPrefill' = FALSE /\ skipped' = <<>>
      /\ pc' \in {"drain", "raised", "returned"}
      /\ error' \in {error, "atomic_prefill", "final_window", "all_deferred"}
      /\ scan' = 1 /\ budget' = 0 /\ batchTokens' = 0 /\ refused' = {}
      /\ failure' = None /\ blocked' = None
  BY DEF NothingToRun, DecodeOver, ClearLocals, Raise
<1>3. skipped = <<>>
  BY <1>1, <1>2 DEF Parts, CallInv
<1>4. <<>> \in Seq(Seqs) /\ IsInjective(<<>>) /\ Range(<<>>) = {}
  BY EmptyFacts
<1>5. TypeOK'
  <2>1. QueueTypes'
    BY <1>1, <1>2, <1>3, <1>4 DEF Parts, TypeOK, QueueTypes
  <2>2. RequestTypes'
    BY <1>1, <1>2, SMTT(60) DEF Parts, TypeOK, RequestTypes
  <2>3. CallTypes'
    <3>1. pc' \in Points /\ error' \in Errors /\ isPrefill' \in BOOLEAN
      BY <1>1, <1>2 DEF Parts, TypeOK, CallTypes, Points, Errors
    <3>2. QED BY <1>1, <1>2, <3>1 DEF Parts, TypeOK, CallTypes
  <2>4. ReleaseTypes'
    BY <1>1, <1>2 DEF Parts, TypeOK, ReleaseTypes
  <2>5. QED BY <2>1, <2>2, <2>3, <2>4 DEF TypeOK
<1>6. OwnedOnce'
  BY <1>1, <1>2, <1>3, <1>4 DEF Parts, OwnedOnce, Popped
<1>7. CallInv'
  BY <1>1, <1>2, <1>3, <1>4 DEF Parts, CallInv, Held
<1>8. FinishInv'
  BY <1>1, <1>2, <1>3, <1>4 DEF Parts, FinishInv, Broken
<1>9. TokenInv'
  BY <1>1, <1>2, <1>3, <1>4 DEF Parts, TokenInv, PublishedOnce, IsReplay
<1>10. QED BY <1>5, <1>6, <1>7, <1>8, <1>9 DEF IInv

\* Every step of a schedule() call keeps the invariant.
LEMMA SchedulingInv == ASSUME IInv, Scheduling PROVE IInv'
<1>1. UNCHANGED engineVars /\ ScheduleStep
  BY DEF Scheduling
<1>2. CASE AcquireWindow
  BY <1>1, <1>2, AcquireInv
<1>3. CASE PreemptUnreserved \/ PreemptSoleUnreserved
  BY <1>1, <1>3, UnreservedInv
<1>4. CASE StartPrefill \/ AffinityPrefill
  BY <1>1, <1>4, StartPrefillInv
<1>5. CASE StartAffinity
  BY <1>1, <1>5, StartAffinityInv
<1>6. CASE AffinityScan
  BY <1>1, <1>6, AffinityScanInv
<1>7. CASE AffinityDecode
  BY <1>1, <1>7, AffinityDecodeInv
<1>8. CASE PrefillSkip
  BY <1>1, <1>8, PrefillSkipInv
<1>9. CASE PrefillDefer
  BY <1>1, <1>9, PrefillDeferInv
<1>10. CASE PrefillTake
  BY <1>1, <1>10, PrefillTakeInv
<1>11. CASE NextBucket
  BY <1>1, <1>11, NextBucketInv
<1>12. CASE PrefillReturn
  BY <1>1, <1>12, PrefillReturnInv
<1>13. CASE StartDecode
  BY <1>1, <1>13, StartDecodeInv
<1>14. CASE DecodeRotate
  BY <1>1, <1>14, DecodeRotateInv
<1>15. CASE DecodeTake
  BY <1>1, <1>15, DecodeTakeInv
<1>16. CASE DecodeBlock
  BY <1>1, <1>16, DecodeBlockInv
<1>17. CASE DecodePreempt
  BY <1>1, <1>17, DecodePreemptInv
<1>18. CASE DecodeReturn
  BY <1>1, <1>18, DecodeReturnInv
<1>19. CASE NothingToRun
  BY <1>1, <1>19, NothingToRunInv
<1>20. QED
  BY <1>1, <1>2, <1>3, <1>4, <1>5, <1>6, <1>7, <1>8, <1>9, <1>10, <1>11, <1>12, <1>13,
     <1>14, <1>15, <1>16, <1>17, <1>18, <1>19 DEF ScheduleStep

\* Scheduler.abort, or nothing: all the queues can see of a release attempt.
Leaves(s) ==
  \/ /\ waiting' = Without(waiting, s) /\ decoding' = Without(decoding, s)
     /\ status' = [status EXCEPT ![s] = "FINISHED"]
  \/ UNCHANGED <<waiting, decoding, status>>

\* What a release attempt leaves of the queues, as sets.
LeftOver(s) ==
  /\ waiting' \in Seq(Seqs) /\ IsInjective(waiting')
  /\ decoding' \in Seq(Seqs) /\ IsInjective(decoding')
  /\ \/ /\ Range(waiting') = Range(waiting) \ {s} /\ Range(decoding') = Range(decoding) \ {s}
        /\ status'[s] = "FINISHED"
     \/ UNCHANGED <<waiting, decoding, status>>
  /\ status' \in [Seqs -> Statuses]
  /\ \A x \in Seqs : x # s => status'[x] = status[x]

\* A release attempt only ever takes its own request out of the queues.
LEMMA LeavesFacts ==
  ASSUME Parts, NEW s \in Seqs, Leaves(s)
  PROVE  LeftOver(s)
<1>1. /\ Without(waiting, s) \in Seq(Seqs) /\ IsInjective(Without(waiting, s))
      /\ Range(Without(waiting, s)) = Range(waiting) \ {s}
  BY RemoveFacts DEF Parts, Without
<1>2. /\ Without(decoding, s) \in Seq(Seqs) /\ IsInjective(Without(decoding, s))
      /\ Range(Without(decoding, s)) = Range(decoding) \ {s}
  BY RemoveFacts DEF Parts, Without
<1>3. status \in [Seqs -> Statuses]
  BY DEF Parts, TypeOK, RequestTypes
<1>4. CASE UNCHANGED <<waiting, decoding, status>>
  BY <1>3, <1>4 DEF LeftOver, Parts
<1>5. CASE /\ waiting' = Without(waiting, s) /\ decoding' = Without(decoding, s)
           /\ status' = [status EXCEPT ![s] = "FINISHED"]
  <2>1. status' \in [Seqs -> Statuses] /\ status'[s] = "FINISHED"
    BY <1>3, <1>5
  <2>2. \A x \in Seqs : x # s => status'[x] = status[x]
    BY <1>3, <1>5
  <2>3. QED BY <1>1, <1>2, <1>5, <2>1, <2>2 DEF LeftOver
<1>6. QED BY <1>4, <1>5 DEF Leaves

\* What a release attempt may do to the memory and to the release ledger.
Released(s) ==
  /\ kv' \in {kv, [kv EXCEPT ![s] = 0]} /\ resident' \in {resident, resident \ {s}}
  /\ pendingReleases' \in {pendingReleases \ {s}, pendingReleases \cup {s}}
  /\ releaseFailed' \in {releaseFailed, releaseFailed \cup {s}}
  /\ faults' = faults \/ (faults < MaxFaults /\ faults' = faults + 1)

\* A release succeeds or fails within these bounds.
LEMMA ReleaseFacts ==
  ASSUME NEW s, ReleaseOk(s) \/ ReleaseFails(s)
  PROVE  Released(s)
<1>1. CASE ReleaseOk(s)
  BY <1>1 DEF ReleaseOk, FreeSeq, Released
<1>2. CASE ReleaseFails(s)
  BY <1>2 DEF ReleaseFails, FreeSeq, Released
<1>3. QED BY <1>1, <1>2

\* A release attempt keeps the types of what it touches.
LEMMA ReleasedTypes ==
  ASSUME TypeOK, NEW s \in Seqs, Released(s)
  PROVE  /\ kv' \in [Seqs -> Nat] /\ resident' \subseteq Seqs
         /\ pendingReleases' \subseteq Seqs /\ releaseFailed' \subseteq Seqs
         /\ faults' \in 0..MaxFaults
<1>1. RequestTypes /\ ReleaseTypes
  BY DEF TypeOK
<1>2. kv' \in [Seqs -> Nat] /\ resident' \subseteq Seqs
  BY <1>1 DEF RequestTypes, Released
<1>3. pendingReleases' \subseteq Seqs /\ releaseFailed' \subseteq Seqs
  BY <1>1 DEF ReleaseTypes, Released
<1>4. faults' \in 0..MaxFaults
  BY <1>1, FaultAssumption DEF ReleaseTypes, Released
<1>5. QED BY <1>2, <1>3, <1>4

\* abort_request: a request leaves the queues only as FINISHED.
LEMMA AbortInv ==
  ASSUME IInv, NEW s \in Seqs, AbortRequest(s)
  PROVE  IInv'
<1>1. Parts
  BY PartsOfInv
<1>2. /\ UNCHANGED <<scheduled, skipped, finished, phase, asyncInflight, prefilled, chunk,
                      tokens, inflight, checkpoint, published, cursor, pc, error, scan,
                      budget, batchTokens, refused, failure, blocked, preempted, isPrefill,
                      modes>>
      /\ pc \in {"idle", "raised"} /\ Leaves(s)
      /\ \/ ReleaseOk(s) \/ ReleaseFails(s)
         \/ UNCHANGED <<kv, resident, pendingReleases, releaseFailed, faults>>
      /\ aborted' = aborted \cup {s}
  BY DEF AbortRequest, Dequeue, Leaves
<1>3. LeftOver(s)
  BY <1>1, <1>2, LeavesFacts
<1>4. /\ kv' \in [Seqs -> Nat] /\ resident' \subseteq Seqs
      /\ pendingReleases' \subseteq Seqs /\ releaseFailed' \subseteq Seqs
      /\ faults' \in 0..MaxFaults
  <2>1. CASE ReleaseOk(s) \/ ReleaseFails(s)
    BY <1>1, <2>1, ReleaseFacts, ReleasedTypes DEF Parts
  <2>2. CASE UNCHANGED <<kv, resident, pendingReleases, releaseFailed, faults>>
    BY <1>1, <2>2 DEF Parts, TypeOK, RequestTypes, ReleaseTypes
  <2>3. QED BY <1>2, <2>1, <2>2
<1>5. skipped = <<>> /\ Range(skipped) = {} /\ (pc = "idle" => scheduled = <<>> /\ Range(scheduled) = {})
  BY <1>1, <1>2, EmptyFacts DEF Parts, CallInv
<1>6. TypeOK'
  <2>1. QueueTypes'
    BY <1>1, <1>2, <1>3 DEF Parts, TypeOK, QueueTypes, LeftOver
  <2>2. RequestTypes'
    <3>1. RequestTypes
      BY <1>1 DEF Parts, TypeOK
    <3>2. UNCHANGED <<prefilled, chunk, tokens, inflight, checkpoint, published, cursor>>
      BY <1>2
    <3>3. status' \in [Seqs -> Statuses] /\ kv' \in [Seqs -> Nat] /\ resident' \subseteq Seqs
      BY <1>3, <1>4 DEF LeftOver
    <3>4. QED BY <3>1, <3>2, <3>3 DEF RequestTypes
  <2>3. CallTypes'
    BY <1>1, <1>2 DEF Parts, TypeOK, CallTypes, Points, Errors
  <2>4. ReleaseTypes'
    BY <1>1, <1>2, <1>4 DEF Parts, TypeOK, ReleaseTypes
  <2>5. QED BY <2>1, <2>2, <2>3, <2>4 DEF TypeOK
<1>7. OwnedOnce'
  BY <1>1, <1>2, <1>3, <1>4, <1>5 DEF Parts, OwnedOnce, Popped, LeftOver
<1>8. CallInv'
  BY <1>1, <1>2, <1>3, <1>4, <1>5 DEF Parts, CallInv, Held, LeftOver
<1>9. FinishInv'
  BY <1>1, <1>2, <1>3, <1>4, <1>5 DEF Parts, FinishInv, Broken, LeftOver
<1>10. TokenInv'
  BY <1>1, <1>2, <1>3, <1>4, <1>5 DEF Parts, TokenInv, PublishedOnce, IsReplay, LeftOver
<1>11. QED BY <1>6, <1>7, <1>8, <1>9, <1>10 DEF IInv

\* schedule() is entered with an empty batch.
LEMMA EnterInv ==
  ASSUME IInv, NEW n \in Nat, Schedule(n), UNCHANGED engineVars, pc \in {"idle", "fill", "filled"}
  PROVE  IInv'
<1>1. Parts
  BY PartsOfInv
<1>2. /\ UNCHANGED <<waiting, decoding, finished, phase, status, prefilled, chunk, tokens,
                      inflight, checkpoint, kv, published, cursor, resident, error,
                      isPrefill, pendingReleases, releaseFailed, aborted, faults>>
      /\ pc' = "reserve" /\ asyncInflight' = n
      /\ scheduled' = <<>> /\ skipped' = <<>> /\ preempted' = None
      /\ scan' = 1 /\ budget' = 0 /\ batchTokens' = 0 /\ refused' = {}
      /\ failure' = None /\ blocked' = None
  BY DEF Schedule, ClearLocals
<1>3. skipped = <<>>
  BY <1>1, <1>2 DEF Parts, CallInv
<1>4. <<>> \in Seq(Seqs) /\ IsInjective(<<>>) /\ Range(<<>>) = {}
  BY EmptyFacts
<1>5. TypeOK'
  <2>1. QueueTypes'
    BY <1>1, <1>2, <1>3, <1>4 DEF Parts, TypeOK, QueueTypes
  <2>2. RequestTypes'
    BY <1>1, <1>2 DEF Parts, TypeOK, RequestTypes
  <2>3. CallTypes'
    <3>1. pc' \in Points /\ error' \in Errors /\ isPrefill' \in BOOLEAN
      BY <1>1, <1>2 DEF Parts, TypeOK, CallTypes, Points, Errors
    <3>2. QED BY <1>1, <1>2, <3>1 DEF Parts, TypeOK, CallTypes
  <2>4. ReleaseTypes'
    BY <1>1, <1>2 DEF Parts, TypeOK, ReleaseTypes
  <2>5. QED BY <2>1, <2>2, <2>3, <2>4 DEF TypeOK
<1>6. OwnedOnce'
  BY <1>1, <1>2, <1>3, <1>4 DEF Parts, OwnedOnce, Popped
<1>7. CallInv'
  BY <1>1, <1>2, <1>3, <1>4 DEF Parts, CallInv, Held
<1>8. FinishInv'
  BY <1>1, <1>2, <1>3, <1>4 DEF Parts, FinishInv, Broken
<1>9. TokenInv'
  BY <1>1, <1>2, <1>3, <1>4 DEF Parts, TokenInv, PublishedOnce, IsReplay
<1>10. QED BY <1>5, <1>6, <1>7, <1>8, <1>9 DEF IInv

\* A step that is refused changes nothing but the error.
LEMMA StepRefusedInv ==
  ASSUME IInv, StepRefused
  PROVE  IInv'
<1>1. Parts
  BY PartsOfInv
<1>2. /\ UNCHANGED <<waiting, decoding, scheduled, skipped, finished, phase, asyncInflight,
                      status, prefilled, chunk, tokens, inflight, checkpoint, kv, published,
                      cursor, resident, scan, budget, batchTokens, refused, failure,
                      blocked, preempted, isPrefill, modes, pendingReleases, releaseFailed,
                      aborted, faults>>
      /\ pc = "idle" /\ pc' = "raised" /\ error' = "release_pending"
  BY DEF StepRefused, Raise
<1>3. TypeOK'
  <2>1. QueueTypes'
    BY <1>1, <1>2 DEF Parts, TypeOK, QueueTypes
  <2>2. RequestTypes'
    BY <1>1, <1>2 DEF Parts, TypeOK, RequestTypes
  <2>3. CallTypes'
    <3>1. pc' \in Points /\ error' \in Errors /\ isPrefill' \in BOOLEAN
      BY <1>1, <1>2 DEF Parts, TypeOK, CallTypes, Points, Errors
    <3>2. QED BY <1>1, <1>2, <3>1 DEF Parts, TypeOK, CallTypes
  <2>4. ReleaseTypes'
    BY <1>1, <1>2 DEF Parts, TypeOK, ReleaseTypes
  <2>5. QED BY <2>1, <2>2, <2>3, <2>4 DEF TypeOK
<1>4. OwnedOnce'
  BY <1>1, <1>2 DEF Parts, OwnedOnce, Popped
<1>5. CallInv'
  BY <1>1, <1>2 DEF Parts, CallInv, Held
<1>6. FinishInv'
  BY <1>1, <1>2 DEF Parts, FinishInv, Broken
<1>7. TokenInv'
  BY <1>1, <1>2 DEF Parts, TokenInv, PublishedOnce, IsReplay
<1>8. QED BY <1>3, <1>4, <1>5, <1>6, <1>7 DEF IInv

\* The preempted request keeps its place in waiting.
LEMMA ReturnWithoutBatchInv ==
  ASSUME IInv, StepWithoutBatch
  PROVE  IInv'
<1>1. Parts
  BY PartsOfInv
<1>2. /\ UNCHANGED <<waiting, decoding, scheduled, skipped, finished, phase, asyncInflight,
                      status, prefilled, chunk, tokens, inflight, checkpoint, published,
                      cursor, scan, budget, batchTokens, refused, failure, blocked,
                      isPrefill, modes, aborted>>
      /\ pc = "returned" /\ scheduled = <<>> /\ pc' \in {"idle", "raised"}
      /\ error' \in {error, "release", "no_runnable"} /\ preempted' = None
      /\ \/ preempted # None /\ (ReleaseOk(preempted) \/ ReleaseFails(preempted))
         \/ UNCHANGED <<kv, resident, pendingReleases, releaseFailed, faults>>
  BY DEF StepWithoutBatch, Raise
<1>3. preempted # None => preempted \in Seqs
  BY <1>1 DEF Parts, TypeOK, CallTypes
<1>4. /\ kv' \in [Seqs -> Nat] /\ resident' \subseteq Seqs
      /\ pendingReleases' \subseteq Seqs /\ releaseFailed' \subseteq Seqs
      /\ faults' \in 0..MaxFaults
  <2>1. CASE preempted # None /\ (ReleaseOk(preempted) \/ ReleaseFails(preempted))
    BY <1>1, <1>3, <2>1, ReleaseFacts, ReleasedTypes DEF Parts
  <2>2. CASE UNCHANGED <<kv, resident, pendingReleases, releaseFailed, faults>>
    BY <1>1, <2>2 DEF Parts, TypeOK, RequestTypes, ReleaseTypes
  <2>3. QED BY <1>2, <2>1, <2>2
<1>5. skipped = <<>> /\ Range(skipped) = {} /\ Range(scheduled) = {}
  BY <1>1, <1>2, EmptyFacts DEF Parts, CallInv
<1>6. TypeOK'
  <2>1. QueueTypes'
    BY <1>1, <1>2, <1>3, <1>4, <1>5 DEF Parts, TypeOK, QueueTypes
  <2>2. RequestTypes'
    <3>1. RequestTypes
      BY <1>1 DEF Parts, TypeOK
    <3>2. UNCHANGED <<status, prefilled, chunk, tokens, inflight, checkpoint, published, cursor>>
      BY <1>2
    <3>3. QED BY <1>4, <3>1, <3>2 DEF RequestTypes
  <2>3. CallTypes'
    <3>1. pc' \in Points /\ error' \in Errors /\ isPrefill' \in BOOLEAN
      BY <1>1, <1>2 DEF Parts, TypeOK, CallTypes, Points, Errors
    <3>2. QED BY <1>1, <1>2, <3>1 DEF Parts, TypeOK, CallTypes
  <2>4. ReleaseTypes'
    BY <1>1, <1>2, <1>4 DEF Parts, TypeOK, ReleaseTypes
  <2>5. QED BY <2>1, <2>2, <2>3, <2>4 DEF TypeOK
<1>7. OwnedOnce'
  BY <1>1, <1>2, <1>3, <1>4, <1>5 DEF Parts, OwnedOnce, Popped
<1>8. CallInv'
  BY <1>1, <1>2, <1>3, <1>4, <1>5 DEF Parts, CallInv, Held
<1>9. FinishInv'
  BY <1>1, <1>2, <1>3, <1>4, <1>5 DEF Parts, FinishInv, Broken
<1>10. TokenInv'
  BY <1>1, <1>2, <1>3, <1>4, <1>5 DEF Parts, TokenInv, PublishedOnce, IsReplay
<1>11. QED BY <1>6, <1>7, <1>8, <1>9, <1>10 DEF IInv

\* A failing admission hook hands every popped request back to waiting.
LEMMA HookFaultInv ==
  ASSUME IInv, HookFault
  PROVE  IInv'
<1>1. Parts
  BY PartsOfInv
<1>2. /\ UNCHANGED <<decoding, finished, phase, asyncInflight, prefilled, chunk, tokens,
                      inflight, checkpoint, kv, published, cursor, preempted, isPrefill,
                      pendingReleases, releaseFailed, aborted>>
      /\ pc = "prefill" /\ waiting # <<>> /\ pc' = "raised" /\ error' = "hook"
      /\ waiting' = skipped \o Tail(waiting) \o scheduled \o <<Head(waiting)>>
      /\ status' = [status EXCEPT ![Head(waiting)] = "RUNNING"]
      /\ resident' \subseteq resident \cup {Head(waiting)}
      /\ scheduled' = <<>> /\ skipped' = <<>> /\ faults < MaxFaults /\ faults' = faults + 1
      /\ scan' = 1 /\ budget' = 0 /\ batchTokens' = 0 /\ refused' = {}
      /\ failure' = None /\ blocked' = None
  BY DEF HookFault, PrefillHookFails, InBucket, CanContinuePrefillBatch, ClearLocals, Raise
<1>3. /\ Head(waiting) \in Seqs /\ Tail(waiting) \in Seq(Seqs) /\ IsInjective(Tail(waiting))
      /\ Range(waiting) = Range(Tail(waiting)) \cup {Head(waiting)} /\ Head(waiting) \notin Range(Tail(waiting))
  BY <1>1, <1>2, HeadTailFacts DEF Parts
<1>4. /\ Head(waiting) \notin Range(scheduled) \cup Range(skipped) \cup Range(decoding)
      /\ Range(waiting) \cap (Range(scheduled) \cup Range(skipped)) = {}
      /\ Range(scheduled) \cap Range(skipped) = {}
      /\ (Range(scheduled) \cup Range(skipped)) \cap Range(decoding) = {}
  BY <1>1, <1>2, <1>3 DEF Parts, OwnedOnce, Popped
<1>5. /\ waiting' \in Seq(Seqs) /\ IsInjective(waiting')
      /\ Range(waiting') = Range(waiting) \cup Range(scheduled) \cup Range(skipped)
  <2> DEFINE t == Tail(waiting)
             p == skipped \o t
             r == p \o scheduled
             h == <<Head(waiting)>>
  <2>0. /\ t \in Seq(Seqs) /\ IsInjective(t) /\ Range(skipped) \cap Range(t) = {}
        /\ Range(waiting) = Range(t) \cup {Head(waiting)} /\ Head(waiting) \notin Range(t)
    BY <1>3, <1>4
  <2> HIDE DEF t
  <2>1. /\ p \in Seq(Seqs) /\ IsInjective(p) /\ Range(p) = Range(skipped) \cup Range(t)
    BY <1>1, <2>0, ConcatFacts DEF Parts
  <2> HIDE DEF p
  <2>2. /\ r \in Seq(Seqs) /\ IsInjective(r) /\ Range(r) = Range(p) \cup Range(scheduled)
    <3>1. Range(p) \cap Range(scheduled) = {}
      BY <1>4, <2>0, <2>1
    <3>2. QED BY <1>1, <2>1, <3>1, ConcatFacts DEF Parts
  <2> HIDE DEF r
  <2>3. h \in Seq(Seqs) /\ IsInjective(h) /\ Range(h) = {Head(waiting)}
    BY <1>3, SingletonFacts
  <2> HIDE DEF h
  <2>4. Range(r) \cap Range(h) = {}
    BY <1>4, <2>0, <2>1, <2>2, <2>3
  <2>5. /\ r \o h \in Seq(Seqs) /\ IsInjective(r \o h) /\ Range(r \o h) = Range(r) \cup Range(h)
    BY <2>2, <2>3, <2>4, ConcatFacts
  <2>6. waiting' = r \o h
    BY <1>2 DEF t, p, r, h
  <2>7. QED BY <2>0, <2>1, <2>2, <2>3, <2>5, <2>6
<1>6. /\ status'[Head(waiting)] = "RUNNING" /\ status' \in [Seqs -> Statuses]
      /\ \A x \in Seqs : x # Head(waiting) => status'[x] = status[x]
  BY <1>1, <1>2, <1>3 DEF Parts, TypeOK, RequestTypes
<1>7. faults' \in 0..MaxFaults
  BY <1>1, <1>2, FaultAssumption DEF Parts, TypeOK, ReleaseTypes
<1>8. <<>> \in Seq(Seqs) /\ IsInjective(<<>>) /\ Range(<<>>) = {}
  BY EmptyFacts
<1>9. TypeOK'
  <2>1. QueueTypes'
    BY <1>1, <1>2, <1>3, <1>4, <1>5, <1>6, <1>7, <1>8 DEF Parts, TypeOK, QueueTypes
  <2>2. RequestTypes'
    <3>1. RequestTypes
      BY <1>1 DEF Parts, TypeOK
    <3>2. UNCHANGED <<prefilled, chunk, tokens, inflight, checkpoint, kv, published, cursor>>
      BY <1>2
    <3>3. resident' \subseteq Seqs
      BY <1>2, <1>3, <3>1 DEF RequestTypes
    <3>4. QED BY <1>6, <3>1, <3>2, <3>3 DEF RequestTypes
  <2>3. CallTypes'
    <3>1. pc' \in Points /\ error' \in Errors /\ isPrefill' \in BOOLEAN
      BY <1>1, <1>2 DEF Parts, TypeOK, CallTypes, Points, Errors
    <3>2. QED BY <1>1, <1>2, <3>1 DEF Parts, TypeOK, CallTypes
  <2>4. ReleaseTypes'
    BY <1>1, <1>2, <1>7 DEF Parts, TypeOK, ReleaseTypes
  <2>5. QED BY <2>1, <2>2, <2>3, <2>4 DEF TypeOK
<1>10. OwnedOnce'
  BY <1>1, <1>2, <1>3, <1>4, <1>5, <1>6, <1>7, <1>8, ZenonT(60) DEF Parts, OwnedOnce, Popped
<1>11. CallInv'
  BY <1>1, <1>2, <1>3, <1>4, <1>5, <1>6, <1>7, <1>8 DEF Parts, CallInv, Held
<1>12. FinishInv'
  BY <1>1, <1>2, <1>3, <1>4, <1>5, <1>6, <1>7, <1>8 DEF Parts, FinishInv, Broken
<1>13. TokenInv'
  BY <1>1, <1>2, <1>3, <1>4, <1>5, <1>6, <1>7, <1>8 DEF Parts, TokenInv, PublishedOnce, IsReplay
<1>14. QED BY <1>9, <1>10, <1>11, <1>12, <1>13 DEF IInv

\* A successful run only allocates.
LEMMA RunModelInv ==
  ASSUME IInv, RunModel
  PROVE  IInv'
<1>1. Parts
  BY PartsOfInv
<1>2. /\ UNCHANGED <<waiting, decoding, scheduled, skipped, phase, asyncInflight, status,
                      prefilled, chunk, tokens, inflight, checkpoint, published, cursor,
                      resident, error, scan, budget, batchTokens, refused, failure, blocked,
                      preempted, isPrefill, modes, pendingReleases, releaseFailed, aborted,
                      faults>>
      /\ pc = "returned" /\ pc' = "postprocess" /\ finished' = <<>>
      /\ kv' = [s \in Seqs |-> IF s \in Range(scheduled) THEN kv[s] + StepSlots(s) ELSE kv[s]]
  BY DEF RunModel, Allocate
<1>3. kv' \in [Seqs -> Nat]
  BY <1>1, <1>2 DEF Parts, TypeOK, RequestTypes, StepSlots
<1>4. <<>> \in Seq(Seqs) /\ IsInjective(<<>>) /\ Range(<<>>) = {}
  BY EmptyFacts
<1>5. TypeOK'
  <2>1. QueueTypes'
    BY <1>1, <1>2, <1>3, <1>4 DEF Parts, TypeOK, QueueTypes
  <2>2. RequestTypes'
    <3>1. RequestTypes
      BY <1>1 DEF Parts, TypeOK
    <3>2. UNCHANGED <<status, prefilled, chunk, tokens, inflight, checkpoint, published, cursor, resident>>
      BY <1>2
    <3>3. QED BY <1>3, <3>1, <3>2 DEF RequestTypes
  <2>3. CallTypes'
    <3>1. pc' \in Points /\ error' \in Errors /\ isPrefill' \in BOOLEAN
      BY <1>1, <1>2 DEF Parts, TypeOK, CallTypes, Points, Errors
    <3>2. QED BY <1>1, <1>2, <3>1 DEF Parts, TypeOK, CallTypes
  <2>4. ReleaseTypes'
    BY <1>1, <1>2 DEF Parts, TypeOK, ReleaseTypes
  <2>5. QED BY <2>1, <2>2, <2>3, <2>4 DEF TypeOK
<1>6. OwnedOnce'
  BY <1>1, <1>2, <1>3, <1>4 DEF Parts, OwnedOnce, Popped
<1>7. CallInv'
  BY <1>1, <1>2, <1>3, <1>4 DEF Parts, CallInv, Held
<1>8. FinishInv'
  BY <1>1, <1>2, <1>3, <1>4 DEF Parts, FinishInv, Broken
<1>9. TokenInv'
  BY <1>1, <1>2, <1>3, <1>4 DEF Parts, TokenInv, PublishedOnce, IsReplay
<1>10. QED BY <1>5, <1>6, <1>7, <1>8, <1>9 DEF IInv

\* A failed prefill batch returns to the front of waiting.
LEMMA RunFailsInv ==
  ASSUME IInv, RunModelFails
  PROVE  IInv'
<1>1. Parts
  BY PartsOfInv
<1>2. /\ UNCHANGED <<decoding, scheduled, skipped, finished, phase, asyncInflight, status,
                      prefilled, chunk, tokens, inflight, checkpoint, published, cursor,
                      scan, budget, batchTokens, refused, failure, blocked, preempted,
                      isPrefill, modes, pendingReleases, releaseFailed, aborted>>
      /\ pc = "returned" /\ pc' = "reclaim" /\ error' = "model" /\ PartlyAllocated
      /\ waiting' = IF isPrefill THEN scheduled \o waiting ELSE waiting
      /\ faults < MaxFaults /\ faults' = faults + 1
  BY DEF RunModelFails
<1>3. kv' \in [Seqs -> Nat] /\ resident' = resident
  <2>1. PICK batch : Allocate(batch)
    BY <1>2 DEF PartlyAllocated
  <2>2. /\ kv' = [s \in Seqs |-> IF s \in batch THEN kv[s] + StepSlots(s) ELSE kv[s]]
        /\ resident' = resident
    BY <2>1 DEF Allocate
  <2>3. QED BY <1>1, <2>2, SMTT(60) DEF Parts, TypeOK, RequestTypes, StepSlots
<1>4. /\ waiting' \in Seq(Seqs) /\ IsInjective(waiting')
      /\ Range(waiting') = Range(waiting) \cup (IF isPrefill THEN Range(scheduled) ELSE {})
      /\ isPrefill => Range(scheduled) \cap (Range(waiting) \cup Range(decoding)) = {}
  <2>1. isPrefill => Range(scheduled) \cap (Range(waiting) \cup Range(decoding)) = {}
    BY <1>1, <1>2 DEF Parts, OwnedOnce, Popped
  <2>2. CASE isPrefill
    <3>1. Range(scheduled) \cap Range(waiting) = {} /\ waiting' = scheduled \o waiting
      BY <1>2, <2>1, <2>2
    <3>2. /\ waiting' \in Seq(Seqs) /\ IsInjective(waiting')
          /\ Range(waiting') = Range(scheduled) \cup Range(waiting)
      BY <1>1, <3>1, ConcatFacts DEF Parts
    <3>3. QED BY <2>1, <2>2, <3>2
  <2>3. CASE ~isPrefill
    BY <1>1, <1>2, <2>3 DEF Parts
  <2>4. QED BY <2>2, <2>3
<1>5. skipped = <<>>
  BY <1>1, <1>2 DEF Parts, CallInv
<1>6. faults' \in 0..MaxFaults
  BY <1>1, <1>2, FaultAssumption DEF Parts, TypeOK, ReleaseTypes
<1>7. <<>> \in Seq(Seqs) /\ IsInjective(<<>>) /\ Range(<<>>) = {}
  BY EmptyFacts
<1>8. TypeOK'
  <2>1. QueueTypes'
    BY <1>1, <1>2, <1>3, <1>4, <1>5, <1>6, <1>7 DEF Parts, TypeOK, QueueTypes
  <2>2. RequestTypes'
    <3>1. RequestTypes
      BY <1>1 DEF Parts, TypeOK
    <3>2. UNCHANGED <<status, prefilled, chunk, tokens, inflight, checkpoint, published, cursor>>
      BY <1>2
    <3>3. QED BY <1>3, <3>1, <3>2 DEF RequestTypes
  <2>3. CallTypes'
    <3>1. pc' \in Points /\ error' \in Errors /\ isPrefill' \in BOOLEAN
      BY <1>1, <1>2 DEF Parts, TypeOK, CallTypes, Points, Errors
    <3>2. QED BY <1>1, <1>2, <3>1 DEF Parts, TypeOK, CallTypes
  <2>4. ReleaseTypes'
    BY <1>1, <1>2, <1>6 DEF Parts, TypeOK, ReleaseTypes
  <2>5. QED BY <2>1, <2>2, <2>3, <2>4 DEF TypeOK
<1>9. OwnedOnce'
  BY <1>1, <1>2, <1>3, <1>4, <1>5, <1>6, <1>7 DEF Parts, OwnedOnce, Popped
<1>10. CallInv'
  BY <1>1, <1>2, <1>3, <1>4, <1>5, <1>6, <1>7 DEF Parts, CallInv, Held
<1>11. FinishInv'
  BY <1>1, <1>2, <1>3, <1>4, <1>5, <1>6, <1>7 DEF Parts, FinishInv, Broken
<1>12. TokenInv'
  BY <1>1, <1>2, <1>3, <1>4, <1>5, <1>6, <1>7 DEF Parts, TokenInv, PublishedOnce, IsReplay
<1>13. QED BY <1>8, <1>9, <1>10, <1>11, <1>12 DEF IInv

\* Cleanup after a failed run takes one request out, or leaves it queued.
LEMMA ReclaimOneInv ==
  ASSUME IInv, ReclaimOne
  PROVE  IInv'
<1>1. Parts
  BY PartsOfInv
<1>2. /\ UNCHANGED <<skipped, finished, phase, asyncInflight, prefilled, chunk, tokens,
                      inflight, checkpoint, published, cursor, pc, error, scan, budget,
                      batchTokens, refused, failure, blocked, preempted, isPrefill, modes,
                      aborted>>
      /\ pc = "reclaim" /\ scheduled # <<>> /\ scheduled' = Tail(scheduled)
      /\ Leaves(Head(scheduled))
      /\ ReleaseOk(Head(scheduled)) \/ ReleaseFails(Head(scheduled))
  BY DEF ReclaimOne, Dequeue, Leaves
<1>3. /\ Head(scheduled) \in Seqs /\ Tail(scheduled) \in Seq(Seqs) /\ IsInjective(Tail(scheduled))
      /\ Range(scheduled) = Range(Tail(scheduled)) \cup {Head(scheduled)} /\ Head(scheduled) \notin Range(Tail(scheduled))
  BY <1>1, <1>2, HeadTailFacts DEF Parts
<1>4. LeftOver(Head(scheduled))
  BY <1>1, <1>2, <1>3, LeavesFacts
<1>5. /\ kv' \in [Seqs -> Nat] /\ resident' \subseteq Seqs
      /\ pendingReleases' \subseteq Seqs /\ releaseFailed' \subseteq Seqs
      /\ faults' \in 0..MaxFaults
  BY <1>1, <1>2, <1>3, ReleaseFacts, ReleasedTypes DEF Parts
<1>6. skipped = <<>> /\ Range(skipped) = {}
  BY <1>1, <1>2, EmptyFacts DEF Parts, CallInv
<1>7. TypeOK'
  <2>1. QueueTypes'
    BY <1>1, <1>2, <1>3, <1>4 DEF Parts, TypeOK, QueueTypes, LeftOver
  <2>2. RequestTypes'
    <3>1. RequestTypes
      BY <1>1 DEF Parts, TypeOK
    <3>2. UNCHANGED <<prefilled, chunk, tokens, inflight, checkpoint, published, cursor>>
      BY <1>2
    <3>3. status' \in [Seqs -> Statuses] /\ kv' \in [Seqs -> Nat] /\ resident' \subseteq Seqs
      BY <1>4, <1>5 DEF LeftOver
    <3>4. QED BY <3>1, <3>2, <3>3 DEF RequestTypes
  <2>3. CallTypes'
    BY <1>1, <1>2 DEF Parts, TypeOK, CallTypes, Points, Errors
  <2>4. ReleaseTypes'
    BY <1>1, <1>2, <1>5 DEF Parts, TypeOK, ReleaseTypes
  <2>5. QED BY <2>1, <2>2, <2>3, <2>4 DEF TypeOK
<1>8. OwnedOnce'
  BY <1>1, <1>2, <1>3, <1>4, <1>5, <1>6 DEF Parts, OwnedOnce, Popped, LeftOver
<1>9. CallInv'
  BY <1>1, <1>2, <1>3, <1>4, <1>5, <1>6 DEF Parts, CallInv, Held, LeftOver
<1>10. FinishInv'
  BY <1>1, <1>2, <1>3, <1>4, <1>5, <1>6 DEF Parts, FinishInv, Broken, LeftOver
<1>11. TokenInv'
  BY <1>1, <1>2, <1>3, <1>4, <1>5, <1>6 DEF Parts, TokenInv, PublishedOnce, IsReplay, LeftOver
<1>12. QED BY <1>7, <1>8, <1>9, <1>10, <1>11 DEF IInv

\* The step ends with the error of the run.
LEMMA ReclaimDoneInv ==
  ASSUME IInv, ReclaimDone
  PROVE  IInv'
<1>1. Parts
  BY PartsOfInv
<1>2. /\ UNCHANGED <<waiting, decoding, scheduled, skipped, finished, phase, asyncInflight,
                      status, prefilled, chunk, tokens, inflight, checkpoint, kv, published,
                      cursor, resident, scan, budget, batchTokens, refused, failure,
                      blocked, preempted, isPrefill, modes, pendingReleases, releaseFailed,
                      aborted, faults>>
      /\ pc = "reclaim" /\ pc' = "raised" /\ error' = "model"
  BY DEF ReclaimDone, Raise
<1>3. TypeOK'
  <2>1. QueueTypes'
    BY <1>1, <1>2 DEF Parts, TypeOK, QueueTypes
  <2>2. RequestTypes'
    BY <1>1, <1>2 DEF Parts, TypeOK, RequestTypes
  <2>3. CallTypes'
    <3>1. pc' \in Points /\ error' \in Errors /\ isPrefill' \in BOOLEAN
      BY <1>1, <1>2 DEF Parts, TypeOK, CallTypes, Points, Errors
    <3>2. QED BY <1>1, <1>2, <3>1 DEF Parts, TypeOK, CallTypes
  <2>4. ReleaseTypes'
    BY <1>1, <1>2 DEF Parts, TypeOK, ReleaseTypes
  <2>5. QED BY <2>1, <2>2, <2>3, <2>4 DEF TypeOK
<1>4. OwnedOnce'
  BY <1>1, <1>2 DEF Parts, OwnedOnce, Popped
<1>5. CallInv'
  BY <1>1, <1>2 DEF Parts, CallInv, Held
<1>6. FinishInv'
  BY <1>1, <1>2 DEF Parts, FinishInv, Broken
<1>7. TokenInv'
  BY <1>1, <1>2 DEF Parts, TokenInv, PublishedOnce, IsReplay
<1>8. QED BY <1>3, <1>4, <1>5, <1>6, <1>7 DEF IInv

\* The whole batch is postprocessed.
LEMMA StartReleaseInv ==
  ASSUME IInv, StartRelease
  PROVE  IInv'
<1>1. Parts
  BY PartsOfInv
<1>2. /\ UNCHANGED <<waiting, decoding, scheduled, skipped, finished, phase, asyncInflight,
                      status, prefilled, chunk, tokens, inflight, checkpoint, kv, published,
                      cursor, resident, error, scan, budget, batchTokens, refused, failure,
                      blocked, preempted, isPrefill, modes, pendingReleases, releaseFailed,
                      aborted, faults>>
      /\ pc = "postprocess" /\ scheduled = <<>> /\ pc' = "release"
  BY DEF StartRelease
<1>3. <<>> \in Seq(Seqs) /\ IsInjective(<<>>) /\ Range(<<>>) = {}
  BY EmptyFacts
<1>4. TypeOK'
  <2>1. QueueTypes'
    BY <1>1, <1>2, <1>3 DEF Parts, TypeOK, QueueTypes
  <2>2. RequestTypes'
    BY <1>1, <1>2 DEF Parts, TypeOK, RequestTypes
  <2>3. CallTypes'
    <3>1. pc' \in Points /\ error' \in Errors /\ isPrefill' \in BOOLEAN
      BY <1>1, <1>2 DEF Parts, TypeOK, CallTypes, Points, Errors
    <3>2. QED BY <1>1, <1>2, <3>1 DEF Parts, TypeOK, CallTypes
  <2>4. ReleaseTypes'
    BY <1>1, <1>2 DEF Parts, TypeOK, ReleaseTypes
  <2>5. QED BY <2>1, <2>2, <2>3, <2>4 DEF TypeOK
<1>5. OwnedOnce'
  BY <1>1, <1>2, <1>3 DEF Parts, OwnedOnce, Popped
<1>6. CallInv'
  BY <1>1, <1>2, <1>3 DEF Parts, CallInv, Held
<1>7. FinishInv'
  BY <1>1, <1>2, <1>3 DEF Parts, FinishInv, Broken
<1>8. TokenInv'
  BY <1>1, <1>2, <1>3 DEF Parts, TokenInv, PublishedOnce, IsReplay
<1>9. QED BY <1>4, <1>5, <1>6, <1>7, <1>8 DEF IInv

\* A finished request leaves the queues, or its release ends the step.
LEMMA ReleaseFinishedInv ==
  ASSUME IInv, ReleaseFinished
  PROVE  IInv'
<1>1. Parts
  BY PartsOfInv
<1>2. /\ UNCHANGED <<scheduled, skipped, phase, asyncInflight, prefilled, chunk, tokens,
                      inflight, checkpoint, published, cursor, scan, budget, batchTokens,
                      refused, failure, blocked, preempted, isPrefill, modes, aborted>>
      /\ pc = "release" /\ finished # <<>> /\ finished' = Tail(finished)
      /\ Leaves(Head(finished))
      /\ \/ pc' = pc /\ error' = error /\ status' = [status EXCEPT ![Head(finished)] = "FINISHED"]
            /\ decoding' = Without(decoding, Head(finished))
         \/ pc' = "raised" /\ error' = "release" /\ UNCHANGED <<waiting, decoding, status>>
      /\ ReleaseOk(Head(finished)) \/ ReleaseFails(Head(finished))
  BY DEF ReleaseFinished, Dequeue, Leaves, Raise
<1>3. /\ Head(finished) \in Seqs /\ Tail(finished) \in Seq(Seqs)
      /\ Range(finished) = Range(Tail(finished)) \cup {Head(finished)}
  BY <1>1, <1>2, HeadTailFacts DEF Parts
<1>4. LeftOver(Head(finished))
  BY <1>1, <1>2, <1>3, LeavesFacts
<1>5. /\ kv' \in [Seqs -> Nat] /\ resident' \subseteq Seqs
      /\ pendingReleases' \subseteq Seqs /\ releaseFailed' \subseteq Seqs
      /\ faults' \in 0..MaxFaults
  BY <1>1, <1>2, <1>3, ReleaseFacts, ReleasedTypes DEF Parts
<1>6. skipped = <<>> /\ scheduled = <<>> /\ Range(skipped) = {} /\ Range(scheduled) = {}
  BY <1>1, <1>2, EmptyFacts DEF Parts, CallInv
<1>7. pc' = "release" => Head(finished) \notin Range(decoding')
  BY <1>1, <1>2, RemoveFacts DEF Parts, Without
<1>8. TypeOK'
  <2>1. QueueTypes'
    BY <1>1, <1>2, <1>3, <1>4 DEF Parts, TypeOK, QueueTypes, LeftOver
  <2>2. RequestTypes'
    <3>1. RequestTypes
      BY <1>1 DEF Parts, TypeOK
    <3>2. UNCHANGED <<prefilled, chunk, tokens, inflight, checkpoint, published, cursor>>
      BY <1>2
    <3>3. status' \in [Seqs -> Statuses] /\ kv' \in [Seqs -> Nat] /\ resident' \subseteq Seqs
      BY <1>4, <1>5 DEF LeftOver
    <3>4. QED BY <3>1, <3>2, <3>3 DEF RequestTypes
  <2>3. CallTypes'
    <3>1. pc' \in Points /\ error' \in Errors /\ isPrefill' \in BOOLEAN
      BY <1>1, <1>2 DEF Parts, TypeOK, CallTypes, Points, Errors
    <3>2. QED BY <1>1, <1>2, <3>1 DEF Parts, TypeOK, CallTypes
  <2>4. ReleaseTypes'
    BY <1>1, <1>2, <1>5 DEF Parts, TypeOK, ReleaseTypes
  <2>5. QED BY <2>1, <2>2, <2>3, <2>4 DEF TypeOK
<1>9. OwnedOnce'
  BY <1>1, <1>2, <1>3, <1>4, <1>5, <1>6, <1>7 DEF Parts, OwnedOnce, Popped, LeftOver
<1>10. CallInv'
  BY <1>1, <1>2, <1>3, <1>4, <1>5, <1>6, <1>7 DEF Parts, CallInv, Held, LeftOver
<1>11. FinishInv'
  BY <1>1, <1>2, <1>3, <1>4, <1>5, <1>6, <1>7 DEF Parts, FinishInv, Broken, LeftOver
<1>12. TokenInv'
  BY <1>1, <1>2, <1>3, <1>4, <1>5, <1>6, <1>7 DEF Parts, TokenInv, PublishedOnce, IsReplay, LeftOver
<1>13. QED BY <1>8, <1>9, <1>10, <1>11, <1>12 DEF IInv

\* Nothing finished is left in decoding when the step ends.
LEMMA StepDoneInv ==
  ASSUME IInv, StepDone
  PROVE  IInv'
<1>1. Parts
  BY PartsOfInv
<1>2. /\ UNCHANGED <<waiting, decoding, scheduled, skipped, finished, phase, asyncInflight,
                      status, prefilled, chunk, tokens, inflight, checkpoint, kv, published,
                      cursor, resident, error, scan, budget, batchTokens, refused, failure,
                      blocked, preempted, modes, pendingReleases, releaseFailed, aborted,
                      faults>>
      /\ pc = "release" /\ finished = <<>> /\ pc' = "idle" /\ isPrefill' = FALSE
  BY DEF StepDone
<1>3. Range(finished) = {} /\ scheduled = <<>> /\ Range(scheduled) = {}
  BY <1>1, <1>2, EmptyFacts DEF Parts, CallInv
<1>4. TypeOK'
  <2>1. QueueTypes'
    BY <1>1, <1>2, <1>3 DEF Parts, TypeOK, QueueTypes
  <2>2. RequestTypes'
    BY <1>1, <1>2 DEF Parts, TypeOK, RequestTypes
  <2>3. CallTypes'
    <3>1. pc' \in Points /\ error' \in Errors /\ isPrefill' \in BOOLEAN
      BY <1>1, <1>2 DEF Parts, TypeOK, CallTypes, Points, Errors
    <3>2. QED BY <1>1, <1>2, <3>1 DEF Parts, TypeOK, CallTypes
  <2>4. ReleaseTypes'
    BY <1>1, <1>2 DEF Parts, TypeOK, ReleaseTypes
  <2>5. QED BY <2>1, <2>2, <2>3, <2>4 DEF TypeOK
<1>5. OwnedOnce'
  BY <1>1, <1>2, <1>3 DEF Parts, OwnedOnce, Popped
<1>6. CallInv'
  BY <1>1, <1>2, <1>3 DEF Parts, CallInv, Held
<1>7. FinishInv'
  BY <1>1, <1>2, <1>3 DEF Parts, FinishInv, Broken
<1>8. TokenInv'
  BY <1>1, <1>2, <1>3 DEF Parts, TokenInv, PublishedOnce, IsReplay
<1>9. QED BY <1>4, <1>5, <1>6, <1>7, <1>8 DEF IInv

\* A partial prefill returns to the front of waiting.
LEMMA PartialPrefillInv ==
  ASSUME IInv, PostPartialPrefill
  PROVE  IInv'
<1>1. Parts
  BY PartsOfInv
<1>2. /\ UNCHANGED <<decoding, skipped, finished, phase, asyncInflight, chunk, tokens,
                      inflight, checkpoint, kv, cursor, resident, pc, error, scan, budget,
                      batchTokens, refused, failure, blocked, preempted, isPrefill, modes,
                      pendingReleases, releaseFailed, aborted, faults>>
      /\ pc = "postprocess" /\ scheduled # <<>> /\ scheduled' = Tail(scheduled)
      /\ isPrefill /\ ~LastChunk(Head(scheduled))
      /\ waiting' = <<Head(scheduled)>> \o waiting
      /\ prefilled' = [prefilled EXCEPT ![Head(scheduled)] = @ + chunk[Head(scheduled)]]
      /\ status' = [status EXCEPT ![Head(scheduled)] = "WAITING"]
      /\ published' = [published EXCEPT ![Head(scheduled)] =
                          IF Publishes(Head(scheduled)) THEN @ + 1 ELSE @]
  BY DEF PostPartialPrefill, NextPost, PostTail
<1>3. /\ Head(scheduled) \in Seqs /\ Tail(scheduled) \in Seq(Seqs) /\ IsInjective(Tail(scheduled))
      /\ Range(scheduled) = Range(Tail(scheduled)) \cup {Head(scheduled)} /\ Head(scheduled) \notin Range(Tail(scheduled))
  BY <1>1, <1>2, HeadTailFacts DEF Parts
<1>4. /\ Head(scheduled) \notin Range(waiting) \cup Range(decoding)
      /\ Range(Tail(scheduled)) \cap (Range(waiting) \cup Range(decoding)) = {}
  BY <1>1, <1>2, <1>3 DEF Parts, OwnedOnce, Popped
<1>5. /\ waiting' \in Seq(Seqs) /\ IsInjective(waiting')
      /\ Range(waiting') = Range(waiting) \cup {Head(scheduled)}
  BY <1>1, <1>2, <1>3, <1>4, PrependFacts DEF Parts
<1>6. /\ status'[Head(scheduled)] = "WAITING" /\ status' \in [Seqs -> Statuses]
      /\ \A x \in Seqs : x # Head(scheduled) => status'[x] = status[x]
  BY <1>1, <1>2, <1>3 DEF Parts, TypeOK, RequestTypes
<1>7. /\ prefilled' \in [Seqs -> Nat] /\ \A x \in Seqs : prefilled'[x] <= PromptLen[x]
      /\ \A x \in Seqs : x # Head(scheduled) => prefilled'[x] = prefilled[x]
  <2>1. /\ prefilled \in [Seqs -> Nat] /\ chunk \in [Seqs -> Nat]
        /\ \A x \in Seqs : prefilled[x] <= PromptLen[x]
    BY <1>1 DEF Parts, TypeOK, RequestTypes
  <2>2. prefilled[Head(scheduled)] + chunk[Head(scheduled)] <= PromptLen[Head(scheduled)]
    BY <1>1, <1>2, <1>3 DEF Parts, CallInv
  <2>3. prefilled' = [prefilled EXCEPT ![Head(scheduled)] = @ + chunk[Head(scheduled)]]
    BY <1>2
  <2>4. QED BY <1>3, <2>1, <2>2, <2>3
<1>8. published' = published
  <2>1. ~Publishes(Head(scheduled)) /\ published \in [Seqs -> Nat]
    BY <1>1, <1>2 DEF Publishes, Parts, TypeOK, RequestTypes
  <2>2. QED BY <1>2, <2>1
<1>9. skipped = <<>> /\ Range(skipped) = {}
  BY <1>1, <1>2, EmptyFacts DEF Parts, CallInv
<1>10. \A x \in Range(scheduled) : ~IsReplay(x) => tokens[x] = 0
  BY <1>1, <1>2 DEF Parts, TokenInv
<1>11. TypeOK'
  <2>1. QueueTypes'
    BY <1>1, <1>2, <1>3, <1>4, <1>5, <1>6, <1>7, <1>8, <1>9, <1>10 DEF Parts, TypeOK, QueueTypes
  <2>2. RequestTypes'
    <3>1. RequestTypes
      BY <1>1 DEF Parts, TypeOK
    <3>2. UNCHANGED <<chunk, tokens, inflight, checkpoint, kv, cursor, resident>>
      BY <1>2
    <3>3. QED BY <1>6, <1>7, <1>8, <3>1, <3>2 DEF RequestTypes
  <2>3. CallTypes'
    BY <1>1, <1>2 DEF Parts, TypeOK, CallTypes, Points, Errors
  <2>4. ReleaseTypes'
    BY <1>1, <1>2 DEF Parts, TypeOK, ReleaseTypes
  <2>5. QED BY <2>1, <2>2, <2>3, <2>4 DEF TypeOK
<1>12. OwnedOnce'
  <2>1. UNCHANGED <<decoding, skipped, pc, isPrefill>> /\ scheduled' = Tail(scheduled)
    BY <1>2
  <2>2. pc = "postprocess" /\ isPrefill
    BY <1>2
  <2>3. Popped = Range(scheduled) /\ Popped' = Range(Tail(scheduled))
    BY <1>9, <2>1, <2>2 DEF Popped
  <2>4. OwnedOnce
    BY <1>1 DEF Parts
  <2>5. \A s \in Seqs : status'[s] \in {"WAITING", "RUNNING"} =>
          s \in Range(waiting') \cup Range(decoding) \cup Popped'
    BY <1>3, <1>5, <1>6, <2>3, <2>4 DEF OwnedOnce
  <2>6. /\ Range(waiting') \cap Range(decoding) = {}
        /\ Popped' \cap (Range(waiting') \cup Range(decoding)) = {}
    BY <1>3, <1>4, <1>5, <2>3, <2>4 DEF OwnedOnce
  <2>7. QED BY <1>3, <1>5, <1>9, <2>1, <2>4, <2>5, <2>6 DEF OwnedOnce
<1>13. CallInv'
  BY <1>1, <1>2, <1>3, <1>4, <1>5, <1>6, <1>7, <1>8, <1>9, <1>10, SMTT(60) DEF Parts, CallInv, Held
<1>14. FinishInv'
  BY <1>1, <1>2, <1>3, <1>4, <1>5, <1>6, <1>7, <1>8, <1>9, <1>10 DEF Parts, FinishInv, Broken
<1>15. TokenInv'
  <2>1. UNCHANGED <<tokens, cursor, skipped, isPrefill, pc>> /\ scheduled' = Tail(scheduled)
    BY <1>2
  <2>2. TokenInv /\ pc = "postprocess" /\ isPrefill
    BY <1>1, <1>2 DEF Parts
  <2>3. PublishedOnce'
    BY <1>8, <2>1, <2>2 DEF TokenInv, PublishedOnce
  <2>4. \A s \in Seqs : status'[s] = "NEW" => tokens[s] = 0
    BY <1>6, <2>2 DEF TokenInv
  <2>5. \A s \in Range(waiting') : ~IsReplay(s) => tokens[s] = 0
    BY <1>3, <1>5, <1>10, <2>2 DEF TokenInv
  <2>6. QED BY <1>3, <1>9, <1>10, <2>1, <2>2, <2>3, <2>4, <2>5 DEF TokenInv, IsReplay
<1>16. QED BY <1>11, <1>12, <1>13, <1>14, <1>15 DEF IInv

\* What postprocessing s may do to its tokens, and what it publishes.
Accounted(s) ==
  /\ status' \in [Seqs -> Statuses] /\ status'[s] # "NEW"
  /\ \A x \in Seqs : x # s => status'[x] = status[x] /\ tokens'[x] = tokens[x]
                              /\ cursor'[x] = cursor[x]
  /\ tokens' \in [Seqs -> Nat] /\ published' \in [Seqs -> Nat]
  /\ cursor' \in [Seqs -> Nat \cup {NoReplay}] /\ checkpoint' \in [Seqs -> Nat]
  /\ PublishedOnce'
  /\ finished' \in Seq(Seqs) /\ Range(finished) \subseteq Range(finished')
  /\ status'[s] = "FINISHED" => s \in Range(finished')

\* append_token publishes and counts the token, and records the end.
LEMMA AppendAccounted ==
  ASSUME RequestTypes, PublishedOnce, finished \in Seq(Seqs), NEW s \in Seqs,
         tokens[s] < MaxTokens[s], AppendToken(s), UNCHANGED <<cursor, checkpoint>>,
         published' = [published EXCEPT ![s] = @ + 1]
  PROVE  Accounted(s)
<1>1. /\ tokens \in [Seqs -> Nat] /\ published \in [Seqs -> Nat] /\ MaxTokens \in [Seqs -> Nat \ {0}]
      /\ status \in [Seqs -> Statuses] /\ cursor \in [Seqs -> Nat \cup {NoReplay}]
      /\ checkpoint \in [Seqs -> Nat]
  BY SchedulerAssumption DEF RequestTypes
<1>2. /\ tokens' = [tokens EXCEPT ![s] = @ + 1]
      /\ \/ status' = [status EXCEPT ![s] = "RUNNING"] /\ finished' = finished
         \/ status' = [status EXCEPT ![s] = "FINISHED"] /\ finished' = Append(finished, s)
  BY DEF AppendToken
<1>3. tokens' \in [Seqs -> Nat] /\ published' \in [Seqs -> Nat]
  BY <1>1, <1>2
<1>4. status' \in [Seqs -> Statuses] /\ status'[s] # "NEW"
  BY <1>1, <1>2
<1>5. \A x \in Seqs : x # s => status'[x] = status[x] /\ tokens'[x] = tokens[x]
  BY <1>1, <1>2
<1>6. PublishedOnce'
  <2>1. SUFFICES ASSUME NEW x \in Seqs
                 PROVE  published'[x] = tokens'[x] /\ tokens'[x] <= MaxTokens[x]
    BY DEF PublishedOnce
  <2>2. published[x] = tokens[x] /\ tokens[x] <= MaxTokens[x]
    BY DEF PublishedOnce
  <2>3. QED BY <1>1, <1>2, <2>2
<1>7. Append(finished, s) \in Seq(Seqs) /\ Range(Append(finished, s)) = Range(finished) \cup {s}
  BY AppendFacts
<1>8. /\ finished' \in Seq(Seqs) /\ Range(finished) \subseteq Range(finished')
      /\ status'[s] = "FINISHED" => s \in Range(finished')
  BY <1>1, <1>2, <1>7
<1>9. QED BY <1>1, <1>3, <1>4, <1>5, <1>6, <1>8 DEF Accounted

\* A replayed position publishes nothing.
LEMMA ReplayAccounted ==
  ASSUME RequestTypes, PublishedOnce, finished \in Seq(Seqs), NEW s \in Seqs, NEW n \in Nat,
         AdvanceReplay(s, n) \/ UNCHANGED <<cursor, checkpoint>>,
         status' = [status EXCEPT ![s] = "RUNNING"] \/ (status' = status /\ status[s] # "NEW"),
         status[s] # "FINISHED", UNCHANGED <<tokens, finished, published>>
  PROVE  Accounted(s)
<1>1. /\ tokens \in [Seqs -> Nat] /\ published \in [Seqs -> Nat]
      /\ status \in [Seqs -> Statuses] /\ cursor \in [Seqs -> Nat \cup {NoReplay}]
      /\ checkpoint \in [Seqs -> Nat]
  BY DEF RequestTypes
<1>2. cursor' \in [Seqs -> Nat \cup {NoReplay}] /\ checkpoint' \in [Seqs -> Nat]
  BY <1>1, ZenonT(60) DEF AdvanceReplay
<1>3. \A x \in Seqs : x # s => cursor'[x] = cursor[x]
  BY <1>1 DEF AdvanceReplay
<1>4. /\ status' \in [Seqs -> Statuses] /\ status'[s] \notin {"NEW", "FINISHED"}
      /\ \A x \in Seqs : x # s => status'[x] = status[x]
  BY <1>1
<1>5. PublishedOnce'
  BY DEF PublishedOnce
<1>6. QED BY <1>1, <1>2, <1>3, <1>4, <1>5 DEF Accounted

\* A completed prefill joins decoding, with its first token unless it is a replay.
LEMMA LastPrefillInv ==
  ASSUME IInv, PostLastPrefill
  PROVE  IInv'
<1>1. Parts
  BY PartsOfInv
<1>2. /\ UNCHANGED <<waiting, skipped, phase, asyncInflight, chunk, inflight, kv, resident,
                      pc, error, scan, budget, batchTokens, refused, failure, blocked,
                      preempted, isPrefill, modes, pendingReleases, releaseFailed, aborted,
                      faults>>
      /\ pc = "postprocess" /\ scheduled # <<>> /\ scheduled' = Tail(scheduled)
      /\ isPrefill /\ LastChunk(Head(scheduled))
      /\ decoding' = Append(decoding, Head(scheduled))
      /\ prefilled' = [prefilled EXCEPT ![Head(scheduled)] = @ + chunk[Head(scheduled)]]
      /\ PostTail
  BY DEF PostLastPrefill, NextPost, PostTail
<1>3. /\ Head(scheduled) \in Seqs /\ Tail(scheduled) \in Seq(Seqs) /\ IsInjective(Tail(scheduled))
      /\ Range(scheduled) = Range(Tail(scheduled)) \cup {Head(scheduled)} /\ Head(scheduled) \notin Range(Tail(scheduled))
  BY <1>1, <1>2, HeadTailFacts DEF Parts
<1>4. /\ Head(scheduled) \notin Range(waiting) \cup Range(decoding)
      /\ Range(Tail(scheduled)) \cap (Range(waiting) \cup Range(decoding)) = {}
  BY <1>1, <1>2, <1>3 DEF Parts, OwnedOnce, Popped
<1>5. /\ decoding' \in Seq(Seqs) /\ IsInjective(decoding')
      /\ Range(decoding') = Range(decoding) \cup {Head(scheduled)}
  BY <1>1, <1>2, <1>3, <1>4, AppendFacts DEF Parts
<1>6. /\ prefilled' \in [Seqs -> Nat] /\ \A x \in Seqs : prefilled'[x] <= PromptLen[x]
      /\ \A x \in Seqs : x # Head(scheduled) => prefilled'[x] = prefilled[x]
  <2>1. /\ prefilled \in [Seqs -> Nat] /\ chunk \in [Seqs -> Nat]
        /\ \A x \in Seqs : prefilled[x] <= PromptLen[x]
    BY <1>1 DEF Parts, TypeOK, RequestTypes
  <2>2. prefilled[Head(scheduled)] + chunk[Head(scheduled)] <= PromptLen[Head(scheduled)]
    BY <1>1, <1>2, <1>3 DEF Parts, CallInv
  <2>3. prefilled' = [prefilled EXCEPT ![Head(scheduled)] = @ + chunk[Head(scheduled)]]
    BY <1>2
  <2>4. QED BY <1>3, <2>1, <2>2, <2>3
<1>7. Accounted(Head(scheduled))
  <2>1. /\ RequestTypes /\ PublishedOnce /\ finished \in Seq(Seqs)
        /\ status[Head(scheduled)] \notin {"NEW", "FINISHED"}
    BY <1>1, <1>2, <1>3 DEF Parts, TypeOK, TokenInv, FinishInv, Broken
  <2>2. tokens \in [Seqs -> Nat] /\ MaxTokens \in [Seqs -> Nat \ {0}] /\ published \in [Seqs -> Nat]
        /\ cursor \in [Seqs -> Nat \cup {NoReplay}]
    BY <2>1, SchedulerAssumption DEF RequestTypes
  <2>3. CASE IsReplay(Head(scheduled))
    <3>1. published' = published
      BY <1>2, <2>2, <2>3 DEF PostTail, Publishes
    <3>2. /\ AdvanceReplay(Head(scheduled), 0) \/ UNCHANGED <<cursor, checkpoint>>
          /\ status' = [status EXCEPT ![Head(scheduled)] = "RUNNING"]
          /\ UNCHANGED <<tokens, finished>>
      BY <2>3 DEF PostLastPrefill
    <3>3. QED BY <1>3, <2>1, <3>1, <3>2, ReplayAccounted
  <2>4. CASE ~IsReplay(Head(scheduled))
    <3>1. tokens[Head(scheduled)] < MaxTokens[Head(scheduled)]
      BY <1>1, <1>2, <1>3, <2>2, <2>4 DEF Parts, TokenInv
    <3>2. published' = [published EXCEPT ![Head(scheduled)] = @ + 1]
      BY <1>2, <2>4 DEF PostTail, Publishes
    <3>3. AppendToken(Head(scheduled)) /\ UNCHANGED <<cursor, checkpoint>>
      BY <2>4 DEF PostLastPrefill
    <3>4. QED BY <1>3, <2>1, <3>1, <3>2, <3>3, AppendAccounted
  <2>5. QED BY <2>3, <2>4
<1>8. skipped = <<>> /\ Range(skipped) = {}
  BY <1>1, <1>2, EmptyFacts DEF Parts, CallInv
<1>9. TypeOK'
  <2>1. QueueTypes'
    BY <1>1, <1>2, <1>3, <1>5, <1>7 DEF Parts, TypeOK, QueueTypes, Accounted
  <2>2. RequestTypes'
    <3>1. RequestTypes
      BY <1>1 DEF Parts, TypeOK
    <3>2. UNCHANGED <<chunk, inflight, kv, resident>>
      BY <1>2
    <3>3. QED BY <1>6, <1>7, <3>1, <3>2, SMTT(60) DEF RequestTypes, Accounted
  <2>3. CallTypes'
    BY <1>1, <1>2 DEF Parts, TypeOK, CallTypes, Points, Errors
  <2>4. ReleaseTypes'
    BY <1>1, <1>2 DEF Parts, TypeOK, ReleaseTypes
  <2>5. QED BY <2>1, <2>2, <2>3, <2>4 DEF TypeOK
<1>10. OwnedOnce'
  <2>1. UNCHANGED <<waiting, skipped, pc, isPrefill>> /\ scheduled' = Tail(scheduled)
    BY <1>2
  <2>2. pc = "postprocess" /\ isPrefill
    BY <1>2
  <2>3. Popped = Range(scheduled) /\ Popped' = Range(Tail(scheduled))
    BY <1>8, <2>1, <2>2 DEF Popped
  <2>4. OwnedOnce
    BY <1>1 DEF Parts
  <2>5. \A s \in Seqs : status'[s] \in {"WAITING", "RUNNING"} =>
          s \in Range(waiting) \cup Range(decoding') \cup Popped'
    BY <1>3, <1>5, <1>7, <2>3, <2>4 DEF OwnedOnce, Accounted
  <2>6. /\ Range(waiting) \cap Range(decoding') = {}
        /\ Popped' \cap (Range(waiting) \cup Range(decoding')) = {}
    BY <1>3, <1>4, <1>5, <2>3, <2>4 DEF OwnedOnce
  <2>7. QED BY <1>3, <1>5, <1>8, <2>1, <2>4, <2>5, <2>6 DEF OwnedOnce
<1>11. CallInv'
  <2>1. \A s \in Held' : s \in Range(waiting) \cup Range(decoding) \cup Range(scheduled)
    BY <1>2, <1>3, <1>5, <1>8 DEF Held
  <2>2. \A s \in Held' : status'[s] # "NEW"
    BY <1>1, <1>7, <2>1 DEF Parts, Accounted
  <2>3. \A s \in Range(scheduled') : prefilled'[s] + chunk'[s] <= PromptLen[s]
    BY <1>1, <1>2, <1>3, <1>6 DEF Parts, CallInv
  <2>4. blocked = None
    BY <1>1, <1>2 DEF Parts, CallInv
  <2>5. QED BY <1>2, <1>8, <2>2, <2>3, <2>4 DEF CallInv
<1>12. FinishInv'
  <2>1. UNCHANGED <<waiting, skipped, pc>> /\ scheduled' = Tail(scheduled) /\ pc = "postprocess"
    BY <1>2
  <2>2. \A s \in Range(waiting) \cup Range(Tail(scheduled)) : status'[s] # "FINISHED"
    BY <1>1, <1>3, <1>4, <1>7, <2>1 DEF Parts, FinishInv, Broken, Accounted
  <2>3. \A s \in Range(decoding') : status'[s] = "FINISHED" => s \in Range(finished')
    BY <1>1, <1>3, <1>5, <1>7, <2>1 DEF Parts, FinishInv, Broken, Accounted
  <2>4. QED BY <1>8, <2>1, <2>2, <2>3 DEF FinishInv, Broken
<1>13. TokenInv'
  <2>1. /\ UNCHANGED <<waiting, skipped, isPrefill, pc>> /\ scheduled' = Tail(scheduled)
        /\ pc = "postprocess" /\ isPrefill /\ TokenInv
    BY <1>1, <1>2 DEF Parts
  <2>2. \A s \in Seqs : status'[s] = "NEW" => tokens'[s] = 0
    BY <1>7, <2>1 DEF TokenInv, Accounted
  <2>3. \A s \in Range(waiting) \cup Range(Tail(scheduled)) : cursor'[s] = NoReplay => tokens'[s] = 0
    BY <1>1, <1>3, <1>4, <1>7, <2>1 DEF Parts, TokenInv, Accounted, IsReplay
  <2>4. QED BY <1>7, <1>8, <2>1, <2>2, <2>3 DEF TokenInv, Accounted, IsReplay
<1>14. QED BY <1>9, <1>10, <1>11, <1>12, <1>13 DEF IInv

\* A decode stays in decoding, with one more token unless it is a replay.
LEMMA PostDecodeInv ==
  ASSUME IInv, PostDecode
  PROVE  IInv'
<1>1. Parts
  BY PartsOfInv
<1>2. /\ UNCHANGED <<waiting, decoding, skipped, phase, asyncInflight, prefilled, chunk,
                      inflight, kv, resident, pc, error, scan, budget, batchTokens, refused,
                      failure, blocked, preempted, isPrefill, modes, pendingReleases,
                      releaseFailed, aborted, faults>>
      /\ pc = "postprocess" /\ scheduled # <<>> /\ scheduled' = Tail(scheduled)
      /\ ~isPrefill /\ PostTail
  BY DEF PostDecode, NextPost, PostTail
<1>3. /\ Head(scheduled) \in Seqs /\ Tail(scheduled) \in Seq(Seqs) /\ IsInjective(Tail(scheduled))
      /\ Range(scheduled) = Range(Tail(scheduled)) \cup {Head(scheduled)} /\ Head(scheduled) \notin Range(Tail(scheduled))
  BY <1>1, <1>2, HeadTailFacts DEF Parts
<1>4. Range(scheduled) \subseteq Range(decoding) /\ Range(decoding) \cap Range(waiting) = {}
  BY <1>1, <1>2 DEF Parts, CallInv, OwnedOnce
<1>5. Accounted(Head(scheduled))
  <2>1. /\ RequestTypes /\ PublishedOnce /\ finished \in Seq(Seqs)
        /\ status[Head(scheduled)] \notin {"NEW", "FINISHED"}
    BY <1>1, <1>2, <1>3 DEF Parts, TypeOK, TokenInv, FinishInv, Broken
  <2>2. tokens \in [Seqs -> Nat] /\ MaxTokens \in [Seqs -> Nat \ {0}] /\ published \in [Seqs -> Nat]
        /\ cursor \in [Seqs -> Nat \cup {NoReplay}]
    BY <2>1, SchedulerAssumption DEF RequestTypes
  <2>3. CASE IsReplay(Head(scheduled))
    <3>1. published' = published
      BY <1>2, <2>2, <2>3 DEF PostTail, Publishes
    <3>2. /\ AdvanceReplay(Head(scheduled), cursor[Head(scheduled)] + 1)
          /\ UNCHANGED <<status, tokens, finished>>
      BY <2>3 DEF PostDecode
    <3>3. cursor[Head(scheduled)] + 1 \in Nat
      BY <1>3, <2>2, <2>3 DEF IsReplay
    <3>4. QED BY <1>3, <2>1, <3>1, <3>2, <3>3, ReplayAccounted
  <2>4. CASE ~IsReplay(Head(scheduled))
    <3>1. tokens[Head(scheduled)] < MaxTokens[Head(scheduled)]
      BY <1>1, <1>2, <1>3, <2>2, <2>4 DEF Parts, TokenInv
    <3>2. published' = [published EXCEPT ![Head(scheduled)] = @ + 1]
      BY <1>2, <2>4 DEF PostTail, Publishes
    <3>3. AppendToken(Head(scheduled)) /\ UNCHANGED <<cursor, checkpoint>>
      BY <2>4 DEF PostDecode
    <3>4. QED BY <1>3, <2>1, <3>1, <3>2, <3>3, AppendAccounted
  <2>5. QED BY <2>3, <2>4
<1>6. skipped = <<>> /\ Range(skipped) = {}
  BY <1>1, <1>2, EmptyFacts DEF Parts, CallInv
<1>7. TypeOK'
  <2>1. QueueTypes'
    BY <1>1, <1>2, <1>3, <1>5 DEF Parts, TypeOK, QueueTypes, Accounted
  <2>2. RequestTypes'
    <3>1. RequestTypes
      BY <1>1 DEF Parts, TypeOK
    <3>2. UNCHANGED <<prefilled, chunk, inflight, kv, resident>>
      BY <1>2
    <3>3. QED BY <1>5, <3>1, <3>2 DEF RequestTypes, Accounted
  <2>3. CallTypes'
    BY <1>1, <1>2 DEF Parts, TypeOK, CallTypes, Points, Errors
  <2>4. ReleaseTypes'
    BY <1>1, <1>2 DEF Parts, TypeOK, ReleaseTypes
  <2>5. QED BY <2>1, <2>2, <2>3, <2>4 DEF TypeOK
<1>8. OwnedOnce'
  <2>1. /\ UNCHANGED <<waiting, decoding, skipped, pc, isPrefill>> /\ scheduled' = Tail(scheduled)
        /\ pc = "postprocess" /\ ~isPrefill
    BY <1>2
  <2>2. Popped = {} /\ Popped' = {}
    BY <1>6, <2>1 DEF Popped
  <2>3. OwnedOnce
    BY <1>1 DEF Parts
  <2>4. \A s \in Seqs : status'[s] \in {"WAITING", "RUNNING"} => s \in Range(waiting) \cup Range(decoding)
    BY <1>3, <1>4, <1>5, <2>2, <2>3 DEF OwnedOnce, Accounted
  <2>5. QED BY <1>3, <1>6, <2>1, <2>2, <2>3, <2>4 DEF OwnedOnce
<1>9. CallInv'
  <2>1. \A s \in Held' : s \in Range(waiting) \cup Range(decoding)
    BY <1>2, <1>3, <1>4, <1>6 DEF Held
  <2>2. \A s \in Held' : status'[s] # "NEW"
    BY <1>1, <1>5, <2>1 DEF Parts, Accounted
  <2>3. blocked = None /\ Range(scheduled') \subseteq Range(decoding')
    BY <1>1, <1>2, <1>3, <1>4 DEF Parts, CallInv
  <2>4. QED BY <1>2, <1>6, <2>2, <2>3 DEF CallInv
<1>10. FinishInv'
  <2>1. /\ UNCHANGED <<waiting, decoding, skipped, pc>> /\ scheduled' = Tail(scheduled)
        /\ pc = "postprocess"
    BY <1>2
  <2>2. \A s \in Range(waiting) \cup Range(Tail(scheduled)) : status'[s] # "FINISHED"
    BY <1>1, <1>3, <1>4, <1>5, <2>1 DEF Parts, FinishInv, Broken, Accounted
  <2>3. \A s \in Range(decoding) : status'[s] = "FINISHED" => s \in Range(finished')
    BY <1>1, <1>3, <1>5, <2>1 DEF Parts, FinishInv, Broken, Accounted
  <2>4. QED BY <1>6, <2>1, <2>2, <2>3 DEF FinishInv, Broken
<1>11. TokenInv'
  <2>1. /\ UNCHANGED <<waiting, skipped, isPrefill, pc>> /\ scheduled' = Tail(scheduled)
        /\ pc = "postprocess" /\ ~isPrefill /\ TokenInv
    BY <1>1, <1>2 DEF Parts
  <2>2. \A s \in Seqs : status'[s] = "NEW" => tokens'[s] = 0
    BY <1>5, <2>1 DEF TokenInv, Accounted
  <2>3. \A s \in Range(waiting) : cursor'[s] = NoReplay => tokens'[s] = 0
    BY <1>1, <1>3, <1>4, <1>5, <2>1 DEF Parts, TokenInv, Accounted, IsReplay
  <2>4. \A s \in Range(Tail(scheduled)) : tokens'[s] < MaxTokens[s]
    BY <1>1, <1>3, <1>5, <2>1 DEF Parts, TokenInv, Accounted
  <2>5. QED BY <1>5, <1>6, <2>1, <2>2, <2>3, <2>4 DEF TokenInv, Accounted, IsReplay
<1>12. QED BY <1>7, <1>8, <1>9, <1>10, <1>11 DEF IInv

\* Every step of the specification keeps the invariant.
LEMMA NextInv == IInv /\ [Next]_vars => IInv'
<1>1. SUFFICES ASSUME IInv, [Next]_vars PROVE IInv'
  OBVIOUS
<1>2. ASSUME NEW s \in Seqs, AdmitRequest(s) PROVE IInv'
  BY <1>1, <1>2, AdmitInv
<1>3. ASSUME NEW s \in Seqs, AbortRequest(s) PROVE IInv'
  BY <1>1, <1>3, AbortInv
<1>4. CASE StepSync
  BY <1>1, <1>4, EnterInv DEF StepSync
<1>5. CASE StepRefused
  BY <1>1, <1>5, StepRefusedInv
<1>6. CASE Scheduling
  BY <1>1, <1>6, SchedulingInv
<1>7. CASE HookFault
  BY <1>1, <1>7, HookFaultInv
<1>8. CASE StepWithoutBatch
  BY <1>1, <1>8, ReturnWithoutBatchInv
<1>9. CASE RunModel
  BY <1>1, <1>9, RunModelInv
<1>10. CASE RunModelFails
  BY <1>1, <1>10, RunFailsInv
<1>11. CASE ReclaimOne
  BY <1>1, <1>11, ReclaimOneInv
<1>12. CASE ReclaimDone
  BY <1>1, <1>12, ReclaimDoneInv
<1>13. CASE PostPartialPrefill
  BY <1>1, <1>13, PartialPrefillInv
<1>14. CASE PostLastPrefill
  BY <1>1, <1>14, LastPrefillInv
<1>15. CASE PostDecode
  BY <1>1, <1>15, PostDecodeInv
<1>16. CASE StartRelease
  BY <1>1, <1>16, StartReleaseInv
<1>17. CASE ReleaseFinished
  BY <1>1, <1>17, ReleaseFinishedInv
<1>18. CASE StepDone
  BY <1>1, <1>18, StepDoneInv
<1>19. CASE UNCHANGED vars
  <2>1. UNCHANGED <<schedVars, engineVars>>
    BY <1>19 DEF vars
  <2>2. /\ QueueTypes' /\ RequestTypes' /\ CallTypes' /\ ReleaseTypes'
    BY <1>1, <2>1 DEF schedVars, IInv, TypeOK, QueueTypes, RequestTypes, CallTypes, ReleaseTypes
  <2>3. OwnedOnce' /\ CallInv'
    BY <1>1, <2>1 DEF schedVars, IInv, OwnedOnce, Popped, CallInv, Held
  <2>4. FinishInv' /\ TokenInv'
    BY <1>1, <2>1 DEF schedVars, IInv, FinishInv, Broken, TokenInv, PublishedOnce, IsReplay
  <2>5. QED BY <2>2, <2>3, <2>4 DEF IInv, TypeOK
<1>20. CASE SyncStep
  BY <1>20, <1>7, <1>8, <1>9, <1>10, <1>11, <1>12, <1>13, <1>14, <1>15, <1>16, <1>17, <1>18
     DEF SyncStep
<1>21. QED
  BY <1>1, <1>2, <1>3, <1>4, <1>5, <1>6, <1>19, <1>20 DEF Next, Driver

\* The strengthened invariant holds of every behaviour.
THEOREM Invariance == Spec => []IInv
BY InitInv, NextInv, PTL DEF Spec

\* The queues, the request state and the locals of schedule() keep their types.
THEOREM TypeCorrect == Spec => []TypeOK
<1>1. IInv => TypeOK
  BY DEF IInv
<1>2. QED BY <1>1, Invariance, PTL

\* No request is ever lost or duplicated by the scheduler: rotations, preemption,
\* put-backs and every failure path included.
THEOREM Ownership == Spec => []OwnedOnce
<1>1. IInv => OwnedOnce
  BY DEF IInv
<1>2. QED BY <1>1, Invariance, PTL

\* Every accepted token is published exactly once and never beyond max_tokens,
\* across any number of recompute replays.
THEOREM Publication == Spec => []PublishedOnce
<1>1. IInv => PublishedOnce
  BY DEF IInv, TokenInv
<1>2. QED BY <1>1, Invariance, PTL

\* Only live requests are selected, preempted or postprocessed.
LEMMA FinalNext == IInv /\ [Next]_vars => [FinalStep]_vars
<1>1. SUFFICES ASSUME IInv, Next PROVE FinalStep
  BY DEF vars
<1>2. Parts /\ status \in [Seqs -> Statuses] /\ tokens \in [Seqs -> Nat]
  BY <1>1, PartsOfInv DEF Parts, TypeOK, RequestTypes
<1>3. ASSUME NEW s \in Seqs, AdmitRequest(s) PROVE FinalStep
  BY <1>2, <1>3 DEF AdmitRequest, FinalStep
<1>4. ASSUME NEW s \in Seqs, AbortRequest(s) PROVE FinalStep
  <2>1. Leaves(s) /\ UNCHANGED tokens
    BY <1>4 DEF AbortRequest, Dequeue, Leaves
  <2>2. QED BY <1>2, <2>1, <1>4 DEF Leaves, FinalStep
<1>5. CASE StepSync \/ StepRefused
  BY <1>5 DEF StepSync, Schedule, StepRefused, FinalStep
<1>6. CASE Scheduling
  <2>1. ASSUME NEW v \in Range(decoding), NEW others, PreemptDecodeVictim(v, others),
               pc \in {"reserve", "prefill", "decode"}
        PROVE  FinalStep
    <3>1. v \in Seqs /\ status[v] # "FINISHED"
      BY <1>2, <2>1 DEF Parts, FinishInv, Broken
    <3>2. UNCHANGED tokens /\ status' \in {status, [status EXCEPT ![v] = "WAITING"]}
      BY <2>1 DEF PreemptDecodeVictim, DrainRequired, RejectPreemption, StartReplay
    <3>3. QED BY <1>2, <3>1, <3>2 DEF FinalStep
  <2>2. CASE PreemptUnreserved \/ PreemptSoleUnreserved
    <3>1. /\ failure \in Range(decoding) /\ pc \in {"reserve", "prefill", "decode"}
          /\ PreemptDecodeVictim(failure, Without(decoding, failure))
      BY <1>2, <2>2 DEF Parts, CallInv, PreemptUnreserved, PreemptSoleUnreserved, Acquired,
                        PrefillOver
    <3>2. QED BY <2>1, <3>1
  <2>3. CASE DecodePreempt
    <3>1. pc = "decode" /\ budget > 0 /\ PreemptDecodeVictim(Head(decoding), Tail(decoding))
      BY <2>3 DEF DecodePreempt, InDecode
    <3>2. decoding # <<>>
      BY <1>2, <3>1, RangeFacts DEF Parts, CallInv, TypeOK, CallTypes
    <3>3. Head(decoding) \in Range(decoding)
      BY <1>2, <3>2, HeadTailFacts DEF Parts
    <3>4. QED BY <2>1, <3>1, <3>3
  <2>4. CASE PrefillTake
    <3>1. /\ waiting # <<>> /\ UNCHANGED tokens
          /\ status' = [status EXCEPT ![Head(waiting)] = "RUNNING"]
      BY <2>4 DEF PrefillTake, InBucket, CanContinuePrefillBatch
    <3>2. Head(waiting) \in Seqs /\ Head(waiting) \in Range(waiting)
      BY <1>2, <3>1, HeadTailFacts DEF Parts
    <3>3. QED BY <1>2, <3>1, <3>2 DEF Parts, FinishInv, Broken, FinalStep
  <2>5. CASE UNCHANGED <<status, tokens>>
    BY <2>5 DEF FinalStep
  <2>6. QED
    BY <1>6, <2>2, <2>3, <2>4, <2>5
    DEF Scheduling, ScheduleStep, AcquireWindow, StartPrefill, StartAffinity, AffinityScan,
        AffinityDecode, AffinityPrefill, OpenPrefill, PrefillSkip, PrefillDefer, NextBucket,
        PrefillReturn, StartDecode, DecodeRotate, DecodeTake, DecodeBlock, DecodeReturn,
        NothingToRun
<1>7. CASE HookFault
  <2>1. /\ waiting # <<>> /\ UNCHANGED tokens
        /\ status' = [status EXCEPT ![Head(waiting)] = "RUNNING"]
    BY <1>7 DEF HookFault, PrefillHookFails, InBucket, CanContinuePrefillBatch
  <2>2. Head(waiting) \in Seqs /\ Head(waiting) \in Range(waiting)
    BY <1>2, <2>1, HeadTailFacts DEF Parts
  <2>3. QED BY <1>2, <2>1, <2>2 DEF Parts, FinishInv, Broken, FinalStep
<1>8. CASE StepWithoutBatch \/ RunModel \/ RunModelFails \/ ReclaimDone \/ StartRelease \/ StepDone
  BY <1>8 DEF StepWithoutBatch, RunModel, RunModelFails, ReclaimDone, StartRelease, StepDone,
              FinalStep
<1>9. CASE ReclaimOne
  <2>1. status' \in {status, [status EXCEPT ![Head(scheduled)] = "FINISHED"]} /\ UNCHANGED tokens
    BY <1>9 DEF ReclaimOne, Dequeue
  <2>2. QED BY <1>2, <2>1 DEF FinalStep
<1>10. CASE ReleaseFinished
  <2>1. status' \in {status, [status EXCEPT ![Head(finished)] = "FINISHED"]} /\ UNCHANGED tokens
    BY <1>10 DEF ReleaseFinished, Dequeue
  <2>2. QED BY <1>2, <2>1 DEF FinalStep
<1>11. CASE PostPartialPrefill \/ PostLastPrefill \/ PostDecode
  <2>1. scheduled # <<>> /\ pc = "postprocess"
    BY <1>11 DEF PostPartialPrefill, PostLastPrefill, PostDecode, NextPost
  <2>2. Head(scheduled) \in Seqs /\ Head(scheduled) \in Range(scheduled)
    BY <1>2, <2>1, HeadTailFacts DEF Parts
  <2>3. status[Head(scheduled)] # "FINISHED"
    BY <1>2, <2>1, <2>2 DEF Parts, FinishInv, Broken
  <2>4. /\ \E v : status' = [status EXCEPT ![Head(scheduled)] = v]
        /\ \E n : tokens' = [tokens EXCEPT ![Head(scheduled)] = n]
    <3>1. status = [status EXCEPT ![Head(scheduled)] = status[Head(scheduled)]]
      BY <1>2, <2>2
    <3>2. tokens = [tokens EXCEPT ![Head(scheduled)] = tokens[Head(scheduled)]]
      BY <1>2, <2>2
    <3>3. CASE PostPartialPrefill
      BY <3>2, <3>3 DEF PostPartialPrefill
    <3>4. CASE PostLastPrefill
      BY <3>2, <3>4 DEF PostLastPrefill, AppendToken
    <3>5. CASE PostDecode
      BY <3>1, <3>2, <3>5 DEF PostDecode, AppendToken
    <3>6. QED BY <1>11, <3>3, <3>4, <3>5
  <2>5. QED BY <1>2, <2>2, <2>3, <2>4 DEF FinalStep
<1>12. QED
  BY <1>1, <1>3, <1>4, <1>5, <1>6, <1>7, <1>8, <1>9, <1>10, <1>11 DEF Next, Driver, SyncStep

\* A finished request is never revived and gains no token.
THEOREM Finality == Spec => FinishedIsFinal
BY Invariance, FinalNext, PTL DEF Spec, FinishedIsFinal

-----------------------------------------------------------------------------
(* The ownership and the contents of KV rows.  MemoryInv adds to IInv what *)
(* the queues say about memory.  It speaks of two sets, the requests with  *)
(* a prompt to compute and the ones that decode; most steps of schedule()  *)
(* only move requests between the queues of one set, and keep the          *)
(* invariant for that reason alone (MovesInv).  What is left are the steps *)
(* that take memory, give it back, or move the position a row ends at.     *)

\* The part of the invariant that does not depend on who schedules.
MemInv(X) == IInv /\ KVInv(X)

\* Everything the memory invariant reads of a request.
Untouched ==
  UNCHANGED <<kv, resident, resEnd, prefilled, tokens, cursor, inflight, status, chunk,
              pendingReleases, releaseFailed>>

\* Requests move between queues of the same kind; nobody is owed a release.
Moves ==
  /\ Untouched /\ pendingReleases = {} /\ preempted = None /\ preempted' = None
  /\ ~Broken /\ pc # "postprocess" /\ pc' # "postprocess"
  /\ (InCall /\ asyncInflight = 0)' => NothingInFlight
  /\ Prefills' = Prefills /\ Decodes' = Decodes /\ Chosen' \subseteq Chosen

\* The KV position of a request depends on its own progress only.
LEMMA SamePosition ==
  ASSUME NEW s, UNCHANGED <<cursor, tokens, inflight>>
  PROVE  DecodeInputPosition(s)' = DecodeInputPosition(s) /\ IsReplay(s)' = IsReplay(s)
          /\ Submitted(s)' = Submitted(s)
BY DEF DecodeInputPosition, IsReplay, Submitted

\* Moving requests between queues of one kind keeps the invariant.
LEMMA MovesInv == ASSUME NEW X, KVInv(X), Moves PROVE KVInv(X)'
<1>1. DebtInv /\ OwnerInv(X) /\ RowInv /\ ProgressInv
  BY DEF KVInv
<1>2. DebtInv'
  BY <1>1 DEF Moves, Untouched, DebtInv
<1>3. OwnerInv(X)'
  BY <1>1 DEF Moves, Untouched, OwnerInv, Holds
<1>4. RowInv'
  <2>1. \A s : Written(s) = 0 /\ Written(s)' = 0
    BY DEF Moves, Written
  <2>2. \A s : DecodeInputPosition(s)' = DecodeInputPosition(s) /\ IsReplay(s)' = IsReplay(s)
          /\ Submitted(s)' = Submitted(s)
    BY SamePosition DEF Moves, Untouched
  <2>3. QED BY <1>1, <2>1, <2>2 DEF Moves, Untouched, RowInv
<1>5. ProgressInv'
  BY <1>1 DEF Moves, Untouched, ProgressInv, InCall, NothingInFlight, IsReplay
<1>6. QED BY <1>2, <1>3, <1>4, <1>5 DEF KVInv

\* Inside a schedule() call nobody is owed a release.
LEMMA InsideCall ==
  ASSUME NEW X, KVInv(X), pc \in {"reserve", "affinity", "prefill", "decode"}
  PROVE  pendingReleases = {} /\ preempted = None
BY DEF KVInv, DebtInv

\* The prefill scan starts on a permutation of waiting.
LEMMA OpenPrefillMoves ==
  ASSUME NEW X, MemInv(X), NEW queue, Range(queue) = Range(waiting), pc \in {"reserve", "affinity"},
         OpenPrefill(queue), UNCHANGED engineVars
  PROVE  Moves /\ KVInv(X)'
<1>1. Parts /\ KVInv(X) /\ pendingReleases = {} /\ preempted = None
  BY PartsOfInv, InsideCall DEF MemInv
<1>2. Untouched /\ UNCHANGED <<decoding, skipped, preempted, asyncInflight>> /\ waiting' = queue
      /\ scheduled' = <<>> /\ pc' = "prefill"
  BY DEF OpenPrefill, Untouched
<1>3. Range(scheduled') = {} /\ Range(waiting') = Range(waiting)
  BY <1>2, EmptyFacts
<1>4. Moves
  BY <1>1, <1>2, <1>3 DEF Moves, Prefills, Decodes, Chosen, Broken, InCall, KVInv, ProgressInv
<1>5. QED BY <1>1, <1>4, MovesInv

\* Prefill is opened on waiting, or on waiting sorted by wait time.
LEMMA StartPrefillMoves ==
  ASSUME NEW X, MemInv(X), StartPrefill \/ AffinityPrefill, UNCHANGED engineVars
  PROVE  Moves /\ KVInv(X)'
<1>1. Parts /\ pc \in {"reserve", "affinity"}
  BY PartsOfInv DEF MemInv, StartPrefill, AffinityPrefill, Acquired
<1>2. CASE OpenPrefill(waiting)
  BY <1>1, <1>2, OpenPrefillMoves
<1>3. ASSUME NEW p \in WaitSorts, OpenPrefill(Reordered(p))
      PROVE  Moves /\ KVInv(X)'
  <2>1. Range(Reordered(p)) = Range(waiting)
    BY <1>1, <1>3, PermuteFacts DEF Parts, Reordered, WaitSorts
  <2>2. QED BY <1>1, <1>3, <2>1, OpenPrefillMoves
<1>4. QED BY <1>2, <1>3 DEF StartPrefill, AffinityPrefill

\* The affinity scan looks at decoding and leaves it as it is.
LEMMA AffinityMoves ==
  ASSUME NEW X, MemInv(X), StartAffinity \/ AffinityScan \/ AffinityDecode, UNCHANGED engineVars
  PROVE  Moves /\ KVInv(X)'
<1>1. KVInv(X) /\ Parts /\ pc \in {"reserve", "affinity"}
  BY PartsOfInv DEF MemInv, StartAffinity, Acquired, AffinityScan, AffinityDecode
<1>2. pendingReleases = {} /\ preempted = None /\ skipped = <<>>
  BY <1>1, InsideCall DEF Parts, CallInv
<1>3. /\ Untouched /\ UNCHANGED <<waiting, decoding, asyncInflight>> /\ preempted' = None /\ skipped' = <<>>
      /\ pc' = "affinity" \/ (pc' = "returned" /\ isPrefill' = FALSE)
  <2>1. CASE StartAffinity \/ AffinityScan
    BY <1>2, <2>1 DEF StartAffinity, AffinityScan, Untouched
  <2>2. CASE AffinityDecode
    BY <2>2 DEF AffinityDecode, Return, ClearLocals, Untouched
  <2>3. QED BY <2>1, <2>2
<1>4. Moves
  BY <1>1, <1>2, <1>3 DEF Moves, Prefills, Decodes, Chosen, Broken, InCall, KVInv, ProgressInv
<1>5. QED BY <1>1, <1>4, MovesInv

\* The prefill scan passes over the head of waiting or sends it to the tail.
LEMMA PassOverMoves ==
  ASSUME NEW X, MemInv(X), PrefillSkip \/ PrefillDefer, UNCHANGED engineVars
  PROVE  Moves /\ KVInv(X)'
<1>1. KVInv(X) /\ Parts /\ pc = "prefill" /\ waiting # <<>>
  BY PartsOfInv DEF MemInv, PrefillSkip, PrefillDefer, InBucket, CanContinuePrefillBatch
<1>2. pendingReleases = {} /\ preempted = None
  BY <1>1, InsideCall
<1>3. Untouched /\ UNCHANGED <<decoding, scheduled, preempted, pc, asyncInflight>>
  BY DEF PrefillSkip, PrefillDefer, Untouched
<1>4. Head(waiting) \in Seqs /\ Range(waiting) = Range(Tail(waiting)) \cup {Head(waiting)}
      /\ Tail(waiting) \in Seq(Seqs)
  BY <1>1, HeadTailFacts DEF Parts
<1>5. Range(waiting') \cup Range(skipped') = Range(waiting) \cup Range(skipped)
  <2>1. CASE PrefillSkip
    BY <1>1, <1>4, <2>1, AppendFacts DEF PrefillSkip, Parts
  <2>2. CASE PrefillDefer
    <3>1. waiting' = Append(Tail(waiting), Head(waiting)) /\ skipped' = skipped
      BY <2>2 DEF PrefillDefer
    <3>2. Range(Append(Tail(waiting), Head(waiting))) = Range(waiting)
      BY <1>1, <1>2, RotateFacts DEF Parts
    <3>3. QED BY <3>1, <3>2
  <2>3. QED BY <2>1, <2>2
<1>6. Moves
  BY <1>1, <1>2, <1>3, <1>5 DEF Moves, Prefills, Decodes, Chosen, Broken, InCall, KVInv, ProgressInv
<1>7. QED BY <1>1, <1>6, MovesInv

\* Skipped requests return to waiting; a batch is returned as it is; without
\* one the decode scan starts.
LEMMA BucketMoves ==
  ASSUME NEW X, MemInv(X), NextBucket \/ PrefillReturn \/ StartDecode, UNCHANGED engineVars
  PROVE  Moves /\ KVInv(X)'
<1>1. KVInv(X) /\ Parts /\ pc = "prefill"
  BY PartsOfInv DEF MemInv, NextBucket, PrefillReturn, StartDecode, PrefillOver
<1>2. pendingReleases = {} /\ preempted = None /\ (modes = <<>> => skipped = <<>>)
  BY <1>1, InsideCall DEF Parts, CallInv
<1>3. Untouched /\ UNCHANGED <<decoding, scheduled, asyncInflight>> /\ preempted' = None
  BY <1>2 DEF NextBucket, PrefillReturn, StartDecode, Return, Untouched
<1>4. CASE NextBucket
  <2>1. pc' = pc /\ waiting' = skipped \o waiting /\ skipped' = <<>>
    BY <1>4 DEF NextBucket
  <2>2. Range(waiting') = Range(skipped) \cup Range(waiting) /\ Range(skipped') = {}
    BY <1>1, <2>1, ConcatFacts, EmptyFacts DEF Parts
  <2>3. Moves
    BY <1>1, <1>2, <1>3, <2>1, <2>2 DEF Moves, Prefills, Decodes, Chosen, Broken, InCall, KVInv, ProgressInv
  <2>4. QED BY <1>1, <2>3, MovesInv
<1>5. CASE PrefillReturn
  <2>1. pc' = "returned" /\ isPrefill' = TRUE /\ UNCHANGED <<waiting, skipped>>
    BY <1>2, <1>5 DEF PrefillReturn, PrefillOver, Return, ClearLocals
  <2>2. Moves
    BY <1>1, <1>2, <1>3, <2>1 DEF Moves, Prefills, Decodes, Chosen, Broken, InCall, KVInv, ProgressInv
  <2>3. QED BY <1>1, <2>2, MovesInv
<1>6. CASE StartDecode
  <2>1. pc' = "decode" /\ UNCHANGED <<waiting, skipped>> /\ scheduled = <<>>
    BY <1>6 DEF StartDecode
  <2>2. Range(scheduled) = {}
    BY <2>1, EmptyFacts
  <2>3. Moves
    BY <1>1, <1>2, <1>3, <2>1, <2>2 DEF Moves, Prefills, Decodes, Chosen, Broken, InCall, KVInv, ProgressInv
  <2>4. QED BY <1>1, <2>3, MovesInv
<1>7. QED BY <1>4, <1>5, <1>6

\* The decode scan moves requests between decoding and the batch.
LEMMA DecodeScanMoves ==
  ASSUME NEW X, MemInv(X), DecodeRotate \/ DecodeTake \/ DecodeBlock, UNCHANGED engineVars
  PROVE  Moves /\ KVInv(X)'
<1>1. KVInv(X) /\ Parts /\ pc = "decode" /\ budget > 0
  BY PartsOfInv DEF MemInv, DecodeRotate, DecodeTake, DecodeBlock, InDecode
<1>2. pendingReleases = {} /\ preempted = None /\ decoding # <<>>
  BY <1>1, InsideCall, RangeFacts DEF Parts, CallInv, TypeOK, CallTypes
<1>3. Untouched /\ UNCHANGED <<waiting, skipped, preempted, pc, asyncInflight>>
  BY DEF DecodeRotate, DecodeTake, DecodeBlock, Untouched
<1>4. /\ Head(decoding) \in Seqs /\ Range(decoding) = Range(Tail(decoding)) \cup {Head(decoding)}
      /\ Tail(decoding) \in Seq(Seqs)
  BY <1>1, <1>2, HeadTailFacts DEF Parts
<1>5. Range(decoding') \cup Range(scheduled') = Range(decoding) \cup Range(scheduled)
  <2>1. CASE DecodeTake
    BY <1>1, <1>4, <2>1, AppendFacts DEF DecodeTake, Parts
  <2>2. CASE DecodeRotate \/ DecodeBlock
    <3>1. decoding' = Append(Tail(decoding), Head(decoding)) /\ scheduled' = scheduled
      BY <2>2 DEF DecodeRotate, DecodeBlock
    <3>2. Range(Append(Tail(decoding), Head(decoding))) = Range(decoding)
      BY <1>1, <1>2, RotateFacts DEF Parts
    <3>3. QED BY <3>1, <3>2
  <2>3. QED BY <2>1, <2>2
<1>6. Moves
  BY <1>1, <1>2, <1>3, <1>5 DEF Moves, Prefills, Decodes, Chosen, Broken, InCall, KVInv, ProgressInv
<1>7. QED BY <1>1, <1>6, MovesInv

\* The batch returns to decoding, or nothing was selected.
LEMMA DecodeReturnMoves ==
  ASSUME NEW X, MemInv(X), DecodeReturn \/ NothingToRun, UNCHANGED engineVars
  PROVE  Moves /\ KVInv(X)'
<1>1. KVInv(X) /\ Parts /\ pc = "decode"
  BY PartsOfInv DEF MemInv, DecodeReturn, NothingToRun, DecodeOver
<1>2. pendingReleases = {} /\ preempted = None /\ skipped = <<>>
  BY <1>1, InsideCall DEF Parts, CallInv
<1>3. Untouched /\ UNCHANGED waiting /\ preempted' = None /\ skipped' = <<>> /\ isPrefill' = FALSE
      /\ pc' \in {"returned", "drain", "raised"}
  <2>1. CASE DecodeReturn
    BY <2>1 DEF DecodeReturn, Return, ClearLocals, Untouched
  <2>2. CASE NothingToRun
    BY <1>2, <2>2 DEF NothingToRun, ClearLocals, Raise, Untouched
  <2>3. QED BY <2>1, <2>2
<1>4. Range(decoding') = Range(decoding) \cup Range(scheduled)
  <2>1. CASE NothingToRun
    BY <2>1, EmptyFacts DEF NothingToRun
  <2>2. CASE DecodeReturn
    <3> DEFINE q == scheduled \o decoding
    <3>1. decoding' = IF blocked = None THEN q ELSE <<blocked>> \o Without(q, blocked)
      BY <2>2 DEF DecodeReturn
    <3>2. Range(scheduled) \cap Range(decoding) = {}
      BY <1>1 DEF Parts, OwnedOnce, Popped
    <3>3. q \in Seq(Seqs) /\ IsInjective(q) /\ Range(q) = Range(decoding) \cup Range(scheduled)
      BY <1>1, <3>2, ConcatFacts DEF Parts
    <3> HIDE DEF q
    <3>4. CASE blocked = None
      BY <3>1, <3>3, <3>4
    <3>5. CASE blocked # None
      <4>1. blocked \in Range(decoding) /\ blocked \in Seqs
        BY <1>1, <3>5 DEF Parts, CallInv
      <4> DEFINE w == Without(q, blocked)
      <4>2. w \in Seq(Seqs) /\ Range(w) = Range(q) \ {blocked}
        BY <3>3, RemoveFacts DEF Without
      <4> HIDE DEF w
      <4>3. Range(<<blocked>> \o w) = Range(w) \cup {blocked}
        BY <4>1, <4>2, PrependFacts
      <4>4. decoding' = <<blocked>> \o w
        BY <3>1, <3>5 DEF w
      <4>5. QED BY <3>3, <4>1, <4>2, <4>3, <4>4
    <3>6. QED BY <3>4, <3>5
  <2>3. QED BY <2>1, <2>2
<1>5. Moves
  BY <1>1, <1>2, <1>3, <1>4 DEF Moves, Prefills, Decodes, Chosen, Broken, InCall, KVInv, ProgressInv
<1>6. QED BY <1>1, <1>5, MovesInv

\* schedule() is entered with no release owed, and told what is in flight.
LEMMA EnterMoves ==
  ASSUME NEW X, MemInv(X), NEW n, Schedule(n), UNCHANGED engineVars, n = 0 => NothingInFlight,
         pc \in {"idle", "fill", "filled"}, pendingReleases = {}
  PROVE  Moves /\ KVInv(X)'
<1>1. KVInv(X) /\ Parts
  BY PartsOfInv DEF MemInv
<1>2. preempted = None /\ skipped = <<>>
  BY <1>1 DEF Parts, CallInv, KVInv, DebtInv
<1>3. Untouched /\ UNCHANGED <<waiting, decoding>> /\ preempted' = None /\ skipped' = <<>>
      /\ pc' = "reserve" /\ asyncInflight' = n
  BY DEF Schedule, ClearLocals, Untouched
<1>4. Moves
  BY <1>1, <1>2, <1>3 DEF Moves, Prefills, Decodes, Chosen, Broken
<1>5. QED BY <1>1, <1>4, MovesInv

\* A window is taken for a request that decodes.
LEMMA AcquireKV ==
  ASSUME NEW X, MemInv(X), AcquireWindow, UNCHANGED engineVars
  PROVE  KVInv(X)'
<1>1. KVInv(X) /\ Parts /\ pc = "reserve" /\ scan \in 1..Len(decoding)
  BY PartsOfInv DEF MemInv, AcquireWindow, Parts, TypeOK, CallTypes
<1>2. pendingReleases = {} /\ preempted = None
  BY <1>1, InsideCall
<1>3. decoding[scan] \in Range(decoding)
  BY <1>1 DEF Parts, Range
<1>4. /\ UNCHANGED <<waiting, decoding, scheduled, skipped, pc, isPrefill, preempted, kv, resident,
                     prefilled, tokens, cursor, inflight, status, chunk, pendingReleases, releaseFailed,
                     asyncInflight>>
      /\ \/ resEnd' = resEnd
         \/ \E n : resEnd' = [resEnd EXCEPT ![decoding[scan]] = n]
  BY DEF AcquireWindow
<1>5. DebtInv /\ OwnerInv(X) /\ RowInv /\ ProgressInv
  BY <1>1 DEF KVInv
<1>6. /\ resEnd' = [s \in Seqs |-> resEnd'[s]]
      /\ \A s \in Seqs : s # decoding[scan] => resEnd'[s] = resEnd[s]
  BY <1>4, <1>5 DEF DebtInv
<1>7. Prefills' = Prefills /\ Decodes' = Decodes /\ Chosen' = Chosen
  BY <1>4 DEF Prefills, Decodes, Chosen
<1>8. DebtInv'
  BY <1>4, <1>5, <1>6 DEF DebtInv
<1>9. OwnerInv(X)'
  BY <1>3, <1>4, <1>5, <1>6, <1>7 DEF OwnerInv, Holds, Decodes
<1>10. RowInv'
  <2>1. \A s : Written(s)' = Written(s)
    BY <1>4 DEF Written, StepSlots
  <2>2. \A s : DecodeInputPosition(s)' = DecodeInputPosition(s) /\ IsReplay(s)' = IsReplay(s)
          /\ Submitted(s)' = Submitted(s)
    BY <1>4, SamePosition
  <2>3. QED BY <1>1, <1>4, <1>5, <1>7, <2>1, <2>2 DEF RowInv, Broken
<1>11. ProgressInv'
  BY <1>4, <1>5, <1>7 DEF ProgressInv, InCall, NothingInFlight, IsReplay
<1>12. QED BY <1>8, <1>9, <1>10, <1>11 DEF KVInv

\* The victim of a preemption that is put off goes back to decoding.
LEMMA PutBackMoves ==
  ASSUME NEW X, MemInv(X), NEW v \in Range(decoding), NEW others \in Seq(Seqs),
         Range(others) = Range(decoding) \ {v},
         pc \in {"reserve", "prefill", "decode"}, scheduled = <<>>, skipped = <<>>,
         scheduled' = <<>>, isPrefill' = FALSE, ClearLocals,
         UNCHANGED <<tokens, inflight, memVars, engineVars>>,
         DrainRequired(v, others) \/ RejectPreemption(v, others)
  PROVE  KVInv(X)'
<1>1. KVInv(X) /\ Parts
  BY PartsOfInv DEF MemInv
<1>2. pendingReleases = {} /\ preempted = None
  BY <1>1, InsideCall
<1>3. /\ Untouched /\ UNCHANGED <<waiting, preempted>> /\ skipped' = <<>>
      /\ pc' \in {"drain", "raised"} /\ decoding' = <<v>> \o others
  BY DEF DrainRequired, RejectPreemption, Raise, ClearLocals, Untouched
<1>4. v \in Seqs
  BY <1>1 DEF Parts
<1>5. Range(decoding') = Range(decoding)
  <2>1. Range(<<v>> \o others) = Range(others) \cup {v}
    BY <1>4, PrependFacts
  <2>2. QED BY <1>3, <2>1
<1>6. Range(scheduled) = {} /\ Range(scheduled') = {}
  BY EmptyFacts
<1>7. Moves
  BY <1>1, <1>2, <1>3, <1>5, <1>6 DEF Moves, Prefills, Decodes, Chosen, Broken, InCall, KVInv, ProgressInv
<1>8. QED BY <1>1, <1>7, MovesInv

\* The victim joins waiting with its row still held, as the request preempted.
LEMMA ReplayKV ==
  ASSUME NEW X, MemInv(X), NEW v \in Range(decoding), NEW others \in Seq(Seqs),
         Range(others) = Range(decoding) \ {v},
         pc \in {"reserve", "prefill", "decode"}, scheduled = <<>>, skipped = <<>>,
         scheduled' = <<>>, isPrefill' = FALSE, ClearLocals,
         UNCHANGED <<tokens, inflight, memVars, engineVars>>,
         StartReplay(v, others)
  PROVE  KVInv(X)'
<1>1. KVInv(X) /\ Parts
  BY PartsOfInv DEF MemInv
<1>2. pendingReleases = {} /\ preempted = None /\ DebtInv /\ OwnerInv(X) /\ RowInv /\ ProgressInv
  BY <1>1, InsideCall DEF KVInv
<1>3. /\ UNCHANGED <<kv, resident, resEnd, tokens, inflight, pendingReleases, releaseFailed>>
      /\ skipped' = <<>> /\ waiting' = Append(waiting, v) /\ decoding' = others
      /\ preempted' = v /\ pc' = "returned"
      /\ prefilled' = [prefilled EXCEPT ![v] = 0]
      /\ status' = [status EXCEPT ![v] = "WAITING"]
      /\ cursor' = [cursor EXCEPT ![v] = IF tokens[v] > 0 THEN 0 ELSE @]
  BY DEF StartReplay, ClearLocals
<1>4. v \in Seqs /\ v \notin Range(waiting)
  BY <1>1 DEF Parts, OwnedOnce
<1>5. /\ status \in [Seqs -> Statuses] /\ prefilled \in [Seqs -> Nat]
      /\ tokens \in [Seqs -> Nat] /\ cursor \in [Seqs -> Nat \cup {NoReplay}]
  BY <1>1 DEF Parts, TypeOK, RequestTypes
<1>6. Range(waiting') = Range(waiting) \cup {v}
  BY <1>1, <1>3, <1>4, AppendFacts DEF Parts
<1>7. Range(scheduled) = {} /\ Range(scheduled') = {} /\ Range(skipped) = {} /\ Range(skipped') = {}
  BY <1>3, EmptyFacts
<1>8. /\ Prefills = Range(waiting) /\ Prefills' = Prefills \cup {v}
      /\ Decodes = Range(decoding) /\ Decodes' = Decodes \ {v}
      /\ Chosen = {} /\ Chosen' = {}
  BY <1>3, <1>6, <1>7 DEF Prefills, Decodes, Chosen
<1>9. tokens[v] >= 1 /\ NothingInFlight
  <2>1. Submitted(v) >= 1
    BY <1>2, <1>8 DEF RowInv, Broken
  <2>2. NothingInFlight
    BY <1>2 DEF StartReplay, ProgressInv, InCall
  <2>3. QED BY <1>4, <1>5, <2>1, <2>2 DEF NothingInFlight, Submitted
<1>10. /\ cursor'[v] = 0
       /\ \A s \in Seqs : s # v => /\ status'[s] = status[s] /\ prefilled'[s] = prefilled[s]
                                   /\ cursor'[s] = cursor[s]
  BY <1>3, <1>4, <1>5, <1>9
<1>11. Prefills \subseteq Seqs /\ Decodes \subseteq Seqs /\ v \notin Prefills /\ None \notin Seqs
  BY <1>1, <1>4, <1>8, SchedulerAssumption DEF Parts
<1>12. DebtInv'
  BY <1>2, <1>3, <1>4, <1>5, <1>6 DEF DebtInv
<1>13. OwnerInv(X)'
  <2>1. \A s \in Seqs : Holds(s)' = Holds(s)
    BY <1>3 DEF Holds
  <2>2. ASSUME NEW s \in Seqs, s # v, Holds(s)
        PROVE  \/ s \in X \/ s \in Decodes'
               \/ s \in Prefills' /\ (status'[s] = "RUNNING" \/ prefilled'[s] > 0)
    BY <1>2, <1>8, <1>10, <1>11, <2>2 DEF OwnerInv
  <2>3. \A s \in Seqs : kv'[s] > 0 => s \in resident'
    BY <1>2, <1>3 DEF OwnerInv
  <2>4. QED BY <1>3, <1>8, <2>1, <2>2, <2>3 DEF OwnerInv
<1>14. RowInv'
  <2>1. \A s : Written(s) = 0 /\ Written(s)' = 0
    BY <1>3 DEF Written
  <2>2. \A s \in Seqs : s # v => /\ DecodeInputPosition(s)' = DecodeInputPosition(s)
                                 /\ IsReplay(s)' = IsReplay(s) /\ Submitted(s)' = Submitted(s)
    BY <1>3, <1>10 DEF DecodeInputPosition, IsReplay, Submitted
  <2>3. ASSUME NEW s \in Prefills'
        PROVE  /\ s \in releaseFailed' \/ s = preempted' \/ kv'[s] = prefilled'[s] + Written(s)'
               /\ IsReplay(s)' => cursor'[s] = 0 /\ tokens'[s] >= 1
    <3>1. CASE s = v
      BY <1>3, <1>9, <1>10, <3>1
    <3>2. CASE s # v
      <4>1. s \in Prefills /\ s \in Seqs /\ s # None
        BY <1>8, <1>11, <2>3, <3>2
      <4>2. QED BY <1>2, <1>3, <1>10, <2>1, <2>2, <3>2, <4>1 DEF RowInv, Broken
    <3>3. QED BY <3>1, <3>2
  <2>4. ASSUME NEW s \in Decodes'
        PROVE  /\ s \in releaseFailed' \/ kv'[s] = DecodeInputPosition(s)' + Written(s)'
               /\ Submitted(s)' >= 1 /\ (IsReplay(s)' => cursor'[s] + 1 < tokens'[s])
    <3>1. s \in Decodes /\ s \in Seqs /\ s # v
      BY <1>8, <1>11, <2>4
    <3>2. QED BY <1>2, <1>3, <1>10, <2>1, <2>2, <3>1 DEF RowInv, Broken
  <2>5. QED BY <2>3, <2>4 DEF RowInv, Broken
<1>15. ProgressInv'
  BY <1>2, <1>3, <1>4, <1>5, <1>9, <1>10, <1>11, <1>8 DEF ProgressInv, InCall, NothingInFlight, IsReplay
<1>16. QED BY <1>12, <1>13, <1>14, <1>15 DEF KVInv

\* The three call sites of _preempt_decode_victim.
Preempts == PreemptUnreserved \/ PreemptSoleUnreserved \/ DecodePreempt

\* v, taken out of decoding with nothing scheduled, is the victim of this step.
Victim(v, others) ==
  /\ v \in Range(decoding) /\ others \in Seq(Seqs) /\ Range(others) = Range(decoding) \ {v}
  /\ pc \in {"reserve", "prefill", "decode"} /\ scheduled = <<>> /\ skipped = <<>>
  /\ PreemptDecodeVictim(v, others)

\* Every call site names a decode and passes the others.
LEMMA VictimFacts == ASSUME IInv, Preempts PROVE \E v, others : Victim(v, others)
<1>1. Parts
  BY PartsOfInv
<1>2. CASE PreemptUnreserved \/ PreemptSoleUnreserved
  <2>1. /\ pc \in {"reserve", "prefill", "decode"} /\ scheduled = <<>> /\ skipped = <<>>
        /\ failure \in Range(decoding)
        /\ PreemptDecodeVictim(failure, Without(decoding, failure))
    BY <1>1, <1>2 DEF Parts, CallInv, PreemptUnreserved, PreemptSoleUnreserved, Acquired, PrefillOver
  <2>2. /\ Without(decoding, failure) \in Seq(Seqs)
        /\ Range(Without(decoding, failure)) = Range(decoding) \ {failure}
    BY <1>1, RemoveFacts DEF Parts, Without
  <2>3. Victim(failure, Without(decoding, failure))
    BY <2>1, <2>2 DEF Victim
  <2>4. QED BY <2>3
<1>3. CASE DecodePreempt
  <2>1. /\ pc = "decode" /\ scheduled = <<>> /\ skipped = <<>> /\ budget > 0
        /\ PreemptDecodeVictim(Head(decoding), Tail(decoding))
    BY <1>1, <1>3 DEF Parts, CallInv, DecodePreempt, InDecode
  <2>2. decoding # <<>>
    BY <1>1, <2>1, RangeFacts DEF Parts, CallInv, TypeOK, CallTypes
  <2>3. /\ Tail(decoding) \in Seq(Seqs) /\ Head(decoding) \in Range(decoding)
        /\ Range(Tail(decoding)) = Range(decoding) \ {Head(decoding)}
    BY <1>1, <2>2, HeadTailFacts DEF Parts
  <2>4. Victim(Head(decoding), Tail(decoding))
    BY <2>1, <2>3 DEF Victim
  <2>5. QED BY <2>4
<1>4. QED BY <1>2, <1>3 DEF Preempts

\* _preempt_decode_victim keeps the memory invariant.
LEMMA PreemptKV ==
  ASSUME NEW X, MemInv(X), Preempts, UNCHANGED engineVars
  PROVE  KVInv(X)'
<1>1. IInv
  BY DEF MemInv
<1>2. PICK v, others : Victim(v, others)
  BY <1>1, VictimFacts
<1>3. /\ v \in Range(decoding) /\ others \in Seq(Seqs) /\ Range(others) = Range(decoding) \ {v}
      /\ pc \in {"reserve", "prefill", "decode"} /\ scheduled = <<>> /\ skipped = <<>>
      /\ PreemptDecodeVictim(v, others)
  BY <1>2 DEF Victim
<1>4. /\ scheduled' = <<>> /\ isPrefill' = FALSE /\ ClearLocals
      /\ UNCHANGED <<tokens, inflight, memVars, engineVars>>
      /\ DrainRequired(v, others) \/ RejectPreemption(v, others) \/ StartReplay(v, others)
  BY <1>3 DEF PreemptDecodeVictim
<1>5. CASE DrainRequired(v, others) \/ RejectPreemption(v, others)
  BY <1>3, <1>4, <1>5, PutBackMoves
<1>6. CASE StartReplay(v, others)
  BY <1>3, <1>4, <1>6, ReplayKV
<1>7. QED BY <1>4, <1>5, <1>6

\* The head of waiting joins the batch, and is resident from its first chunk.
LEMMA PrefillTakeKV ==
  ASSUME NEW X, MemInv(X), PrefillTake, UNCHANGED engineVars
  PROVE  KVInv(X)'
<1> DEFINE h == Head(waiting)
           n == PrefillTokens(h)
<1>1. KVInv(X) /\ Parts
  BY PartsOfInv DEF MemInv
<1>2. /\ UNCHANGED <<decoding, skipped, kv, resEnd, prefilled, tokens, inflight, cursor, pc,
                     preempted, isPrefill, pendingReleases, releaseFailed, asyncInflight>>
      /\ pc = "prefill" /\ waiting # <<>>
      /\ waiting' = Tail(waiting) /\ scheduled' = Append(scheduled, h)
      /\ n \in 1..Remaining(h) /\ chunk' = [chunk EXCEPT ![h] = n]
      /\ status' = [status EXCEPT ![h] = "RUNNING"]
      /\ resident \subseteq resident' /\ resident' \subseteq resident \cup {h}
      /\ prefilled[h] = 0 => h \in resident'
  BY DEF PrefillTake, InBucket, CanContinuePrefillBatch, HasChunk
<1>3. pendingReleases = {} /\ preempted = None /\ DebtInv /\ OwnerInv(X) /\ RowInv /\ ProgressInv
  BY <1>1, <1>2, InsideCall DEF KVInv
<1>4. /\ h \in Seqs /\ Range(waiting) = Range(Tail(waiting)) \cup {h}
      /\ h \notin Range(Tail(waiting))
  BY <1>1, <1>2, HeadTailFacts DEF Parts
<1>5. Range(scheduled') = Range(scheduled) \cup {h}
  BY <1>1, <1>2, <1>4, AppendFacts DEF Parts
<1>6. Prefills' = Prefills /\ Decodes' = Decodes /\ Chosen' = Chosen \cup {h} /\ h \in Prefills
  BY <1>2, <1>4, <1>5 DEF Prefills, Decodes, Chosen
<1>7. Chosen \subseteq Seqs /\ n \in Int /\ n >= 1
  <2>1. PromptLen[h] \in Nat /\ prefilled[h] \in Nat
    BY <1>1, <1>4, SchedulerAssumption DEF Parts, TypeOK, RequestTypes
  <2>2. Remaining(h) \in Int
    BY <2>1 DEF Remaining
  <2> HIDE DEF n
  <2>3. n \in Int /\ n >= 1
    BY <1>2, <2>2
  <2>4. QED BY <1>1, <2>3 DEF Chosen, Parts
<1>8. /\ status'[h] = "RUNNING" /\ chunk'[h] = n
      /\ \A s \in Seqs : s # h => status'[s] = status[s] /\ chunk'[s] = chunk[s]
  <2>1. status \in [Seqs -> Statuses] /\ chunk \in [Seqs -> Nat]
    BY <1>1 DEF Parts, TypeOK, RequestTypes
  <2>2. QED BY <1>2, <1>4, <2>1
<1> HIDE DEF h, n
<1>9. DebtInv'
  BY <1>2, <1>3 DEF DebtInv
<1>10. OwnerInv(X)'
  <2>5. h \in resident'
    <3>1. kv[h] = prefilled[h] + Written(h) /\ Written(h) = 0
      BY <1>2, <1>3, <1>4, <1>6, SchedulerAssumption DEF RowInv, Broken, DebtInv, Written
    <3>2. prefilled[h] \in Nat
      BY <1>1, <1>4 DEF Parts, TypeOK, RequestTypes
    <3>3. QED BY <1>2, <1>3, <1>4, <3>1, <3>2 DEF OwnerInv
  <2>1. \A s \in Chosen' : status'[s] = "RUNNING" /\ chunk'[s] >= 1 /\ s \in resident'
    BY <1>2, <1>3, <1>6, <1>7, <1>8, <2>5 DEF OwnerInv
  <2>2. \A s \in Seqs : s # h /\ Holds(s)' => Holds(s)
    BY <1>2 DEF Holds
  <2>3. ASSUME NEW s \in Seqs, Holds(s)'
        PROVE  \/ s \in X \/ s \in pendingReleases' \/ s = preempted' \/ s \in Decodes'
               \/ s \in Prefills' /\ (status'[s] = "RUNNING" \/ prefilled'[s] > 0)
    <3>1. CASE s = h
      BY <1>6, <1>8, <3>1
    <3>2. CASE s # h
      BY <1>2, <1>3, <1>6, <1>8, <2>2, <2>3, <3>2 DEF OwnerInv
    <3>3. QED BY <3>1, <3>2
  <2>4. QED BY <1>2, <1>3, <2>1, <2>3 DEF OwnerInv
<1>11. RowInv'
  <2>1. \A s : Written(s) = 0 /\ Written(s)' = 0
    BY <1>2 DEF Written
  <2>2. \A s : DecodeInputPosition(s)' = DecodeInputPosition(s) /\ IsReplay(s)' = IsReplay(s)
          /\ Submitted(s)' = Submitted(s)
    BY <1>2, SamePosition
  <2>3. QED BY <1>2, <1>3, <1>6, <2>1, <2>2 DEF RowInv, Broken
<1>12. ProgressInv'
  BY <1>2, <1>3, <1>6, <1>4, <1>8 DEF ProgressInv, InCall, NothingInFlight, IsReplay
<1>13. QED BY <1>9, <1>10, <1>11, <1>12 DEF KVInv

\* A failing admission hook hands every popped request back, marked RUNNING
\* or with its prefill progress, so that a cancellation still releases it.
LEMMA HookFaultKV ==
  ASSUME NEW X, MemInv(X), HookFault
  PROVE  KVInv(X)'
<1> DEFINE h == Head(waiting)
<1>1. KVInv(X) /\ Parts
  BY PartsOfInv DEF MemInv
<1>2. /\ UNCHANGED <<decoding, kv, resEnd, prefilled, inflight, cursor, preempted,
                     pendingReleases, releaseFailed>>
      /\ pc = "prefill" /\ waiting # <<>> /\ pc' = "raised"
      /\ waiting' = skipped \o Tail(waiting) \o scheduled \o <<h>>
      /\ scheduled' = <<>> /\ skipped' = <<>>
      /\ status' = [status EXCEPT ![h] = "RUNNING"]
      /\ resident \subseteq resident' /\ resident' \subseteq resident \cup {h}
  BY DEF HookFault, PrefillHookFails, InBucket, CanContinuePrefillBatch, Raise, ClearLocals
<1>3. pendingReleases = {} /\ preempted = None /\ DebtInv /\ OwnerInv(X) /\ ProgressInv
  BY <1>1, <1>2, InsideCall DEF KVInv
<1>4. /\ h \in Seqs /\ Range(waiting) = Range(Tail(waiting)) \cup {h} /\ Tail(waiting) \in Seq(Seqs)
  BY <1>1, <1>2, HeadTailFacts DEF Parts
<1>5. Range(waiting') = Range(waiting) \cup Range(skipped) \cup Range(scheduled)
  <2> DEFINE p == skipped \o Tail(waiting)
             q == p \o scheduled
             e == <<h>>
  <2> HIDE DEF h
  <2>0. skipped \in Seq(Seqs) /\ scheduled \in Seq(Seqs)
    BY <1>1 DEF Parts
  <2>1. p \in Seq(Seqs) /\ Range(p) = Range(skipped) \cup Range(Tail(waiting))
    BY <1>4, <2>0, ConcatFacts, ZenonT(60)
  <2>2. e \in Seq(Seqs) /\ Range(e) = {h}
    BY <1>4, SingletonFacts
  <2> HIDE DEF p, e
  <2>3. q \in Seq(Seqs) /\ Range(q) = Range(p) \cup Range(scheduled)
    BY <2>0, <2>1, ConcatFacts
  <2> HIDE DEF q
  <2>4. Range(q \o e) = Range(q) \cup Range(e)
    BY <2>2, <2>3, ConcatFacts
  <2>5. waiting' = q \o e
    BY <1>2 DEF p, q, e
  <2>6. QED BY <1>4, <2>1, <2>2, <2>3, <2>4, <2>5
<1>6. Range(scheduled') = {} /\ Range(skipped') = {}
  BY <1>2, EmptyFacts
<1>7. Prefills' = Prefills /\ Decodes' = Decodes /\ Chosen' = {} /\ h \in Prefills
  BY <1>2, <1>4, <1>5, <1>6 DEF Prefills, Decodes, Chosen
<1>8. status'[h] = "RUNNING" /\ \A s \in Seqs : s # h => status'[s] = status[s]
  <2>1. status \in [Seqs -> Statuses]
    BY <1>1 DEF Parts, TypeOK, RequestTypes
  <2>2. QED BY <1>2, <1>4, <2>1
<1> HIDE DEF h
<1>9. DebtInv'
  BY <1>2, <1>3 DEF DebtInv
<1>10. OwnerInv(X)'
  <2>1. \A s \in Seqs : s # h /\ Holds(s)' => Holds(s)
    BY <1>2 DEF Holds
  <2>2. ASSUME NEW s \in Seqs, Holds(s)'
        PROVE  \/ s \in X \/ s \in pendingReleases' \/ s = preempted' \/ s \in Decodes'
               \/ s \in Prefills' /\ (status'[s] = "RUNNING" \/ prefilled'[s] > 0)
    <3>1. CASE s = h
      BY <1>7, <1>8, <3>1
    <3>2. CASE s # h
      BY <1>2, <1>3, <1>7, <1>8, <2>1, <2>2, <3>2 DEF OwnerInv
    <3>3. QED BY <3>1, <3>2
  <2>3. QED BY <1>2, <1>3, <1>7, <2>2 DEF OwnerInv
<1>11. RowInv'
  BY <1>2 DEF RowInv, Broken
<1>12. ProgressInv'
  BY <1>2, <1>3, <1>7, <1>8 DEF ProgressInv, InCall, NothingInFlight, IsReplay
<1>13. QED BY <1>9, <1>10, <1>11, <1>12 DEF KVInv

\* A new request holds nothing.
LEMMA AdmitKV ==
  ASSUME NEW X, MemInv(X), NEW a \in Seqs \ X, AdmitRequest(a)
  PROVE  KVInv(X)'
<1>1. KVInv(X) /\ Parts
  BY PartsOfInv DEF MemInv
<1>2. /\ UNCHANGED <<decoding, scheduled, skipped, kv, resEnd, resident, prefilled, tokens,
                     inflight, cursor, chunk, pc, preempted, isPrefill, pendingReleases,
                     releaseFailed, asyncInflight>>
      /\ pc = "idle" /\ pendingReleases = {} /\ status[a] = "NEW"
      /\ waiting' = Append(waiting, a) /\ status' = [status EXCEPT ![a] = "WAITING"]
  BY DEF AdmitRequest
<1>3. preempted = None /\ DebtInv /\ OwnerInv(X) /\ RowInv /\ ProgressInv
      /\ skipped = <<>> /\ scheduled = <<>> /\ releaseFailed = {}
  BY <1>1, <1>2 DEF KVInv, DebtInv, Parts, CallInv
<1>4. Range(waiting') = Range(waiting) \cup {a} /\ Range(skipped) = {} /\ Range(scheduled) = {}
  BY <1>1, <1>2, <1>3, AppendFacts, EmptyFacts DEF Parts
<1>5. /\ Prefills = Range(waiting) /\ Prefills' = Prefills \cup {a}
      /\ Decodes = Range(decoding) /\ Decodes' = Decodes /\ Chosen' = {}
  BY <1>2, <1>4 DEF Prefills, Decodes, Chosen
<1>6. /\ a \notin Prefills /\ a \notin Decodes /\ None \notin Seqs
      /\ Prefills \subseteq Seqs /\ Decodes \subseteq Seqs
  BY <1>1, <1>2, <1>5, SchedulerAssumption DEF Parts
<1>7. ~Holds(a) /\ \A s : Holds(s)' = Holds(s)
  <2>1. ~Holds(a)
    BY <1>2, <1>3, <1>6 DEF OwnerInv
  <2>2. \A s : Holds(s)' = Holds(s)
    BY <1>2 DEF Holds
  <2>3. QED BY <2>1, <2>2
<1>8. \A s \in Seqs : s # a => status'[s] = status[s]
  <2>1. status \in [Seqs -> Statuses]
    BY <1>1 DEF Parts, TypeOK, RequestTypes
  <2>2. QED BY <1>2, <2>1
<1>9. DebtInv'
  BY <1>2, <1>3 DEF DebtInv
<1>10. OwnerInv(X)'
  BY <1>2, <1>3, <1>5, <1>7, <1>8 DEF OwnerInv
<1>11. RowInv'
  <2>1. \A s : Written(s) = 0 /\ Written(s)' = 0
    BY <1>2 DEF Written
  <2>2. \A s : DecodeInputPosition(s)' = DecodeInputPosition(s) /\ IsReplay(s)' = IsReplay(s)
          /\ Submitted(s)' = Submitted(s)
    BY <1>2, SamePosition
  <2>3. kv[a] = 0 /\ prefilled[a] = 0 /\ ~IsReplay(a)
    <3>1. kv \in [Seqs -> Nat]
      BY <1>1 DEF Parts, TypeOK, RequestTypes
    <3>2. QED BY <1>2, <1>3, <1>7, <3>1 DEF Holds, ProgressInv, InCall, NothingInFlight
  <2>4. QED BY <1>2, <1>3, <1>5, <2>1, <2>2, <2>3 DEF RowInv, Broken
<1>12. ProgressInv'
  BY <1>2, <1>3, <1>5, <1>8 DEF ProgressInv, InCall, NothingInFlight, IsReplay
<1>13. QED BY <1>9, <1>10, <1>11, <1>12 DEF KVInv

\* A release attempt touches the memory of its own request only.
OthersKept(s) ==
  /\ kv' \in [Seqs -> Nat] /\ resEnd' = [x \in Seqs |-> resEnd'[x]]
  /\ \A x \in Seqs : x # s => /\ kv'[x] = kv[x] /\ resEnd'[x] = resEnd[x]
                              /\ x \in resident' <=> x \in resident

\* The release happened, or it is owed and the row may be gone all the same.
Settled(s) ==
  /\ OthersKept(s) /\ ~Holds(s)' /\ kv'[s] = 0 /\ s \notin releaseFailed
  /\ pendingReleases' = pendingReleases \ {s} /\ releaseFailed' = releaseFailed

Owed(s) ==
  /\ OthersKept(s) /\ pendingReleases' = pendingReleases \cup {s}
  /\ releaseFailed' \in {releaseFailed, releaseFailed \cup {s}}
  /\ s \in releaseFailed' \/ kv'[s] = kv[s]
  /\ kv'[s] = 0 \/ (kv'[s] = kv[s] /\ resident' = resident)

\* free_seq gives back all that its request held.
LEMMA FreeFacts ==
  ASSUME TypeOK, DebtInv, NEW s \in Seqs, FreeSeq(s)
  PROVE  OthersKept(s) /\ ~Holds(s)' /\ kv'[s] = 0
<1>1. kv \in [Seqs -> Nat] /\ resEnd = [x \in Seqs |-> resEnd[x]]
  BY DEF TypeOK, RequestTypes, DebtInv
<1>2. /\ kv' = [kv EXCEPT ![s] = 0] /\ resident' = resident \ {s}
      /\ resEnd' = [resEnd EXCEPT ![s] = 0]
  BY DEF FreeSeq
<1>3. kv' \in [Seqs -> Nat] /\ kv'[s] = 0 /\ \A x \in Seqs : x # s => kv'[x] = kv[x]
  BY <1>1, <1>2
<1>4. /\ resEnd' = [x \in Seqs |-> resEnd'[x]] /\ resEnd'[s] = 0
      /\ \A x \in Seqs : x # s => resEnd'[x] = resEnd[x]
  BY <1>1, <1>2
<1>5. QED BY <1>2, <1>3, <1>4 DEF OthersKept, Holds

\* The two outcomes of a release attempt.
LEMMA AttemptFacts ==
  ASSUME TypeOK, DebtInv, NEW s \in Seqs
  PROVE  (ReleaseOk(s) => Settled(s)) /\ (ReleaseFails(s) => Owed(s))
<1>1. kv \in [Seqs -> Nat] /\ resEnd = [x \in Seqs |-> resEnd[x]]
  BY DEF TypeOK, RequestTypes, DebtInv
<1>2. ASSUME ReleaseOk(s) PROVE Settled(s)
  BY <1>2, FreeFacts DEF ReleaseOk, Settled
<1>3. ASSUME ReleaseFails(s) PROVE Owed(s)
  <2>1. CASE UNCHANGED memVars
    BY <1>1, <1>3, <2>1 DEF ReleaseFails, Owed, OthersKept
  <2>2. CASE FreeSeq(s) /\ releaseFailed' = releaseFailed \cup {s}
    BY <1>3, <2>2, FreeFacts DEF ReleaseFails, Owed
  <2>3. QED BY <1>3, <2>1, <2>2 DEF ReleaseFails
<1>4. QED BY <1>2, <1>3

\* A release attempt between steps, in the cleanup of a failed run or at the
\* end of a step: the request leaves the queues when it is settled.
Attempt(s) ==
  /\ UNCHANGED <<prefilled, tokens, cursor, inflight, chunk, skipped, preempted>>
  /\ pc \in {"idle", "reclaim", "raised", "release"} /\ pc' \in {pc, "raised"}
  /\ \/ ReleaseOk(s) /\ Dequeue(s)
     \/ /\ ReleaseFails(s) /\ UNCHANGED <<waiting, decoding, status>>
        /\ pc' # "release"

\* Such an attempt keeps the invariant, whatever its outcome.
LEMMA AttemptInv ==
  ASSUME NEW X, MemInv(X), NEW s \in Seqs, Attempt(s)
  PROVE  KVInv(X)'
<1>1. KVInv(X) /\ Parts /\ TypeOK /\ DebtInv /\ OwnerInv(X) /\ RowInv /\ ProgressInv
  BY PartsOfInv DEF MemInv, KVInv, Parts
<1>2. /\ UNCHANGED <<prefilled, tokens, cursor, inflight, chunk, skipped, preempted>>
      /\ pc \in {"idle", "reclaim", "raised", "release"} /\ pc' \in {pc, "raised"}
      /\ Leaves(s)
  BY DEF Attempt, Dequeue, Leaves
<1>3. skipped = <<>> /\ preempted = None /\ LeftOver(s)
  BY <1>1, <1>2, LeavesFacts DEF Parts, CallInv, DebtInv
<1>4. Range(skipped) = {} /\ Range(skipped') = {}
  BY <1>2, <1>3, EmptyFacts
<1>5. /\ Prefills = Range(waiting) /\ Prefills' = Range(waiting')
      /\ Decodes = Range(decoding) /\ Decodes' = Range(decoding') /\ Chosen' = {}
  BY <1>2, <1>4 DEF Prefills, Decodes, Chosen
<1>6. \A x : Written(x) = 0 /\ Written(x)' = 0
  BY <1>2 DEF Written
<1>7. \A x : DecodeInputPosition(x)' = DecodeInputPosition(x) /\ IsReplay(x)' = IsReplay(x)
          /\ Submitted(x)' = Submitted(x)
  BY <1>2, SamePosition
<1>8. Prefills \subseteq Seqs /\ Decodes \subseteq Seqs /\ None \notin Seqs
  BY <1>1, <1>5, SchedulerAssumption DEF Parts
<1>9. Prefills' \subseteq Prefills => ProgressInv'
  <2>1. pc' # "postprocess" /\ ~InCall'
    BY <1>2 DEF InCall
  <2>2. QED BY <1>1, <1>2, <1>3, <1>7, <1>8, <2>1 DEF ProgressInv, LeftOver
<1>10. CASE ReleaseOk(s) /\ Dequeue(s)
  <2>1. Settled(s) /\ OthersKept(s)
    BY <1>1, <1>10, AttemptFacts DEF Settled
  <2>2. Prefills' = Prefills \ {s} /\ Decodes' = Decodes \ {s}
    <3>1. waiting' = Without(waiting, s) /\ decoding' = Without(decoding, s)
      BY <1>10 DEF Dequeue
    <3>2. /\ Range(Without(waiting, s)) = Range(waiting) \ {s}
          /\ Range(Without(decoding, s)) = Range(decoding) \ {s}
      BY <1>1, RemoveFacts DEF Parts, Without
    <3>3. QED BY <1>5, <3>1, <3>2
  <2>3. \A x \in Seqs : x # s => status'[x] = status[x] /\ Holds(x)' = Holds(x)
    BY <1>3, <2>1 DEF LeftOver, OthersKept, Holds
  <2>4. DebtInv'
    BY <1>1, <1>2, <1>3, <2>1 DEF DebtInv, Settled, OthersKept
  <2>5. OwnerInv(X)'
    <3>1. ASSUME NEW x \in Seqs, Holds(x)'
          PROVE  \/ x \in X \/ x \in pendingReleases' \/ x = preempted' \/ x \in Decodes'
                 \/ x \in Prefills' /\ (status'[x] = "RUNNING" \/ prefilled'[x] > 0)
      <4>1. x # s /\ Holds(x)
        BY <2>1, <2>3, <3>1 DEF Settled
      <4>2. QED BY <1>1, <1>2, <2>1, <2>2, <2>3, <4>1 DEF OwnerInv, Settled
    <3>2. ASSUME NEW x \in Seqs, kv'[x] > 0 PROVE x \in resident'
      BY <1>1, <2>1, <3>2 DEF Settled, OthersKept, OwnerInv
    <3>3. QED BY <1>5, <3>1, <3>2 DEF OwnerInv
  <2>6. RowInv'
    <3>1. SUFFICES ASSUME pc' \notin {"reclaim", "raised"} PROVE RowInv'
      BY DEF RowInv, Broken
    <3>2. \A x \in Prefills' : x \in Prefills /\ x # s /\ x \in Seqs
      BY <1>8, <2>2
    <3>3. \A x \in Decodes' : x \in Decodes /\ x # s /\ x \in Seqs
      BY <1>8, <2>2
    <3>4. QED BY <1>1, <1>2, <1>6, <1>7, <2>1, <3>1, <3>2, <3>3 DEF RowInv, Broken, Settled, OthersKept
  <2>7. QED BY <1>9, <2>2, <2>4, <2>5, <2>6 DEF KVInv
<1>11. CASE ReleaseFails(s) /\ UNCHANGED <<waiting, decoding, status>> /\ pc' # "release"
  <2>1. Owed(s) /\ OthersKept(s)
    BY <1>1, <1>11, AttemptFacts DEF Owed
  <2>2. Prefills' = Prefills /\ Decodes' = Decodes
    BY <1>5, <1>11
  <2>3. \A x \in Seqs : x # s => Holds(x)' = Holds(x)
    BY <2>1 DEF OthersKept, Holds
  <2>4. DebtInv'
    BY <1>1, <1>2, <1>3, <1>11, <2>1 DEF DebtInv, Owed, OthersKept
  <2>5. OwnerInv(X)'
    <3>1. ASSUME NEW x \in Seqs, Holds(x)'
          PROVE  \/ x \in X \/ x \in pendingReleases' \/ x = preempted' \/ x \in Decodes'
                 \/ x \in Prefills' /\ (status'[x] = "RUNNING" \/ prefilled'[x] > 0)
      <4>1. CASE x = s
        BY <2>1, <4>1 DEF Owed
      <4>2. CASE x # s
        BY <1>1, <1>2, <1>11, <2>1, <2>2, <2>3, <3>1, <4>2 DEF OwnerInv, Owed
      <4>3. QED BY <4>1, <4>2
    <3>2. ASSUME NEW x \in Seqs, kv'[x] > 0 PROVE x \in resident'
      BY <1>1, <2>1, <3>2 DEF Owed, OthersKept, OwnerInv
    <3>3. QED BY <1>5, <3>1, <3>2 DEF OwnerInv
  <2>6. RowInv'
    <3>1. SUFFICES ASSUME pc' \notin {"reclaim", "raised"} PROVE RowInv'
      BY DEF RowInv, Broken
    <3>2. \A x \in Seqs : x \in releaseFailed' \/ (kv'[x] = kv[x] /\ x \notin releaseFailed)
      BY <2>1 DEF Owed, OthersKept
    <3>3. QED BY <1>1, <1>2, <1>6, <1>7, <1>8, <2>2, <3>1, <3>2 DEF RowInv, Broken
  <2>7. QED BY <1>9, <2>2, <2>4, <2>5, <2>6 DEF KVInv
<1>12. QED BY <1>10, <1>11 DEF Attempt

\* abort_request of a request that cannot own slots: it holds nothing.
LEMMA DropUnowned ==
  ASSUME NEW X, MemInv(X), NEW s \in Seqs, pc \in {"idle", "raised"}, ~MayOwnSlots(s),
         s \notin pendingReleases, Dequeue(s),
         UNCHANGED <<prefilled, tokens, cursor, inflight, chunk, skipped, preempted, pc,
                     scheduled, isPrefill, memVars, pendingReleases, releaseFailed>>
  PROVE  KVInv(X)'
<1>1. KVInv(X) /\ Parts /\ DebtInv /\ OwnerInv(X) /\ RowInv /\ ProgressInv
  BY PartsOfInv DEF MemInv, KVInv, Parts
<1>2. skipped = <<>> /\ preempted = None /\ LeftOver(s)
  BY <1>1, LeavesFacts DEF Parts, CallInv, DebtInv, Dequeue, Leaves
<1>3. Range(skipped) = {} /\ Range(skipped') = {}
  BY <1>2, EmptyFacts
<1>4. /\ Prefills = Range(waiting) /\ Prefills' = Range(waiting')
      /\ Decodes = Range(decoding) /\ Decodes' = Range(decoding') /\ Chosen' = {}
  BY <1>3 DEF Prefills, Decodes, Chosen
<1>5. Prefills' = Prefills \ {s} /\ Decodes' = Decodes \ {s}
  <2>1. waiting' = Without(waiting, s) /\ decoding' = Without(decoding, s)
    BY DEF Dequeue
  <2>2. /\ Range(Without(waiting, s)) = Range(waiting) \ {s}
        /\ Range(Without(decoding, s)) = Range(decoding) \ {s}
    BY <1>1, RemoveFacts DEF Parts, Without
  <2>3. QED BY <1>4, <2>1, <2>2
<1>6. Holds(s) => s \in X
  BY <1>1, <1>2, <1>4, SchedulerAssumption DEF OwnerInv, MayOwnSlots
<1>7. \A x : Holds(x)' = Holds(x)
  BY DEF Holds
<1>8. \A x : DecodeInputPosition(x)' = DecodeInputPosition(x) /\ IsReplay(x)' = IsReplay(x)
          /\ Submitted(x)' = Submitted(x)
  BY SamePosition
<1>9. \A x : Written(x) = 0 /\ Written(x)' = 0
  BY DEF Written
<1>10. DebtInv'
  BY <1>1, <1>2 DEF DebtInv
<1>11. OwnerInv(X)'
  BY <1>1, <1>2, <1>4, <1>5, <1>6, <1>7 DEF OwnerInv, LeftOver
<1>12. RowInv'
  BY <1>1, <1>5, <1>8, <1>9 DEF RowInv, Broken
<1>13. ProgressInv'
  BY <1>1, <1>2, <1>5, <1>8 DEF ProgressInv, InCall, NothingInFlight, LeftOver
<1>14. QED BY <1>10, <1>11, <1>12, <1>13 DEF KVInv

\* abort_request: release first, forget the request only if that succeeded.
LEMMA AbortKV ==
  ASSUME NEW X, MemInv(X), NEW s \in Seqs, AbortRequest(s)
  PROVE  KVInv(X)'
<1>1. /\ pc \in {"idle", "raised"}
      /\ UNCHANGED <<prefilled, tokens, cursor, inflight, chunk, skipped, preempted, pc,
                     scheduled, isPrefill>>
  BY DEF AbortRequest
<1>2. CASE MayOwnSlots(s) \/ s \in pendingReleases
  <2>1. Attempt(s)
    BY <1>1, <1>2 DEF AbortRequest, Attempt
  <2>2. QED BY <2>1, AttemptInv
<1>3. CASE ~(MayOwnSlots(s) \/ s \in pendingReleases)
  <2>1. Dequeue(s) /\ UNCHANGED <<memVars, pendingReleases, releaseFailed>>
    BY <1>3 DEF AbortRequest
  <2>2. QED BY <1>1, <1>3, <2>1, DropUnowned
<1>4. QED BY <1>2, <1>3

\* Cleanup after a failed run, and the release of what finished.
LEMMA ReleasesKV ==
  ASSUME NEW X, MemInv(X), ReclaimOne \/ ReleaseFinished
  PROVE  KVInv(X)'
<1>1. Parts
  BY PartsOfInv DEF MemInv
<1>2. CASE ReclaimOne
  <2>1. scheduled # <<>> /\ Attempt(Head(scheduled))
    BY <1>2 DEF ReclaimOne, Attempt
  <2>2. Head(scheduled) \in Seqs
    BY <1>1, <2>1, HeadTailFacts DEF Parts
  <2>3. QED BY <2>1, <2>2, AttemptInv
<1>3. CASE ReleaseFinished
  <2>1. finished # <<>> /\ Attempt(Head(finished))
    BY <1>3 DEF ReleaseFinished, Attempt, Raise
  <2>2. Head(finished) \in Seqs
    BY <1>1, <2>1, HeadTailFacts DEF Parts
  <2>3. QED BY <2>1, <2>2, AttemptInv
<1>4. QED BY <1>2, <1>3

\* The ends of a step, and a step that is refused, leave every row alone.
LEMMA StepEndsKV ==
  ASSUME NEW X, MemInv(X), StepRefused \/ ReclaimDone \/ StartRelease \/ StepDone
  PROVE  KVInv(X)'
<1>1. Parts /\ DebtInv /\ OwnerInv(X) /\ RowInv /\ ProgressInv
  BY PartsOfInv DEF MemInv, KVInv
<1>2. /\ Untouched /\ UNCHANGED <<waiting, decoding, scheduled, skipped, preempted>>
      /\ \/ pc = "idle" /\ pc' = "raised"
         \/ pc = "reclaim" /\ pc' = "raised"
         \/ pc = "postprocess" /\ scheduled = <<>> /\ pc' = "release"
         \/ pc = "release" /\ pc' = "idle"
  BY DEF StepRefused, ReclaimDone, StartRelease, StepDone, Raise, Untouched
<1>3. (pc \in {"idle", "release", "postprocess"} => scheduled = <<>>) /\ (scheduled = <<>> => Range(scheduled) = {})
      /\ preempted = None
  BY <1>1, <1>2, EmptyFacts DEF Parts, CallInv, DebtInv
<1>4. Prefills' = Prefills /\ Decodes' = Decodes /\ Chosen' = {}
  BY <1>2, <1>3 DEF Prefills, Decodes, Chosen
<1>5. \A s : Written(s) = 0 /\ Written(s)' = 0
  BY <1>2, <1>3 DEF Written
<1>6. \A s : DecodeInputPosition(s)' = DecodeInputPosition(s) /\ IsReplay(s)' = IsReplay(s)
          /\ Submitted(s)' = Submitted(s)
  BY <1>2, SamePosition DEF Untouched
<1>7. DebtInv'
  BY <1>1, <1>2, <1>3 DEF DebtInv, Untouched
<1>8. OwnerInv(X)'
  BY <1>1, <1>2, <1>4 DEF OwnerInv, Holds, Untouched
<1>9. RowInv'
  BY <1>1, <1>2, <1>4, <1>5, <1>6 DEF RowInv, Broken, Untouched
<1>10. ProgressInv'
  BY <1>1, <1>2, <1>4, <1>6 DEF ProgressInv, InCall, NothingInFlight, Untouched
<1>11. QED BY <1>7, <1>8, <1>9, <1>10 DEF KVInv

\* The victim of a preemption is released before the step ends; when that
\* fails, the release is owed.
LEMMA WithoutBatchKV ==
  ASSUME NEW X, MemInv(X), StepWithoutBatch
  PROVE  KVInv(X)'
<1>1. Parts /\ TypeOK /\ DebtInv /\ OwnerInv(X) /\ RowInv /\ ProgressInv
  BY PartsOfInv DEF MemInv, KVInv, Parts
<1>2. /\ UNCHANGED <<waiting, decoding, scheduled, skipped, prefilled, tokens, cursor, inflight,
                     status, chunk, isPrefill>>
      /\ pc = "returned" /\ scheduled = <<>> /\ preempted' = None
  BY DEF StepWithoutBatch
<1>3. /\ Range(scheduled) = {} /\ None \notin Seqs /\ pendingReleases = {} /\ releaseFailed = {}
      /\ preempted \in Seqs \cup {None}
      /\ preempted # None => preempted \in Range(waiting) /\ prefilled[preempted] = 0
  BY <1>1, <1>2, EmptyFacts, SchedulerAssumption DEF DebtInv, TypeOK, CallTypes
<1>u. PICK u : u = preempted
  OBVIOUS
<1>4. /\ Prefills' = Prefills /\ Decodes' = Decodes /\ Chosen' = {}
      /\ Prefills \subseteq Seqs /\ Decodes \subseteq Seqs
  BY <1>1, <1>2, <1>3 DEF Prefills, Decodes, Chosen, Parts
<1>5. \A s : DecodeInputPosition(s)' = DecodeInputPosition(s) /\ IsReplay(s)' = IsReplay(s)
          /\ Submitted(s)' = Submitted(s)
  BY <1>2, SamePosition
<1>6. pc' \in {"raised", "idle"} => ProgressInv'
  BY <1>1, <1>2, <1>4, <1>5 DEF ProgressInv, InCall
<1>7. CASE preempted = None
  <2>1. pc' = "raised" /\ UNCHANGED <<memVars, pendingReleases, releaseFailed>>
    BY <1>7 DEF StepWithoutBatch, Raise
  <2>2. DebtInv'
    BY <1>1, <1>2, <1>3, <2>1 DEF DebtInv
  <2>3. OwnerInv(X)'
    BY <1>1, <1>2, <1>4, <1>7, <2>1 DEF OwnerInv, Holds
  <2>4. RowInv'
    BY <2>1 DEF RowInv, Broken
  <2>5. QED BY <1>6, <2>1, <2>2, <2>3, <2>4 DEF KVInv
<1>8. CASE preempted # None /\ ReleaseFails(u) /\ Raise("release")
  <2>1. Owed(u) /\ OthersKept(u) /\ pc' = "raised"
    BY <1>1, <1>3, <1>8, <1>u, AttemptFacts DEF Owed, Raise
  <2>2. DebtInv'
    BY <1>2, <1>3, <2>1 DEF DebtInv, Owed, OthersKept
  <2>3. OwnerInv(X)'
    <3>1. \A x \in Seqs : x # u => Holds(x)' = Holds(x)
      BY <2>1 DEF OthersKept, Holds
    <3>2. ASSUME NEW x \in Seqs, kv'[x] > 0 PROVE x \in resident'
      BY <1>1, <2>1, <3>2 DEF Owed, OthersKept, OwnerInv
    <3>3. QED BY <1>1, <1>2, <1>4, <1>u, <2>1, <3>1, <3>2 DEF OwnerInv, Owed
  <2>4. RowInv'
    BY <2>1 DEF RowInv, Broken
  <2>5. QED BY <1>6, <2>1, <2>2, <2>3, <2>4 DEF KVInv
<1>9. CASE preempted # None /\ ReleaseOk(u) /\ pc' = "idle"
  <2>1. Settled(u) /\ OthersKept(u) /\ u \in Seqs
    BY <1>1, <1>3, <1>9, <1>u, AttemptFacts DEF Settled
  <2>2. DebtInv'
    BY <1>2, <1>3, <2>1 DEF DebtInv, Settled, OthersKept
  <2>3. OwnerInv(X)'
    <3>1. \A x \in Seqs : Holds(x)' => x # u /\ Holds(x)
      BY <2>1 DEF OthersKept, Holds, Settled
    <3>2. ASSUME NEW x \in Seqs, kv'[x] > 0 PROVE x \in resident'
      BY <1>1, <2>1, <3>2 DEF Settled, OthersKept, OwnerInv
    <3>3. QED BY <1>1, <1>2, <1>3, <1>4, <1>u, <2>1, <3>1, <3>2 DEF OwnerInv, Settled
  <2>4. RowInv'
    <3>1. \A x : Written(x) = 0 /\ Written(x)' = 0
      BY <1>2, <1>9 DEF Written
    <3>2. u \in Prefills /\ u \notin Decodes
      BY <1>1, <1>2, <1>3, <1>9, <1>u DEF Prefills, Decodes, Parts, OwnedOnce
    <3>3. prefilled[u] = 0
      BY <1>3, <1>9, <1>u
    <3>4. QED BY <1>1, <1>2, <1>3, <1>4, <1>5, <1>u, <2>1, <3>1, <3>2, <3>3 DEF RowInv, Broken, Settled, OthersKept
  <2>5. QED BY <1>6, <1>9, <2>2, <2>3, <2>4 DEF KVInv
<1>10. QED BY <1>7, <1>8, <1>9, <1>u DEF StepWithoutBatch

\* The batch schedule() returned has its rows, and a decode batch its prompts.
LEMMA BatchRows ==
  ASSUME NEW X, MemInv(X), pc = "returned", NEW s \in Range(scheduled)
  PROVE  /\ s \in Seqs /\ s \in resident
         /\ isPrefill => s \in Chosen /\ s \in Prefills /\ kv[s] = prefilled[s] /\ chunk[s] >= 1
         /\ ~isPrefill => s \in Decodes /\ kv[s] = DecodeInputPosition(s) /\ kv[s] > 0
<1>1. Parts /\ DebtInv /\ OwnerInv(X) /\ RowInv
  BY PartsOfInv DEF MemInv, KVInv
<1>2. /\ scheduled # <<>> /\ preempted = None /\ releaseFailed = {} /\ s \in Seqs /\ None \notin Seqs
      /\ Written(s) = 0
  <2>1. scheduled # <<>>
    BY EmptyFacts
  <2>2. QED BY <1>1, <2>1, SchedulerAssumption DEF DebtInv, Parts, Written
<1>3. /\ kv[s] \in Nat /\ prefilled[s] \in Nat /\ tokens[s] \in Nat /\ inflight[s] \in Nat
      /\ cursor[s] \in Nat \cup {NoReplay} /\ PromptLen[s] \in Nat \ {0}
  BY <1>1, <1>2, SchedulerAssumption DEF Parts, TypeOK, RequestTypes
<1>4. CASE isPrefill
  <2>1. s \in Chosen /\ s \in Prefills
    BY <1>4 DEF Chosen, Prefills
  <2>2. kv[s] = prefilled[s] + 0
    BY <1>1, <1>2, <2>1 DEF RowInv, Broken
  <2>3. QED BY <1>1, <1>2, <1>3, <1>4, <2>1, <2>2 DEF OwnerInv
<1>5. CASE ~isPrefill
  <2>1. s \in Decodes
    BY <1>1, <1>5 DEF Parts, CallInv, Decodes
  <2>2. kv[s] = DecodeInputPosition(s) + 0 /\ Submitted(s) >= 1
    BY <1>1, <1>2, <2>1 DEF RowInv, Broken
  <2>3. DecodeInputPosition(s) \in Nat /\ DecodeInputPosition(s) > 0
    BY <1>3, <2>2 DEF DecodeInputPosition, IsReplay, Submitted
  <2>4. kv[s] = DecodeInputPosition(s) /\ kv[s] > 0
    BY <2>2, <2>3
  <2>5. s \in resident
    BY <1>1, <1>2, <2>4 DEF OwnerInv
  <2>6. QED BY <1>2, <1>5, <2>1, <2>4, <2>5
<1>6. QED BY <1>4, <1>5

\* A successful run writes the slots of its batch.
LEMMA RunModelKV ==
  ASSUME NEW X, MemInv(X), RunModel, NothingInFlight
  PROVE  KVInv(X)'
<1>1. Parts /\ DebtInv /\ OwnerInv(X) /\ RowInv /\ ProgressInv
  BY PartsOfInv DEF MemInv, KVInv
<1>2. /\ UNCHANGED <<waiting, decoding, scheduled, skipped, preempted, isPrefill, resident, resEnd,
                     prefilled, tokens, cursor, inflight, status, chunk, pendingReleases, releaseFailed>>
      /\ pc = "returned" /\ scheduled # <<>> /\ pc' = "postprocess"
      /\ kv' = [s \in Seqs |-> IF s \in Range(scheduled) THEN kv[s] + StepSlots(s) ELSE kv[s]]
  BY DEF RunModel, Allocate
<1>3. preempted = None /\ pendingReleases = {} /\ releaseFailed = {}
  BY <1>1, <1>2 DEF DebtInv
<1>4. /\ Prefills' = Prefills /\ Decodes' = Decodes /\ Chosen' = Chosen
      /\ Prefills \subseteq Seqs /\ Decodes \subseteq Seqs
  BY <1>1, <1>2 DEF Prefills, Decodes, Chosen, Parts
<1>5. \A s : DecodeInputPosition(s)' = DecodeInputPosition(s) /\ IsReplay(s)' = IsReplay(s)
          /\ Submitted(s)' = Submitted(s)
  BY <1>2, SamePosition
<1>6. \A s : Written(s) = 0 /\ Written(s)' = IF s \in Range(scheduled) THEN StepSlots(s) ELSE 0
  BY <1>2 DEF Written, StepSlots
<1>7. ASSUME NEW s \in Range(scheduled)
      PROVE  s \in Decodes \/ (s \in Prefills /\ status[s] = "RUNNING")
  <2>1. CASE isPrefill
    BY <1>1, <1>2, <1>7, <2>1 DEF OwnerInv, Prefills, Chosen
  <2>2. CASE ~isPrefill
    BY <1>1, <1>2, <1>7, <2>2 DEF Parts, CallInv, Decodes
  <2>3. QED BY <2>1, <2>2
<1>8. \A s \in Seqs : s \notin Range(scheduled) => kv'[s] = kv[s] /\ Holds(s)' = Holds(s)
  BY <1>2 DEF Holds
<1>9. DebtInv'
  BY <1>1, <1>2, <1>3 DEF DebtInv
<1>10. OwnerInv(X)'
  <2>1. ASSUME NEW s \in Seqs, Holds(s)'
        PROVE  \/ s \in X \/ s \in pendingReleases' \/ s = preempted' \/ s \in Decodes'
               \/ s \in Prefills' /\ (status'[s] = "RUNNING" \/ prefilled'[s] > 0)
    <3>1. CASE s \in Range(scheduled)
      BY <1>2, <1>4, <1>7, <3>1
    <3>2. CASE s \notin Range(scheduled)
      BY <1>1, <1>2, <1>4, <1>8, <2>1, <3>2 DEF OwnerInv
    <3>3. QED BY <3>1, <3>2
  <2>2. ASSUME NEW s \in Seqs, kv'[s] > 0 PROVE s \in resident'
    <3>1. CASE s \in Range(scheduled)
      BY <1>2, <3>1, BatchRows
    <3>2. CASE s \notin Range(scheduled)
      BY <1>1, <1>2, <1>8, <2>2, <3>2 DEF OwnerInv
    <3>3. QED BY <3>1, <3>2
  <2>3. QED BY <1>1, <1>2, <1>4, <2>1, <2>2 DEF OwnerInv
<1>11. RowInv'
  <2>1. /\ kv \in [Seqs -> Nat] /\ prefilled \in [Seqs -> Nat]
    BY <1>1 DEF Parts, TypeOK, RequestTypes
  <2>2. \A s \in Seqs : s \in Range(scheduled) => kv'[s] = kv[s] + StepSlots(s)
    BY <1>2
  <2>3. None \notin Seqs
    BY SchedulerAssumption
  <2>4. ASSUME NEW s \in Prefills
        PROVE  kv'[s] = prefilled[s] + Written(s)' /\ (IsReplay(s) => cursor[s] = 0 /\ tokens[s] >= 1)
    <3>1. s \in Seqs /\ s # preempted /\ s \notin releaseFailed
      BY <1>3, <1>4, <2>3
    <3>2. kv[s] = prefilled[s] + 0 /\ (IsReplay(s) => cursor[s] = 0 /\ tokens[s] >= 1)
      BY <1>1, <1>2, <1>6, <3>1 DEF RowInv, Broken
    <3>3. kv[s] = prefilled[s]
      BY <2>1, <3>1, <3>2
    <3>4. QED BY <1>6, <1>8, <2>2, <3>1, <3>2, <3>3
  <2>5. ASSUME NEW s \in Decodes
        PROVE  kv'[s] = DecodeInputPosition(s) + Written(s)' /\ Submitted(s) >= 1
               /\ (IsReplay(s) => cursor[s] + 1 < tokens[s])
    <3>1. s \in Seqs /\ s \notin releaseFailed
      BY <1>3, <1>4
    <3>2. kv[s] = DecodeInputPosition(s) + 0 /\ Submitted(s) >= 1
          /\ (IsReplay(s) => cursor[s] + 1 < tokens[s])
      BY <1>1, <1>2, <1>6, <3>1 DEF RowInv, Broken
    <3>3. DecodeInputPosition(s) \in Int
      <4>1. /\ tokens[s] \in Nat /\ inflight[s] \in Nat /\ cursor[s] \in Nat \cup {NoReplay}
            /\ PromptLen[s] \in Nat
        BY <1>1, <3>1, SchedulerAssumption DEF Parts, TypeOK, RequestTypes
      <4>2. QED BY <4>1 DEF DecodeInputPosition, Submitted
    <3>4. kv[s] = DecodeInputPosition(s)
      BY <3>2, <3>3
    <3>5. QED BY <1>6, <1>8, <2>2, <3>1, <3>2, <3>4
  <2>6. QED BY <1>2, <1>4, <1>5, <2>4, <2>5 DEF RowInv, Broken
<1>12. ProgressInv'
  <2>1. NothingInFlight'
    BY <1>2 DEF NothingInFlight
  <2>2. QED BY <1>1, <1>2, <1>4, <1>5, <2>1 DEF ProgressInv
<1>13. QED BY <1>9, <1>10, <1>11, <1>12 DEF KVInv

\* A failed run wrote some of its batch; the batch is queued again, RUNNING.
LEMMA RunFailsKV ==
  ASSUME NEW X, MemInv(X), RunModelFails
  PROVE  KVInv(X)'
<1>1. Parts /\ DebtInv /\ OwnerInv(X) /\ ProgressInv
  BY PartsOfInv DEF MemInv, KVInv
<1>2. /\ UNCHANGED <<decoding, scheduled, skipped, preempted, isPrefill, prefilled, tokens, cursor,
                     inflight, status, chunk, pendingReleases, releaseFailed>>
      /\ pc = "returned" /\ scheduled # <<>> /\ pc' = "reclaim" /\ PartlyAllocated
      /\ waiting' = IF isPrefill THEN scheduled \o waiting ELSE waiting
  BY DEF RunModelFails
<1>3. /\ UNCHANGED <<resident, resEnd>>
      /\ \A s \in Seqs : s \notin Range(scheduled) => kv'[s] = kv[s]
  <2>1. PICK n \in 0..Len(scheduled) : Allocate(Range(SubSeq(scheduled, 1, n)))
    BY <1>2 DEF PartlyAllocated
  <2>2. Range(SubSeq(scheduled, 1, n)) \subseteq Range(scheduled)
    <3>1. Len(scheduled) \in Nat /\ scheduled \in Seq(Seqs)
      BY <1>1, RangeFacts DEF Parts
    <3>2. \A i \in DOMAIN SubSeq(scheduled, 1, n) : i \in DOMAIN scheduled /\ SubSeq(scheduled, 1, n)[i] = scheduled[i]
      BY <2>1, <3>1
    <3>3. QED BY <3>2 DEF Range
  <2>3. QED BY <2>1, <2>2 DEF Allocate
<1>4. preempted = None /\ skipped = <<>>
  BY <1>1, <1>2 DEF DebtInv, Parts, CallInv
<1>5. Range(waiting') = Range(waiting) \cup {s \in Range(scheduled) : isPrefill}
  <2>1. CASE isPrefill
    BY <1>1, <1>2, <2>1, ConcatFacts DEF Parts
  <2>2. CASE ~isPrefill
    BY <1>2, <2>2
  <2>3. QED BY <2>1, <2>2
<1>6. Prefills' = Prefills /\ Decodes' = Decodes /\ Chosen' = {}
  BY <1>2, <1>5 DEF Prefills, Decodes, Chosen
<1>7. ASSUME NEW s \in Range(scheduled)
      PROVE  s \in Decodes \/ (s \in Prefills /\ status[s] = "RUNNING")
  <2>1. CASE isPrefill
    BY <1>1, <1>2, <1>7, <2>1 DEF OwnerInv, Prefills, Chosen
  <2>2. CASE ~isPrefill
    BY <1>1, <1>2, <1>7, <2>2 DEF Parts, CallInv, Decodes
  <2>3. QED BY <2>1, <2>2
<1>8. \A s \in Seqs : s \notin Range(scheduled) => Holds(s)' = Holds(s)
  BY <1>3 DEF Holds
<1>9. DebtInv'
  BY <1>1, <1>2, <1>3, <1>4 DEF DebtInv
<1>10. OwnerInv(X)'
  <2>1. ASSUME NEW s \in Seqs, Holds(s)'
        PROVE  \/ s \in X \/ s \in pendingReleases' \/ s = preempted' \/ s \in Decodes'
               \/ s \in Prefills' /\ (status'[s] = "RUNNING" \/ prefilled'[s] > 0)
    <3>1. CASE s \in Range(scheduled)
      BY <1>2, <1>6, <1>7, <3>1
    <3>2. CASE s \notin Range(scheduled)
      BY <1>1, <1>2, <1>6, <1>8, <2>1, <3>2 DEF OwnerInv
    <3>3. QED BY <3>1, <3>2
  <2>2. ASSUME NEW s \in Seqs, kv'[s] > 0 PROVE s \in resident'
    <3>1. CASE s \in Range(scheduled)
      BY <1>2, <1>3, <3>1, BatchRows
    <3>2. CASE s \notin Range(scheduled)
      BY <1>1, <1>3, <2>2, <3>2 DEF OwnerInv
    <3>3. QED BY <3>1, <3>2
  <2>3. QED BY <1>6, <2>1, <2>2 DEF OwnerInv
<1>11. RowInv'
  BY <1>2 DEF RowInv, Broken
<1>12. ProgressInv'
  BY <1>1, <1>2, <1>6 DEF ProgressInv, InCall, IsReplay
<1>13. QED BY <1>9, <1>10, <1>11, <1>12 DEF KVInv

\* One request h of the batch is postprocessed: only its own progress moves,
\* to where its row ends.
PostStep(h) ==
  /\ h \in Range(scheduled) /\ Range(scheduled') = Range(scheduled) \ {h}
  /\ pc = "postprocess" /\ pc' = "postprocess"
  /\ UNCHANGED <<isPrefill, chunk, kv, resident, resEnd, inflight, pendingReleases, releaseFailed,
                 preempted, skipped>>
  /\ \A x \in Seqs : x # h => /\ prefilled'[x] = prefilled[x] /\ tokens'[x] = tokens[x]
                              /\ cursor'[x] = cursor[x] /\ status'[x] = status[x]
                              /\ x \in Prefills' <=> x \in Prefills
                              /\ x \in Decodes' <=> x \in Decodes
  /\ Prefills' \subseteq Seqs /\ Decodes' \subseteq Seqs
  /\ status'[h] # "NEW"
  /\ \/ /\ h \in Decodes' /\ h \notin Prefills' /\ kv[h] = DecodeInputPosition(h)'
        /\ Submitted(h)' >= 1 /\ (IsReplay(h)' => cursor'[h] + 1 < tokens'[h])
     \/ /\ h \in Prefills' /\ h \notin Decodes' /\ kv[h] = prefilled'[h] /\ prefilled'[h] > 0
        /\ IsReplay(h)' => cursor'[h] = 0 /\ tokens'[h] >= 1

\* Postprocessing one request keeps the invariant.
LEMMA PostStepInv ==
  ASSUME NEW X, MemInv(X), NEW h \in Seqs, PostStep(h)
  PROVE  KVInv(X)'
<1>1. Parts /\ DebtInv /\ OwnerInv(X) /\ RowInv /\ ProgressInv
  BY PartsOfInv DEF MemInv, KVInv
<1>2. /\ preempted = None /\ pendingReleases = {} /\ releaseFailed = {} /\ pc = "postprocess"
      /\ None \notin Seqs
  BY <1>1, SchedulerAssumption DEF DebtInv, PostStep
<1>3. \A x \in Seqs : x # h => /\ DecodeInputPosition(x)' = DecodeInputPosition(x)
                               /\ IsReplay(x)' = IsReplay(x) /\ Submitted(x)' = Submitted(x) /\ Written(x)' = Written(x)
                               /\ Holds(x)' = Holds(x)
  <2>1. \A x \in Seqs : x # h => DecodeInputPosition(x)' = DecodeInputPosition(x) /\ IsReplay(x)' = IsReplay(x)
          /\ Submitted(x)' = Submitted(x)
    BY DEF PostStep, DecodeInputPosition, IsReplay, Submitted
  <2>2. \A x \in Seqs : x # h => Written(x)' = Written(x)
    BY DEF PostStep, Written, StepSlots
  <2>3. \A x \in Seqs : Holds(x)' = Holds(x)
    BY DEF PostStep, Holds
  <2>4. QED BY <2>1, <2>2, <2>3
<1>4. Written(h)' = 0
  BY DEF PostStep, Written
<1>5. Chosen' \subseteq Chosen \ {h} /\ Chosen \subseteq Seqs
  BY <1>1 DEF PostStep, Chosen, Parts
<1>6. DebtInv'
  BY <1>1, <1>2 DEF DebtInv, PostStep
<1>7. OwnerInv(X)'
  <2>1. /\ \A x \in Chosen' : status'[x] = "RUNNING" /\ chunk'[x] >= 1 /\ x \in resident'
        /\ \A x \in Seqs : kv'[x] > 0 => x \in resident'
    BY <1>1, <1>5 DEF OwnerInv, PostStep
  <2>2. ASSUME NEW x \in Seqs, Holds(x)'
        PROVE  \/ x \in X \/ x \in pendingReleases' \/ x = preempted' \/ x \in Decodes'
               \/ x \in Prefills' /\ (status'[x] = "RUNNING" \/ prefilled'[x] > 0)
    <3>1. CASE x = h
      BY <3>1 DEF PostStep
    <3>2. CASE x # h
      BY <1>1, <1>3, <2>2, <3>2 DEF OwnerInv, PostStep
    <3>3. QED BY <3>1, <3>2
  <2>3. QED BY <2>1, <2>2 DEF OwnerInv
<1>8. RowInv'
  <2>1. /\ kv \in [Seqs -> Nat] /\ kv' = kv /\ kv[h] \in Nat
    BY <1>1 DEF Parts, TypeOK, RequestTypes, PostStep
  <2>2. ASSUME NEW x \in Prefills'
        PROVE  /\ x \in releaseFailed' \/ x = preempted' \/ kv'[x] = prefilled'[x] + Written(x)'
               /\ IsReplay(x)' => cursor'[x] = 0 /\ tokens'[x] >= 1
    <3>1. CASE x = h
      <4>1. kv[h] = prefilled'[h] /\ (IsReplay(h)' => cursor'[h] = 0 /\ tokens'[h] >= 1)
        BY <2>2, <3>1 DEF PostStep
      <4>2. prefilled'[h] + 0 = prefilled'[h]
        BY <2>1, <4>1
      <4>3. QED BY <1>4, <2>1, <3>1, <4>1, <4>2
    <3>2. CASE x # h
      <4>1. x \in Seqs /\ x \in Prefills
        BY <2>2, <3>2 DEF PostStep
      <4>2. /\ kv[x] = prefilled[x] + Written(x)
            /\ IsReplay(x) => cursor[x] = 0 /\ tokens[x] >= 1
        BY <1>1, <1>2, <4>1 DEF RowInv, Broken
      <4>3. QED BY <1>3, <2>1, <3>2, <4>1, <4>2 DEF PostStep
    <3>3. QED BY <3>1, <3>2
  <2>3. ASSUME NEW x \in Decodes'
        PROVE  /\ x \in releaseFailed' \/ kv'[x] = DecodeInputPosition(x)' + Written(x)'
               /\ Submitted(x)' >= 1 /\ (IsReplay(x)' => cursor'[x] + 1 < tokens'[x])
    <3>1. CASE x = h
      <4>1. /\ kv[h] = DecodeInputPosition(h)' /\ Submitted(h)' >= 1
            /\ IsReplay(h)' => cursor'[h] + 1 < tokens'[h]
        BY <2>3, <3>1 DEF PostStep
      <4>2. DecodeInputPosition(h)' + 0 = DecodeInputPosition(h)'
        BY <2>1, <4>1
      <4>3. QED BY <1>4, <2>1, <3>1, <4>1, <4>2
    <3>2. CASE x # h
      <4>1. x \in Seqs /\ x \in Decodes
        BY <2>3, <3>2 DEF PostStep
      <4>2. /\ kv[x] = DecodeInputPosition(x) + Written(x)
            /\ Submitted(x) >= 1 /\ (IsReplay(x) => cursor[x] + 1 < tokens[x])
        BY <1>1, <1>2, <4>1 DEF RowInv, Broken
      <4>3. QED BY <1>3, <2>1, <3>2, <4>1, <4>2 DEF PostStep
    <3>3. QED BY <3>1, <3>2
  <2>4. QED BY <2>2, <2>3 DEF RowInv, Broken
<1>9. ProgressInv'
  <2>1. ASSUME NEW x \in Seqs
        PROVE  inflight'[x] = 0 /\ (status'[x] = "NEW" => prefilled'[x] = 0 /\ ~IsReplay(x)')
    <3>1. CASE x = h
      BY <1>1, <3>1 DEF ProgressInv, InCall, NothingInFlight, PostStep
    <3>2. CASE x # h
      BY <1>1, <1>3, <3>2 DEF ProgressInv, InCall, NothingInFlight, PostStep
    <3>3. QED BY <3>1, <3>2
  <2>2. Prefills' \subseteq Seqs
    BY DEF PostStep
  <2>3. QED BY <2>1, <2>2 DEF ProgressInv, NothingInFlight
<1>10. QED BY <1>6, <1>7, <1>8, <1>9 DEF KVInv

\* What postprocessing starts from: the row of h holds its progress and what
\* this step wrote.
Due(h) ==
  /\ h \in Seqs /\ h \in Range(scheduled) /\ scheduled' = Tail(scheduled) /\ scheduled # <<>>
  /\ Range(scheduled') = Range(scheduled) \ {h}
  /\ pc = "postprocess" /\ pc' = "postprocess"
  /\ UNCHANGED <<isPrefill, chunk, kv, resident, resEnd, inflight, pendingReleases, releaseFailed,
                 preempted, skipped>>
  /\ skipped = <<>> /\ Range(skipped) = {} /\ Parts
  /\ kv[h] \in Nat /\ prefilled[h] \in Nat /\ chunk[h] \in Nat /\ tokens[h] \in Nat
  /\ cursor[h] \in Nat \cup {NoReplay} /\ PromptLen[h] \in Nat
  /\ inflight[h] = 0 /\ status[h] # "NEW"
  /\ isPrefill => /\ h \notin Range(waiting) \cup Range(decoding) /\ chunk[h] >= 1
                  /\ prefilled[h] + chunk[h] <= PromptLen[h] /\ kv[h] = prefilled[h] + chunk[h]
                  /\ IsReplay(h) => cursor[h] = 0 /\ tokens[h] >= 1
                  /\ ~IsReplay(h) => tokens[h] = 0
  /\ ~isPrefill => /\ h \in Range(decoding) /\ h \notin Range(waiting)
                   /\ kv[h] = DecodeInputPosition(h) + 1
                   /\ tokens[h] >= 1 /\ (IsReplay(h) => cursor[h] + 1 < tokens[h])

\* The head of the batch is due.
LEMMA HeadIsDue ==
  ASSUME NEW X, MemInv(X), NextPost, PostTail, UNCHANGED chunk, NEW h, h = Head(scheduled)
  PROVE  Due(h)
<1>1. Parts /\ DebtInv /\ OwnerInv(X) /\ RowInv /\ ProgressInv
  BY PartsOfInv DEF MemInv, KVInv
<1>2. /\ pc = "postprocess" /\ scheduled # <<>> /\ scheduled' = Tail(scheduled) /\ pc' = pc
      /\ UNCHANGED <<isPrefill, chunk, kv, resident, resEnd, inflight, pendingReleases, releaseFailed,
                     preempted, skipped>>
  BY DEF NextPost, PostTail
<1>3. /\ h \in Seqs /\ h \in Range(scheduled) /\ Range(scheduled') = Range(scheduled) \ {h}
  <2>1. /\ Head(scheduled) \in Seqs /\ Head(scheduled) \in Range(scheduled)
        /\ Range(Tail(scheduled)) = Range(scheduled) \ {Head(scheduled)}
    BY <1>1, <1>2, HeadTailFacts DEF Parts
  <2>2. QED BY <1>2, <2>1
<1>4. skipped = <<>> /\ Range(skipped) = {} /\ preempted = None /\ releaseFailed = {} /\ None \notin Seqs
  BY <1>1, <1>2, EmptyFacts, SchedulerAssumption DEF Parts, CallInv, DebtInv
<1>5. /\ kv[h] \in Nat /\ prefilled[h] \in Nat /\ chunk[h] \in Nat /\ tokens[h] \in Nat
      /\ cursor[h] \in Nat \cup {NoReplay} /\ PromptLen[h] \in Nat
  BY <1>1, <1>3, SchedulerAssumption DEF Parts, TypeOK, RequestTypes
<1>6. inflight[h] = 0 /\ status[h] # "NEW"
  BY <1>1, <1>2, <1>3 DEF ProgressInv, NothingInFlight, Parts
<1>7. ASSUME isPrefill
      PROVE  /\ h \notin Range(waiting) \cup Range(decoding) /\ chunk[h] >= 1
             /\ prefilled[h] + chunk[h] <= PromptLen[h] /\ kv[h] = prefilled[h] + chunk[h]
             /\ IsReplay(h) => cursor[h] = 0 /\ tokens[h] >= 1
             /\ ~IsReplay(h) => tokens[h] = 0
  <2>1. h \in Chosen /\ h \in Prefills /\ h \in Popped
    BY <1>2, <1>3, <1>7 DEF Chosen, Prefills, Popped
  <2>2. h \notin Range(waiting) \cup Range(decoding)
    BY <1>1, <2>1 DEF Parts, OwnedOnce
  <2>3. chunk[h] >= 1
    BY <1>1, <2>1 DEF OwnerInv
  <2>4. prefilled[h] + chunk[h] <= PromptLen[h]
    BY <1>1, <1>2, <1>3, <1>7 DEF Parts, CallInv
  <2>5. Written(h) = chunk[h]
    BY <1>2, <1>3, <1>7 DEF Written, StepSlots
  <2>6. kv[h] = prefilled[h] + chunk[h] /\ (IsReplay(h) => cursor[h] = 0 /\ tokens[h] >= 1)
    BY <1>1, <1>2, <1>3, <1>4, <2>1, <2>5 DEF RowInv, Broken
  <2>7. ~IsReplay(h) => tokens[h] = 0
    BY <1>1, <1>2, <1>3, <1>7 DEF Parts, TokenInv
  <2>8. QED BY <2>2, <2>3, <2>4, <2>6, <2>7
<1>8. ASSUME ~isPrefill
      PROVE  /\ h \in Range(decoding) /\ h \notin Range(waiting)
             /\ kv[h] = DecodeInputPosition(h) + 1
             /\ tokens[h] >= 1 /\ (IsReplay(h) => cursor[h] + 1 < tokens[h])
  <2>1. h \in Range(decoding) /\ h \notin Range(waiting)
    BY <1>1, <1>2, <1>3, <1>8 DEF Parts, CallInv, OwnedOnce
  <2>2. Written(h) = 1 /\ h \in Decodes
    BY <1>2, <1>3, <1>8, <2>1 DEF Written, StepSlots, Decodes
  <2>3. /\ kv[h] = DecodeInputPosition(h) + 1 /\ Submitted(h) >= 1
        /\ IsReplay(h) => cursor[h] + 1 < tokens[h]
    BY <1>1, <1>2, <1>4, <2>1, <2>2 DEF RowInv, Broken
  <2>4. tokens[h] >= 1
    BY <1>5, <1>6, <2>3 DEF Submitted
  <2>5. QED BY <2>1, <2>3, <2>4
<1>9. QED BY <1>1, <1>2, <1>3, <1>4, <1>5, <1>6, <1>7, <1>8 DEF Due

\* The prompt is not computed yet: back to waiting, further on.
LEMMA PostPartialKV ==
  ASSUME NEW X, MemInv(X), PostPartialPrefill
  PROVE  KVInv(X)'
<1>1. PICK h : h = Head(scheduled)
  OBVIOUS
<1>2. Due(h)
  BY <1>1, HeadIsDue DEF PostPartialPrefill
<1>3. /\ isPrefill /\ UNCHANGED <<decoding, tokens, cursor>>
      /\ prefilled' = [prefilled EXCEPT ![h] = prefilled[h] + chunk[h]]
      /\ status' = [status EXCEPT ![h] = "WAITING"] /\ waiting' = <<h>> \o waiting
  BY <1>1 DEF PostPartialPrefill
<1>4. prefilled \in [Seqs -> Nat] /\ status \in [Seqs -> Statuses] /\ h \in Seqs
  BY <1>2 DEF Due, Parts, TypeOK, RequestTypes
<1>5. /\ prefilled'[h] = prefilled[h] + chunk[h] /\ status'[h] = "WAITING"
      /\ \A x \in Seqs : x # h => prefilled'[x] = prefilled[x] /\ status'[x] = status[x]
  BY <1>3, <1>4
<1>6. Range(waiting') = Range(waiting) \cup {h}
  BY <1>2, <1>3, <1>4, PrependFacts DEF Due, Parts
<1>7. /\ \A x \in Seqs : x # h => (x \in Prefills' <=> x \in Prefills) /\ (x \in Decodes' <=> x \in Decodes)
      /\ Prefills' \subseteq Seqs /\ Decodes' \subseteq Seqs /\ h \in Prefills' /\ h \notin Decodes'
  BY <1>2, <1>3, <1>6 DEF Due, Parts, Prefills, Decodes, Chosen
<1>8. IsReplay(h)' => cursor'[h] = 0 /\ tokens'[h] >= 1
  BY <1>2, <1>3 DEF Due, IsReplay
<1>9. kv[h] = prefilled'[h] /\ prefilled'[h] > 0
  BY <1>2, <1>3, <1>5 DEF Due
<1>10. PostStep(h)
  BY <1>2, <1>3, <1>4, <1>5, <1>7, <1>8, <1>9 DEF Due, PostStep
<1>11. QED BY <1>4, <1>10, PostStepInv

\* The row of h ends where its next decode writes.
Lands(h) ==
  /\ kv[h] = DecodeInputPosition(h)' /\ tokens'[h] \in Nat /\ tokens'[h] >= 1
  /\ IsReplay(h)' => cursor'[h] + 1 < tokens'[h]

\* A sampled token moves the next position by one.
LEMMA SampleLands ==
  ASSUME NEW h, Due(h), ~IsReplay(h), AppendToken(h), UNCHANGED cursor,
         isPrefill => LastChunk(h)
  PROVE  Lands(h)
<1>1. tokens' = [tokens EXCEPT ![h] = @ + 1] /\ tokens \in [Seqs -> Nat] /\ h \in Seqs
  BY DEF AppendToken, Due, Parts, TypeOK, RequestTypes
<1>2. tokens'[h] = tokens[h] + 1 /\ cursor'[h] = cursor[h] /\ inflight'[h] = 0
  BY <1>1 DEF Due
<1>3. ~IsReplay(h)' /\ DecodeInputPosition(h)' = PromptLen[h] + (tokens[h] + 1 + 0 - 1)
  <2>1. ~IsReplay(h)'
    BY <1>2 DEF IsReplay
  <2>2. DecodeInputPosition(h)' = PromptLen[h] + (tokens'[h] + inflight'[h] - 1)
    <3>1. cursor'[h] = NoReplay
      BY <2>1 DEF IsReplay
    <3>2. tokens'[h] \in Nat /\ inflight'[h] \in Nat /\ PromptLen[h] \in Nat
      BY <1>2 DEF Due
    <3>3. QED BY <3>1, <3>2 DEF DecodeInputPosition, Submitted, IsReplay
  <2>3. QED BY <1>2, <2>1, <2>2
<1>4. tokens[h] \in Nat /\ PromptLen[h] \in Nat /\ kv[h] \in Nat
  BY DEF Due
<1>5. kv[h] = PromptLen[h] + tokens[h]
  <2>1. CASE isPrefill
    BY <2>1 DEF Due, LastChunk
  <2>2. CASE ~isPrefill
    <3>1. kv[h] = DecodeInputPosition(h) + 1
      BY <2>2 DEF Due
    <3>2. DecodeInputPosition(h) = PromptLen[h] + (tokens[h] + 0 - 1)
      BY DEF DecodeInputPosition, Submitted, Due
    <3>3. QED BY <1>4, <3>1, <3>2
  <2>3. QED BY <2>1, <2>2
<1>6. QED BY <1>2, <1>3, <1>4, <1>5 DEF Lands

\* A replay ends at the position of the token after the last it replays.
LEMMA ReplayLands ==
  ASSUME NEW h, Due(h), NEW next \in Nat, AdvanceReplay(h, next), UNCHANGED tokens,
         kv[h] = PromptLen[h] + next, tokens[h] >= 1, next < tokens[h]
  PROVE  Lands(h)
<1>1. /\ cursor \in [Seqs -> Nat \cup {NoReplay}] /\ h \in Seqs
      /\ tokens[h] \in Nat /\ PromptLen[h] \in Nat /\ inflight'[h] = 0
  BY DEF Due, Parts, TypeOK, RequestTypes
<1>2. cursor' = [cursor EXCEPT ![h] = IF next >= ReplayDecodeTokens(h) THEN NoReplay ELSE next]
  BY DEF AdvanceReplay
<1>3. ReplayDecodeTokens(h) = tokens[h] - 1
  BY <1>1 DEF ReplayDecodeTokens
<1>4. cursor'[h] = IF next >= tokens[h] - 1 THEN NoReplay ELSE next
  BY <1>1, <1>2, <1>3
<1>5. CASE next >= tokens[h] - 1
  <2>1. ~IsReplay(h)' /\ DecodeInputPosition(h)' = PromptLen[h] + (tokens[h] + 0 - 1)
    BY <1>1, <1>4, <1>5 DEF IsReplay, DecodeInputPosition, Submitted
  <2>2. QED BY <1>1, <1>5, <2>1 DEF Lands
<1>6. CASE ~(next >= tokens[h] - 1)
  <2>1. IsReplay(h)' /\ DecodeInputPosition(h)' = PromptLen[h] + next /\ cursor'[h] = next
    BY <1>4, <1>6 DEF IsReplay, DecodeInputPosition
  <2>2. QED BY <1>1, <1>6, <2>1 DEF Lands
<1>7. QED BY <1>5, <1>6

\* The last chunk: the request decodes from here, or ends.
LEMMA PostLastKV ==
  ASSUME NEW X, MemInv(X), PostLastPrefill
  PROVE  KVInv(X)'
<1>1. PICK h : h = Head(scheduled)
  OBVIOUS
<1>2. Due(h)
  BY <1>1, HeadIsDue DEF PostLastPrefill
<1>3. /\ isPrefill /\ LastChunk(h) /\ UNCHANGED waiting
      /\ prefilled' = [prefilled EXCEPT ![h] = prefilled[h] + chunk[h]]
      /\ decoding' = Append(decoding, h)
      /\ \/ /\ IsReplay(h) /\ status' = [status EXCEPT ![h] = "RUNNING"] /\ UNCHANGED tokens
            /\ IF ReplayDecodeTokens(h) = 0 THEN AdvanceReplay(h, 0) ELSE UNCHANGED cursor
         \/ ~IsReplay(h) /\ AppendToken(h) /\ UNCHANGED cursor
  BY <1>1 DEF PostLastPrefill
<1>4. /\ prefilled \in [Seqs -> Nat] /\ status \in [Seqs -> Statuses] /\ h \in Seqs
      /\ tokens \in [Seqs -> Nat] /\ cursor \in [Seqs -> Nat \cup {NoReplay}]
  BY <1>2 DEF Due, Parts, TypeOK, RequestTypes
<1>5. \A x \in Seqs : x # h => /\ prefilled'[x] = prefilled[x] /\ status'[x] = status[x]
                               /\ tokens'[x] = tokens[x] /\ cursor'[x] = cursor[x]
  BY <1>3, <1>4 DEF AppendToken, AdvanceReplay
<1>6. status'[h] # "NEW"
  BY <1>3, <1>4 DEF AppendToken
<1>7. Range(decoding') = Range(decoding) \cup {h}
  BY <1>2, <1>3, <1>4, AppendFacts DEF Due, Parts
<1>8. /\ \A x \in Seqs : x # h => (x \in Prefills' <=> x \in Prefills) /\ (x \in Decodes' <=> x \in Decodes)
      /\ Prefills' \subseteq Seqs /\ Decodes' \subseteq Seqs /\ h \in Decodes' /\ h \notin Prefills'
  BY <1>2, <1>3, <1>7 DEF Due, Parts, Prefills, Decodes, Chosen
<1>9. Lands(h)
  <2>1. CASE ~IsReplay(h)
    BY <1>2, <1>3, <2>1, SampleLands
  <2>2. CASE IsReplay(h)
    <3>1. /\ cursor[h] = 0 /\ tokens[h] >= 1 /\ kv[h] = PromptLen[h] /\ tokens[h] \in Nat
          /\ PromptLen[h] \in Nat /\ inflight'[h] = 0 /\ UNCHANGED tokens
      BY <1>2, <1>3, <2>2 DEF Due, LastChunk
    <3>2. CASE ReplayDecodeTokens(h) = 0
      <4>1. AdvanceReplay(h, 0) /\ kv[h] = PromptLen[h] + 0 /\ 0 < tokens[h]
        BY <1>3, <2>2, <3>1, <3>2
      <4>2. QED BY <1>2, <3>1, <4>1, ReplayLands
    <3>3. CASE ReplayDecodeTokens(h) # 0
      <4>1. UNCHANGED cursor /\ tokens[h] >= 2
        BY <1>3, <2>2, <3>1, <3>3 DEF ReplayDecodeTokens
      <4>2. DecodeInputPosition(h)' = PromptLen[h] + 0 /\ cursor'[h] = 0
        BY <3>1, <4>1 DEF DecodeInputPosition, IsReplay
      <4>3. QED BY <3>1, <4>1, <4>2 DEF Lands
    <3>4. QED BY <3>2, <3>3
  <2>3. QED BY <2>1, <2>2
<1>10. Submitted(h)' >= 1
  BY <1>2, <1>9 DEF Due, Lands, Submitted
<1>11. PostStep(h)
  BY <1>2, <1>4, <1>5, <1>6, <1>8, <1>9, <1>10 DEF Due, PostStep, Lands
<1>12. QED BY <1>4, <1>11, PostStepInv

\* A decode: one more token, or one more replayed position.
LEMMA PostDecodeKV ==
  ASSUME NEW X, MemInv(X), PostDecode
  PROVE  KVInv(X)'
<1>1. PICK h : h = Head(scheduled)
  OBVIOUS
<1>2. Due(h)
  BY <1>1, HeadIsDue DEF PostDecode
<1>3. /\ ~isPrefill /\ UNCHANGED <<waiting, decoding, prefilled>>
      /\ \/ IsReplay(h) /\ AdvanceReplay(h, cursor[h] + 1) /\ UNCHANGED <<tokens, status>>
         \/ ~IsReplay(h) /\ AppendToken(h) /\ UNCHANGED cursor
  BY <1>1 DEF PostDecode
<1>4. /\ status \in [Seqs -> Statuses] /\ h \in Seqs /\ tokens \in [Seqs -> Nat]
      /\ cursor \in [Seqs -> Nat \cup {NoReplay}] /\ status[h] # "NEW"
  BY <1>2 DEF Due, Parts, TypeOK, RequestTypes
<1>5. \A x \in Seqs : x # h => /\ prefilled'[x] = prefilled[x] /\ status'[x] = status[x]
                               /\ tokens'[x] = tokens[x] /\ cursor'[x] = cursor[x]
  BY <1>3, <1>4 DEF AppendToken, AdvanceReplay
<1>6. status'[h] # "NEW"
  BY <1>3, <1>4 DEF AppendToken
<1>7. /\ \A x \in Seqs : x # h => (x \in Prefills' <=> x \in Prefills) /\ (x \in Decodes' <=> x \in Decodes)
      /\ Prefills' \subseteq Seqs /\ Decodes' \subseteq Seqs /\ h \in Decodes' /\ h \notin Prefills'
  BY <1>2, <1>3 DEF Due, Parts, Prefills, Decodes, Chosen
<1>8. Lands(h)
  <2>1. CASE ~IsReplay(h)
    BY <1>2, <1>3, <2>1, SampleLands
  <2>2. CASE IsReplay(h)
    <3>1. /\ cursor[h] \in Nat /\ tokens[h] \in Nat /\ PromptLen[h] \in Nat /\ UNCHANGED tokens
          /\ kv[h] = DecodeInputPosition(h) + 1 /\ tokens[h] >= 1 /\ cursor[h] + 1 < tokens[h]
          /\ AdvanceReplay(h, cursor[h] + 1)
      BY <1>2, <1>3, <2>2 DEF Due, IsReplay
    <3>2. DecodeInputPosition(h) = PromptLen[h] + cursor[h]
      BY <2>2 DEF DecodeInputPosition
    <3>3. PICK next \in Nat : next = cursor[h] + 1
      BY <3>1
    <3>4. kv[h] = PromptLen[h] + next /\ next < tokens[h] /\ AdvanceReplay(h, next)
      BY <3>1, <3>2, <3>3
    <3>5. QED BY <1>2, <3>1, <3>4, ReplayLands
  <2>3. QED BY <2>1, <2>2
<1>9. Submitted(h)' >= 1
  BY <1>2, <1>8 DEF Due, Lands, Submitted
<1>10. PostStep(h)
  BY <1>2, <1>4, <1>5, <1>6, <1>7, <1>8, <1>9 DEF Due, PostStep, Lands
<1>11. QED BY <1>4, <1>10, PostStepInv

\* No request holds anything before the first is admitted.
LEMMA InitKV == Init => KVInv({})
<1>1. SUFFICES ASSUME Init PROVE KVInv({})
  OBVIOUS
<1>2. /\ waiting = <<>> /\ decoding = <<>> /\ scheduled = <<>> /\ skipped = <<>> /\ pc = "idle"
      /\ resEnd = [s \in Seqs |-> 0] /\ kv = [s \in Seqs |-> 0] /\ resident = {}
      /\ inflight = [s \in Seqs |-> 0] /\ prefilled = [s \in Seqs |-> 0]
      /\ cursor = [s \in Seqs |-> NoReplay] /\ preempted = None
      /\ pendingReleases = {} /\ releaseFailed = {}
  BY <1>1 DEF Init
<1>3. Prefills = {} /\ Decodes = {} /\ Chosen = {}
  BY <1>2, EmptyFacts DEF Prefills, Decodes, Chosen
<1>4. \A s \in Seqs : ~Holds(s)
  BY <1>2 DEF Holds
<1>5. DebtInv
  BY <1>2 DEF DebtInv
<1>6. OwnerInv({})
  BY <1>2, <1>3, <1>4 DEF OwnerInv
<1>7. RowInv
  BY <1>3 DEF RowInv, Broken
<1>8. ProgressInv
  BY <1>2, <1>3 DEF ProgressInv, InCall, NothingInFlight, IsReplay
<1>9. QED BY <1>5, <1>6, <1>7, <1>8 DEF KVInv

\* Every step of a schedule() call keeps the memory invariant.
LEMMA SchedulingKV == ASSUME NEW X, MemInv(X), Scheduling PROVE KVInv(X)'
<1>1. UNCHANGED engineVars /\ ScheduleStep
  BY DEF Scheduling
<1>2. CASE AcquireWindow
  BY <1>1, <1>2, AcquireKV
<1>3. CASE Preempts
  BY <1>1, <1>3, PreemptKV
<1>4. CASE StartPrefill \/ AffinityPrefill
  BY <1>1, <1>4, StartPrefillMoves
<1>5. CASE StartAffinity \/ AffinityScan \/ AffinityDecode
  BY <1>1, <1>5, AffinityMoves
<1>6. CASE PrefillSkip \/ PrefillDefer
  BY <1>1, <1>6, PassOverMoves
<1>7. CASE PrefillTake
  BY <1>1, <1>7, PrefillTakeKV
<1>8. CASE NextBucket \/ PrefillReturn \/ StartDecode
  BY <1>1, <1>8, BucketMoves
<1>9. CASE DecodeRotate \/ DecodeTake \/ DecodeBlock
  BY <1>1, <1>9, DecodeScanMoves
<1>10. CASE DecodeReturn \/ NothingToRun
  BY <1>1, <1>10, DecodeReturnMoves
<1>11. QED
  BY <1>1, <1>2, <1>3, <1>4, <1>5, <1>6, <1>7, <1>8, <1>9, <1>10 DEF ScheduleStep, Preempts

\* Every step of the engine keeps the memory invariant.
LEMMA NextKV == ASSUME MemInv({}), NothingInFlight, Next PROVE KVInv({})'
<1>1. ASSUME NEW s \in Seqs, AdmitRequest(s) PROVE KVInv({})'
  BY <1>1, AdmitKV
<1>2. ASSUME NEW s \in Seqs, AbortRequest(s) PROVE KVInv({})'
  BY <1>2, AbortKV
<1>3. CASE StepSync
  BY <1>3, EnterMoves DEF StepSync
<1>4. CASE StepRefused \/ ReclaimDone \/ StartRelease \/ StepDone
  BY <1>4, StepEndsKV
<1>5. CASE Scheduling
  BY <1>5, SchedulingKV
<1>6. CASE HookFault
  BY <1>6, HookFaultKV
<1>7. CASE StepWithoutBatch
  BY <1>7, WithoutBatchKV
<1>8. CASE RunModel
  BY <1>8, RunModelKV
<1>9. CASE RunModelFails
  BY <1>9, RunFailsKV
<1>10. CASE ReclaimOne \/ ReleaseFinished
  BY <1>10, ReleasesKV
<1>11. CASE PostPartialPrefill
  BY <1>11, PostPartialKV
<1>12. CASE PostLastPrefill
  BY <1>12, PostLastKV
<1>13. CASE PostDecode
  BY <1>13, PostDecodeKV
<1>14. QED
  BY <1>1, <1>2, <1>3, <1>4, <1>5, <1>6, <1>7, <1>8, <1>9, <1>10, <1>11, <1>12, <1>13
  DEF Next, Driver, SyncStep

\* The synchronous engine leaves no token in flight.
LEMMA SyncInflight == ASSUME [Next]_vars PROVE inflight' = inflight
<1>1. ASSUME NEW s \in Seqs, AdmitRequest(s) \/ AbortRequest(s) PROVE inflight' = inflight
  BY <1>1 DEF AdmitRequest, AbortRequest
<1>2. ASSUME NEW v, NEW others, PreemptDecodeVictim(v, others) PROVE inflight' = inflight
  BY <1>2 DEF PreemptDecodeVictim
<1>3. ASSUME NEW q, OpenPrefill(q) PROVE inflight' = inflight
  BY <1>3 DEF OpenPrefill
<1>4. CASE Scheduling
  BY <1>2, <1>3, <1>4 DEF Scheduling, ScheduleStep, AcquireWindow, PreemptUnreserved, StartPrefill,
     StartAffinity, AffinityScan, AffinityDecode, AffinityPrefill, PrefillSkip, PrefillDefer,
     PrefillTake, NextBucket, PrefillReturn, PreemptSoleUnreserved, StartDecode, DecodeRotate,
     DecodeTake, DecodeBlock, DecodePreempt, DecodeReturn, NothingToRun
<1>5. CASE StepSync \/ StepRefused \/ SyncStep
  BY <1>5 DEF StepSync, Schedule, StepRefused, SyncStep, HookFault, PrefillHookFails,
     StepWithoutBatch, RunModel, RunModelFails, ReclaimOne, ReclaimDone, PostPartialPrefill,
     PostLastPrefill, PostDecode, PostTail, StartRelease, ReleaseFinished, StepDone
<1>6. CASE UNCHANGED vars
  BY <1>6 DEF vars, schedVars
<1>7. QED BY <1>1, <1>4, <1>5, <1>6 DEF Next, Driver

\* A step that changes no variable keeps the memory invariant.
LEMMA StutterKV == ASSUME NEW X, KVInv(X), UNCHANGED vars PROVE KVInv(X)'
<1>1. UNCHANGED <<schedVars, engineVars>>
  BY DEF vars
<1>2. UNCHANGED <<waiting, decoding, scheduled, skipped, pc, error, asyncInflight, isPrefill, preempted, kv, resident, resEnd,
                  prefilled, tokens, cursor, inflight, status, chunk, pendingReleases, releaseFailed>>
  BY <1>1 DEF schedVars, queueVars, seqVars, memVars, scanVars, retVars, engineVars
<1>3. Prefills' = Prefills /\ Decodes' = Decodes /\ Chosen' = Chosen
  BY <1>2 DEF Prefills, Decodes, Chosen
<1>4. \A s : Holds(s)' = Holds(s) /\ Written(s)' = Written(s)
  BY <1>2 DEF Holds, Written, StepSlots
<1>5. \A s : DecodeInputPosition(s)' = DecodeInputPosition(s) /\ IsReplay(s)' = IsReplay(s)
          /\ Submitted(s)' = Submitted(s)
  BY <1>2, SamePosition
<1>6. DebtInv'
  BY <1>2 DEF KVInv, DebtInv
<1>7. OwnerInv(X)'
  BY <1>2, <1>3, <1>4 DEF KVInv, OwnerInv
<1>8. RowInv'
  BY <1>2, <1>3, <1>4, <1>5 DEF KVInv, RowInv, Broken
<1>9. ProgressInv'
  BY <1>2, <1>3, <1>5 DEF KVInv, ProgressInv, InCall, NothingInFlight
<1>10. QED BY <1>6, <1>7, <1>8, <1>9 DEF KVInv

\* MemoryInv is inductive: admission, every step of schedule(), the run, its
\* failure, postprocessing, releases that fail and cancellation all keep it.
THEOREM MemoryInvariance == Spec => []MemoryInv
<1>1. Init => MemoryInv
  BY InitInv, InitKV DEF MemoryInv, Init, NothingInFlight
<1>2. MemoryInv /\ [Next]_vars => MemoryInv'
  <2>1. SUFFICES ASSUME MemoryInv, [Next]_vars PROVE MemoryInv'
    OBVIOUS
  <2>2. MemInv({}) /\ IInv /\ NothingInFlight
    BY <2>1 DEF MemoryInv, MemInv
  <2>3. NothingInFlight'
    BY <2>1, <2>2, SyncInflight DEF NothingInFlight
  <2>4. IInv'
    BY <2>1, <2>2, NextInv
  <2>5. KVInv({})'
    <3>1. CASE Next
      BY <2>2, <3>1, NextKV
    <3>2. CASE UNCHANGED vars
      BY <2>2, <3>2, StutterKV DEF MemInv
    <3>3. QED BY <2>1, <3>1, <3>2
  <2>6. QED BY <2>3, <2>4, <2>5 DEF MemoryInv
<1>3. QED BY <1>1, <1>2, PTL DEF Spec

\* Whoever holds slots, a row or a decode reservation is found by the next
\* abort_request or by the release that is owed, after any failure: KV is
\* never orphaned.
THEOREM NoKVOrphaned == Spec => []NoOrphanKV
<1>1. MemoryInv => NoOrphanKV
  <2>1. SUFFICES ASSUME MemoryInv PROVE NoOrphanKV
    OBVIOUS
  <2>2. OwnerInv({})
    BY <2>1 DEF MemoryInv, KVInv
  <2>3. \A s \in Prefills : s \in Range(waiting) \/ s \in Popped
    BY DEF Prefills, Chosen, Popped
  <2>4. \A s \in Decodes : s \in Range(decoding) \/ s \in Popped
    BY DEF Decodes, Popped
  <2>5. QED BY <2>2, <2>3, <2>4 DEF OwnerInv, NoOrphanKV, MayOwnSlots, Holds
<1>2. QED BY <1>1, MemoryInvariance, PTL

\* Between steps every row ends exactly where the next forward of its request
\* writes, in first generation and in recompute replay alike.
THEOREM RowsMatchHistory == Spec => []KVMatchesHistory
<1>1. MemoryInv => KVMatchesHistory
  <2>1. SUFFICES ASSUME MemoryInv, pc = "idle", pendingReleases = {}
                 PROVE  /\ \A s \in Range(decoding) : kv[s] = DecodeInputPosition(s)
                        /\ \A s \in Range(waiting) : kv[s] = prefilled[s]
    BY DEF KVMatchesHistory
  <2>2. Parts /\ RowInv /\ DebtInv
    BY <2>1, PartsOfInv DEF MemoryInv, KVInv
  <2>3. releaseFailed = {} /\ preempted = None /\ None \notin Seqs
    BY <2>1, <2>2, SchedulerAssumption DEF DebtInv
  <2>4. \A s : Written(s) = 0
    BY <2>1 DEF Written
  <2>5. ASSUME NEW s \in Range(decoding) PROVE kv[s] = DecodeInputPosition(s)
    <3>1. s \in Decodes /\ s \in Seqs
      BY <2>2, <2>5 DEF Decodes, Parts
    <3>2. kv[s] = DecodeInputPosition(s) + 0
      BY <2>1, <2>2, <2>3, <2>4, <3>1 DEF RowInv, Broken
    <3>3. /\ tokens[s] \in Nat /\ inflight[s] \in Nat /\ cursor[s] \in Nat \cup {NoReplay}
          /\ PromptLen[s] \in Nat
      BY <2>2, <3>1, SchedulerAssumption DEF Parts, TypeOK, RequestTypes
    <3>4. DecodeInputPosition(s) \in Int
      BY <3>3 DEF DecodeInputPosition, Submitted
    <3>5. QED BY <3>2, <3>4
  <2>6. ASSUME NEW s \in Range(waiting) PROVE kv[s] = prefilled[s]
    <3>1. s \in Prefills /\ s \in Seqs
      BY <2>2, <2>6 DEF Prefills, Parts
    <3>2. kv[s] = prefilled[s] + 0
      BY <2>1, <2>2, <2>3, <2>4, <3>1 DEF RowInv, Broken
    <3>3. prefilled[s] \in Nat
      BY <2>2, <3>1 DEF Parts, TypeOK, RequestTypes
    <3>4. QED BY <3>2, <3>3
  <2>7. QED BY <2>5, <2>6
<1>2. QED BY <1>1, MemoryInvariance, PTL
=============================================================================
