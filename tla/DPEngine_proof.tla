--------------------------- MODULE DPEngine_proof ---------------------------
(***************************************************************************)
(* Proofs about the data-parallel engine (DPEngine): for any number of     *)
(* replicas, requests and chains, the frontend's tables agree with the     *)
(* replicas between calls, and no reply is taken for that to another call. *)
(***************************************************************************)
EXTENDS DPEngine, SequenceTheorems, FiniteSetTheorems, TLAPS

USE DPAssumption DEF vars

-----------------------------------------------------------------------------
(* The inductive invariant *)

Replies == [ok : BOOLEAN, known : SUBSET Chains, rows : SUBSET Ids, done : SUBSET Ids]
Fronts ==
  [owners : [Ids -> (Ranks \X Ids) \cup {None}], ids : [Ranks \X Ids -> Ids \cup {None}],
   chain_owners : [Chains -> Ranks \cup {None}], chain_seq_ids : SUBSET Ids,
   chain_sequences : [Chains -> Ids \cup {None}], active : [Ranks -> SUBSET Ids],
   next : Nat \ {0}]
Workers ==
  [alive : BOOLEAN, run : SUBSET Ids, rec : [Chains -> Ids \cup {None}], tomb : Seq(Chains),
   next : Nat \ {0}, at : {"idle", "control", "step", "meet", "ran"}, out : Seq(Replies)]

TypeOK ==
  /\ mode \in Modes
  /\ front \in Fronts
  /\ worker \in [Ranks -> Workers]
  /\ call \in [kind : {"none", "step", "control"}, pending : SUBSET Ranks,
               got : [Ranks -> Replies \cup {None}]]
  /\ engine \in {"up", "closed", "stale"}
  /\ nextChain \in Nat \ {0} /\ faults \in Nat
  /\ replaced \subseteq Ranks \X Ids

\* What a replica has in its pipe, and what the frontend took from it.
PipeOK(r) ==
  LET W == worker[r]
  IN  /\ Len(W.out) <= 1
      /\ W.at # "idle" => W.alive /\ W.out = <<>>
      /\ W.at \in {"step", "meet", "ran"} => call.kind = "step" /\ r \in call.pending
      /\ W.out # <<>> =>
           /\ Head(W.out).known = Known(W)
           /\ Head(W.out).done \subseteq Head(W.out).rows
           /\ Head(W.out).done \cap W.run = {}
           /\ call.kind # "step" => Head(W.out).done = {}
      /\ call.kind = "none" => call.pending = {}
      /\ call.kind # "none" /\ r \notin call.pending =>
           /\ Quiet(r)
           /\ call.got[r] \in Replies
           /\ call.got[r].done \subseteq call.got[r].rows
           /\ call.got[r].done \cap W.run = {}
           /\ call.kind = "control" => call.got[r].done = {}

\* With every replica alive, exactly the pending ones owe a reply.
RepliesOwed ==
  Dead = {} => engine # "stale" /\ (engine = "up" => \A r \in Ranks : Quiet(r) <=> r \notin call.pending)

PipesOK == (\A r \in Ranks : PipeOK(r)) /\ RepliesOwed

\* Finished in the step under way, and the frontend does not know yet.
Unreported(r) ==
  {s \in Ids : \/ worker[r].out # <<>> /\ s \in Head(worker[r].out).done
               \/ call.kind # "none" /\ r \notin call.pending /\ s \in call.got[r].done}

\* The running requests, as far as the frontend can know, and the resident
\* chains, by replica.
Running == {p \in Ranks \X Ids : p[2] \in worker[p[1]].run \/ p[2] \in Unreported(p[1])}
Resident == [r \in Ranks |-> worker[r].rec]

(* The tables alone: F are the frontend's tables and R the identities      *)
(* whose chain was recreated.                                              *)

\* owners and ids are inverse to each other.
IdsInverse(F) == \A g \in Ids, p \in Ranks \X Ids : F.owners[g] = p <=> F.ids[p] = g

\* Ids not handed out yet appear nowhere.
FreshIds(F) ==
  \A g \in Ids : g >= F.next =>
    /\ F.owners[g] = None /\ g \notin F.chain_seq_ids
    /\ \A r \in Ranks : g \notin F.active[r]
    /\ \A c \in Chains : F.chain_sequences[c] # g

\* The tables of chains agree with each other.
ChainTables(F) ==
  /\ \A g \in F.chain_seq_ids : F.owners[g] # None /\ \E c \in Chains : F.chain_sequences[c] = g
  /\ \A c \in Chains : F.chain_owners[c] = None <=> F.chain_sequences[c] = None
  /\ \A c \in Chains, g \in Ids : F.chain_sequences[c] = g /\ F.owners[g] # None =>
       g \in F.chain_seq_ids /\ F.owners[g][1] = F.chain_owners[c]

\* Two chains share an id only after one replaced the other.
SharedIds(F, R) ==
  \A c \in Chains, d \in Chains, g \in Ids :
    /\ c # d /\ F.chain_sequences[c] = g /\ F.chain_sequences[d] = g /\ F.owners[g] # None
    => F.owners[g] \in R

\* Every id is kept for a request or for a chain.
IdsNeeded(F) ==
  \A g \in Ids : F.owners[g] # None => g \in F.active[F.owners[g][1]] \/ g \in F.chain_seq_ids

TablesOK(F, R) ==
  IdsInverse(F) /\ FreshIds(F) /\ ChainTables(F) /\ SharedIds(F, R) /\ IdsNeeded(F)

(* The tables and the replicas: run are the running requests and rec the   *)
(* resident chains.                                                        *)

\* An active id is that of a running request of the replica.
ActiveRuns(F, run, R) ==
  \A r \in Ranks, g \in Ids : g \in F.active[r] =>
    /\ F.owners[g] = None => R # {}
    /\ F.owners[g] # None => F.owners[g][1] = r /\ F.owners[g] \in run

\* A running request has an id, which is active, and keeps its chain.
RunsKnown(F, run, rec, R) ==
  \A p \in run \ R :
    /\ F.ids[p] \in F.active[p[1]]
    /\ F.ids[p] \in F.chain_seq_ids => \E c \in Chains : rec[p[1]][c] = p[2]

\* A resident chain has the id of its sequence.
Routed(F, rec, R) ==
  \A r \in Ranks, c \in Chains : rec[r][c] # None /\ <<r, rec[r][c]>> \notin R =>
    /\ F.chain_sequences[c] # None /\ F.chain_owners[c] = r
    /\ F.owners[F.chain_sequences[c]] = <<r, rec[r][c]>>

Named(F, rec) ==
  \A r \in Ranks, c \in Chains :
    LET p == F.owners[F.chain_sequences[c]]
    IN  rec[r][c] # None /\ F.chain_sequences[c] # None /\ p # None => p = <<r, rec[r][c]>>

ChainsKnown(F, rec, R) == Routed(F, rec, R) /\ Named(F, rec)

\* A chain is resident on one replica.
OneReplica(rec) ==
  \A q \in Ranks, r \in Ranks, c \in Chains : rec[q][c] # None /\ rec[r][c] # None => q = r

Agree(F, run, rec, R) ==
  /\ ActiveRuns(F, run, R) /\ RunsKnown(F, run, rec, R)
  /\ ChainsKnown(F, rec, R) /\ OneReplica(rec)

\* Sequence and chain ids not handed out yet appear nowhere.
FreshNames(F) ==
  /\ \A r \in Ranks, s \in Ids : s >= worker[r].next =>
       /\ s \notin worker[r].run /\ \A c \in Chains : worker[r].rec[c] # s
       /\ F.ids[<<r, s>>] = None /\ <<r, s>> \notin replaced
  /\ \A c \in Chains : c >= nextChain =>
       F.chain_sequences[c] = None /\ \A r \in Ranks : worker[r].rec[c] = None

DPInv ==
  /\ TypeOK /\ PipesOK
  /\ TablesOK(front, replaced)
  /\ engine = "up" => Agree(front, Running, Resident, replaced) /\ FreshNames(front)

-----------------------------------------------------------------------------
(* The operations of the frontend on its tables *)

\* Forget clears the ids of a set in both directions.
LEMMA ForgetFacts ==
  ASSUME NEW F \in Fronts, NEW gone \in SUBSET Ids
  PROVE  LET H == Forget(F, gone)
         IN  /\ H \in Fronts
             /\ H.active = F.active /\ H.next = F.next
             /\ H.chain_owners = F.chain_owners /\ H.chain_sequences = F.chain_sequences
             /\ H.chain_seq_ids = F.chain_seq_ids
             /\ \A g \in Ids : H.owners[g] = IF g \in gone THEN None ELSE F.owners[g]
             /\ \A p \in Ranks \X Ids :
                  H.ids[p] = IF \E g \in gone : F.owners[g] = p THEN None ELSE F.ids[p]
BY DEF Fronts, Forget

\* _release_request_identity clears the ids that no chain holds.
LEMMA ReleaseFacts ==
  ASSUME NEW F \in Fronts, NEW G
  PROVE  LET H == ReleaseIdentity(F, G)
             gone == {g \in Ids : g \in G /\ F.owners[g] # None /\ g \notin F.chain_seq_ids}
         IN  /\ H \in Fronts
             /\ H.active = F.active /\ H.next = F.next
             /\ H.chain_owners = F.chain_owners /\ H.chain_sequences = F.chain_sequences
             /\ H.chain_seq_ids = F.chain_seq_ids
             /\ \A g \in Ids : H.owners[g] = IF g \in gone THEN None ELSE F.owners[g]
             /\ \A p \in Ranks \X Ids :
                  H.ids[p] = IF \E g \in gone : F.owners[g] = p THEN None ELSE F.ids[p]
BY ForgetFacts DEF ReleaseIdentity

\* A snapshot clears the chains the replica forgot, and their ids.
Gone(F, r, known) == {c \in Chains : F.chain_owners[c] = r /\ c \notin known}
GoneIds(F, r, known) == {g \in Ids : \E c \in Gone(F, r, known) : F.chain_sequences[c] = g}

IsHeard(H, F, r, known) ==
  LET gone == Gone(F, r, known)
      G == GoneIds(F, r, known)
  IN  /\ H.active = F.active /\ H.next = F.next
      /\ \A c \in Chains : H.chain_owners[c] = IF c \in gone THEN None ELSE F.chain_owners[c]
      /\ \A c \in Chains :
           H.chain_sequences[c] = IF c \in gone THEN None ELSE F.chain_sequences[c]
      /\ H.chain_seq_ids = F.chain_seq_ids \ G
      /\ \A g \in Ids : H.owners[g] = IF g \in G THEN None ELSE F.owners[g]
      /\ \A p \in Ranks \X Ids :
           H.ids[p] = IF \E g \in G : F.owners[g] = p THEN None ELSE F.ids[p]

\* A front that has heard a replica's known chains is a front, and what it holds.
LEMMA HeardFacts ==
  ASSUME NEW F \in Fronts, NEW r \in Ranks, NEW known
  PROVE  Heard(F, r, known) \in Fronts /\ IsHeard(Heard(F, r, known), F, r, known)
<1> DEFINE gone == {c \in Chains : F.chain_owners[c] = r /\ c \notin known}
           X == {F.chain_sequences[c] : c \in gone}
           E == [F EXCEPT
                  !.chain_owners = [c \in Chains |-> IF c \in gone THEN None ELSE F.chain_owners[c]],
                  !.chain_sequences = [c \in Chains |-> IF c \in gone THEN None ELSE F.chain_sequences[c]],
                  !.chain_seq_ids = @ \ X]
<1>1. /\ E \in Fronts /\ E.active = F.active /\ E.next = F.next
      /\ E.owners = F.owners /\ E.ids = F.ids /\ E.chain_seq_ids = F.chain_seq_ids \ X
      /\ \A c \in Chains : E.chain_owners[c] = IF c \in gone THEN None ELSE F.chain_owners[c]
      /\ \A c \in Chains : E.chain_sequences[c] = IF c \in gone THEN None ELSE F.chain_sequences[c]
  BY DEF Fronts
<1>2. Heard(F, r, known) = ReleaseIdentity(E, X)
  BY DEF Heard, ExpireChains
<1>3. /\ F.chain_seq_ids \subseteq Ids /\ DOMAIN F.owners = Ids
      /\ \A g \in Ids : g \in X <=> \E c \in gone : F.chain_sequences[c] = g
  BY DEF Fronts
<1> HIDE DEF E, X, gone
<1>4. LET H == ReleaseIdentity(E, X)
          G == {g \in Ids : \E c \in gone : F.chain_sequences[c] = g}
      IN  /\ H \in Fronts /\ H.active = F.active /\ H.next = F.next
          /\ \A c \in Chains : H.chain_owners[c] = IF c \in gone THEN None ELSE F.chain_owners[c]
          /\ \A c \in Chains :
               H.chain_sequences[c] = IF c \in gone THEN None ELSE F.chain_sequences[c]
          /\ H.chain_seq_ids = F.chain_seq_ids \ G
          /\ \A g \in Ids : H.owners[g] = IF g \in G THEN None ELSE F.owners[g]
          /\ \A p \in Ranks \X Ids :
               H.ids[p] = IF \E g \in G : F.owners[g] = p THEN None ELSE F.ids[p]
  BY <1>1, <1>3, ReleaseFacts
<1> QED
  BY <1>2, <1>4 DEF gone, IsHeard, Gone, GoneIds

\* What a request that is over for good leaves behind.
IsDropped(H, F, r, g) ==
  /\ H.next = F.next
  /\ H.chain_owners = F.chain_owners /\ H.chain_sequences = F.chain_sequences
  /\ H.chain_seq_ids = F.chain_seq_ids \ {g}
  /\ \A q \in Ranks, h \in Ids : h \in H.active[q] <=> h \in F.active[q] /\ ~(q = r /\ h = g)
  /\ \A h \in Ids : H.owners[h] = IF h = g THEN None ELSE F.owners[h]
  /\ \A p \in Ranks \X Ids : H.ids[p] = IF F.owners[g] = p THEN None ELSE F.ids[p]

\* A front that dropped a request is a front, and what it holds.
LEMMA DroppedFacts ==
  ASSUME NEW F \in Fronts, NEW r \in Ranks, NEW g \in Ids
  PROVE  Dropped(F, r, g) \in Fronts /\ IsDropped(Dropped(F, r, g), F, r, g)
<1> DEFINE E == [F EXCEPT !.active[r] = @ \ {g}, !.chain_seq_ids = @ \ {g}]
<1>1. /\ E \in Fronts /\ E.next = F.next /\ E.owners = F.owners /\ E.ids = F.ids
      /\ E.chain_owners = F.chain_owners /\ E.chain_sequences = F.chain_sequences
      /\ E.chain_seq_ids = F.chain_seq_ids \ {g}
      /\ \A q \in Ranks, h \in Ids : h \in E.active[q] <=> h \in F.active[q] /\ ~(q = r /\ h = g)
  BY DEF Fronts
<1>2. Dropped(F, r, g) = ReleaseIdentity(E, {g})
  BY DEF Dropped
<1> HIDE DEF E
<1> QED
  BY <1>1, <1>2, ReleaseFacts DEF IsDropped

\* The id that admit_request gives a sequence.
GivenId(F, r, s) == IF F.ids[<<r, s>>] = None THEN F.next ELSE F.ids[<<r, s>>]

\* What admit_request enters.
IsRegistered(H, F, r, s, c) ==
  LET g == GivenId(F, r, s)
  IN  /\ g \in Ids /\ F.owners[g] \in {None, <<r, s>>}
      /\ F.ids[<<r, s>>] # None => g < F.next /\ H.next = F.next /\ F.owners[g] = <<r, s>>
      /\ F.ids[<<r, s>>] = None => g = F.next /\ H.next = F.next + 1
      /\ \A h \in Ids : H.owners[h] = IF h = g THEN <<r, s>> ELSE F.owners[h]
      /\ \A p \in Ranks \X Ids : H.ids[p] = IF p = <<r, s>> THEN g ELSE F.ids[p]
      /\ \A q \in Ranks, h \in Ids : h \in H.active[q] <=> h \in F.active[q] \/ (q = r /\ h = g)
      /\ \A h \in Ids : h \in H.chain_seq_ids <=> h \in F.chain_seq_ids \/ (c # None /\ h = g)
      /\ \A d \in Chains : H.chain_owners[d] = IF d = c THEN r ELSE F.chain_owners[d]
      /\ \A d \in Chains : H.chain_sequences[d] = IF d = c THEN g ELSE F.chain_sequences[d]

\* A front that registered a request is a front, and what it holds.
LEMMA RegisteredFacts ==
  ASSUME NEW F \in Fronts, NEW r \in Ranks, NEW s \in Ids, NEW c \in Chains \cup {None},
         F.next \in Ids, IdsInverse(F), FreshIds(F)
  PROVE  Registered(F, r, s, c) \in Fronts /\ IsRegistered(Registered(F, r, s, c), F, r, s, c)
<1> DEFINE g == GivenId(F, r, s)
           E == [F EXCEPT !.next = IF g = F.next THEN @ + 1 ELSE @,
                          !.ids[<<r, s>>] = g, !.owners[g] = <<r, s>>, !.active[r] = @ \cup {g}]
<1>1. /\ g \in Ids /\ F.owners[g] \in {None, <<r, s>>}
      /\ F.ids[<<r, s>>] # None => g < F.next /\ F.owners[g] = <<r, s>>
      /\ F.ids[<<r, s>>] = None => g = F.next
  <2>1. /\ <<r, s>> \in Ranks \X Ids /\ F.ids[<<r, s>>] \in Ids \cup {None} /\ F.next \in Nat
        /\ Ids \subseteq Nat /\ <<r, s>> # None
    BY DEF Fronts, Ids
  <2>2. CASE F.ids[<<r, s>>] = None
    BY <2>1, <2>2 DEF GivenId, FreshIds
  <2>3. CASE F.ids[<<r, s>>] # None
    <3>1. g = F.ids[<<r, s>>]
      BY <2>3 DEF GivenId
    <3> HIDE DEF g
    <3>2. g \in Ids /\ g \in Nat
      BY <2>1, <2>3, <3>1
    <3>3. F.owners[g] = <<r, s>>
      BY <2>1, <3>1, <3>2 DEF IdsInverse
    <3>4. ~(g >= F.next)
      BY <2>1, <3>2, <3>3 DEF FreshIds
    <3> QED
      BY <2>1, <2>3, <3>2, <3>3, <3>4
  <2> QED
    BY <2>2, <2>3
<1> HIDE DEF g
<1>2. /\ E \in Fronts
      /\ g = F.next => E.next = F.next + 1
      /\ g # F.next => E.next = F.next
      /\ E.chain_owners = F.chain_owners /\ E.chain_sequences = F.chain_sequences
      /\ E.chain_seq_ids = F.chain_seq_ids
      /\ \A h \in Ids : E.owners[h] = IF h = g THEN <<r, s>> ELSE F.owners[h]
      /\ \A p \in Ranks \X Ids : E.ids[p] = IF p = <<r, s>> THEN g ELSE F.ids[p]
      /\ \A q \in Ranks, h \in Ids : h \in E.active[q] <=> h \in F.active[q] \/ (q = r /\ h = g)
  <2>1. /\ <<r, s>> \in Ranks \X Ids /\ DOMAIN F.owners = Ids /\ DOMAIN F.ids = Ranks \X Ids
        /\ DOMAIN F.active = Ranks /\ F.next \in Nat \ {0} /\ g \in Ids
    BY <1>1 DEF Fronts
  <2>2. /\ [F.owners EXCEPT ![g] = <<r, s>>] \in [Ids -> (Ranks \X Ids) \cup {None}]
        /\ [F.ids EXCEPT ![<<r, s>>] = g] \in [Ranks \X Ids -> Ids \cup {None}]
        /\ [F.active EXCEPT ![r] = @ \cup {g}] \in [Ranks -> SUBSET Ids]
        /\ (IF g = F.next THEN F.next + 1 ELSE F.next) \in Nat \ {0}
    BY <2>1 DEF Fronts
  <2>3. /\ E.owners = [F.owners EXCEPT ![g] = <<r, s>>]
        /\ E.ids = [F.ids EXCEPT ![<<r, s>>] = g]
        /\ E.active = [F.active EXCEPT ![r] = @ \cup {g}]
        /\ E.next = IF g = F.next THEN F.next + 1 ELSE F.next
        /\ E.chain_owners = F.chain_owners /\ E.chain_sequences = F.chain_sequences
        /\ E.chain_seq_ids = F.chain_seq_ids
    BY DEF Fronts
  <2>4. E \in Fronts
    BY <2>2 DEF Fronts
  <2> HIDE DEF E
  <2> QED
    BY <2>1, <2>3, <2>4
<1>3. Registered(F, r, s, c) =
        IF c = None THEN E
        ELSE [E EXCEPT !.chain_owners[c] = r, !.chain_seq_ids = @ \cup {g}, !.chain_sequences[c] = g]
  BY DEF Registered, g, GivenId
<1> HIDE DEF E
<1>4. F.next \in Nat /\ g \in Nat /\ \A d \in Chains : d # None
  BY <1>1 DEF Fronts, Ids, Chains
<1>5. CASE c = None
  BY <1>1, <1>2, <1>3, <1>4, <1>5 DEF g, IsRegistered
<1>6. CASE c # None
  <2> DEFINE H == [E EXCEPT !.chain_owners[c] = r, !.chain_seq_ids = @ \cup {g},
                            !.chain_sequences[c] = g]
  <2>1. /\ H \in Fronts /\ H.next = E.next /\ H.active = E.active
        /\ H.owners = E.owners /\ H.ids = E.ids
        /\ H.chain_seq_ids = E.chain_seq_ids \cup {g}
        /\ \A d \in Chains : H.chain_owners[d] = IF d = c THEN r ELSE E.chain_owners[d]
        /\ \A d \in Chains : H.chain_sequences[d] = IF d = c THEN g ELSE E.chain_sequences[d]
    BY <1>1, <1>2, <1>6, ZenonT(60) DEF Fronts
  <2>2. Registered(F, r, s, c) = H
    BY <1>3, <1>6
  <2> HIDE DEF H
  <2> QED
    BY <1>1, <1>2, <1>4, <1>6, <2>1, <2>2 DEF g, IsRegistered
<1> QED
  BY <1>5, <1>6

-----------------------------------------------------------------------------
(* What the operations preserve *)

\* The facts about the types of the tables that the next proofs use.
Typed(F) ==
  /\ \A g \in Ids : F.owners[g] \in (Ranks \X Ids) \cup {None}
  /\ \A p \in Ranks \X Ids : F.ids[p] \in Ids \cup {None}
  /\ \A c \in Chains : F.chain_sequences[c] \in Ids \cup {None}
  /\ \A c \in Chains : F.chain_owners[c] \in Ranks \cup {None}
  /\ \A r \in Ranks : F.active[r] \subseteq Ids
  /\ F.chain_seq_ids \subseteq Ids /\ F.next \in Nat

Pairs ==
  /\ \A p \in Ranks \X Ids : p # None /\ p[1] \in Ranks /\ p[2] \in Ids /\ p = <<p[1], p[2]>>
  /\ \A r \in Ranks, s \in Ids : <<r, s>> \in Ranks \X Ids /\ <<r, s>>[1] = r /\ <<r, s>>[2] = s
  /\ \A g \in Ids : g # None /\ g \in Nat
  /\ \A r \in Ranks : r # None
  /\ \A c \in Chains : c # None /\ c \in Nat

\* The types of a front's fields, one by one.
LEMMA FrontFacts ==
  ASSUME NEW F \in Fronts
  PROVE  Typed(F)
BY DEF Fronts, Typed

\* What the provers need of pairs of a rank and an id.
LEMMA PairFacts == Pairs
<1>1. \A r \in Ranks : r # None
  BY DEF Ranks
<1>2. /\ \A g \in Ids : g # None /\ g \in Nat
      /\ \A c \in Chains : c # None /\ c \in Nat
  BY DEF Ids, Chains
<1>3. \A p \in Ranks \X Ids : p # None /\ p[1] \in Ranks /\ p[2] \in Ids /\ p = <<p[1], p[2]>>
  OBVIOUS
<1>4. \A r \in Ranks, s \in Ids : <<r, s>> \in Ranks \X Ids /\ <<r, s>>[1] = r /\ <<r, s>>[2] = s
  OBVIOUS
<1> QED
  BY <1>1, <1>2, <1>3, <1>4 DEF Pairs

\* A snapshot keeps the tables consistent.
LEMMA HeardTables ==
  ASSUME NEW F \in Fronts, NEW r \in Ranks, NEW known, NEW R, TablesOK(F, R)
  PROVE  TablesOK(Heard(F, r, known), R)
<1> DEFINE H == Heard(F, r, known)
           gone == Gone(F, r, known)
           G == GoneIds(F, r, known)
<1>0. Typed(F) /\ Pairs
  BY FrontFacts, PairFacts
<1>1. IsHeard(H, F, r, known)
  BY HeardFacts
<1>2. /\ gone \subseteq Chains /\ G \subseteq Ids
      /\ \A c \in gone : F.chain_owners[c] = r
      /\ \A c \in gone, g \in Ids : F.chain_sequences[c] = g => g \in G
  BY DEF Gone, GoneIds
<1> HIDE DEF H
<1>4. IdsInverse(H)
  BY <1>0, <1>1, <1>2 DEF TablesOK, IdsInverse, IsHeard, Typed, Pairs
<1>5. FreshIds(H)
  BY <1>0, <1>1, <1>2 DEF TablesOK, FreshIds, IsHeard, Typed, Pairs
<1>6. ChainTables(H)
  BY <1>0, <1>1, <1>2 DEF TablesOK, ChainTables, IsHeard, Typed, Pairs
<1>7. SharedIds(H, R)
  BY <1>0, <1>1, <1>2 DEF TablesOK, SharedIds, IsHeard, Typed, Pairs
<1>8. IdsNeeded(H)
  BY <1>0, <1>1, <1>2 DEF TablesOK, IdsNeeded, IsHeard, Typed, Pairs
<1> QED
  BY <1>4, <1>5, <1>6, <1>7, <1>8 DEF H, TablesOK

\* Aborting or discarding a request keeps the tables consistent.
LEMMA DroppedTables ==
  ASSUME NEW F \in Fronts, NEW r \in Ranks, NEW g \in Ids, NEW R, TablesOK(F, R),
         F.owners[g] # None => F.owners[g][1] = r
  PROVE  TablesOK(Dropped(F, r, g), R)
<1> DEFINE H == Dropped(F, r, g)
<1>0. Typed(F) /\ Pairs
  BY FrontFacts, PairFacts
<1>1. IsDropped(H, F, r, g)
  BY DroppedFacts
<1> HIDE DEF H
<1>2. IdsInverse(H)
  BY <1>1, <1>0 DEF TablesOK, IdsInverse, IsDropped, Typed, Pairs
<1>3. FreshIds(H)
  <2> SUFFICES ASSUME NEW h \in Ids, h >= F.next
               PROVE  /\ H.owners[h] = None /\ h \notin H.chain_seq_ids
                      /\ \A q \in Ranks : h \notin H.active[q]
                      /\ \A c \in Chains : H.chain_sequences[c] # h
    BY <1>1 DEF FreshIds, IsDropped
  <2> QED
    BY <1>1, <1>0 DEF TablesOK, FreshIds, IsDropped
<1>4. ChainTables(H)
  BY <1>1, <1>0 DEF TablesOK, ChainTables, IsDropped, Typed, Pairs
<1>5. SharedIds(H, R)
  BY <1>1, <1>0 DEF TablesOK, SharedIds, IsDropped, Typed, Pairs
<1>6. IdsNeeded(H)
  <2> SUFFICES ASSUME NEW h \in Ids, H.owners[h] # None
               PROVE  h \in H.active[H.owners[h][1]] \/ h \in H.chain_seq_ids
    BY DEF IdsNeeded
  <2>1. h # g /\ H.owners[h] = F.owners[h] /\ H.owners[h][1] \in Ranks
    BY <1>1, <1>0 DEF IsDropped, Typed, Pairs
  <2> QED
    BY <1>1, <2>1 DEF TablesOK, IdsNeeded, IsDropped
<1> QED
  BY <1>2, <1>3, <1>4, <1>5, <1>6 DEF H, TablesOK

\* What admit_request relies on when it enters a sequence and its chain: the
\* chain is new or already that of the sequence.
CanEnter(F, r, s, c, R) ==
  c # None =>
    /\ \A g \in Ids : F.chain_sequences[c] = g /\ F.owners[g] # None => F.owners[g] = <<r, s>>
    /\ \/ <<r, s>> \in R \/ F.ids[<<r, s>>] = None
       \/ F.chain_sequences[c] = F.ids[<<r, s>>]

\* The id that admit_request gives is that of the sequence or unused.
GivenOK(F, r, s) ==
  LET g == GivenId(F, r, s)
  IN  /\ g \in Ids
      /\ F.ids[<<r, s>>] # None => g = F.ids[<<r, s>>] /\ F.owners[g] = <<r, s>>
      /\ F.ids[<<r, s>>] = None =>
           /\ F.owners[g] = None /\ g \notin F.chain_seq_ids
           /\ \A d \in Chains : F.chain_sequences[d] # g
           /\ \A q \in Ranks : g \notin F.active[q]
      /\ \A p \in Ranks \X Ids : F.ids[p] = g => p = <<r, s>>

\* The tables stay exact when a request is given its global id.
LEMMA GivenFacts ==
  ASSUME NEW F \in Fronts, NEW r \in Ranks, NEW s \in Ids, NEW c \in Chains \cup {None}, NEW H,
         IsRegistered(H, F, r, s, c), FreshIds(F), IdsInverse(F)
  PROVE  GivenOK(F, r, s)
<1> DEFINE g == GivenId(F, r, s)
<1>0. Typed(F) /\ Pairs
  BY FrontFacts, PairFacts
<1>1. F.ids[<<r, s>>] # None => g = F.ids[<<r, s>>] /\ F.owners[g] = <<r, s>>
  BY DEF GivenId, IsRegistered
<1>2. g \in Ids /\ (F.ids[<<r, s>>] = None => g = F.next)
  BY DEF GivenId, IsRegistered
<1> HIDE DEF g
<1>3. ASSUME F.ids[<<r, s>>] = None
      PROVE  /\ F.owners[g] = None /\ g \notin F.chain_seq_ids
             /\ \A d \in Chains : F.chain_sequences[d] # g
             /\ \A q \in Ranks : g \notin F.active[q]
  <2>1. g >= F.next
    BY <1>0, <1>2, <1>3 DEF Typed
  <2> QED
    BY <1>2, <2>1 DEF FreshIds
<1>4. \A p \in Ranks \X Ids : F.ids[p] = g => p = <<r, s>>
  BY <1>0, <1>1, <1>2, <1>3 DEF IdsInverse, Pairs
<1> QED
  BY <1>1, <1>2, <1>3, <1>4 DEF g, GivenOK

\* Admitting a request keeps the tables consistent.
LEMMA RegisteredTables ==
  ASSUME NEW F \in Fronts, NEW r \in Ranks, NEW s \in Ids, NEW c \in Chains \cup {None}, NEW R,
         TablesOK(F, R), F.next \in Ids, CanEnter(F, r, s, c, R)
  PROVE  TablesOK(Registered(F, r, s, c), R)
<1> DEFINE H == Registered(F, r, s, c)
           g == GivenId(F, r, s)
<1>0. Typed(F) /\ Typed(H) /\ Pairs
  BY RegisteredFacts, FrontFacts, PairFacts DEF TablesOK
<1>1. IsRegistered(H, F, r, s, c)
  BY RegisteredFacts DEF TablesOK
<1> HIDE DEF H
<1>2. GivenOK(F, r, s)
  BY <1>1, GivenFacts DEF TablesOK
<1>4. IdsInverse(H)
  BY <1>0, <1>1, <1>2 DEF TablesOK, IdsInverse, IsRegistered, GivenOK, Typed, Pairs
<1>5. FreshIds(H)
  <2> SUFFICES ASSUME NEW h \in Ids, h >= H.next
               PROVE  /\ H.owners[h] = None /\ h \notin H.chain_seq_ids
                      /\ \A q \in Ranks : h \notin H.active[q]
                      /\ \A d \in Chains : H.chain_sequences[d] # h
    BY DEF FreshIds
  <2>1. h >= F.next /\ h # g
    BY <1>0, <1>1, <1>2 DEF IsRegistered, GivenOK, Typed, Pairs
  <2>2. /\ F.owners[h] = None /\ h \notin F.chain_seq_ids
        /\ \A q \in Ranks : h \notin F.active[q]
        /\ \A d \in Chains : F.chain_sequences[d] # h
    BY <2>1 DEF FreshIds, TablesOK
  <2> QED
    BY <1>1, <2>1, <2>2 DEF IsRegistered, GivenOK
<1>6. \A h \in Ids : F.chain_sequences[c] = h /\ h \in F.chain_seq_ids /\ c # None => h = g
  BY <1>0, <1>2 DEF CanEnter, TablesOK, ChainTables, IdsInverse, GivenOK, Typed, Pairs
<1>7. ChainTables(H)
  <2>1. ASSUME NEW h \in H.chain_seq_ids
        PROVE  H.owners[h] # None /\ \E d \in Chains : H.chain_sequences[d] = h
    <3>0. h \in Ids
      BY <1>0, <2>1 DEF Typed
    <3>1. CASE h = g
      BY <1>0, <1>1, <1>2, <3>1, <2>1 DEF TablesOK, ChainTables, IsRegistered, GivenOK, Typed, Pairs
    <3>2. CASE h # g
      <4>1. h \in F.chain_seq_ids /\ H.owners[h] = F.owners[h]
        BY <1>1, <2>1, <3>0, <3>2 DEF IsRegistered
      <4>2. F.owners[h] # None /\ \E d \in Chains : F.chain_sequences[d] = h
        BY <4>1 DEF TablesOK, ChainTables
      <4>3. PICK d \in Chains : F.chain_sequences[d] = h
        BY <4>2
      <4>4. d # c
        BY <1>0, <1>6, <3>0, <3>2, <4>1, <4>3 DEF Pairs
      <4> QED
        BY <1>1, <4>1, <4>2, <4>3, <4>4 DEF IsRegistered
    <3> QED
      BY <3>1, <3>2
  <2>2. \A d \in Chains : H.chain_owners[d] = None <=> H.chain_sequences[d] = None
    BY <1>0, <1>1, <1>2 DEF TablesOK, ChainTables, IsRegistered, GivenOK, Pairs
  <2>3. ASSUME NEW d \in Chains, NEW h \in Ids, H.chain_sequences[d] = h, H.owners[h] # None
        PROVE  h \in H.chain_seq_ids /\ H.owners[h][1] = H.chain_owners[d]
    BY <1>0, <1>1, <1>2, <2>3 DEF TablesOK, ChainTables, IsRegistered, GivenOK, Pairs
  <2> QED
    BY <2>1, <2>2, <2>3 DEF ChainTables
<1>8. SharedIds(H, R)
  BY <1>0, <1>1, <1>2 DEF CanEnter, TablesOK, SharedIds, IsRegistered, GivenOK, Typed, Pairs
<1>9. IdsNeeded(H)
  <2> SUFFICES ASSUME NEW h \in Ids, H.owners[h] # None
               PROVE  h \in H.active[H.owners[h][1]] \/ h \in H.chain_seq_ids
    BY DEF IdsNeeded
  <2>1. CASE h = g
    BY <1>0, <1>1, <2>1 DEF IsRegistered, GivenOK, Pairs
  <2>2. CASE h # g
    <3>1. H.owners[h] = F.owners[h] /\ H.owners[h][1] \in Ranks
      BY <1>0, <1>1, <2>2 DEF IsRegistered, GivenOK, Typed, Pairs
    <3> QED
      BY <1>1, <3>1 DEF TablesOK, IdsNeeded, IsRegistered
  <2> QED
    BY <2>1, <2>2
<1> QED
  BY <1>4, <1>5, <1>7, <1>8, <1>9 DEF H, TablesOK

\* What a finished step leaves of the tables: the requests in done leave.
IsReturned(H, F, done) ==
  /\ H.next = F.next /\ H.chain_owners = F.chain_owners
  /\ H.chain_sequences = F.chain_sequences /\ H.chain_seq_ids = F.chain_seq_ids
  /\ \A r \in Ranks, g \in Ids :
       g \in H.active[r] <=> g \in F.active[r] /\ \A p \in done : p[1] = r => F.ids[p] # g
  /\ \A g \in Ids : H.owners[g] = IF (\E p \in done : F.ids[p] = g) /\ g \notin F.chain_seq_ids
                                  THEN None ELSE F.owners[g]
  /\ \A p \in Ranks \X Ids :
       H.ids[p] = IF p \in done /\ F.ids[p] \notin F.chain_seq_ids THEN None ELSE F.ids[p]

\* The tables stay exact when a step returns finished requests.
LEMMA ReturnedFacts ==
  ASSUME NEW F \in Fronts, NEW done \in SUBSET (Ranks \X Ids), IdsInverse(F),
         \A p \in done : F.ids[p] # None
  PROVE  LET active == [r \in Ranks |-> {g \in F.active[r] :
                                           \A p \in done : p[1] = r => F.ids[p] # g}]
             H == ReleaseIdentity([F EXCEPT !.active = active], {F.ids[p] : p \in done})
         IN  H \in Fronts /\ IsReturned(H, F, done)
<1> DEFINE active == [r \in Ranks |-> {g \in F.active[r] :
                                         \A p \in done : p[1] = r => F.ids[p] # g}]
           E == [F EXCEPT !.active = active]
           X == {F.ids[p] : p \in done}
           H == ReleaseIdentity(E, X)
           gone == {g \in Ids : g \in X /\ E.owners[g] # None /\ g \notin E.chain_seq_ids}
<1>0. Typed(F) /\ Pairs
  BY FrontFacts, PairFacts
<1>1. /\ E \in Fronts /\ E.next = F.next /\ E.chain_owners = F.chain_owners
      /\ E.chain_sequences = F.chain_sequences /\ E.chain_seq_ids = F.chain_seq_ids
      /\ E.owners = F.owners /\ E.ids = F.ids /\ E.active = active
  BY DEF Fronts
<1>2. \A r \in Ranks, g \in Ids :
        g \in active[r] <=> g \in F.active[r] /\ \A p \in done : p[1] = r => F.ids[p] # g
  OBVIOUS
<1> HIDE DEF E, active
<1>3. /\ H \in Fronts /\ H.active = E.active /\ H.next = E.next
      /\ H.chain_owners = E.chain_owners /\ H.chain_sequences = E.chain_sequences
      /\ H.chain_seq_ids = E.chain_seq_ids
      /\ \A g \in Ids : H.owners[g] = IF g \in gone THEN None ELSE E.owners[g]
      /\ \A p \in Ranks \X Ids :
           H.ids[p] = IF \E g \in gone : E.owners[g] = p THEN None ELSE E.ids[p]
  BY <1>1, ReleaseFacts
<1>4. \A g \in Ids : g \in gone <=> (\E p \in done : F.ids[p] = g) /\ g \notin F.chain_seq_ids
  BY <1>0, <1>1 DEF IdsInverse, Pairs
<1>5. \A p \in Ranks \X Ids :
        (\E g \in gone : E.owners[g] = p) <=> p \in done /\ F.ids[p] \notin F.chain_seq_ids
  <2> SUFFICES ASSUME NEW p \in Ranks \X Ids
               PROVE  (\E g \in gone : F.owners[g] = p) <=>
                        p \in done /\ F.ids[p] \notin F.chain_seq_ids
    BY <1>1
  <2>1. ASSUME NEW g \in gone, F.owners[g] = p
        PROVE  p \in done /\ F.ids[p] \notin F.chain_seq_ids
    <3>1. g \in Ids /\ F.ids[p] = g
      BY <2>1 DEF IdsInverse
    <3>2. PICK q \in done : F.ids[q] = g
      BY <1>4, <2>1
    <3>3. F.owners[g] = q
      BY <3>1, <3>2 DEF IdsInverse
    <3> QED
      BY <1>4, <2>1, <3>1, <3>2, <3>3
  <2>2. ASSUME p \in done, F.ids[p] \notin F.chain_seq_ids
        PROVE  \E g \in gone : F.owners[g] = p
    <3>1. F.ids[p] \in Ids
      BY <1>0, <2>2 DEF Typed
    <3>2. F.ids[p] \in gone
      BY <1>4, <2>2, <3>1
    <3> QED
      BY <3>1, <3>2 DEF IdsInverse
  <2> QED
    BY <2>1, <2>2
<1> HIDE DEF H, gone
<1>6. IsReturned(H, F, done)
  BY <1>1, <1>2, <1>3, <1>4, <1>5 DEF IsReturned
<1> QED
  BY <1>3, <1>6 DEF H, E, X, active

\* The end of a step keeps the tables consistent.
LEMMA ReturnedTables ==
  ASSUME NEW F \in Fronts, NEW H \in Fronts, NEW done \in SUBSET (Ranks \X Ids), NEW R,
         TablesOK(F, R), IsReturned(H, F, done)
  PROVE  TablesOK(H, R)
<1>0. Typed(F) /\ Pairs
  BY FrontFacts, PairFacts
<1>1. IdsInverse(H)
  BY <1>0 DEF TablesOK, IdsInverse, IsReturned, Typed, Pairs
<1>2. FreshIds(H)
  <2> SUFFICES ASSUME NEW h \in Ids, h >= F.next
               PROVE  /\ H.owners[h] = None /\ h \notin H.chain_seq_ids
                      /\ \A q \in Ranks : h \notin H.active[q]
                      /\ \A c \in Chains : H.chain_sequences[c] # h
    BY DEF FreshIds, IsReturned
  <2> QED
    BY DEF TablesOK, FreshIds, IsReturned
<1>3. ChainTables(H)
  BY <1>0 DEF TablesOK, ChainTables, IsReturned, Typed
<1>4. SharedIds(H, R)
  BY <1>0 DEF TablesOK, SharedIds, IsReturned, Typed
<1>5. IdsNeeded(H)
  <2> SUFFICES ASSUME NEW h \in Ids, H.owners[h] # None, h \notin F.chain_seq_ids
               PROVE  h \in H.active[H.owners[h][1]]
    BY DEF IdsNeeded, IsReturned
  <2>1. H.owners[h] = F.owners[h] /\ \A p \in done : F.ids[p] # h
    BY DEF IsReturned
  <2>2. F.owners[h][1] \in Ranks
    BY <1>0, <2>1 DEF Typed, Pairs
  <2> QED
    BY <2>1, <2>2 DEF TablesOK, IdsNeeded, IsReturned
<1> QED
  BY <1>1, <1>2, <1>3, <1>4, <1>5 DEF TablesOK

-----------------------------------------------------------------------------
(* The tables and the replicas *)

Runs == SUBSET (Ranks \X Ids)
Recs == [Ranks -> [Chains -> Ids \cup {None}]]

\* What a snapshot makes the frontend forget is not in use.
LEMMA GoneUnused ==
  ASSUME NEW F \in Fronts, NEW r \in Ranks, NEW known, NEW R, NEW run \in Runs, NEW rec \in Recs,
         TablesOK(F, R), RunsKnown(F, run, rec, R), ChainsKnown(F, rec, R),
         \A c \in Chains : rec[r][c] # None => c \in known,
         NEW g \in GoneIds(F, r, known), NEW p \in Ranks \X Ids, F.owners[g] = p, p \notin R
  PROVE  p \notin run /\ \A c \in Chains : rec[p[1]][c] # p[2]
<1>0. Typed(F) /\ Pairs
  BY FrontFacts, PairFacts
<1>1. PICK c \in Chains : F.chain_owners[c] = r /\ c \notin known /\ F.chain_sequences[c] = g
  BY DEF GoneIds, Gone
<1>2. g \in Ids /\ F.owners[g] # None /\ F.ids[p] = g
  BY <1>0 DEF GoneIds, TablesOK, IdsInverse, Pairs
<1>3. g \in F.chain_seq_ids /\ p[1] = r
  BY <1>1, <1>2 DEF TablesOK, ChainTables
<1>4. ASSUME NEW d \in Chains, rec[r][d] = p[2]
      PROVE  FALSE
  <2>1. F.chain_sequences[d] # None /\ F.owners[F.chain_sequences[d]] = p
    <3>1. rec[r][d] # None /\ <<r, rec[r][d]>> = p
      BY <1>0, <1>3, <1>4 DEF Pairs
    <3> QED
      BY <3>1 DEF ChainsKnown, Routed
  <2>2. F.chain_sequences[d] = g
    BY <1>0, <1>2, <2>1 DEF Typed, TablesOK, IdsInverse
  <2>3. d = c
    BY <1>1, <1>2, <2>2 DEF TablesOK, SharedIds
  <2> QED
    BY <1>0, <1>1, <1>4, <2>3 DEF Pairs
<1>5. p \notin run
  BY <1>2, <1>3, <1>4 DEF RunsKnown
<1> QED
  BY <1>3, <1>4, <1>5

\* A snapshot leaves what runs and what is resident known.
LEMMA HeardKnown ==
  ASSUME NEW F \in Fronts, NEW r \in Ranks, NEW known, NEW R, NEW run \in Runs, NEW rec \in Recs,
         TablesOK(F, R), RunsKnown(F, run, rec, R), ChainsKnown(F, rec, R),
         \A c \in Chains : rec[r][c] # None => c \in known
  PROVE  /\ RunsKnown(Heard(F, r, known), run, rec, R)
         /\ ChainsKnown(Heard(F, r, known), rec, R)
<1> DEFINE H == Heard(F, r, known)
           G == GoneIds(F, r, known)
<1>0. Typed(F) /\ Pairs /\ G \subseteq Ids
  BY FrontFacts, PairFacts DEF GoneIds
<1>1. IsHeard(H, F, r, known)
  BY HeardFacts
<1>2. \A g \in G, p \in Ranks \X Ids : F.owners[g] = p /\ p \notin R =>
        p \notin run /\ \A c \in Chains : rec[p[1]][c] # p[2]
  BY GoneUnused
<1> HIDE DEF H
<1>3. RunsKnown(H, run, rec, R)
  <2> SUFFICES ASSUME NEW p \in run \ R
               PROVE  /\ H.ids[p] \in H.active[p[1]]
                      /\ H.ids[p] \in H.chain_seq_ids => \E c \in Chains : rec[p[1]][c] = p[2]
    BY DEF RunsKnown
  <2>1. p \in Ranks \X Ids
    BY DEF Runs
  <2>2. H.ids[p] = F.ids[p]
    BY <1>1, <1>2, <2>1 DEF IsHeard
  <2> QED
    BY <1>1, <2>2 DEF IsHeard, RunsKnown
<1>4. Routed(H, rec, R)
  <2> SUFFICES ASSUME NEW q \in Ranks, NEW c \in Chains, NEW p \in Ranks \X Ids,
                      rec[q][c] # None, p = <<q, rec[q][c]>>, p \notin R
               PROVE  /\ H.chain_sequences[c] # None /\ H.chain_owners[c] = q
                      /\ H.owners[H.chain_sequences[c]] = p
    BY <1>0 DEF Routed, Recs, Pairs
  <2> DEFINE g == F.chain_sequences[c]
  <2>1. g # None /\ F.chain_owners[c] = q /\ F.owners[g] = p
    BY DEF ChainsKnown, Routed
  <2>2. c \notin Gone(F, r, known)
    BY <1>0, <2>1 DEF Gone, Pairs
  <2>3. g \in Ids /\ g \notin G
    BY <1>0, <1>2, <2>1 DEF Typed, Pairs
  <2> QED
    BY <1>1, <2>1, <2>2, <2>3 DEF IsHeard
<1>5. Named(H, rec)
  <2>1. ASSUME NEW c \in Chains, H.chain_sequences[c] # None, H.owners[H.chain_sequences[c]] # None
        PROVE  /\ H.chain_sequences[c] = F.chain_sequences[c]
               /\ H.owners[H.chain_sequences[c]] = F.owners[F.chain_sequences[c]]
    BY <1>0, <1>1, <2>1 DEF IsHeard, Typed
  <2> QED
    BY <2>1 DEF ChainsKnown, Named
<1> QED
  BY <1>3, <1>4, <1>5 DEF H, ChainsKnown

\* A snapshot of a replica keeps the agreement.
LEMMA HeardAgrees ==
  ASSUME NEW F \in Fronts, NEW r \in Ranks, NEW known, NEW R, NEW run \in Runs, NEW rec \in Recs,
         TablesOK(F, R), Agree(F, run, rec, R),
         \A c \in Chains : rec[r][c] # None => c \in known
  PROVE  Agree(Heard(F, r, known), run, rec, R)
<1> DEFINE H == Heard(F, r, known)
           G == GoneIds(F, r, known)
<1>0. Typed(F) /\ Pairs /\ G \subseteq Ids
  BY FrontFacts, PairFacts DEF GoneIds
<1>1. IsHeard(H, F, r, known)
  BY HeardFacts
<1>2. RunsKnown(F, run, rec, R) /\ ChainsKnown(F, rec, R)
  BY DEF Agree
<1>3. \A g \in G, p \in Ranks \X Ids : F.owners[g] = p /\ p \notin R => p \notin run
  BY <1>2, GoneUnused
<1>4. RunsKnown(H, run, rec, R) /\ ChainsKnown(H, rec, R)
  BY <1>2, HeardKnown
<1> HIDE DEF H
<1>5. ActiveRuns(H, run, R)
  BY <1>0, <1>1, <1>3 DEF Agree, ActiveRuns, IsHeard, Typed
<1> QED
  BY <1>4, <1>5 DEF H, Agree

\* Evicting idle chains keeps the agreement.
LEMMA EvictAgrees ==
  ASSUME NEW F \in Fronts, NEW R, NEW run \in Runs, NEW rec \in Recs, NEW rec2 \in Recs,
         Agree(F, run, rec, R),
         \A r \in Ranks, c \in Chains :
           \/ rec2[r][c] = rec[r][c]
           \/ rec2[r][c] = None /\ (<<r, rec[r][c]>> \in R \/ <<r, rec[r][c]>> \notin run)
  PROVE  Agree(F, run, rec2, R)
<1>0. Typed(F) /\ Pairs
  BY FrontFacts, PairFacts
<1>1. RunsKnown(F, run, rec2, R)
  <2> SUFFICES ASSUME NEW p \in run \ R, F.ids[p] \in F.chain_seq_ids
               PROVE  \E c \in Chains : rec2[p[1]][c] = p[2]
    BY DEF RunsKnown, Agree
  <2>1. PICK c \in Chains : rec[p[1]][c] = p[2]
    BY DEF RunsKnown, Agree
  <2>2. p \in Ranks \X Ids
    BY DEF Runs
  <2>3. p[1] \in Ranks /\ p = <<p[1], rec[p[1]][c]>>
    BY <1>0, <2>1, <2>2 DEF Pairs
  <2> QED
    BY <2>1, <2>3
<1>2. \A r \in Ranks, c \in Chains : rec2[r][c] # None => rec2[r][c] = rec[r][c]
  OBVIOUS
<1>3. ChainsKnown(F, rec2, R)
  BY <1>0, <1>2, SMTT(60) DEF Agree, ChainsKnown, Routed, Named, Pairs
<1>4. OneReplica(rec2)
  BY <1>2 DEF Agree, OneReplica
<1> QED
  BY <1>1, <1>3, <1>4 DEF Agree

\* The identities of a set that grows are excepted.
LEMMA MoreReplaced ==
  ASSUME NEW F \in Fronts, NEW R, NEW R2, NEW run \in Runs, NEW rec \in Recs, R \subseteq R2
  PROVE  /\ TablesOK(F, R) => TablesOK(F, R2)
         /\ Agree(F, run, rec, R) => Agree(F, run, rec, R2)
<1>1. SharedIds(F, R) => SharedIds(F, R2)
  BY DEF SharedIds
<1>2. ActiveRuns(F, run, R) => ActiveRuns(F, run, R2)
  BY DEF ActiveRuns
<1>3. RunsKnown(F, run, rec, R) => RunsKnown(F, run, rec, R2)
  BY DEF RunsKnown
<1>4. ChainsKnown(F, rec, R) => ChainsKnown(F, rec, R2)
  BY DEF ChainsKnown, Routed, Named
<1> QED
  BY <1>1, <1>2, <1>3, <1>4 DEF TablesOK, Agree

\* Admitting a request keeps the agreement.
LEMMA RegisteredAgrees ==
  ASSUME NEW F \in Fronts, NEW r \in Ranks, NEW s \in Ids, NEW c \in Chains \cup {None}, NEW R,
         NEW run \in Runs, NEW rec \in Recs, NEW rec2 \in Recs,
         TablesOK(F, R), Agree(F, run, rec, R), F.next \in Ids, CanEnter(F, r, s, c, R),
         c = None => F.ids[<<r, s>>] = None,
         c # None => rec[r][c] \in {None, s} /\ \A q \in Ranks \ {r} : rec[q][c] = None,
         \A q \in Ranks, d \in Chains :
           rec2[q][d] = IF q = r /\ d = c THEN s ELSE rec[q][d]
  PROVE  Agree(Registered(F, r, s, c), run \cup {<<r, s>>}, rec2, R)
<1> DEFINE H == Registered(F, r, s, c)
           g == GivenId(F, r, s)
           run2 == run \cup {<<r, s>>}
<1>0. Typed(F) /\ Typed(H) /\ Pairs
  BY RegisteredFacts, FrontFacts, PairFacts DEF TablesOK
<1>1. IsRegistered(H, F, r, s, c)
  BY RegisteredFacts DEF TablesOK
<1>2. GivenOK(F, r, s)
  BY <1>1, GivenFacts DEF TablesOK
<1> HIDE DEF H
<1>3. ActiveRuns(H, run2, R)
  <2> SUFFICES ASSUME NEW q \in Ranks, NEW h \in Ids, h \in H.active[q]
               PROVE  /\ H.owners[h] = None => R # {}
                      /\ H.owners[h] # None => H.owners[h][1] = q /\ H.owners[h] \in run2
    BY DEF ActiveRuns
  <2>1. CASE h = g
    <3>1. q = r
      BY <1>0, <1>1, <1>2, <2>1 DEF IsRegistered, GivenOK, Agree, ActiveRuns, Pairs
    <3> QED
      BY <1>0, <1>1, <2>1, <3>1 DEF IsRegistered, Pairs
  <2>2. CASE h # g
    BY <1>1, <2>2 DEF IsRegistered, Agree, ActiveRuns
  <2> QED
    BY <2>1, <2>2
<1>4. RunsKnown(H, run2, rec2, R)
  <2> SUFFICES ASSUME NEW p \in run2 \ R
               PROVE  /\ H.ids[p] \in H.active[p[1]]
                      /\ H.ids[p] \in H.chain_seq_ids => \E d \in Chains : rec2[p[1]][d] = p[2]
    BY DEF RunsKnown
  <2>1. CASE p = <<r, s>>
    <3>1. H.ids[p] = g /\ g \in H.active[r] /\ p[1] = r /\ p[2] = s
      BY <1>0, <1>1, <2>1 DEF IsRegistered, Pairs
    <3>2. ASSUME g \in H.chain_seq_ids
          PROVE  c \in Chains /\ rec2[r][c] = s
      BY <1>1, <1>2, <3>2 DEF IsRegistered, GivenOK
    <3> QED
      BY <3>1, <3>2
  <2>2. CASE p # <<r, s>>
    <3>1. p \in run \ R /\ p \in Ranks \X Ids /\ p[1] \in Ranks
      BY <1>0, <2>2 DEF Runs, Pairs
    <3>2. H.ids[p] = F.ids[p] /\ F.ids[p] \in F.active[p[1]] /\ F.ids[p] \in Ids
      BY <1>0, <1>1, <2>2, <3>1 DEF IsRegistered, Agree, RunsKnown, Typed
    <3>3. F.ids[p] # g
      BY <1>2, <2>2, <3>1 DEF GivenOK
    <3>4. ASSUME F.ids[p] \in F.chain_seq_ids
          PROVE  \E d \in Chains : rec2[p[1]][d] = p[2]
      <4>1. PICK d \in Chains : rec[p[1]][d] = p[2]
        BY <3>1, <3>4 DEF Agree, RunsKnown
      <4>2. ~(p[1] = r /\ d = c)
        BY <1>0, <2>2, <3>1, <4>1 DEF Pairs
      <4> QED
        BY <3>1, <4>1, <4>2
    <3> QED
      BY <1>1, <3>1, <3>2, <3>3, <3>4 DEF IsRegistered
  <2> QED
    BY <2>1, <2>2
<1>5. ChainsKnown(H, rec2, R)
  <2>1. /\ c # None => H.chain_sequences[c] = g /\ H.chain_owners[c] = r
        /\ H.owners[g] = <<r, s>> /\ g # None /\ <<r, s>> # None
    BY <1>0, <1>1, <1>2 DEF IsRegistered, GivenOK, Pairs
  <2>2. \A q \in Ranks : c # None /\ rec2[q][c] # None => q = r /\ rec2[q][c] = s
    OBVIOUS
  <2>3. ASSUME NEW d \in Chains, d # c
        PROVE  /\ H.chain_sequences[d] = F.chain_sequences[d]
               /\ H.chain_owners[d] = F.chain_owners[d]
               /\ H.chain_sequences[d] # None =>
                    H.owners[F.chain_sequences[d]] = F.owners[F.chain_sequences[d]]
               /\ \A q \in Ranks : rec2[q][d] = rec[q][d]
    BY <1>0, <1>1, <1>2, <2>3 DEF IsRegistered, GivenOK, Typed
  <2>4. Routed(H, rec2, R)
    <3> SUFFICES ASSUME NEW q \in Ranks, NEW d \in Chains, rec2[q][d] # None,
                        <<q, rec2[q][d]>> \notin R
                 PROVE  /\ H.chain_sequences[d] # None /\ H.chain_owners[d] = q
                        /\ H.owners[H.chain_sequences[d]] = <<q, rec2[q][d]>>
      BY DEF Routed
    <3>1. CASE d = c
      BY <1>0, <2>1, <2>2, <3>1 DEF Pairs
    <3>2. CASE d # c
      BY <2>3, <3>2, SMTT(60) DEF Agree, ChainsKnown, Routed
    <3> QED
      BY <3>1, <3>2
  <2>5. Named(H, rec2)
    <3> SUFFICES ASSUME NEW q \in Ranks, NEW d \in Chains, rec2[q][d] # None,
                        H.chain_sequences[d] # None, H.owners[H.chain_sequences[d]] # None
                 PROVE  H.owners[H.chain_sequences[d]] = <<q, rec2[q][d]>>
      BY DEF Named
    <3>1. CASE d = c
      BY <1>0, <2>1, <2>2, <3>1 DEF Pairs
    <3>2. CASE d # c
      BY <2>3, <3>2, SMTT(60) DEF Agree, ChainsKnown, Named
    <3> QED
      BY <3>1, <3>2
  <2> QED
    BY <2>4, <2>5 DEF ChainsKnown
<1>6. OneReplica(rec2)
  BY <1>0 DEF Agree, OneReplica, Pairs
<1> QED
  BY <1>3, <1>4, <1>5, <1>6 DEF H, Agree

\* Aborting or discarding a request and its chain keeps the agreement.
LEMMA DroppedAgrees ==
  ASSUME NEW F \in Fronts, NEW r \in Ranks, NEW g \in Ids, NEW known, NEW R,
         NEW run \in Runs, NEW rec \in Recs, NEW rec2 \in Recs,
         TablesOK(F, R), Agree(F, run, rec, R),
         F.owners[g] # None, F.owners[g][1] = r,
         \A q \in Ranks, c \in Chains :
           rec2[q][c] = IF <<q, rec[q][c]>> = F.owners[g] THEN None ELSE rec[q][c],
         \A c \in Chains : rec2[r][c] # None => c \in known
  PROVE  Agree(Dropped(Heard(F, r, known), r, g), run \ {F.owners[g]}, rec2, R)
<1> DEFINE H == Heard(F, r, known)
           D == Dropped(H, r, g)
           G == GoneIds(F, r, known)
           p == F.owners[g]
           run2 == run \ {p}
<1>0. Typed(F) /\ Typed(H) /\ Pairs /\ G \subseteq Ids /\ H \in Fronts /\ run2 \in Runs
  BY FrontFacts, PairFacts, HeardFacts DEF GoneIds, Runs
<1>1. IsHeard(H, F, r, known) /\ IsDropped(D, H, r, g)
  BY <1>0, HeardFacts, DroppedFacts
<1>2. p \in Ranks \X Ids /\ F.ids[p] = g /\ F.owners[g] = p
  BY <1>0 DEF Typed, TablesOK, IdsInverse
<1> HIDE DEF p
<1>3. RunsKnown(F, run2, rec2, R)
  <2> SUFFICES ASSUME NEW q \in run2 \ R, F.ids[q] \in F.chain_seq_ids
               PROVE  \E c \in Chains : rec2[q[1]][c] = q[2]
    BY DEF RunsKnown, Agree
  <2>1. PICK c \in Chains : rec[q[1]][c] = q[2]
    BY DEF RunsKnown, Agree
  <2>2. q \in Ranks \X Ids
    BY <1>0 DEF Runs
  <2>3. q[1] \in Ranks /\ <<q[1], rec[q[1]][c]>> # p
    BY <1>0, <2>1, <2>2 DEF Pairs
  <2> QED
    BY <1>2, <2>1, <2>3
<1>4. \A q \in Ranks, c \in Chains : rec2[q][c] # None => rec2[q][c] = rec[q][c] /\ <<q, rec[q][c]>> # p
  BY <1>2
<1>5. ChainsKnown(F, rec2, R) /\ OneReplica(rec2)
  <2>1. ChainsKnown(F, rec2, R)
    <3>2. Routed(F, rec2, R)
      BY <1>4 DEF Agree, ChainsKnown, Routed
    <3>3. Named(F, rec2)
      BY <1>4 DEF Agree, ChainsKnown, Named
    <3> QED
      BY <3>2, <3>3 DEF ChainsKnown
  <2> QED
    BY <1>4, <2>1 DEF Agree, OneReplica
<1>6. RunsKnown(H, run2, rec2, R) /\ ChainsKnown(H, rec2, R)
  BY <1>0, <1>3, <1>5, HeardKnown
<1>7. \A h \in G, q \in Ranks \X Ids : F.owners[h] = q /\ q \notin R => q \notin run2
  BY <1>0, <1>3, <1>5, GoneUnused
<1>8. H.owners[g] \in {None, p} /\ \A q \in Ranks \X Ids : H.ids[q] = g => q = p
  <2>1. H.owners[g] \in {None, p}
    BY <1>1, <1>2 DEF IsHeard
  <2>2. \A q \in Ranks \X Ids : H.ids[q] = g => F.ids[q] = g
    BY <1>0, <1>1 DEF IsHeard, Pairs
  <2> QED
    BY <1>2, <2>1, <2>2 DEF TablesOK, IdsInverse
<1> HIDE DEF H, D, G
<1>9. ActiveRuns(D, run2, R)
  <2> SUFFICES ASSUME NEW q \in Ranks, NEW h \in Ids, h \in D.active[q]
               PROVE  /\ D.owners[h] = None => R # {}
                      /\ D.owners[h] # None => D.owners[h][1] = q /\ D.owners[h] \in run2
    BY DEF ActiveRuns
  <2>1. h \in F.active[q] /\ ~(q = r /\ h = g)
    <3>1. h \in H.active[q] /\ ~(q = r /\ h = g)
      BY <1>1 DEF IsDropped
    <3> QED
      BY <1>1, <3>1 DEF IsHeard
  <2>2. h # g
    BY <2>1 DEF Agree, ActiveRuns
  <2>3. CASE F.owners[h] = None
    BY <1>1, <2>1, <2>3 DEF Agree, ActiveRuns, IsDropped, IsHeard
  <2>4. CASE F.owners[h] # None
    <3>1. F.owners[h][1] = q /\ F.owners[h] \in run
      BY <2>1, <2>4 DEF Agree, ActiveRuns
    <3>2. F.owners[h] \in Ranks \X Ids /\ F.owners[h] # p
      BY <1>0, <1>2, <2>2, <2>4 DEF Typed, TablesOK, IdsInverse
    <3>3. F.owners[h] \in run2
      BY <3>1, <3>2
    <3>4. D.owners[h] = IF h \in G THEN None ELSE F.owners[h]
      BY <1>1, <2>2 DEF IsDropped, IsHeard, G
    <3> QED
      BY <1>7, <3>1, <3>2, <3>3, <3>4
  <2> QED
    BY <2>3, <2>4
<1>10. RunsKnown(D, run2, rec2, R)
  <2> SUFFICES ASSUME NEW q \in run2 \ R
               PROVE  /\ D.ids[q] \in D.active[q[1]]
                      /\ D.ids[q] \in D.chain_seq_ids => \E c \in Chains : rec2[q[1]][c] = q[2]
    BY DEF RunsKnown
  <2>1. q \in Ranks \X Ids /\ q[1] \in Ranks /\ q # p
    BY <1>0 DEF Runs, Pairs
  <2>2. D.ids[q] = H.ids[q] /\ H.ids[q] # g
    BY <1>0, <1>1, <1>8, <2>1 DEF IsDropped, Pairs
  <2>3. /\ H.ids[q] \in H.active[q[1]]
        /\ H.ids[q] \in H.chain_seq_ids => \E c \in Chains : rec2[q[1]][c] = q[2]
    BY <1>6 DEF RunsKnown
  <2>4. H.ids[q] \in Ids
    BY <1>0, <2>1, <2>3 DEF Typed
  <2> QED
    BY <1>1, <2>1, <2>2, <2>3, <2>4 DEF IsDropped
<1>11. ChainsKnown(D, rec2, R)
  <2>1. Routed(D, rec2, R)
    <3> SUFFICES ASSUME NEW q \in Ranks, NEW c \in Chains, rec2[q][c] # None,
                        <<q, rec2[q][c]>> \notin R
                 PROVE  /\ D.chain_sequences[c] # None /\ D.chain_owners[c] = q
                        /\ D.owners[D.chain_sequences[c]] = <<q, rec2[q][c]>>
      BY DEF Routed
    <3>1. /\ H.chain_sequences[c] # None /\ H.chain_owners[c] = q
          /\ H.owners[H.chain_sequences[c]] = <<q, rec2[q][c]>>
      BY <1>6 DEF ChainsKnown, Routed
    <3>2. <<q, rec2[q][c]>> # p /\ <<q, rec2[q][c]>> # None
      <4>1. rec2[q][c] \in Ids /\ <<q, rec2[q][c]>> # p
        BY <1>4 DEF Recs
      <4> QED
        BY <1>0, <4>1 DEF Pairs
    <3>3. H.chain_sequences[c] \in Ids /\ H.chain_sequences[c] # g
      BY <1>0, <1>8, <3>1, <3>2 DEF Typed
    <3> QED
      BY <1>1, <3>1, <3>3 DEF IsDropped
  <2>2. Named(D, rec2)
    <3>1. ASSUME NEW c \in Chains, D.chain_sequences[c] # None, D.owners[D.chain_sequences[c]] # None
          PROVE  /\ D.chain_sequences[c] = H.chain_sequences[c]
                 /\ D.owners[D.chain_sequences[c]] = H.owners[H.chain_sequences[c]]
      BY <1>0, <1>1, <3>1 DEF IsDropped, Typed
    <3> QED
      BY <1>6, <3>1 DEF ChainsKnown, Named
  <2> QED
    BY <2>1, <2>2 DEF ChainsKnown
<1> QED
  BY <1>5, <1>9, <1>10, <1>11 DEF D, H, Agree, p

\* The end of a step keeps the agreement: the finished requests leave.
LEMMA ReturnedAgrees ==
  ASSUME NEW F \in Fronts, NEW H \in Fronts, NEW done \in SUBSET (Ranks \X Ids), NEW R,
         NEW run \in Runs, NEW rec \in Recs,
         TablesOK(F, R), Agree(F, run, rec, R), IsReturned(H, F, done)
  PROVE  Agree(H, run \ done, rec, R)
<1>0. Typed(F) /\ Pairs
  BY FrontFacts, PairFacts
<1>1. ActiveRuns(H, run \ done, R)
  <2> SUFFICES ASSUME NEW q \in Ranks, NEW h \in Ids, h \in H.active[q]
               PROVE  /\ H.owners[h] = None => R # {}
                      /\ H.owners[h] # None => H.owners[h][1] = q /\ H.owners[h] \in run \ done
    BY DEF ActiveRuns
  <2>1. h \in F.active[q] /\ \A p \in done : p[1] = q => F.ids[p] # h
    BY DEF IsReturned
  <2>2. CASE F.owners[h] = None
    BY <2>1, <2>2 DEF IsReturned, Agree, ActiveRuns
  <2>3. CASE F.owners[h] # None
    <3>1. F.owners[h][1] = q /\ F.owners[h] \in run /\ F.owners[h] \in Ranks \X Ids
      BY <1>0, <2>1, <2>3 DEF Agree, ActiveRuns, Typed
    <3>2. F.ids[F.owners[h]] = h
      BY <3>1 DEF TablesOK, IdsInverse
    <3>3. \A p \in done : F.ids[p] # h
      BY <2>1, <3>1, <3>2 DEF TablesOK, IdsInverse
    <3> QED
      BY <2>3, <3>1, <3>2, <3>3 DEF IsReturned
  <2> QED
    BY <2>2, <2>3
<1>2. RunsKnown(H, run \ done, rec, R)
  <2> SUFFICES ASSUME NEW p \in (run \ done) \ R
               PROVE  /\ H.ids[p] \in H.active[p[1]]
                      /\ H.ids[p] \in H.chain_seq_ids => \E c \in Chains : rec[p[1]][c] = p[2]
    BY DEF RunsKnown
  <2>1. p \in Ranks \X Ids /\ p[1] \in Ranks
    BY <1>0 DEF Runs, Pairs
  <2>2. H.ids[p] = F.ids[p] /\ F.ids[p] \in F.active[p[1]] /\ F.ids[p] \in Ids
    BY <1>0, <2>1 DEF IsReturned, Agree, RunsKnown, Typed
  <2>3. \A q \in done : F.ids[q] # F.ids[p]
    BY <2>1, <2>2 DEF TablesOK, IdsInverse
  <2> QED
    BY <2>1, <2>2, <2>3 DEF IsReturned, Agree, RunsKnown
<1>3. Routed(H, rec, R)
  <2> SUFFICES ASSUME NEW q \in Ranks, NEW c \in Chains, rec[q][c] # None,
                      <<q, rec[q][c]>> \notin R
               PROVE  /\ H.chain_sequences[c] # None /\ H.chain_owners[c] = q
                      /\ H.owners[H.chain_sequences[c]] = <<q, rec[q][c]>>
    BY DEF Routed
  <2>1. /\ F.chain_sequences[c] # None /\ F.chain_owners[c] = q
        /\ F.owners[F.chain_sequences[c]] = <<q, rec[q][c]>>
    BY DEF Agree, ChainsKnown, Routed
  <2>2. rec[q][c] \in Ids
    BY DEF Recs
  <2>3. F.chain_sequences[c] \in Ids /\ F.chain_sequences[c] \in F.chain_seq_ids
    BY <1>0, <2>1, <2>2 DEF Typed, Pairs, TablesOK, ChainTables
  <2> QED
    BY <2>1, <2>3 DEF IsReturned
<1>4. Named(H, rec)
  <2>1. ASSUME NEW c \in Chains, H.chain_sequences[c] # None, H.owners[H.chain_sequences[c]] # None
        PROVE  /\ H.chain_sequences[c] = F.chain_sequences[c]
               /\ H.owners[H.chain_sequences[c]] = F.owners[F.chain_sequences[c]]
    BY <1>0, <2>1 DEF IsReturned, Typed
  <2> QED
    BY <2>1 DEF Agree, ChainsKnown, Named
<1> QED
  BY <1>1, <1>2, <1>3, <1>4 DEF Agree, ChainsKnown

-----------------------------------------------------------------------------
(* The replicas *)

\* The last elements of a sequence of chains are chains.
LEMMA LastChains ==
  ASSUME NEW q \in Seq(Chains), Len(q) > MaxTombstones
  PROVE  SubSeq(q, Len(q) - MaxTombstones + 1, Len(q)) \in Seq(Chains)
<1>1. Len(q) \in Nat /\ MaxTombstones \in Nat
  OBVIOUS
<1>2. \A i \in (Len(q) - MaxTombstones + 1)..Len(q) : q[i] \in Chains
  BY <1>1
<1> QED
  BY <1>1, <1>2, SubSeqProperties

\* A replica that forgets or admits is otherwise as before.
SameCall(V, W) == V.alive = W.alive /\ V.at = W.at /\ V.out = W.out

\* invalidate and evict clear the records of the chains they bury.
LEMMA BuryFacts ==
  ASSUME NEW W \in Workers, NEW gone \in Seq(Chains)
  PROVE  /\ Bury(W, gone) \in Workers /\ SameCall(Bury(W, gone), W)
         /\ Bury(W, gone).run = W.run /\ Bury(W, gone).next = W.next
         /\ \A c \in Chains : Bury(W, gone).rec[c] = IF c \in ToSet(gone) THEN None ELSE W.rec[c]
<1> DEFINE tomb == W.tomb \o gone
           cut == IF Len(tomb) <= MaxTombstones THEN tomb
                  ELSE SubSeq(tomb, Len(tomb) - MaxTombstones + 1, Len(tomb))
           rec == [c \in Chains |-> IF c \in ToSet(gone) THEN None ELSE W.rec[c]]
<1>1. W.tomb \in Seq(Chains) /\ W.rec \in [Chains -> Ids \cup {None}]
  BY DEF Workers
<1>2. tomb \in Seq(Chains)
  BY <1>1
<1> HIDE DEF tomb
<1>3. cut \in Seq(Chains)
  BY <1>2, LastChains
<1>4. rec \in [Chains -> Ids \cup {None}]
  BY <1>1
<1>5. Bury(W, gone) = [W EXCEPT !.rec = rec, !.tomb = cut]
  BY DEF Bury, tomb
<1>6. \A c \in Chains : rec[c] = IF c \in ToSet(gone) THEN None ELSE W.rec[c]
  OBVIOUS
<1> HIDE DEF rec, cut
<1>7. /\ [W EXCEPT !.rec = rec, !.tomb = cut] \in Workers
      /\ [W EXCEPT !.rec = rec, !.tomb = cut].rec = rec
      /\ [W EXCEPT !.rec = rec, !.tomb = cut].run = W.run
      /\ [W EXCEPT !.rec = rec, !.tomb = cut].next = W.next
      /\ SameCall([W EXCEPT !.rec = rec, !.tomb = cut], W)
  BY <1>3, <1>4 DEF Workers, SameCall
<1> QED
  BY <1>5, <1>6, <1>7

\* Evictions clear the records of idle chains only.
LEMMA EvictedFacts ==
  ASSUME NEW W \in Workers, NEW c, NEW E \in Evicted(W, c)
  PROVE  /\ E \in Workers /\ SameCall(E, W) /\ E.run = W.run /\ E.next = W.next
         /\ \A d \in Chains : \/ E.rec[d] = W.rec[d]
                              \/ E.rec[d] = None /\ d # c /\ W.rec[d] \notin W.run
<1> DEFINE idle == {d \in Chains \ {c} : W.rec[d] # None /\ W.rec[d] \notin W.run}
<1>0. PICK gone \in UNION {SetToSeqs(S) : S \in SUBSET idle} : E = Bury(W, gone)
  BY DEF Evicted
<1>1. PICK S \in SUBSET idle : gone \in SetToSeqs(S)
  BY <1>0
<1>2. gone \in [1..Cardinality(S) -> S]
  BY <1>1 DEF SetToSeqs
<1>3. IsFiniteSet(S)
  <2>1. IsFiniteSet(Chains)
    BY FS_Interval DEF Chains
  <2> QED
    BY <1>1, <2>1, FS_Subset
<1>4. Cardinality(S) \in Nat
  BY <1>3, FS_CardinalityType
<1>5. gone \in Seq(Chains) /\ ToSet(gone) \subseteq S
  <2>1. gone \in [1..Cardinality(S) -> Chains]
    BY <1>2
  <2>2. gone \in Seq(Chains)
    BY <1>4, <2>1
  <2> QED
    BY <1>2, <2>2 DEF ToSet
<1> QED
  BY <1>0, <1>1, <1>5, BuryFacts

\* SetToSeq lists a set of chains.
LEMMA ListChains ==
  ASSUME NEW S \in SUBSET Chains
  PROVE  SetToSeq(S) \in Seq(Chains) /\ ToSet(SetToSeq(S)) = S
<1> DEFINE n == Cardinality(S)
           f == SetToSeq(S)
<1>1. IsFiniteSet(S)
  <2>1. IsFiniteSet(Chains)
    BY FS_Interval DEF Chains
  <2> QED
    BY <2>1, FS_Subset
<1>2. n \in Nat /\ IsFiniteSet(1..n) /\ Cardinality(1..n) = n
  <2>1. n \in Nat
    BY <1>1, FS_CardinalityType
  <2> HIDE DEF n
  <2>2. 1 \in Int /\ n \in Int
    BY <2>1
  <2>3. IsFiniteSet(1..n) /\ (1 > n => Cardinality(1..n) = 0)
                          /\ (~(1 > n) => Cardinality(1..n) = n - 1 + 1)
    BY <2>2, FS_Interval
  <2> QED
    BY <2>1, <2>3
<1> HIDE DEF n
<1>3. ExistsBijection(1..n, S)
  BY <1>1, <1>2, FS_SameCardinalityBij DEF n
<1>4. \E g \in [1..n -> S] : IsInjective(g)
  BY <1>3 DEF ExistsBijection, Bijection, Injection
<1>5. f \in [1..n -> S] /\ IsInjective(f)
  BY <1>4 DEF SetToSeq, n
<1> HIDE DEF f
<1>6. f \in Injection(1..n, S)
  BY <1>5 DEF Injection
<1>7. f \in Surjection(1..n, S)
  BY <1>1, <1>2, <1>6, FS_Injection DEF n
<1>8. ToSet(f) = S
  BY <1>5, <1>7 DEF Surjection, ToSet
<1>9. f \in [1..n -> Chains]
  BY <1>5
<1>10. f \in Seq(Chains)
  BY <1>2, <1>9
<1> QED
  BY <1>8, <1>10 DEF f

\* Aborting a sequence clears it and its chains.
LEMMA WithoutFacts ==
  ASSUME NEW W \in Workers, NEW s \in Ids
  PROVE  LET V == Without(W, s)
         IN  /\ V \in Workers /\ SameCall(V, W) /\ V.run = W.run \ {s} /\ V.next = W.next
             /\ \A c \in Chains : V.rec[c] = IF W.rec[c] = s THEN None ELSE W.rec[c]
<1> DEFINE own == {c \in Chains : W.rec[c] = s}
           B == Bury(W, SetToSeq(own))
<1>1. SetToSeq(own) \in Seq(Chains) /\ ToSet(SetToSeq(own)) = own
  BY ListChains
<1>2. /\ B \in Workers /\ SameCall(B, W) /\ B.run = W.run /\ B.next = W.next
      /\ \A c \in Chains : B.rec[c] = IF c \in own THEN None ELSE W.rec[c]
  BY <1>1, BuryFacts
<1>3. Without(W, s) = [B EXCEPT !.run = @ \ {s}]
  BY DEF Without
<1> HIDE DEF B
<1>4. /\ [B EXCEPT !.run = @ \ {s}] \in Workers /\ SameCall([B EXCEPT !.run = @ \ {s}], B)
      /\ [B EXCEPT !.run = @ \ {s}].run = B.run \ {s}
      /\ [B EXCEPT !.run = @ \ {s}].next = B.next /\ [B EXCEPT !.run = @ \ {s}].rec = B.rec
  BY <1>2 DEF Workers, SameCall
<1> QED
  BY <1>2, <1>3, <1>4 DEF SameCall

-----------------------------------------------------------------------------
(* Calls to one replica *)

\* The state outside the pipes and the calls.
Core == /\ TablesOK(front, replaced)
        /\ engine = "up" => Agree(front, Running, Resident, replaced) /\ FreshNames(front)

\* The invariant is its types, its pipes and its tables.
LEMMA InvParts == DPInv <=> TypeOK /\ PipesOK /\ Core
BY DEF DPInv, Core

\* Between calls nothing is finished and not reported.
LEMMA QuietRuns ==
  ASSUME PipesOK, call.kind = "none"
  PROVE  Running = {p \in Ranks \X Ids : p[2] \in worker[p[1]].run}
<1>1. \A r \in Ranks : Unreported(r) = {}
  BY DEF PipesOK, PipeOK, Unreported
<1>2. \A p \in Ranks \X Ids : p[1] \in Ranks
  OBVIOUS
<1> QED
  BY <1>1, <1>2 DEF Running

\* The same after a step.
LEMMA QuietRunsNext ==
  ASSUME PipesOK', call'.kind = "none"
  PROVE  Running' = {p \in Ranks \X Ids : p[2] \in worker'[p[1]].run}
<1>1. \A r \in Ranks : Unreported(r)' = {}
  BY DEF PipesOK, PipeOK, Unreported
<1>2. \A p \in Ranks \X Ids : p[1] \in Ranks
  OBVIOUS
<1> QED
  BY <1>1, <1>2 DEF Running

\* What the replicas run and hold, as the tables compare it.
LEMMA RunsAndRecs ==
  ASSUME TypeOK
  PROVE  Running \in Runs /\ Resident \in Recs /\ \A r \in Ranks : Resident[r] = worker[r].rec
<1>1. \A r \in Ranks : worker[r].rec \in [Chains -> Ids \cup {None}]
  BY DEF TypeOK, Workers
<1> QED
  BY <1>1 DEF Running, Resident, Runs, Recs

\* The pipes after a call that one replica has answered.
LEMMA AnswerParts ==
  ASSUME DPInv, NEW r \in Ranks, NEW W \in Workers, NEW F \in Fronts, Answers(r, W, F),
         SameCall(W, worker[r])
  PROVE  /\ worker' \in [Ranks -> Workers] /\ worker'[r] = W
         /\ \A q \in Ranks \ {r} : worker'[q] = worker[q]
         /\ front' = F /\ mode' = mode /\ call' = call /\ engine' = engine /\ faults' = faults
         /\ engine = "up" /\ call.kind = "none" /\ PipesOK'
<1>1. /\ worker' \in [Ranks -> Workers] /\ worker'[r] = W
      /\ \A q \in Ranks \ {r} : worker'[q] = worker[q]
  BY DEF Answers, DPInv, TypeOK
<1>2. /\ front' = F /\ mode' = mode /\ call' = call /\ engine' = engine /\ faults' = faults
      /\ engine = "up" /\ call.kind = "none"
      /\ worker[r].at = "idle" /\ worker[r].out = <<>> /\ worker[r].alive
  BY DEF Answers, CanCall, Quiet
<1>3. W.at = "idle" /\ W.out = <<>> /\ W.alive
  BY <1>2 DEF SameCall
<1>4. ASSUME NEW q \in Ranks
      PROVE  PipeOK(q)'
  <2>1. CASE q = r
    BY <1>1, <1>2, <1>3, <2>1 DEF DPInv, PipesOK, PipeOK, Quiet
  <2>2. CASE q # r
    <3>1. PipeOK(q) /\ worker'[q] = worker[q]
      BY <1>1, <2>2 DEF DPInv, PipesOK
    <3> QED
      BY <1>2, <3>1 DEF PipeOK, Quiet, Known
  <2> QED
    BY <2>1, <2>2
<1>5. RepliesOwed'
  <2>1. Dead' = Dead
    BY <1>1, <1>2, <1>3 DEF Dead
  <2>2. \A q \in Ranks : Quiet(q)' <=> Quiet(q)
    BY <1>1, <1>2, <1>3 DEF Quiet
  <2> QED
    BY <1>2, <2>1, <2>2 DEF DPInv, PipesOK, RepliesOwed
<1> QED
  BY <1>1, <1>2, <1>4, <1>5 DEF PipesOK

\* The call and its answer, once the core is settled.
LEMMA AnswerInv ==
  ASSUME DPInv, NEW r \in Ranks, NEW W \in Workers, NEW F \in Fronts, Answers(r, W, F),
         SameCall(W, worker[r]), nextChain' \in Nat \ {0}, replaced' \subseteq Ranks \X Ids, Core'
  PROVE  DPInv'
<1>1. TypeOK'
  BY AnswerParts DEF DPInv, TypeOK
<1> QED
  BY <1>1, AnswerParts, InvParts DEF DPInv, Core

\* What every admission does to the agreement: evictions (to E), the snapshot,
\* and the entry of sequence s, with its chain c if there is one.
Admits(r, s, c, R, E, W) ==
  /\ replaced \subseteq R /\ R \subseteq Ranks \X Ids
  /\ SameCall(E, worker[r]) /\ E.run = worker[r].run
  /\ \A d \in Chains :
       \/ E.rec[d] = worker[r].rec[d]
       \/ /\ E.rec[d] = None
          /\ worker[r].rec[d] \notin worker[r].run \/ <<r, worker[r].rec[d]>> \in R
  /\ SameCall(W, E) /\ W.run = E.run \cup {s}
  /\ \A d \in Chains : W.rec[d] = IF d = c THEN s ELSE E.rec[d]
  /\ front.next \in Ids
  /\ c = None => front.ids[<<r, s>>] = None
  /\ c # None => /\ E.rec[c] \in {None, s} /\ \A q \in Ranks \ {r} : worker[q].rec[c] = None
                 /\ \/ E.rec[c] = s
                    \/ /\ front.chain_sequences[c] = None
                       /\ <<r, s>> \in R \/ front.ids[<<r, s>>] = None

\* A replica that admits a request runs and holds what its answer says.
LEMMA AdmissionAgrees ==
  ASSUME DPInv, NEW r \in Ranks, NEW s \in Ids, NEW c \in Chains \cup {None},
         NEW E \in Workers, NEW W \in Workers, Admits(r, s, c, replaced', E, W),
         Answers(r, W, Registered(Heard(front, r, Known(W)), r, s, c))
  PROVE  /\ TablesOK(front', replaced') /\ Agree(front', Running', Resident', replaced')
         /\ Registered(Heard(front, r, Known(W)), r, s, c) \in Fronts /\ SameCall(W, worker[r])
         /\ \A p \in Ranks \X Ids : p # <<r, s>> /\ front.ids[p] = None => front'.ids[p] = None
         /\ \A d \in Chains : d # c /\ front.chain_sequences[d] = None =>
              front'.chain_sequences[d] = None
<1> SUFFICES ASSUME NEW R, R = replaced',
                    replaced \subseteq R, R \subseteq Ranks \X Ids,
                    SameCall(E, worker[r]), E.run = worker[r].run,
                    \A d \in Chains :
                      \/ E.rec[d] = worker[r].rec[d]
                      \/ E.rec[d] = None /\ (worker[r].rec[d] \notin worker[r].run
                                             \/ <<r, worker[r].rec[d]>> \in R),
                    SameCall(W, E), W.run = E.run \cup {s},
                    \A d \in Chains : W.rec[d] = IF d = c THEN s ELSE E.rec[d],
                    front.next \in Ids,
                    c = None => front.ids[<<r, s>>] = None,
                    c # None => /\ E.rec[c] \in {None, s}
                                /\ \A q \in Ranks \ {r} : worker[q].rec[c] = None
                                /\ \/ E.rec[c] = s
                                   \/ /\ front.chain_sequences[c] = None
                                      /\ <<r, s>> \in R \/ front.ids[<<r, s>>] = None
             PROVE  /\ TablesOK(front', R) /\ Agree(front', Running', Resident', R)
                    /\ Registered(Heard(front, r, Known(W)), r, s, c) \in Fronts
                    /\ SameCall(W, worker[r])
                    /\ \A p \in Ranks \X Ids :
                         p # <<r, s>> /\ front.ids[p] = None => front'.ids[p] = None
                    /\ \A d \in Chains : d # c /\ front.chain_sequences[d] = None =>
                         front'.chain_sequences[d] = None
  BY DEF Admits
<1> DEFINE H == Heard(front, r, Known(W))
           rec1 == [Resident EXCEPT ![r] = E.rec]
           F == Registered(H, r, s, c)
<1>0. /\ TypeOK /\ PipesOK /\ TablesOK(front, replaced) /\ front \in Fronts
      /\ Running \in Runs /\ Resident \in Recs /\ \A q \in Ranks : Resident[q] = worker[q].rec
      /\ Pairs /\ Typed(front) /\ E.rec \in [Chains -> Ids \cup {None}]
  BY RunsAndRecs, PairFacts, FrontFacts DEF DPInv, TypeOK, Workers
<1>1. engine = "up" /\ call.kind = "none"
  BY DEF Answers, CanCall
<1>2. /\ Agree(front, Running, Resident, replaced)
      /\ Running = {p \in Ranks \X Ids : p[2] \in worker[p[1]].run}
  BY <1>0, <1>1, QuietRuns DEF DPInv
<1>3. TablesOK(front, R) /\ Agree(front, Running, Resident, R)
  BY <1>0, <1>2, MoreReplaced
<1>4. /\ rec1 \in Recs /\ rec1[r] = E.rec
      /\ \A q \in Ranks \ {r} : rec1[q] = worker[q].rec
  BY <1>0 DEF Recs
<1> HIDE DEF rec1
<1>5. Agree(front, Running, rec1, R)
  <2>1. \A q \in Ranks, d \in Chains :
          \/ rec1[q][d] = Resident[q][d]
          \/ /\ rec1[q][d] = None
             /\ <<q, Resident[q][d]>> \in R \/ <<q, Resident[q][d]>> \notin Running
    <3> SUFFICES ASSUME NEW q \in Ranks, NEW d \in Chains, rec1[q][d] # Resident[q][d]
                 PROVE  /\ rec1[q][d] = None
                        /\ <<q, Resident[q][d]>> \in R \/ <<q, Resident[q][d]>> \notin Running
      OBVIOUS
    <3>1. q = r
      BY <1>0, <1>4
    <3>2. /\ E.rec[d] = None
          /\ worker[r].rec[d] \notin worker[r].run \/ <<r, worker[r].rec[d]>> \in R
      BY <1>0, <1>4, <3>1
    <3> QED
      BY <1>0, <1>2, <1>4, <3>1, <3>2
  <2> QED
    BY <1>0, <1>3, <1>4, <2>1, EvictAgrees
<1>6. \A d \in Chains : rec1[r][d] # None => d \in Known(W)
  BY <1>0, <1>4 DEF Known, Pairs
<1>7. /\ H \in Fronts /\ IsHeard(H, front, r, Known(W))
      /\ TablesOK(H, R) /\ Agree(H, Running, rec1, R)
  BY <1>0, <1>3, <1>4, <1>5, <1>6, HeardFacts, HeardTables, HeardAgrees
<1> HIDE DEF H
<1>8. /\ \A p \in Ranks \X Ids : front.ids[p] = None => H.ids[p] = None
      /\ \A d \in Chains : front.chain_sequences[d] = None => H.chain_sequences[d] = None
      /\ H.next = front.next
  BY <1>7 DEF IsHeard
<1>9. CanEnter(H, r, s, c, R)
  <2> SUFFICES ASSUME c # None
               PROVE  /\ \A g \in Ids : H.chain_sequences[c] = g /\ H.owners[g] # None =>
                           H.owners[g] = <<r, s>>
                      /\ \/ <<r, s>> \in R \/ H.ids[<<r, s>>] = None
                         \/ H.chain_sequences[c] = H.ids[<<r, s>>]
    BY DEF CanEnter
  <2>0. c \in Chains /\ <<r, s>> \in Ranks \X Ids
    BY <1>0 DEF Pairs
  <2>1. CASE E.rec[c] = s
    <3>1. rec1[r][c] = s /\ s # None
      BY <1>0, <1>4, <2>1 DEF Pairs
    <3>2. ASSUME NEW g \in Ids, H.chain_sequences[c] = g, H.owners[g] # None
          PROVE  H.owners[g] = <<r, s>>
      <4>1. g # None
        BY <1>0 DEF Pairs
      <4>2. H.owners[H.chain_sequences[c]] # None /\ H.chain_sequences[c] # None
        BY <3>2, <4>1
      <4>3. H.owners[H.chain_sequences[c]] = <<r, rec1[r][c]>>
        BY <1>7, <2>0, <3>1, <4>2 DEF Agree, ChainsKnown, Named
      <4> QED
        BY <3>1, <3>2, <4>3
    <3>3. ASSUME <<r, s>> \notin R
          PROVE  H.chain_sequences[c] = H.ids[<<r, s>>]
      <4>1. H.chain_sequences[c] # None /\ H.owners[H.chain_sequences[c]] = <<r, s>>
        BY <1>7, <2>0, <3>1, <3>3, SMTT(60) DEF Agree, ChainsKnown, Routed
      <4>2. H.chain_sequences[c] \in Ids
        BY <1>7, <2>0, <4>1, FrontFacts DEF Typed
      <4> QED
        BY <1>7, <2>0, <4>1, <4>2 DEF TablesOK, IdsInverse
    <3> QED
      BY <3>2, <3>3
  <2>2. CASE /\ front.chain_sequences[c] = None
             /\ <<r, s>> \in R \/ front.ids[<<r, s>>] = None
    BY <1>0, <1>8, <2>0, <2>2 DEF Pairs
  <2> QED
    BY <2>1, <2>2
<1>10. SameCall(W, worker[r])
  BY DEF SameCall
<1>11. F \in Fronts /\ IsRegistered(F, H, r, s, c) /\ TablesOK(F, R)
  BY <1>7, <1>8, <1>9, RegisteredFacts, RegisteredTables DEF TablesOK
<1>12. /\ worker' \in [Ranks -> Workers] /\ worker'[r] = W
       /\ \A q \in Ranks \ {r} : worker'[q] = worker[q]
       /\ front' = F /\ PipesOK' /\ call'.kind = "none"
  BY <1>10, <1>11, AnswerParts DEF H
<1> HIDE DEF F
<1>13. Running' = Running \cup {<<r, s>>}
  <2>1. Running' = {p \in Ranks \X Ids : p[2] \in worker'[p[1]].run}
    BY <1>12, QuietRunsNext
  <2>2. \A p \in Ranks \X Ids : p[2] \in worker'[p[1]].run <=> p \in Running \/ p = <<r, s>>
    <3> SUFFICES ASSUME NEW p \in Ranks \X Ids
                 PROVE  p[2] \in worker'[p[1]].run <=> p[2] \in worker[p[1]].run \/ p = <<r, s>>
      BY <1>2
    <3>1. p = <<p[1], p[2]>> /\ p[1] \in Ranks
      BY <1>0 DEF Pairs
    <3>2. CASE p[1] = r
      <4>1. worker'[p[1]].run = worker[p[1]].run \cup {s}
        BY <1>12, <3>2
      <4> QED
        BY <3>1, <3>2, <4>1
    <3>3. CASE p[1] # r
      BY <1>0, <1>12, <3>1, <3>3 DEF Pairs
    <3> QED
      BY <3>2, <3>3
  <2> QED
    BY <1>0, <2>1, <2>2 DEF Runs, Pairs
<1>14. Resident' \in Recs /\ \A q \in Ranks, d \in Chains :
         Resident'[q][d] = IF q = r /\ d = c THEN s ELSE rec1[q][d]
  <2>1. \A q \in Ranks : Resident'[q] = worker'[q].rec
    BY DEF Resident
  <2>2. Resident' \in Recs
    BY <1>12 DEF Resident, Recs, Workers
  <2> QED
    BY <1>4, <1>12, <2>1, <2>2
<1>15. Agree(F, Running \cup {<<r, s>>}, Resident', R)
  <2>1. c = None => H.ids[<<r, s>>] = None
    BY <1>0, <1>8 DEF Pairs
  <2>2. c # None => rec1[r][c] \in {None, s} /\ \A q \in Ranks \ {r} : rec1[q][c] = None
    BY <1>4
  <2> QED
    BY <1>0, <1>4, <1>7, <1>8, <1>9, <1>14, <2>1, <2>2, RegisteredAgrees DEF F
<1>16. /\ \A p \in Ranks \X Ids : p # <<r, s>> /\ front.ids[p] = None => F.ids[p] = None
       /\ \A d \in Chains : d # c /\ front.chain_sequences[d] = None => F.chain_sequences[d] = None
  BY <1>8, <1>11 DEF IsRegistered
<1> QED
  BY <1>10, <1>11, <1>12, <1>13, <1>15, <1>16 DEF F, H

\* Bounds and freshness before a call to one replica.
LEMMA CallFacts ==
  ASSUME DPInv, NEW r \in Ranks, CanCall(r)
  PROVE  /\ worker[r] \in Workers /\ front \in Fronts /\ Typed(front) /\ Pairs
         /\ worker[r].next \in Nat \ {0} /\ front.next \in Nat \ {0}
         /\ worker[r].rec \in [Chains -> Ids \cup {None}] /\ worker[r].run \subseteq Ids
         /\ replaced \subseteq Ranks \X Ids /\ nextChain \in Nat \ {0}
         /\ front.next <= MaxIds => front.next \in Ids
         /\ worker[r].next <= MaxIds => worker[r].next \in Ids
         /\ nextChain <= MaxChains => nextChain \in Chains
         /\ FreshNames(front) /\ Agree(front, Running, Resident, replaced)
         /\ Running \in Runs /\ Resident \in Recs /\ \A q \in Ranks : Resident[q] = worker[q].rec
         /\ Running = {p \in Ranks \X Ids : p[2] \in worker[p[1]].run}
         /\ TablesOK(front, replaced)
<1>1. /\ worker[r] \in Workers /\ front \in Fronts /\ Typed(front) /\ Pairs
      /\ replaced \subseteq Ranks \X Ids /\ nextChain \in Nat \ {0}
  BY PairFacts, FrontFacts DEF DPInv, TypeOK
<1>2. /\ worker[r].next \in Nat \ {0} /\ front.next \in Nat \ {0}
      /\ worker[r].rec \in [Chains -> Ids \cup {None}] /\ worker[r].run \subseteq Ids
  BY <1>1 DEF Workers, Fronts
<1>3. /\ front.next <= MaxIds => front.next \in Ids
      /\ worker[r].next <= MaxIds => worker[r].next \in Ids
      /\ nextChain <= MaxChains => nextChain \in Chains
  BY <1>1, <1>2 DEF Ids, Chains
<1>4. /\ FreshNames(front) /\ Agree(front, Running, Resident, replaced)
      /\ Running \in Runs /\ Resident \in Recs /\ \A q \in Ranks : Resident[q] = worker[q].rec
      /\ Running = {p \in Ranks \X Ids : p[2] \in worker[p[1]].run}
      /\ TablesOK(front, replaced)
  BY QuietRuns, RunsAndRecs DEF CanCall, DPInv
<1> QED
  BY <1>1, <1>2, <1>3, <1>4

\* A request that starts a sequence, and a chain in the chain mode.
LEMMA AdmitNewInv ==
  ASSUME DPInv, NEW r \in Ranks, AdmitNew(r)
  PROVE  DPInv'
<1> DEFINE s == worker[r].next
           c == IF mode = "chain" THEN nextChain ELSE None
           V(E) == [E EXCEPT !.run = @ \cup {s}, !.next = @ + 1,
                             !.rec = IF c = None THEN @ ELSE [@ EXCEPT ![c] = s]]
<1>1. PICK E \in Evicted(worker[r], c) :
        Answers(r, V(E), Registered(Heard(front, r, Known(V(E))), r, s, c))
  BY DEF AdmitNew
<1>2. /\ s <= MaxIds /\ front.next <= MaxIds /\ replaced' = replaced
      /\ mode = "chain" => nextChain <= MaxChains
      /\ nextChain' = IF mode = "chain" THEN nextChain + 1 ELSE nextChain
  BY DEF AdmitNew
<1>3. CanCall(r)
  BY <1>1 DEF Answers
<1>4. /\ worker[r] \in Workers /\ front \in Fronts /\ Typed(front) /\ Pairs
      /\ s \in Ids /\ front.next \in Ids /\ nextChain \in Nat \ {0}
      /\ worker[r].rec \in [Chains -> Ids \cup {None}] /\ worker[r].run \subseteq Ids
      /\ replaced \subseteq Ranks \X Ids /\ FreshNames(front)
  BY <1>2, <1>3, CallFacts
<1>5. /\ c \in Chains \cup {None} /\ (mode = "chain" => c = nextChain /\ c \in Chains /\ c # None)
      /\ mode # "chain" => c = None
  BY <1>2, <1>3, <1>4, CallFacts DEF Pairs
<1>6. nextChain' \in Nat \ {0} /\ (c # None => nextChain' = nextChain + 1 /\ c = nextChain)
      /\ (c = None => nextChain' = nextChain)
  BY <1>2, <1>4, <1>5
<1> DEFINE W == V(E)
<1> HIDE DEF c
<1>7. /\ E \in Workers /\ SameCall(E, worker[r]) /\ E.run = worker[r].run /\ E.next = s
      /\ \A d \in Chains : \/ E.rec[d] = worker[r].rec[d]
                           \/ E.rec[d] = None /\ d # c /\ worker[r].rec[d] \notin worker[r].run
  BY <1>1, <1>4, EvictedFacts
<1>8. /\ W \in Workers /\ SameCall(W, E) /\ W.run = E.run \cup {s} /\ W.next = s + 1
      /\ \A d \in Chains : W.rec[d] = IF d = c THEN s ELSE E.rec[d]
  <2> DEFINE rec == IF c = None THEN E.rec ELSE [E.rec EXCEPT ![c] = s]
  <2>0. /\ E.rec \in [Chains -> Ids \cup {None}] /\ E.run \cup {s} \in SUBSET Ids
        /\ s + 1 \in Nat \ {0} /\ E.next + 1 = s + 1
    <3>1. E.rec \in [Chains -> Ids \cup {None}] /\ E.next = s
      BY <1>7 DEF Workers
    <3>2. s \in Ids /\ worker[r].run \subseteq Ids /\ E.run = worker[r].run
      BY <1>4, <1>7
    <3> HIDE DEF s, W
    <3>3. s \in Nat
      BY <1>4, <3>2 DEF Pairs
    <3>4. QED BY <3>1, <3>2, <3>3
  <2>1. rec \in [Chains -> Ids \cup {None}] /\ \A d \in Chains : rec[d] = IF d = c THEN s ELSE E.rec[d]
    BY <1>4, <1>5, <2>0 DEF Pairs
  <2>2. W = [E EXCEPT !.run = E.run \cup {s}, !.next = s + 1, !.rec = rec]
    BY <2>0
  <2> HIDE DEF rec, W
  <2> DEFINE run == E.run \cup {s}
             n == s + 1
  <2>a. run \in SUBSET Ids /\ n \in Nat \ {0} /\ W = [E EXCEPT !.run = run, !.next = n, !.rec = rec]
    BY <2>0, <2>2
  <2> HIDE DEF run, n, s
  <2>3. W \in Workers /\ SameCall(W, E) /\ W.run = run /\ W.next = n /\ W.rec = rec
    BY <1>7, <2>1, <2>a DEF Workers, SameCall
  <2> QED
    BY <2>1, <2>3 DEF run, n
<1>9. Answers(r, W, Registered(Heard(front, r, Known(W)), r, s, c))
  BY <1>1
<1> HIDE DEF W
<1>10. s >= worker[r].next /\ (c # None => c >= nextChain /\ c \in Chains)
  BY <1>4, <1>5, <1>6 DEF Pairs
<1>11. /\ front.ids[<<r, s>>] = None /\ s \notin worker[r].run
       /\ c # None => front.chain_sequences[c] = None /\ \A q \in Ranks : worker[q].rec[c] = None
  BY <1>4, <1>10 DEF FreshNames
<1>12. c # None => /\ E.rec[c] \in {None, s} /\ \A q \in Ranks \ {r} : worker[q].rec[c] = None
                   /\ front.chain_sequences[c] = None
  BY <1>7, <1>10, <1>11
<1> HIDE DEF s
<1>13. Admits(r, s, c, replaced', E, W)
  BY <1>2, <1>4, <1>7, <1>8, <1>11, <1>12 DEF Admits
<1>14. /\ TablesOK(front', replaced') /\ Agree(front', Running', Resident', replaced')
       /\ Registered(Heard(front, r, Known(W)), r, s, c) \in Fronts /\ SameCall(W, worker[r])
       /\ \A p \in Ranks \X Ids : p # <<r, s>> /\ front.ids[p] = None => front'.ids[p] = None
       /\ \A d \in Chains : d # c /\ front.chain_sequences[d] = None =>
            front'.chain_sequences[d] = None
  BY <1>4, <1>5, <1>7, <1>8, <1>9, <1>13, AdmissionAgrees
<1>15. worker'[r] = W /\ \A q \in Ranks \ {r} : worker'[q] = worker[q]
  BY <1>8, <1>9, <1>14, AnswerParts
<1>16. FreshNames(front)'
  <2>1. ASSUME NEW q \in Ranks, NEW z \in Ids, z >= worker'[q].next
        PROVE  /\ z \notin worker'[q].run /\ \A d \in Chains : worker'[q].rec[d] # z
               /\ front'.ids[<<q, z>>] = None /\ <<q, z>> \notin replaced'
    <3>1. CASE q # r
      <4>1. <<q, z>> # <<r, s>> /\ <<q, z>> \in Ranks \X Ids /\ worker'[q] = worker[q]
        BY <1>4, <1>15, <3>1 DEF Pairs
      <4>2. /\ z \notin worker[q].run /\ \A d \in Chains : worker[q].rec[d] # z
            /\ front.ids[<<q, z>>] = None /\ <<q, z>> \notin replaced
        BY <1>4, <2>1, <4>1 DEF FreshNames
      <4> QED
        BY <1>2, <1>14, <4>1, <4>2
    <3>2. CASE q = r
      <4>1. z >= s + 1 /\ z \in Nat /\ s \in Nat
        BY <1>4, <1>8, <1>15, <2>1, <3>2 DEF Pairs
      <4>2. z # s /\ z >= worker[r].next
        BY <4>1 DEF s
      <4>3. /\ z \notin worker[r].run /\ \A d \in Chains : worker[r].rec[d] # z
            /\ front.ids[<<r, z>>] = None /\ <<r, z>> \notin replaced
        BY <1>4, <4>2 DEF FreshNames
      <4>4. <<r, z>> # <<r, s>> /\ <<r, z>> \in Ranks \X Ids /\ z # None
        BY <1>4, <4>2 DEF Pairs
      <4> QED
        BY <1>2, <1>7, <1>8, <1>14, <1>15, <3>2, <4>2, <4>3, <4>4
    <3> QED
      BY <3>1, <3>2
  <2>2. ASSUME NEW d \in Chains, d >= nextChain'
        PROVE  front'.chain_sequences[d] = None /\ \A q \in Ranks : worker'[q].rec[d] = None
    <3>1. d \in Nat /\ d >= nextChain /\ d # c
      BY <1>4, <1>6, <2>2 DEF Pairs
    <3>2. front.chain_sequences[d] = None /\ \A q \in Ranks : worker[q].rec[d] = None
      BY <1>4, <3>1 DEF FreshNames
    <3> QED
      BY <1>7, <1>8, <1>14, <1>15, <3>1, <3>2
  <2> QED
    BY <2>1, <2>2 DEF FreshNames
<1>17. Core'
  BY <1>14, <1>16 DEF Core
<1> QED
  BY <1>2, <1>4, <1>6, <1>8, <1>9, <1>14, <1>17, AnswerInv
\* What a call does to the names of one replica when it hands out no sequence
\* id: s is the sequence it admits and d its chain, if there are any.
Renames(r, s, d, W, F) ==
  /\ W.next = worker[r].next
  /\ s \in Ids => s < worker[r].next
  /\ nextChain' \in Nat \ {0} /\ nextChain' >= nextChain /\ (d \in Chains => d < nextChain')
  /\ \A z \in Ids : z \in W.run => z \in worker[r].run \/ z = s
  /\ \A c \in Chains : W.rec[c] \in {worker[r].rec[c], None} \/ (c = d /\ W.rec[c] = s)
  /\ \A p \in Ranks \X Ids : p # <<r, s>> /\ front.ids[p] = None => F.ids[p] = None
  /\ \A c \in Chains : c # d /\ front.chain_sequences[c] = None => F.chain_sequences[c] = None
  /\ replaced' \subseteq replaced \cup {<<r, s>>}

\* Such a call leaves the names that are not handed out unused.
LEMMA RenamesFresh ==
  ASSUME DPInv, NEW r \in Ranks, NEW s, NEW d, NEW W \in Workers, NEW F \in Fronts,
         Answers(r, W, F), SameCall(W, worker[r]), Renames(r, s, d, W, F)
  PROVE  FreshNames(front)'
<1>1. CanCall(r)
  BY DEF Answers
<1>2. /\ worker[r] \in Workers /\ Pairs /\ worker[r].next \in Nat \ {0} /\ nextChain \in Nat \ {0}
      /\ FreshNames(front) /\ replaced \subseteq Ranks \X Ids
  BY <1>1, CallFacts
<1>3. /\ worker'[r] = W /\ front' = F
      /\ \A q \in Ranks \ {r} : worker'[q] = worker[q]
  BY AnswerParts
<1>4. ASSUME NEW q \in Ranks, NEW z \in Ids, z >= worker'[q].next
      PROVE  /\ z \notin worker'[q].run /\ \A c \in Chains : worker'[q].rec[c] # z
             /\ front'.ids[<<q, z>>] = None /\ <<q, z>> \notin replaced'
  <2>0. z \in Nat /\ z # None /\ <<q, z>> \in Ranks \X Ids
    BY <1>2 DEF Pairs
  <2>1. worker'[q].next = worker[q].next
    BY <1>3 DEF Renames
  <2>2. /\ z \notin worker[q].run /\ \A c \in Chains : worker[q].rec[c] # z
        /\ front.ids[<<q, z>>] = None /\ <<q, z>> \notin replaced
    BY <1>2, <1>4, <2>1 DEF FreshNames
  <2>3. CASE q # r
    BY <1>3, <2>0, <2>2, <2>3 DEF Renames
  <2>4. CASE q = r
    <3>1. z # s
      BY <1>2, <1>4, <2>0, <2>1, <2>4 DEF Renames, Pairs
    <3> QED
      BY <1>3, <2>0, <2>2, <2>4, <3>1 DEF Renames
  <2> QED
    BY <2>3, <2>4
<1>5. ASSUME NEW c \in Chains, c >= nextChain'
      PROVE  front'.chain_sequences[c] = None /\ \A q \in Ranks : worker'[q].rec[c] = None
  <2>1. c \in Nat /\ c >= nextChain /\ c # d
    BY <1>2, <1>5 DEF Renames, Pairs
  <2>2. front.chain_sequences[c] = None /\ \A q \in Ranks : worker[q].rec[c] = None
    BY <1>2, <2>1 DEF FreshNames
  <2> QED
    BY <1>3, <2>1, <2>2 DEF Renames
<1> QED
  BY <1>4, <1>5 DEF FreshNames

\* The next turn of a chain.
LEMMA AdmitResumedInv ==
  ASSUME DPInv, NEW c \in Chains, AdmitResumed(c)
  PROVE  DPInv'
<1> DEFINE r == front.chain_owners[c]
           s == worker[r].rec[c]
           V(E) == [E EXCEPT !.run = @ \cup {s}]
<1>1. PICK E \in Evicted(worker[r], c) :
        Answers(r, V(E), Registered(Heard(front, r, Known(V(E))), r, s, c))
  BY DEF AdmitResumed
<1>2. /\ r # None /\ s # None /\ s \notin worker[r].run /\ front.next <= MaxIds
      /\ nextChain' = nextChain /\ replaced' = replaced
  BY DEF AdmitResumed
<1>3. r \in Ranks
  BY <1>2 DEF DPInv, TypeOK, Fronts
<1>4. CanCall(r)
  BY <1>1 DEF Answers
<1> DEFINE W == V(E)
<1>5. Answers(r, W, Registered(Heard(front, r, Known(W)), r, s, c))
  BY <1>1
<1> HIDE DEF r
<1>6. /\ worker[r] \in Workers /\ front \in Fronts /\ Typed(front) /\ Pairs
      /\ front.next \in Ids /\ nextChain \in Nat \ {0}
      /\ worker[r].rec \in [Chains -> Ids \cup {None}] /\ worker[r].run \subseteq Ids
      /\ worker[r].next \in Nat \ {0}
      /\ replaced \subseteq Ranks \X Ids /\ FreshNames(front)
      /\ Agree(front, Running, Resident, replaced) /\ \A q \in Ranks : Resident[q] = worker[q].rec
  BY <1>2, <1>3, <1>4, CallFacts
<1>7. s \in Ids /\ c # None
  BY <1>2, <1>6 DEF Pairs
<1>8. /\ E \in Workers /\ SameCall(E, worker[r]) /\ E.run = worker[r].run /\ E.next = worker[r].next
      /\ \A d \in Chains : \/ E.rec[d] = worker[r].rec[d]
                           \/ E.rec[d] = None /\ d # c /\ worker[r].rec[d] \notin worker[r].run
  BY <1>1, <1>6, EvictedFacts
<1>9. E.rec[c] = s
  BY <1>8
<1> HIDE DEF s
<1>10. /\ W \in Workers /\ SameCall(W, E) /\ W.run = E.run \cup {s} /\ W.next = E.next /\ W.rec = E.rec
  BY <1>7, <1>8 DEF Workers, SameCall
<1> HIDE DEF W, V
<1>11. \A q \in Ranks \ {r} : worker[q].rec[c] = None
  BY <1>2, <1>3, <1>6 DEF Agree, OneReplica, s
<1>12. Admits(r, s, c, replaced', E, W)
  BY <1>2, <1>6, <1>7, <1>8, <1>9, <1>10, <1>11 DEF Admits
<1> DEFINE F == Registered(Heard(front, r, Known(W)), r, s, c)
<1>13. /\ TablesOK(front', replaced') /\ Agree(front', Running', Resident', replaced')
       /\ F \in Fronts /\ SameCall(W, worker[r])
       /\ \A p \in Ranks \X Ids : p # <<r, s>> /\ front.ids[p] = None => front'.ids[p] = None
       /\ \A d \in Chains : d # c /\ front.chain_sequences[d] = None =>
            front'.chain_sequences[d] = None
  BY <1>3, <1>5, <1>7, <1>8, <1>10, <1>12, AdmissionAgrees
<1> HIDE DEF F
<1>14. front' = F /\ Answers(r, W, F)
  BY <1>5 DEF F, Answers
<1>15. s < worker[r].next /\ c < nextChain
  <2>1. ~(s >= worker[r].next)
    BY <1>3, <1>6, <1>7, ZenonT(60) DEF FreshNames, s
  <2>2. ~(c >= nextChain)
    BY <1>2, <1>3, <1>6 DEF FreshNames, s
  <2> QED
    BY <1>6, <1>7, <2>1, <2>2 DEF Pairs
<1>16. Renames(r, s, c, W, F)
  <2>1. /\ W.next = worker[r].next /\ (s \in Ids => s < worker[r].next)
        /\ nextChain' \in Nat \ {0} /\ nextChain' >= nextChain /\ c < nextChain'
    BY <1>2, <1>6, <1>8, <1>10, <1>15
  <2> QED
    BY <1>2, <1>6, <1>8, <1>10, <1>13, <1>14, <2>1 DEF Renames
<1>17. FreshNames(front)'
  BY <1>3, <1>10, <1>13, <1>14, <1>16, RenamesFresh
<1>18. Core'
  BY <1>13, <1>17 DEF Core
<1> QED
  BY <1>2, <1>3, <1>6, <1>10, <1>13, <1>14, <1>18, AnswerInv

\* What runs and what is resident after a call to one replica.
LEMMA AnsweredState ==
  ASSUME DPInv, NEW r \in Ranks, NEW W \in Workers, NEW F \in Fronts, Answers(r, W, F),
         SameCall(W, worker[r])
  PROVE  /\ Resident' \in Recs /\ Running' \in Runs
         /\ \A q \in Ranks : Resident'[q] = IF q = r THEN W.rec ELSE Resident[q]
         /\ \A p \in Ranks \X Ids :
              p \in Running' <=> IF p[1] = r THEN p[2] \in W.run ELSE p \in Running
<1>1. CanCall(r)
  BY DEF Answers
<1>2. /\ Pairs /\ Running = {p \in Ranks \X Ids : p[2] \in worker[p[1]].run}
      /\ \A q \in Ranks : Resident[q] = worker[q].rec
  BY <1>1, CallFacts
<1>3. /\ worker' \in [Ranks -> Workers] /\ worker'[r] = W
      /\ \A q \in Ranks \ {r} : worker'[q] = worker[q]
      /\ PipesOK' /\ call'.kind = "none"
  BY AnswerParts
<1>4. Running' = {p \in Ranks \X Ids : p[2] \in worker'[p[1]].run}
  BY <1>3, QuietRunsNext
<1>5. \A q \in Ranks : Resident'[q] = worker'[q].rec
  BY DEF Resident
<1>6. Resident' \in Recs
  BY <1>3 DEF Resident, Recs, Workers
<1>7. \A p \in Ranks \X Ids :
        p \in Running' <=> IF p[1] = r THEN p[2] \in W.run ELSE p \in Running
  BY <1>2, <1>3, <1>4 DEF Pairs
<1> QED
  BY <1>2, <1>3, <1>4, <1>5, <1>6, <1>7 DEF Runs

\* A call that clears idle or replaced chains at most, with its snapshot or
\* without.
LEMMA SnapshotInv ==
  ASSUME DPInv, NEW r \in Ranks, NEW W \in Workers, NEW F,
         F \in {front, Heard(front, r, Known(W))}, Answers(r, W, F), SameCall(W, worker[r]),
         W.run = worker[r].run, W.next = worker[r].next,
         \A c \in Chains :
           \/ W.rec[c] = worker[r].rec[c]
           \/ /\ W.rec[c] = None
              /\ <<r, worker[r].rec[c]>> \in replaced \/ worker[r].rec[c] \notin worker[r].run,
         nextChain' = nextChain, replaced' = replaced
  PROVE  DPInv'
<1>1. CanCall(r)
  BY DEF Answers
<1>2. /\ front \in Fronts /\ Typed(front) /\ Pairs /\ nextChain \in Nat \ {0}
      /\ replaced \subseteq Ranks \X Ids /\ TablesOK(front, replaced)
      /\ Running \in Runs /\ Resident \in Recs /\ Agree(front, Running, Resident, replaced)
      /\ Running = {p \in Ranks \X Ids : p[2] \in worker[p[1]].run}
      /\ \A q \in Ranks : Resident[q] = worker[q].rec
      /\ W.rec \in [Chains -> Ids \cup {None}]
  BY <1>1, CallFacts DEF Workers
<1>3. Heard(front, r, Known(W)) \in Fronts /\ IsHeard(Heard(front, r, Known(W)), front, r, Known(W))
  BY <1>2, HeardFacts
<1>4. F \in Fronts
  BY <1>2, <1>3
<1>5. /\ Resident' \in Recs /\ Running' \in Runs
      /\ \A q \in Ranks : Resident'[q] = IF q = r THEN W.rec ELSE Resident[q]
      /\ \A p \in Ranks \X Ids :
           p \in Running' <=> IF p[1] = r THEN p[2] \in W.run ELSE p \in Running
  BY <1>4, AnsweredState
<1>6. Running' = Running
  BY <1>2, <1>5 DEF Runs, Pairs
<1>7. Agree(front, Running, Resident', replaced)
  <2>1. \A q \in Ranks, c \in Chains :
          \/ Resident'[q][c] = Resident[q][c]
          \/ /\ Resident'[q][c] = None
             /\ <<q, Resident[q][c]>> \in replaced \/ <<q, Resident[q][c]>> \notin Running
    BY <1>2, <1>5
  <2> QED
    BY <1>2, <1>5, <2>1, EvictAgrees
<1>8. \A c \in Chains : Resident'[r][c] # None => c \in Known(W)
  BY <1>5 DEF Known
<1>9. TablesOK(F, replaced) /\ Agree(F, Running, Resident', replaced)
  <2> DEFINE H == Heard(front, r, Known(W))
  <2>1. TablesOK(H, replaced) /\ Agree(H, Running, Resident', replaced)
    BY <1>2, <1>5, <1>7, <1>8, HeardTables, HeardAgrees
  <2> HIDE DEF H
  <2>2. F \in {front, H}
    BY DEF H
  <2> QED
    BY <1>2, <1>7, <2>1, <2>2
<1>10. /\ \A p \in Ranks \X Ids : front.ids[p] = None => F.ids[p] = None
       /\ \A c \in Chains : front.chain_sequences[c] = None => F.chain_sequences[c] = None
  <2>1. CASE F = front
    BY <2>1
  <2>2. CASE F = Heard(front, r, Known(W))
    <3>1. IsHeard(F, front, r, Known(W))
      BY <1>3, <2>2
    <3> QED
      BY <3>1 DEF IsHeard
  <2> QED
    BY <2>1, <2>2
<1>11. Renames(r, None, None, W, F)
  <2>1. /\ None \notin Ids /\ None \notin Chains
        /\ nextChain' \in Nat \ {0} /\ nextChain' >= nextChain
    BY <1>2 DEF Pairs
  <2> QED
    BY <1>10, <2>1 DEF Renames
<1>12. FreshNames(front)'
  BY <1>4, <1>11, RenamesFresh
<1>13. front' = F
  BY DEF Answers
<1>14. Core'
  BY <1>6, <1>9, <1>12, <1>13 DEF Core
<1> QED
  BY <1>2, <1>4, <1>14, AnswerInv

\* A call that only reads.
LEMMA ReadInv ==
  ASSUME DPInv, NEW r \in Ranks, Read(r)
  PROVE  DPInv'
<1>1. worker[r] \in Workers
  BY DEF DPInv, TypeOK
<1> QED
  BY <1>1, SnapshotInv DEF Read, SameCall

\* The chain of one call is buried alone.
LEMMA OneChain ==
  ASSUME NEW c \in Chains
  PROVE  <<c>> \in Seq(Chains) /\ ToSet(<<c>>) = {c}
BY DEF ToSet

\* invalidate_chain of a chain whose id is gone.
LEMMA InvalidateInv ==
  ASSUME DPInv, NEW c \in Chains, InvalidateUnowned(c)
  PROVE  DPInv'
<1> DEFINE g == front.chain_sequences[c]
           r == IF front.chain_owners[c] = None THEN 0 ELSE front.chain_owners[c]
           W == Bury(worker[r], <<c>>)
<1>1. /\ g # None => front.owners[g] = None
      /\ worker[r].rec[c] # None
      /\ Answers(r, W, Heard(front, r, Known(W)))
      /\ nextChain' = nextChain /\ replaced' = replaced
  BY DEF InvalidateUnowned
<1>2. r \in Ranks
  BY DEF DPInv, TypeOK, Fronts, Ranks
<1>3. CanCall(r)
  BY <1>1 DEF Answers
<1> HIDE DEF r
<1>4. /\ worker[r] \in Workers /\ Pairs /\ Agree(front, Running, Resident, replaced)
      /\ \A q \in Ranks : Resident[q] = worker[q].rec
  BY <1>2, <1>3, CallFacts
<1>5. /\ W \in Workers /\ SameCall(W, worker[r]) /\ W.run = worker[r].run
      /\ W.next = worker[r].next
      /\ \A d \in Chains : W.rec[d] = IF d = c THEN None ELSE worker[r].rec[d]
  <2>1. <<c>> \in Seq(Chains) /\ ToSet(<<c>>) = {c}
    BY OneChain
  <2> DEFINE gone == <<c>>
  <2> HIDE DEF gone
  <2>2. gone \in Seq(Chains) /\ ToSet(gone) = {c} /\ W = Bury(worker[r], gone)
    BY <2>1 DEF gone
  <2> QED
    BY <1>4, <2>2, BuryFacts
<1>6. <<r, worker[r].rec[c]>> \in replaced
  <2>1. front.chain_sequences[c] # None => front.owners[front.chain_sequences[c]] = None
    BY <1>1
  <2>2. Resident[r][c] = worker[r].rec[c] /\ Resident[r][c] # None
    BY <1>1, <1>2, <1>4
  <2>3. worker[r].rec[c] \in Ids /\ <<r, worker[r].rec[c]>> # None
    BY <1>1, <1>2, <1>4 DEF Pairs, Workers
  <2> QED
    BY <1>2, <1>4, <2>1, <2>2, <2>3 DEF Agree, ChainsKnown, Routed
<1> HIDE DEF W
<1> QED
  BY <1>1, <1>2, <1>5, <1>6, SnapshotInv

\* The facts about burying one chain.
LEMMA BuryOne ==
  ASSUME NEW W \in Workers, NEW c \in Chains
  PROVE  LET B == Bury(W, <<c>>)
         IN  /\ B \in Workers /\ SameCall(B, W) /\ B.run = W.run /\ B.next = W.next
             /\ \A d \in Chains : B.rec[d] = IF d = c THEN None ELSE W.rec[d]
<1> DEFINE gone == <<c>>
<1>1. gone \in Seq(Chains) /\ ToSet(gone) = {c}
  BY OneChain
<1> HIDE DEF gone
<1>2. LET B == Bury(W, gone)
      IN  /\ B \in Workers /\ SameCall(B, W) /\ B.run = W.run /\ B.next = W.next
          /\ \A d \in Chains : B.rec[d] = IF d = c THEN None ELSE W.rec[d]
  BY <1>1, BuryFacts
<1> QED
  BY <1>2 DEF gone

\* A new chain takes the sequence of a chain over.
LEMMA AdmitRecreatedInv ==
  ASSUME DPInv, NEW c \in Chains, AdmitRecreated(c)
  PROVE  DPInv'
<1> DEFINE r == front.chain_owners[c]
           s == worker[r].rec[c]
           d == nextChain
           B == Bury(worker[r], <<c>>)
           V(E) == [E EXCEPT !.run = @ \cup {s}, !.rec[d] = s]
<1>1. /\ r # None /\ s # None /\ s \notin worker[r].run
      /\ d <= MaxChains /\ front.next <= MaxIds
      /\ \/ /\ \E E \in Evicted(B, d) :
                 Answers(r, V(E), Registered(Heard(front, r, Known(V(E))), r, s, d))
            /\ nextChain' = d + 1 /\ replaced' = replaced \cup {<<r, s>>}
         \/ Answers(r, B, front) /\ nextChain' = nextChain /\ replaced' = replaced
  BY DEF AdmitRecreated
<1>2. r \in Ranks
  BY <1>1 DEF DPInv, TypeOK, Fronts
<1>3. CanCall(r)
  BY <1>1 DEF Answers
<1> HIDE DEF r
<1>4. /\ worker[r] \in Workers /\ front \in Fronts /\ Typed(front) /\ Pairs
      /\ front.next \in Ids /\ nextChain \in Nat \ {0} /\ d \in Chains
      /\ worker[r].rec \in [Chains -> Ids \cup {None}] /\ worker[r].run \subseteq Ids
      /\ worker[r].next \in Nat \ {0}
      /\ replaced \subseteq Ranks \X Ids /\ FreshNames(front)
      /\ Agree(front, Running, Resident, replaced) /\ \A q \in Ranks : Resident[q] = worker[q].rec
  BY <1>1, <1>2, <1>3, CallFacts
<1>5. s \in Ids /\ c # None /\ d # None /\ <<r, s>> \in Ranks \X Ids
  <2>1. s \in Ids
    BY <1>1, <1>2, <1>4
  <2>2. c # None /\ d # None
    BY <1>4 DEF Pairs
  <2> HIDE DEF s
  <2> QED
    BY <1>2, <2>1, <2>2
<1>6. /\ B \in Workers /\ SameCall(B, worker[r]) /\ B.run = worker[r].run
      /\ B.next = worker[r].next
      /\ \A e \in Chains : B.rec[e] = IF e = c THEN None ELSE worker[r].rec[e]
  <2> DEFINE X == worker[r]
  <2>1. X \in Workers
    BY <1>4
  <2> HIDE DEF X
  <2>2. LET A == Bury(X, <<c>>)
        IN  /\ A \in Workers /\ SameCall(A, X) /\ A.run = X.run /\ A.next = X.next
            /\ \A e \in Chains : A.rec[e] = IF e = c THEN None ELSE X.rec[e]
    BY <2>1, BuryOne
  <2> QED
    BY <2>2 DEF X
<1>7. /\ front.chain_sequences[d] = None /\ \A q \in Ranks : worker[q].rec[d] = None
      /\ s < worker[r].next
  <2>1. ~(s >= worker[r].next)
    BY <1>2, <1>4, <1>5 DEF FreshNames
  <2>2. d >= nextChain
    BY <1>4
  <2>3. front.chain_sequences[d] = None /\ \A q \in Ranks : worker[q].rec[d] = None
    BY <1>4, <2>2 DEF FreshNames
  <2>4. s < worker[r].next
    BY <1>4, <1>5, <2>1 DEF Pairs
  <2> QED
    BY <2>3, <2>4
<1> HIDE DEF B
<1>8. CASE Answers(r, B, front) /\ nextChain' = nextChain /\ replaced' = replaced
  <2>1. \A e \in Chains :
          \/ B.rec[e] = worker[r].rec[e]
          \/ /\ B.rec[e] = None
             /\ <<r, worker[r].rec[e]>> \in replaced \/ worker[r].rec[e] \notin worker[r].run
    BY <1>1, <1>6
  <2>2. front \in {front, Heard(front, r, Known(B))}
    OBVIOUS
  <2> QED
    BY <1>2, <1>6, <1>8, <2>1, <2>2, SnapshotInv
<1>9. CASE /\ \E E \in Evicted(B, d) :
                Answers(r, V(E), Registered(Heard(front, r, Known(V(E))), r, s, d))
           /\ nextChain' = d + 1 /\ replaced' = replaced \cup {<<r, s>>}
  <2>1. PICK E \in Evicted(B, d) :
          Answers(r, V(E), Registered(Heard(front, r, Known(V(E))), r, s, d))
    BY <1>9
  <2> DEFINE W == V(E)
  <2>2. Answers(r, W, Registered(Heard(front, r, Known(W)), r, s, d))
    BY <2>1
  <2>3. /\ E \in Workers /\ SameCall(E, B) /\ E.run = B.run /\ E.next = B.next
        /\ \A e \in Chains : \/ E.rec[e] = B.rec[e]
                             \/ E.rec[e] = None /\ e # d /\ B.rec[e] \notin B.run
    BY <1>6, <2>1, EvictedFacts
  <2> HIDE DEF d, s
  <2>4. /\ W \in Workers /\ SameCall(W, E) /\ W.run = E.run \cup {s} /\ W.next = E.next
        /\ \A e \in Chains : W.rec[e] = IF e = d THEN s ELSE E.rec[e]
    <3>1. E.rec \in [Chains -> Ids \cup {None}] /\ E.run \cup {s} \in SUBSET Ids
      BY <1>5, <2>3 DEF Workers
    <3> DEFINE rec == [E.rec EXCEPT ![d] = s]
               run == E.run \cup {s}
    <3>2. /\ rec \in [Chains -> Ids \cup {None}]
          /\ \A e \in Chains : rec[e] = IF e = d THEN s ELSE E.rec[e]
      BY <1>4, <1>5, <3>1
    <3>3. W = [E EXCEPT !.run = run, !.rec = rec] /\ run \in SUBSET Ids
      BY <3>1
    <3> HIDE DEF rec, run, W
    <3>4. W \in Workers /\ SameCall(W, E) /\ W.run = run /\ W.next = E.next /\ W.rec = rec
      BY <2>3, <3>2, <3>3 DEF Workers, SameCall
    <3> QED
      BY <3>2, <3>4 DEF run
  <2> HIDE DEF W, V
  <2>5. \A e \in Chains : \/ E.rec[e] = worker[r].rec[e]
                          \/ /\ E.rec[e] = None
                             /\ \/ worker[r].rec[e] \notin worker[r].run
                                \/ <<r, worker[r].rec[e]>> \in replaced'
    BY <1>1, <1>6, <2>3 DEF s
  <2>6. /\ E.rec[d] \in {None, s} /\ \A q \in Ranks \ {r} : worker[q].rec[d] = None
        /\ front.chain_sequences[d] = None /\ <<r, s>> \in replaced'
    BY <1>2, <1>4, <1>7, <1>9, <2>5
  <2>7. SameCall(E, worker[r]) /\ E.run = worker[r].run /\ E.next = worker[r].next
    BY <1>6, <2>3 DEF SameCall
  <2>8. Admits(r, s, d, replaced', E, W)
    BY <1>4, <1>5, <1>9, <2>4, <2>5, <2>6, <2>7 DEF Admits
  <2> DEFINE F == Registered(Heard(front, r, Known(W)), r, s, d)
  <2>9. /\ TablesOK(front', replaced') /\ Agree(front', Running', Resident', replaced')
        /\ F \in Fronts /\ SameCall(W, worker[r])
        /\ \A p \in Ranks \X Ids : p # <<r, s>> /\ front.ids[p] = None => front'.ids[p] = None
        /\ \A e \in Chains : e # d /\ front.chain_sequences[e] = None =>
             front'.chain_sequences[e] = None
    BY <1>2, <1>4, <1>5, <2>2, <2>3, <2>4, <2>8, AdmissionAgrees
  <2> HIDE DEF F
  <2>10. front' = F /\ Answers(r, W, F)
    BY <2>2 DEF F, Answers
  <2>11. Renames(r, s, d, W, F)
    <3>1. /\ nextChain' \in Nat \ {0} /\ nextChain' >= nextChain /\ d < nextChain'
      BY <1>4, <1>9 DEF d
    <3>2. \A e \in Chains : W.rec[e] \in {worker[r].rec[e], None} \/ (e = d /\ W.rec[e] = s)
      BY <2>4, <2>5
    <3> QED
      BY <1>7, <1>9, <2>4, <2>7, <2>9, <2>10, <3>1, <3>2 DEF Renames
  <2>12. FreshNames(front)'
    BY <1>2, <2>4, <2>9, <2>10, <2>11, RenamesFresh
  <2>13. Core'
    BY <2>9, <2>12 DEF Core
  <2>14. nextChain' \in Nat \ {0} /\ replaced' \subseteq Ranks \X Ids
    BY <1>4, <1>5, <1>9, <2>11 DEF Renames
  <2> QED
    BY <1>2, <2>4, <2>9, <2>10, <2>13, <2>14, AnswerInv
<1> QED
  BY <1>1, <1>8, <1>9

\* What a replica does with the sequence of an id that is dropped.
Drops(r, s, g, W) ==
  front.owners[g] # None /\ front.owners[g] = <<r, s>> /\ W = Without(worker[r], s)

\* Aborting the request, or discarding the chain, of an id.
LEMMA DropInv ==
  ASSUME DPInv, NEW g \in Ids, NEW r \in Ranks, NEW s \in Ids, NEW W, Drops(r, s, g, W),
         Answers(r, W, Dropped(Heard(front, r, Known(W)), r, g)),
         nextChain' = nextChain, replaced' = replaced
  PROVE  DPInv'
<1> DEFINE H == Heard(front, r, Known(W))
           F == Dropped(H, r, g)
<1>1. CanCall(r)
  BY DEF Answers
<1>2. front.owners[g] # None /\ front.owners[g] = <<r, s>> /\ front.owners[g][1] = r
  BY DEF Drops
<1>3. /\ worker[r] \in Workers /\ front \in Fronts /\ Typed(front) /\ Pairs
      /\ nextChain \in Nat \ {0} /\ replaced \subseteq Ranks \X Ids /\ TablesOK(front, replaced)
      /\ Running \in Runs /\ Resident \in Recs /\ Agree(front, Running, Resident, replaced)
      /\ Running = {p \in Ranks \X Ids : p[2] \in worker[p[1]].run}
      /\ \A q \in Ranks : Resident[q] = worker[q].rec
  BY <1>1, <1>2, CallFacts
<1>4. /\ W \in Workers /\ SameCall(W, worker[r]) /\ W.run = worker[r].run \ {s}
      /\ W.next = worker[r].next
      /\ \A c \in Chains : W.rec[c] = IF worker[r].rec[c] = s THEN None ELSE worker[r].rec[c]
  BY <1>2, <1>3, WithoutFacts DEF Drops
<1>5. /\ H \in Fronts /\ IsHeard(H, front, r, Known(W)) /\ TablesOK(H, replaced)
  BY <1>2, <1>3, HeardFacts, HeardTables
<1>6. F \in Fronts /\ IsDropped(F, H, r, g)
  BY <1>2, <1>5, DroppedFacts
<1>7. Answers(r, W, F) /\ front' = F
  BY DEF Answers
<1> HIDE DEF F, H
<1>8. /\ Resident' \in Recs /\ Running' \in Runs
      /\ \A q \in Ranks : Resident'[q] = IF q = r THEN W.rec ELSE Resident[q]
      /\ \A p \in Ranks \X Ids :
           p \in Running' <=> IF p[1] = r THEN p[2] \in W.run ELSE p \in Running
  BY <1>2, <1>4, <1>6, <1>7, AnsweredState
<1>9. Running' = Running \ {front.owners[g]}
  <2>1. \A p \in Ranks \X Ids : p \in Running' <=> p \in Running /\ p # <<r, s>>
    BY <1>2, <1>3, <1>4, <1>8 DEF Pairs
  <2> QED
    BY <1>2, <1>3, <1>8, <2>1 DEF Runs
<1>10. \A q \in Ranks, c \in Chains :
         Resident'[q][c] = IF <<q, Resident[q][c]>> = front.owners[g] THEN None ELSE Resident[q][c]
  <2>1. \A q \in Ranks, c \in Chains : <<q, Resident[q][c]>> = <<r, s>> <=> q = r /\ Resident[q][c] = s
    OBVIOUS
  <2> QED
    BY <1>2, <1>3, <1>4, <1>8, <2>1
<1>11. \A c \in Chains : Resident'[r][c] # None => c \in Known(W)
  BY <1>2, <1>8 DEF Known
<1>12. Agree(F, Running', Resident', replaced)
  <2> DEFINE run2 == Running'
             rec2 == Resident'
             run1 == Running
             rec1 == Resident
  <2>1. /\ run1 \in Runs /\ rec1 \in Recs /\ rec2 \in Recs
        /\ Agree(front, run1, rec1, replaced) /\ run2 = run1 \ {front.owners[g]}
        /\ \A q \in Ranks, c \in Chains :
             rec2[q][c] = IF <<q, rec1[q][c]>> = front.owners[g] THEN None ELSE rec1[q][c]
        /\ \A c \in Chains : rec2[r][c] # None => c \in Known(W)
    BY <1>3, <1>8, <1>9, <1>10, <1>11
  <2> HIDE DEF run1, rec1, run2, rec2
  <2>2. Agree(Dropped(Heard(front, r, Known(W)), r, g), run1 \ {front.owners[g]}, rec2, replaced)
    BY <1>2, <1>3, <2>1, DroppedAgrees
  <2> QED
    BY <2>1, <2>2 DEF F, H, run2, rec2
<1>13. TablesOK(F, replaced)
  <2>1. H.owners[g] # None => H.owners[g][1] = r
    BY <1>2, <1>5 DEF IsHeard
  <2> QED
    BY <1>5, <2>1, DroppedTables DEF F
<1>14. Renames(r, None, None, W, F)
  <2>1. /\ None \notin Ids /\ None \notin Chains
        /\ nextChain' \in Nat \ {0} /\ nextChain' >= nextChain
    BY <1>3 DEF Pairs
  <2>2. /\ \A p \in Ranks \X Ids : front.ids[p] = None => F.ids[p] = None
        /\ \A c \in Chains : front.chain_sequences[c] = None => F.chain_sequences[c] = None
    BY <1>5, <1>6 DEF IsHeard, IsDropped
  <2> QED
    BY <1>4, <2>1, <2>2 DEF Renames
<1>15. FreshNames(front)'
  BY <1>2, <1>4, <1>6, <1>7, <1>14, RenamesFresh
<1>16. Core'
  BY <1>7, <1>12, <1>13, <1>15 DEF Core
<1> QED
  BY <1>2, <1>3, <1>4, <1>6, <1>7, <1>16, AnswerInv

\* Aborting a request.
LEMMA AbortInv ==
  ASSUME DPInv, NEW g \in Ids, AbortRequest(g)
  PROVE  DPInv'
<1>1. PICK p \in Ranks \X Ids : front.owners[g] = p
  BY DEF AbortRequest, DPInv, TypeOK, Fronts
<1>2. p[1] \in Ranks /\ p[2] \in Ids /\ p = <<p[1], p[2]>>
  OBVIOUS
<1> DEFINE r == p[1]
           s == p[2]
           W == Without(worker[r], s)
<1>3. Drops(r, s, g, W)
  BY <1>1, <1>2 DEF AbortRequest, Drops
<1>4. /\ Answers(r, W, Dropped(Heard(front, r, Known(W)), r, g))
      /\ nextChain' = nextChain /\ replaced' = replaced
  BY <1>1 DEF AbortRequest
<1> HIDE DEF r, s, W
<1> QED
  BY <1>2, <1>3, <1>4, DropInv DEF r, s

\* Discarding a chain with the id of its sequence.
LEMMA DiscardInv ==
  ASSUME DPInv, NEW g \in Ids, NEW c \in Chains, DiscardChain(c, g)
  PROVE  DPInv'
<1>1. PICK p \in Ranks \X Ids : front.owners[g] = p
  BY DEF DiscardChain, DPInv, TypeOK, Fronts
<1>2. p[1] \in Ranks /\ p[2] \in Ids /\ p = <<p[1], p[2]>>
  OBVIOUS
<1> DEFINE r == p[1]
           s == p[2]
           W == Without(worker[r], s)
<1>3. Drops(r, s, g, W)
  BY <1>1, <1>2 DEF DiscardChain, Drops
<1>4. /\ Answers(r, W, Dropped(Heard(front, r, Known(W)), r, g))
      /\ nextChain' = nextChain /\ replaced' = replaced
  BY <1>1 DEF DiscardChain
<1> HIDE DEF r, s, W
<1> QED
  BY <1>2, <1>3, <1>4, DropInv DEF r, s

\* A call that finds an old reply: some replica has died.
LEMMA OldReplyInv ==
  ASSUME DPInv, NEW r \in Ranks, ReadsOldReply(r)
  PROVE  DPInv'
<1>1. /\ engine = "up" /\ call.kind = "none" /\ ~Quiet(r) /\ engine' = "stale"
      /\ mode' = mode /\ front' = front /\ worker' = worker /\ call' = call
      /\ nextChain' = nextChain /\ faults' = faults /\ replaced' = replaced
  BY DEF ReadsOldReply, CanCall
<1>2. call.pending = {}
  BY <1>1 DEF DPInv, PipesOK, PipeOK
<1>3. Dead # {}
  BY <1>1, <1>2 DEF DPInv, PipesOK, RepliesOwed
<1>4. RepliesOwed'
  BY <1>1, <1>3 DEF RepliesOwed, Dead
<1>5. ASSUME NEW q \in Ranks
      PROVE  PipeOK(q)'
  BY <1>1 DEF DPInv, PipesOK, PipeOK, Quiet, Known
<1>6. TypeOK'
  BY <1>1 DEF DPInv, TypeOK
<1> QED
  BY <1>1, <1>4, <1>5, <1>6 DEF DPInv, PipesOK

-----------------------------------------------------------------------------
(* Calls to every replica *)

\* There is a replica.
LEMMA SomeRank == 0 \in Ranks
BY DEF Ranks

\* The frontend without a call.
LEMMA NoCallFacts ==
  /\ NoCall \in [kind : {"none", "step", "control"}, pending : SUBSET Ranks,
                 got : [Ranks -> Replies \cup {None}]]
  /\ NoCall.kind = "none" /\ NoCall.pending = {}
BY DEF NoCall

\* _terminate keeps the tables as they are.
LEMMA TerminatedInv ==
  ASSUME DPInv, Terminated
  PROVE  DPInv'
<1>1. /\ engine' = "closed" /\ call' = NoCall
      /\ mode' = mode /\ front' = front
      /\ nextChain' = nextChain /\ faults' = faults /\ replaced' = replaced
      /\ worker' = [r \in Ranks |->
                      [worker[r] EXCEPT !.alive = FALSE, !.at = "idle", !.out = <<>>]]
  BY DEF Terminated
<1>2. ASSUME NEW r \in Ranks
      PROVE  /\ worker'[r] \in Workers /\ ~worker'[r].alive /\ worker'[r].at = "idle"
             /\ worker'[r].out = <<>>
  <2>1. worker[r] \in Workers
    BY DEF DPInv, TypeOK
  <2> DEFINE empty == <<>>
             W == worker[r]
  <2>2. worker'[r] = [W EXCEPT !.alive = FALSE, !.at = "idle", !.out = empty]
    BY <1>1
  <2>3. empty \in Seq(Replies)
    OBVIOUS
  <2> HIDE DEF empty, W
  <2>4. /\ worker'[r] \in Workers /\ ~worker'[r].alive /\ worker'[r].at = "idle"
        /\ worker'[r].out = empty
    <3>1. W \in Workers
      BY <2>1 DEF W
    <3> QED
      BY <2>2, <2>3, <3>1 DEF Workers
  <2> QED
    BY <2>4 DEF empty
<1>3. TypeOK'
  <2>1. worker' \in [Ranks -> Workers]
    BY <1>1, <1>2
  <2> QED
    BY <1>1, <2>1, NoCallFacts DEF DPInv, TypeOK
<1>4. ASSUME NEW r \in Ranks
      PROVE  PipeOK(r)'
  <2>1. call'.kind = "none" /\ call'.pending = {}
    BY <1>1, NoCallFacts
  <2>2. worker'[r].at = "idle" /\ worker'[r].out = <<>>
    BY <1>2
  <2>3. Len(worker'[r].out) <= 1
    BY <2>2
  <2> QED
    BY <2>1, <2>2, <2>3 DEF PipeOK
<1>5. RepliesOwed'
  BY <1>2, SomeRank DEF RepliesOwed, Dead
<1> QED
  BY <1>1, <1>3, <1>4, <1>5 DEF DPInv, PipesOK

\* What a step of one replica inside a call keeps: the requests it runs or has
\* finished and not reported, and the chains of those.
Carries(r, W) ==
  /\ W.next = worker[r].next
  /\ \A c \in Chains :
       \/ W.rec[c] = worker[r].rec[c]
       \/ /\ W.rec[c] = None
          /\ worker[r].rec[c] \notin worker[r].run /\ worker[r].rec[c] \notin Unreported(r)
  /\ \A s \in Ids : s \in W.run => s \in worker[r].run
  /\ \A s \in Ids :
       s \in W.run \/ s \in Unreported(r)' <=> s \in worker[r].run \/ s \in Unreported(r)
  /\ W.alive => (Quiet(r)' <=> Quiet(r))

\* A step of one replica inside a call.
LEMMA MovesInv ==
  ASSUME DPInv, NEW r \in Ranks, NEW W \in Workers, Moves(r, W), faults' \in Nat,
         PipeOK(r)', Carries(r, W)
  PROVE  DPInv'
<1>1. /\ worker[r].alive /\ mode' = mode /\ front' = front /\ call' = call /\ engine' = engine
      /\ nextChain' = nextChain /\ replaced' = replaced
      /\ worker' = [worker EXCEPT ![r] = W]
  BY DEF Moves
<1>2. /\ TypeOK /\ PipesOK /\ Pairs /\ worker \in [Ranks -> Workers] /\ front \in Fronts
      /\ Running \in Runs /\ Resident \in Recs /\ \A q \in Ranks : Resident[q] = worker[q].rec
  BY RunsAndRecs, PairFacts DEF DPInv, TypeOK
<1>3. /\ worker' \in [Ranks -> Workers] /\ worker'[r] = W
      /\ \A q \in Ranks \ {r} : worker'[q] = worker[q]
  BY <1>1, <1>2
<1>4. TypeOK'
  BY <1>1, <1>2, <1>3 DEF TypeOK
<1>5. ASSUME NEW q \in Ranks, q # r
      PROVE  PipeOK(q)' /\ (Quiet(q)' <=> Quiet(q)) /\ Unreported(q)' = Unreported(q)
  <2>1. PipeOK(q) /\ worker'[q] = worker[q] /\ call' = call
    BY <1>1, <1>2, <1>3, <1>5 DEF PipesOK
  <2> QED
    BY <2>1 DEF PipeOK, Quiet, Known, Unreported
<1>6. RepliesOwed'
  <2> SUFFICES ASSUME Dead' = {}
               PROVE  /\ engine' # "stale"
                      /\ engine' = "up" => \A q \in Ranks : Quiet(q)' <=> q \notin call'.pending
    BY DEF RepliesOwed
  <2>1. Dead = {} /\ W.alive
    BY <1>1, <1>3 DEF Dead
  <2>2. \A q \in Ranks : Quiet(q)' <=> Quiet(q)
    BY <1>5, <2>1 DEF Carries
  <2> QED
    BY <1>1, <1>2, <2>1, <2>2 DEF PipesOK, RepliesOwed
<1>7. PipesOK'
  BY <1>5, <1>6 DEF PipesOK
<1>8. Running' = Running
  <2>1. Running' = {p \in Ranks \X Ids : p[2] \in worker'[p[1]].run \/ p[2] \in Unreported(p[1])'}
    BY DEF Running
  <2>2. ASSUME NEW p \in Ranks \X Ids
        PROVE  p[2] \in worker'[p[1]].run \/ p[2] \in Unreported(p[1])' <=> p \in Running
    <3>1. p[1] \in Ranks /\ p[2] \in Ids
      OBVIOUS
    <3>2. CASE p[1] = r
      BY <1>3, <3>1, <3>2 DEF Carries, Running
    <3>3. CASE p[1] # r
      BY <1>3, <1>5, <3>1, <3>3 DEF Running
    <3> QED
      BY <3>2, <3>3
  <2> QED
    BY <1>2, <2>1, <2>2 DEF Runs
<1>9. Resident' \in Recs /\ \A q \in Ranks : Resident'[q] = worker'[q].rec
  BY <1>3 DEF Resident, Recs, Workers
<1>10. ASSUME engine = "up"
       PROVE  Agree(front', Running', Resident', replaced')
  <2>1. \A q \in Ranks, c \in Chains :
          \/ Resident'[q][c] = Resident[q][c]
          \/ /\ Resident'[q][c] = None
             /\ <<q, Resident[q][c]>> \in replaced \/ <<q, Resident[q][c]>> \notin Running
    <3> SUFFICES ASSUME NEW q \in Ranks, NEW c \in Chains, Resident'[q][c] # Resident[q][c]
                 PROVE  Resident'[q][c] = None /\ <<q, Resident[q][c]>> \notin Running
      OBVIOUS
    <3>1. q = r
      BY <1>2, <1>3, <1>9
    <3>2. /\ W.rec[c] = None /\ worker[r].rec[c] \notin worker[r].run
          /\ worker[r].rec[c] \notin Unreported(r)
      BY <1>2, <1>3, <1>9, <3>1 DEF Carries
    <3> QED
      BY <1>2, <1>3, <1>9, <3>1, <3>2 DEF Running
  <2>2. Agree(front, Running, Resident, replaced)
    BY <1>10 DEF DPInv
  <2> QED
    BY <1>1, <1>2, <1>8, <1>9, <2>1, <2>2, EvictAgrees
<1>11. ASSUME engine = "up"
       PROVE  FreshNames(front)'
  <2>1. ASSUME NEW q \in Ranks, NEW z \in Ids
        PROVE  /\ worker'[q].next = worker[q].next
               /\ z \in worker'[q].run => z \in worker[q].run
               /\ \A c \in Chains : worker'[q].rec[c] \in {worker[q].rec[c], None}
    BY <1>3 DEF Carries
  <2>2. FreshNames(front)
    BY <1>11 DEF DPInv
  <2>3. \A q \in Ranks, c \in Chains : worker'[q].rec[c] \in {worker[q].rec[c], None}
    BY <1>3 DEF Carries
  <2> QED
    BY <1>1, <1>2, <2>1, <2>2, <2>3 DEF FreshNames, Pairs
<1> QED
  BY <1>1, <1>4, <1>7, <1>10, <1>11 DEF DPInv

\* The reply of a replica goes into an empty pipe.
LEMMA ReplyFacts ==
  ASSUME NEW W \in Workers, W.out = <<>>, NEW ok \in BOOLEAN, NEW rows \in SUBSET Ids,
         NEW done \in SUBSET Ids
  PROVE  LET V == Reply(W, ok, rows, done)
         IN  /\ V \in Workers /\ V.at = "idle" /\ V.out # <<>> /\ Len(V.out) = 1
             /\ Head(V.out).known = Known(W)
             /\ Head(V.out).rows = rows /\ Head(V.out).done = done
             /\ V.run = W.run /\ V.rec = W.rec /\ V.tomb = W.tomb /\ V.next = W.next
             /\ V.alive = W.alive
<1> DEFINE reply == [ok |-> ok, known |-> Known(W), rows |-> rows, done |-> done]
           out == <<reply>>
           V == Reply(W, ok, rows, done)
<1>1. Known(W) \in SUBSET Chains
  <2>1. W.tomb \in Seq(Chains)
    BY DEF Workers
  <2>2. ToSet(W.tomb) \subseteq Chains
    BY <2>1 DEF ToSet
  <2> QED
    BY <2>2 DEF Known
<1>2. reply \in Replies /\ reply.known = Known(W) /\ reply.rows = rows /\ reply.done = done
  BY <1>1 DEF Replies
<1> HIDE DEF reply
<1>3. out \in Seq(Replies) /\ out # <<>> /\ Len(out) = 1 /\ Head(out) = reply
  BY <1>2
<1>4. Append(W.out, reply) = out
  BY <1>2
<1>5. V = [W EXCEPT !.at = "idle", !.out = out]
  BY <1>4 DEF Reply, reply
<1> HIDE DEF V, out
<1>6. V \in Workers /\ V.at = "idle" /\ V.out = out
      /\ V.run = W.run /\ V.rec = W.rec /\ V.tomb = W.tomb /\ V.next = W.next
      /\ V.alive = W.alive
  BY <1>3, <1>5 DEF Workers
<1> QED
  BY <1>2, <1>3, <1>6 DEF V

\* W is replica r without the requests it finished.
Finishes(r, W, done) ==
  /\ W.run = worker[r].run \ done /\ W.rec = worker[r].rec /\ W.tomb = worker[r].tomb
  /\ W.next = worker[r].next /\ W.alive = worker[r].alive /\ W.out = worker[r].out
  /\ done \subseteq worker[r].run /\ (call.kind # "step" => done = {})

\* A replica replies to a call to all.
LEMMA ReplyInv ==
  ASSUME DPInv, NEW r \in Ranks, worker[r].at # "idle", NEW W \in Workers,
         NEW ok \in BOOLEAN, NEW rows \in SUBSET Ids, NEW done \in SUBSET rows,
         Finishes(r, W, done), Moves(r, Reply(W, ok, rows, done)), faults' \in Nat
  PROVE  DPInv'
<1> DEFINE V == Reply(W, ok, rows, done)
<1>0. done \in SUBSET Ids
  OBVIOUS
<1>1. PipeOK(r) /\ worker[r] \in Workers
  BY DEF DPInv, PipesOK, TypeOK
<1>2. /\ worker[r].out = <<>> /\ worker[r].alive
      /\ ~(call.kind # "none" /\ r \notin call.pending)
  BY <1>1 DEF PipeOK, Quiet
<1>3. W.out = <<>>
  BY <1>2 DEF Finishes
<1>4. /\ V \in Workers /\ V.at = "idle" /\ V.out # <<>> /\ Len(V.out) = 1
      /\ Head(V.out).known = Known(W)
      /\ Head(V.out).rows = rows /\ Head(V.out).done = done
      /\ V.run = W.run /\ V.rec = W.rec /\ V.tomb = W.tomb /\ V.next = W.next
      /\ V.alive = W.alive
  BY <1>0, <1>3, ReplyFacts
<1>5. Moves(r, V)
  OBVIOUS
<1> HIDE DEF V
<1>6. worker'[r] = V /\ call' = call
  BY <1>1, <1>5 DEF Moves, DPInv, TypeOK
<1>7. Known(V) = Known(W)
  BY <1>4 DEF Known
<1>8. PipeOK(r)'
  <2>1. /\ Len(worker'[r].out) <= 1 /\ worker'[r].at = "idle"
        /\ Head(worker'[r].out).known = Known(worker'[r])
        /\ Head(worker'[r].out).done \subseteq Head(worker'[r].out).rows
        /\ Head(worker'[r].out).done \cap worker'[r].run = {}
        /\ call'.kind # "step" => Head(worker'[r].out).done = {}
    <3>1. done \cap W.run = {}
      BY DEF Finishes
    <3>2. call.kind # "step" => done = {}
      BY DEF Finishes
    <3>3. /\ Len(V.out) <= 1 /\ V.at = "idle" /\ Head(V.out).known = Known(V)
          /\ Head(V.out).done \subseteq Head(V.out).rows /\ Head(V.out).done \cap V.run = {}
      BY <1>4, <1>7, <3>1
    <3> QED
      BY <1>4, <1>6, <3>2, <3>3
  <2>2. call'.kind = "none" => call'.pending = {}
    BY <1>1, <1>6 DEF PipeOK
  <2> QED
    BY <1>2, <1>6, <2>1, <2>2 DEF PipeOK
<1>9. Unreported(r) = {} /\ \A s \in Ids : s \in Unreported(r)' <=> s \in done
  <2>1. Unreported(r) = {}
    BY <1>2 DEF Unreported
  <2>2. /\ worker'[r].out # <<>> /\ Head(worker'[r].out).done = done
        /\ ~(call'.kind # "none" /\ r \notin call'.pending)
    BY <1>2, <1>4, <1>6
  <2> QED
    BY <2>1, <2>2 DEF Unreported
<1>10. Carries(r, V)
  <2>1. ~Quiet(r) /\ ~Quiet(r)'
    BY <1>4, <1>6 DEF Quiet
  <2> QED
    BY <1>0, <1>4, <1>9, <2>1 DEF Carries, Finishes
<1> QED
  BY <1>4, <1>5, <1>8, <1>10, MovesInv

\* A reply to a control call.
LEMMA ReplyControlInv ==
  ASSUME DPInv, NEW r \in Ranks, ReplyControl(r)
  PROVE  DPInv'
<1>1. PICK ok \in BOOLEAN : Moves(r, Reply(worker[r], ok, {}, {}))
  BY DEF ReplyControl
<1>2. worker[r] \in Workers /\ worker[r].at # "idle" /\ faults' \in Nat
  BY DEF ReplyControl, DPInv, TypeOK
<1>3. Finishes(r, worker[r], {})
  BY DEF Finishes
<1> QED
  BY <1>1, <1>2, <1>3, ReplyInv

\* The step of a replica raises.
LEMMA StepRaisesInv ==
  ASSUME DPInv, NEW r \in Ranks, StepRaises(r)
  PROVE  DPInv'
<1>1. PICK ok \in BOOLEAN : Moves(r, Reply(worker[r], ok, {}, {}))
  BY DEF StepRaises
<1>2. worker[r] \in Workers /\ worker[r].at # "idle" /\ faults' \in Nat
  BY DEF StepRaises, DPInv, TypeOK
<1>3. Finishes(r, worker[r], {})
  BY DEF Finishes
<1> QED
  BY <1>1, <1>2, <1>3, ReplyInv

\* A replica leaves the step, some of its requests finished.
LEMMA LeaveStepInv ==
  ASSUME DPInv, NEW r \in Ranks, LeaveStep(r)
  PROVE  DPInv'
<1> DEFINE W(done) == [worker[r] EXCEPT !.run = @ \ done]
<1>1. PICK rows \in SUBSET worker[r].run :
        \E done \in SUBSET rows : Moves(r, Reply(W(done), TRUE, rows, done))
  BY DEF LeaveStep
<1>2. PICK done \in SUBSET rows : Moves(r, Reply(W(done), TRUE, rows, done))
  BY <1>1
<1>3. worker[r] \in Workers /\ worker[r].at = "ran" /\ faults' \in Nat /\ PipeOK(r)
  BY DEF LeaveStep, DPInv, TypeOK, PipesOK
<1>4. rows \in SUBSET Ids /\ done \subseteq worker[r].run
  BY <1>3 DEF Workers
<1>5. call.kind = "step"
  BY <1>3 DEF PipeOK
<1> DEFINE V == W(done)
<1>6. V \in Workers /\ Finishes(r, V, done)
  <2>1. V \in Workers /\ V.run = worker[r].run \ done /\ V.rec = worker[r].rec
        /\ V.tomb = worker[r].tomb /\ V.next = worker[r].next /\ V.alive = worker[r].alive
        /\ V.out = worker[r].out
    <3> DEFINE X == worker[r]
               run == X.run \ done
    <3>1. X \in Workers
      BY <1>3
    <3>2. run \in SUBSET Ids /\ V = [X EXCEPT !.run = run]
      BY <1>3 DEF Workers
    <3> HIDE DEF X, run, V
    <3>3. /\ V \in Workers /\ V.run = run /\ V.rec = X.rec
          /\ V.tomb = X.tomb /\ V.next = X.next /\ V.alive = X.alive /\ V.out = X.out
      BY <3>1, <3>2 DEF Workers
    <3> QED
      BY <3>3 DEF X, run
  <2> HIDE DEF V
  <2> QED
    BY <1>4, <1>5, <2>1 DEF Finishes
<1>7. Moves(r, Reply(V, TRUE, rows, done)) /\ worker[r].at # "idle"
  BY <1>2, <1>3
<1> HIDE DEF V, W
<1> QED
  BY <1>3, <1>4, <1>6, <1>7, ReplyInv

\* A replica schedules its step, and may evict.
LEMMA EnterStepInv ==
  ASSUME DPInv, NEW r \in Ranks, EnterStep(r)
  PROVE  DPInv'
<1>1. PICK E \in Evicted(worker[r], None) : Moves(r, [E EXCEPT !.at = "meet"])
  BY DEF EnterStep
<1> DEFINE W == [E EXCEPT !.at = "meet"]
<1>2. worker[r] \in Workers /\ worker[r].at = "step" /\ faults' \in Nat /\ PipeOK(r)
  BY DEF EnterStep, DPInv, TypeOK, PipesOK
<1>3. /\ E \in Workers /\ SameCall(E, worker[r]) /\ E.run = worker[r].run
      /\ E.next = worker[r].next
      /\ \A d \in Chains : \/ E.rec[d] = worker[r].rec[d]
                           \/ E.rec[d] = None /\ d # None /\ worker[r].rec[d] \notin worker[r].run
  BY <1>1, <1>2, EvictedFacts
<1>4. /\ W \in Workers /\ W.at = "meet" /\ W.alive = E.alive /\ W.out = E.out /\ W.run = E.run
      /\ W.rec = E.rec /\ W.next = E.next
  BY <1>3 DEF Workers
<1>5. Moves(r, W)
  BY <1>1
<1> HIDE DEF W
<1>6. worker'[r] = W /\ call' = call /\ worker[r].alive
  BY <1>2, <1>5 DEF Moves, DPInv, TypeOK
<1>7. /\ worker[r].out = <<>> /\ call.kind = "step" /\ r \in call.pending
      /\ W.out = <<>> /\ W.alive
  BY <1>2, <1>3, <1>4, <1>6 DEF PipeOK, SameCall
<1>8. PipeOK(r)'
  BY <1>4, <1>6, <1>7 DEF PipeOK
<1>9. Unreported(r) = {} /\ Unreported(r)' = {}
  BY <1>6, <1>7 DEF Unreported
<1>10. Carries(r, W)
  <2>1. ~Quiet(r) /\ ~Quiet(r)'
    BY <1>2, <1>4, <1>6 DEF Quiet
  <2> QED
    BY <1>3, <1>4, <1>9, <2>1 DEF Carries
<1> QED
  BY <1>2, <1>4, <1>5, <1>8, <1>10, MovesInv

\* A replica dies; what it has sent stays in the pipe.
LEMMA DiesInv ==
  ASSUME DPInv, NEW r \in Ranks, Dies(r)
  PROVE  DPInv'
<1> DEFINE W == [worker[r] EXCEPT !.alive = FALSE, !.at = "idle"]
<1>1. Moves(r, W) /\ faults' \in Nat
  BY DEF Dies, DPInv, TypeOK
<1>2. worker[r] \in Workers /\ PipeOK(r)
  BY DEF DPInv, TypeOK, PipesOK
<1>3. /\ W \in Workers /\ W.at = "idle" /\ W.alive = FALSE /\ W.out = worker[r].out
      /\ W.run = worker[r].run /\ W.rec = worker[r].rec /\ W.next = worker[r].next
      /\ W.tomb = worker[r].tomb
  BY <1>2 DEF Workers
<1> HIDE DEF W
<1>4. worker'[r] = W /\ call' = call
  BY <1>1 DEF Moves, DPInv, TypeOK
<1>5. Known(W) = Known(worker[r])
  BY <1>3 DEF Known
<1>6. PipeOK(r)'
  BY <1>2, <1>3, <1>4, <1>5 DEF PipeOK, Quiet
<1>7. Unreported(r)' = Unreported(r)
  BY <1>3, <1>4 DEF Unreported
<1>8. Carries(r, W)
  BY <1>3, <1>7 DEF Carries
<1> QED
  BY <1>1, <1>3, <1>6, <1>8, MovesInv

\* What a step that leaves the requests and chains of every replica keeps.
SameLoads ==
  \A r \in Ranks : /\ worker'[r].run = worker[r].run /\ worker'[r].rec = worker[r].rec
                   /\ worker'[r].next = worker[r].next
                   /\ \A s \in Ids : s \in Unreported(r)' <=> s \in Unreported(r)

\* Replicas with the same requests and chains run and hold the same.
LEMMA SameLoadsFacts ==
  ASSUME DPInv, TypeOK', SameLoads
  PROVE  Running' = Running /\ Resident' = Resident
<1>1. Running' = {p \in Ranks \X Ids : p[2] \in worker'[p[1]].run \/ p[2] \in Unreported(p[1])'}
  BY DEF Running
<1>2. \A p \in Ranks \X Ids : p[1] \in Ranks /\ p[2] \in Ids
  OBVIOUS
<1>3. Running = {p \in Ranks \X Ids : p[2] \in worker[p[1]].run \/ p[2] \in Unreported(p[1])}
  BY DEF Running
<1>4. Running' = Running
  BY <1>1, <1>2, <1>3 DEF SameLoads
<1>5. Resident' = Resident
  BY DEF Resident, SameLoads
<1> QED
  BY <1>4, <1>5

\* A step that moves neither tables nor loads keeps the invariant.
LEMMA SameLoadsInv ==
  ASSUME DPInv, TypeOK', PipesOK', SameLoads, front' = front, engine' = engine,
         nextChain' = nextChain, replaced' = replaced
  PROVE  DPInv'
<1>1. Running' = Running /\ Resident' = Resident
  BY SameLoadsFacts
<1>2. engine = "up" => FreshNames(front)'
  BY DEF DPInv, FreshNames, SameLoads
<1> QED
  BY <1>1, <1>2 DEF DPInv

\* The collective ends for all replicas at once.
LEMMA CollectiveInv ==
  ASSUME DPInv, Collective
  PROVE  DPInv'
<1>1. /\ \A r \in Ranks : worker[r].alive /\ worker[r].at = "meet"
      /\ worker' = [r \in Ranks |-> [worker[r] EXCEPT !.at = "ran"]]
      /\ mode' = mode /\ front' = front /\ call' = call /\ engine' = engine
      /\ nextChain' = nextChain /\ faults' = faults /\ replaced' = replaced
  BY DEF Collective
<1>2. ASSUME NEW r \in Ranks
      PROVE  /\ worker'[r] \in Workers /\ worker'[r].at = "ran" /\ worker'[r].out = worker[r].out
             /\ worker'[r].alive = worker[r].alive
             /\ worker'[r].run = worker[r].run /\ worker'[r].rec = worker[r].rec
             /\ worker'[r].next = worker[r].next
  <2>1. worker[r] \in Workers
    BY DEF DPInv, TypeOK
  <2>2. worker'[r] = [worker[r] EXCEPT !.at = "ran"]
    BY <1>1
  <2> QED
    BY <2>1, <2>2 DEF Workers
<1>3. TypeOK'
  <2>1. worker' \in [Ranks -> Workers]
    BY <1>1, <1>2
  <2> QED
    BY <1>1, <2>1 DEF DPInv, TypeOK
<1>4. ASSUME NEW r \in Ranks
      PROVE  PipeOK(r)' /\ ~Quiet(r) /\ ~Quiet(r)' /\ Unreported(r)' = Unreported(r)
  <2>1. PipeOK(r) /\ worker[r].at = "meet" /\ worker[r].alive
    BY <1>1 DEF DPInv, PipesOK
  <2>2. worker[r].out = <<>> /\ call.kind = "step" /\ r \in call.pending
    BY <2>1 DEF PipeOK
  <2>3. worker'[r].at = "ran" /\ worker'[r].out = <<>> /\ worker'[r].alive /\ call' = call
    BY <1>1, <1>2, <2>1, <2>2
  <2>4. Len(worker'[r].out) <= 1
    BY <2>3
  <2> QED
    BY <2>1, <2>2, <2>3, <2>4 DEF PipeOK, Quiet, Unreported
<1>5. RepliesOwed'
  <2>1. Dead' = Dead
    BY <1>2 DEF Dead
  <2> QED
    BY <1>1, <1>4, <2>1 DEF DPInv, PipesOK, RepliesOwed
<1>6. PipesOK' /\ SameLoads
  BY <1>2, <1>4, <1>5 DEF PipesOK, SameLoads
<1> QED
  BY <1>1, <1>3, <1>6, SameLoadsInv

\* A call goes out to the replicas before the first dead one.
LEMMA CallAllInv ==
  ASSUME DPInv, NEW kind \in {"step", "control"}, CallAll(kind)
  PROVE  DPInv'
<1>1. CASE kind = "step" /\ Dead # {}
  BY <1>1, TerminatedInv DEF CallAll
<1>2. CASE ~(kind = "step" /\ Dead # {})
  <2>1. /\ engine = "up" /\ call.kind = "none" /\ \A r \in Ranks : Quiet(r)
        /\ worker' = [r \in Ranks |-> IF \A q \in Dead : r < q
                                      THEN [worker[r] EXCEPT !.at = kind] ELSE worker[r]]
        /\ call' = IF Dead = {} THEN [NoCall EXCEPT !.kind = kind, !.pending = Ranks] ELSE NoCall
        /\ mode' = mode /\ front' = front /\ engine' = engine
        /\ nextChain' = nextChain /\ faults' = faults /\ replaced' = replaced
    BY <1>2 DEF CallAll
  <2>2. /\ call' \in [kind : {"none", "step", "control"}, pending : SUBSET Ranks,
                      got : [Ranks -> Replies \cup {None}]]
        /\ Dead = {} => call'.kind = kind /\ call'.pending = Ranks
        /\ Dead # {} => call'.kind = "none" /\ call'.pending = {}
    BY <2>1, NoCallFacts
  <2>3. ASSUME NEW r \in Ranks
        PROVE  /\ worker'[r] \in Workers /\ worker'[r].out = worker[r].out
               /\ worker'[r].alive = worker[r].alive
               /\ worker'[r].run = worker[r].run /\ worker'[r].rec = worker[r].rec
               /\ worker'[r].next = worker[r].next
               /\ IF \A q \in Dead : r < q THEN worker'[r].at = kind ELSE worker'[r] = worker[r]
    <3>1. worker[r] \in Workers
      BY DEF DPInv, TypeOK
    <3>2. worker'[r] = IF \A q \in Dead : r < q
                       THEN [worker[r] EXCEPT !.at = kind] ELSE worker[r]
      BY <2>1
    <3>3. CASE \A q \in Dead : r < q
      <4>1. worker'[r] = [worker[r] EXCEPT !.at = kind]
        BY <3>2, <3>3
      <4>2. /\ worker'[r] \in Workers /\ worker'[r].out = worker[r].out
            /\ worker'[r].alive = worker[r].alive
            /\ worker'[r].run = worker[r].run /\ worker'[r].rec = worker[r].rec
            /\ worker'[r].next = worker[r].next /\ worker'[r].at = kind
        BY <3>1, <4>1 DEF Workers
      <4> QED
        BY <3>3, <4>2
    <3>4. CASE ~(\A q \in Dead : r < q)
      BY <3>1, <3>2, <3>4
    <3> QED
      BY <3>3, <3>4
  <2>4. TypeOK'
    <3>1. worker' \in [Ranks -> Workers]
      BY <2>1, <2>3
    <3> QED
      BY <2>1, <2>2, <3>1 DEF DPInv, TypeOK
  <2>5. ASSUME NEW r \in Ranks
        PROVE  /\ PipeOK(r)' /\ (Dead = {} => ~Quiet(r)')
               /\ Unreported(r) = {} /\ Unreported(r)' = {}
    <3>1. PipeOK(r) /\ worker[r].out = <<>> /\ worker[r].at = "idle"
      BY <2>1 DEF DPInv, PipesOK, Quiet
    <3>2. worker'[r].out = <<>> /\ Len(worker'[r].out) <= 1
      BY <2>3, <3>1
    <3>3. CASE \A q \in Dead : r < q
      <4>1. worker'[r].at = kind
        BY <2>3, <3>3
      <4>2. r \notin Dead
        BY <3>3 DEF Ranks
      <4>3. worker'[r].alive
        BY <2>3, <4>2 DEF Dead
      <4>4. kind = "step" => call'.kind = "step" /\ r \in call'.pending
        BY <1>2, <2>2
      <4> QED
        BY <2>1, <2>2, <3>1, <3>2, <4>1, <4>3, <4>4 DEF PipeOK, Quiet, Unreported
    <3>4. CASE ~(\A q \in Dead : r < q)
      <4>1. worker'[r] = worker[r]
        BY <2>3, <3>4
      <4>2. Dead # {}
        BY <3>4
      <4> QED
        BY <2>1, <2>2, <3>1, <3>2, <4>1, <4>2 DEF PipeOK, Quiet, Unreported
    <3> QED
      BY <3>3, <3>4
  <2>6. RepliesOwed'
    <3>1. Dead' = Dead
      BY <2>3 DEF Dead
    <3> QED
      BY <2>1, <2>2, <2>5, <3>1 DEF RepliesOwed
  <2>7. PipesOK' /\ SameLoads
    BY <2>3, <2>5, <2>6 DEF PipesOK, SameLoads
  <2> QED
    BY <2>1, <2>4, <2>7, SameLoadsInv
<1> QED
  BY <1>1, <1>2

\* A match call reaches the candidates before the first dead one.
LEMMA MatchMeetsDeadInv ==
  ASSUME DPInv, MatchMeetsDead
  PROVE  DPInv'
<1> DEFINE Asked(r) == r \in Candidates /\ \A q \in Candidates \cap Dead : r < q
<1>1. /\ engine = "up" /\ call.kind = "none" /\ Candidates \cap Dead # {}
      /\ \A r \in Candidates : Quiet(r)
      /\ worker' = [r \in Ranks |-> IF Asked(r) THEN [worker[r] EXCEPT !.at = "control"] ELSE worker[r]]
      /\ mode' = mode /\ front' = front /\ call' = call /\ engine' = engine
      /\ nextChain' = nextChain /\ faults' = faults /\ replaced' = replaced
  BY DEF MatchMeetsDead
<1>2. ASSUME NEW r \in Ranks
      PROVE  /\ worker'[r] \in Workers /\ worker'[r].out = worker[r].out
             /\ worker'[r].alive = worker[r].alive
             /\ worker'[r].run = worker[r].run /\ worker'[r].rec = worker[r].rec
             /\ worker'[r].next = worker[r].next
             /\ IF Asked(r) THEN worker'[r].at = "control" /\ worker[r].alive /\ worker[r].out = <<>>
                ELSE worker'[r] = worker[r]
  <2>1. worker[r] \in Workers /\ worker'[r] = IF Asked(r) THEN [worker[r] EXCEPT !.at = "control"] ELSE worker[r]
    BY <1>1 DEF DPInv, TypeOK
  <2>2. CASE Asked(r)
    <3>1. r \in Candidates /\ \A q \in Candidates \cap Dead : r < q
      BY <2>2
    <3>2. r \notin Dead
      BY <3>1 DEF Ranks
    <3>3. worker[r].alive /\ worker[r].out = <<>>
      BY <1>1, <3>1, <3>2 DEF Dead, Quiet
    <3>4. worker'[r] = [worker[r] EXCEPT !.at = "control"]
      BY <2>1, <2>2
    <3> QED
      BY <2>1, <2>2, <3>3, <3>4, ZenonT(60) DEF Workers
  <2>3. CASE ~Asked(r)
    BY <2>1, <2>3
  <2> QED
    BY <2>2, <2>3
<1> HIDE DEF Asked
<1>3. TypeOK'
  <2>1. worker' \in [Ranks -> Workers]
    BY <1>1, <1>2
  <2> QED
    BY <1>1, <2>1 DEF DPInv, TypeOK
<1>4. ASSUME NEW r \in Ranks
      PROVE  PipeOK(r)' /\ \A s \in Ids : s \in Unreported(r)' <=> s \in Unreported(r)
  <2>1. PipeOK(r)
    BY DEF DPInv, PipesOK
  <2>2. \A s \in Ids : s \in Unreported(r)' <=> s \in Unreported(r)
    BY <1>1, <1>2 DEF Unreported
  <2>3. PipeOK(r)'
    BY <1>1, <1>2, <2>1 DEF PipeOK, Known, Quiet
  <2> QED
    BY <2>2, <2>3
<1>5. RepliesOwed'
  <2>1. Dead' = Dead
    BY <1>2 DEF Dead
  <2> QED
    BY <1>1, <2>1 DEF RepliesOwed
<1>6. PipesOK' /\ SameLoads
  BY <1>2, <1>4, <1>5 DEF PipesOK, SameLoads
<1> QED
  BY <1>1, <1>3, <1>6, SameLoadsInv

\* The frontend takes a reply out of the pipe.
LEMMA ReceiveInv ==
  ASSUME DPInv, NEW r \in Ranks, Receive(r)
  PROVE  DPInv'
<1> DEFINE reply == Head(worker[r].out)
           F == IF reply.ok THEN Heard(front, r, reply.known) ELSE front
<1>1. r \in call.pending /\ worker[r].out # <<>>
  BY DEF Receive
<1>2. CASE ~reply.ok /\ call.kind = "step"
  BY <1>2, TerminatedInv DEF Receive, Takes
<1>3. CASE ~(~reply.ok /\ call.kind = "step")
  <2>1. /\ worker' = [worker EXCEPT ![r].out = Tail(@)] /\ front' = F
        /\ call' = [call EXCEPT !.pending = @ \ {r}, !.got[r] = reply]
        /\ mode' = mode /\ engine' = engine
        /\ nextChain' = nextChain /\ faults' = faults /\ replaced' = replaced
    BY <1>3 DEF Receive, Takes
  <2>2. /\ TypeOK /\ PipesOK /\ PipeOK(r) /\ worker[r] \in Workers /\ front \in Fronts
        /\ TablesOK(front, replaced)
        /\ Running \in Runs /\ Resident \in Recs /\ \A q \in Ranks : Resident[q] = worker[q].rec
        /\ call.pending \subseteq Ranks /\ call.kind \in {"none", "step", "control"}
    BY RunsAndRecs DEF DPInv, TypeOK, PipesOK
  <2>3. reply \in Replies /\ Tail(worker[r].out) = <<>>
    <3>1. worker[r].out \in Seq(Replies) /\ Len(worker[r].out) <= 1
      BY <2>2 DEF Workers, PipeOK
    <3> DEFINE q == worker[r].out
    <3>2. q \in Seq(Replies) /\ q # <<>> /\ Len(q) <= 1
      BY <1>1, <3>1
    <3> HIDE DEF q
    <3>3. Len(q) \in Nat /\ Len(q) # 0
      BY <3>2, EmptySeq, LenProperties
    <3>4. Len(q) = 1
      <4> DEFINE n == Len(q)
      <4>1. n \in Nat /\ n # 0 /\ n <= 1
        BY <3>2, <3>3
      <4> HIDE DEF n
      <4>2. n = 1
        BY <4>1
      <4> QED
        BY <4>2 DEF n
    <3>5. Head(q) \in Replies /\ Tail(q) = <<>>
      <4>1. Tail(q) \in Seq(Replies) /\ Len(Tail(q)) = 0
        BY <3>2, <3>4, HeadTailProperties
      <4> QED
        BY <3>2, <4>1, HeadTailProperties, EmptySeq
    <3> QED
      BY <3>5 DEF q
  <2>4. /\ reply.known = Known(worker[r]) /\ reply.done \subseteq reply.rows
        /\ reply.done \cap worker[r].run = {} /\ (call.kind # "step" => reply.done = {})
        /\ worker[r].at = "idle" /\ call.kind # "none"
    BY <1>1, <2>2 DEF PipeOK
  <2> HIDE DEF reply
  <2>5. /\ worker' \in [Ranks -> Workers]
        /\ worker'[r].out = <<>> /\ worker'[r].at = "idle" /\ worker'[r].alive = worker[r].alive
        /\ worker'[r].run = worker[r].run /\ worker'[r].rec = worker[r].rec
        /\ worker'[r].next = worker[r].next
        /\ \A q \in Ranks \ {r} : worker'[q] = worker[q]
    <3> DEFINE empty == <<>>
               W == [worker[r] EXCEPT !.out = empty]
    <3>0. empty \in Seq(Replies) /\ worker[r].at = "idle"
      BY <2>4
    <3>1. worker \in [Ranks -> Workers]
      BY <2>2 DEF TypeOK
    <3>2. worker' = [worker EXCEPT ![r] = W]
      BY <2>1, <2>3
    <3> HIDE DEF empty
    <3>3. /\ W \in Workers /\ W.out = empty /\ W.at = worker[r].at /\ W.alive = worker[r].alive
          /\ W.run = worker[r].run /\ W.rec = worker[r].rec /\ W.next = worker[r].next
      BY <2>2, <3>0 DEF Workers
    <3> HIDE DEF W
    <3> QED
      BY <3>0, <3>1, <3>2, <3>3 DEF empty
  <2>6. /\ call' \in [kind : {"none", "step", "control"}, pending : SUBSET Ranks,
                      got : [Ranks -> Replies \cup {None}]]
        /\ call'.kind = call.kind /\ call'.pending = call.pending \ {r} /\ call'.got[r] = reply
        /\ \A q \in Ranks \ {r} : call'.got[q] = call.got[q]
    BY <2>1, <2>2, <2>3 DEF TypeOK
  <2>7. F \in Fronts /\ TablesOK(F, replaced)
    <3>1. /\ Heard(front, r, reply.known) \in Fronts
          /\ TablesOK(Heard(front, r, reply.known), replaced)
      BY <2>2, HeardFacts, HeardTables
    <3> QED
      BY <2>2, <3>1
  <2>8. TypeOK'
    BY <2>1, <2>2, <2>5, <2>6, <2>7 DEF TypeOK
  <2>9. PipeOK(r)' /\ Quiet(r)' /\ \A s \in Ids : s \in Unreported(r)' <=> s \in Unreported(r)
    <3>1. Quiet(r)' /\ Len(worker'[r].out) <= 1
      BY <2>5 DEF Quiet
    <3>2. PipeOK(r)'
      BY <2>3, <2>4, <2>5, <2>6, <3>1 DEF PipeOK
    <3>3. \A s \in Ids : s \in Unreported(r)' <=> s \in reply.done
      BY <2>4, <2>5, <2>6 DEF Unreported
    <3>4. \A s \in Ids : s \in Unreported(r) <=> s \in reply.done
      BY <1>1 DEF Unreported, reply
    <3> QED
      BY <3>1, <3>2, <3>3, <3>4
  <2>10. ASSUME NEW q \in Ranks, q # r
         PROVE  PipeOK(q)' /\ (Quiet(q)' <=> Quiet(q)) /\ Unreported(q)' = Unreported(q)
    <3>1. /\ PipeOK(q) /\ worker'[q] = worker[q] /\ call'.got[q] = call.got[q]
          /\ call'.kind = call.kind /\ (q \in call'.pending <=> q \in call.pending)
      BY <2>2, <2>5, <2>6, <2>10 DEF PipesOK
    <3> QED
      BY <2>4, <3>1 DEF PipeOK, Quiet, Unreported, Known
  <2>11. RepliesOwed'
    <3>1. Dead' = Dead
      BY <2>5 DEF Dead
    <3>2. \A q \in Ranks \ {r} : q \in call'.pending <=> q \in call.pending
      BY <2>6
    <3>3. r \notin call'.pending
      BY <2>6
    <3> QED
      BY <2>1, <2>2, <2>9, <2>10, <3>1, <3>2, <3>3 DEF PipesOK, RepliesOwed
  <2>12. PipesOK' /\ SameLoads
    BY <2>5, <2>9, <2>10, <2>11 DEF PipesOK, SameLoads
  <2>13. Running' = Running /\ Resident' = Resident
    BY <2>8, <2>12, SameLoadsFacts
  <2>14. \A c \in Chains : Resident[r][c] # None => c \in reply.known
    BY <2>2, <2>4 DEF Known
  <2>15. engine = "up" => Agree(F, Running, Resident, replaced)
    <3> DEFINE H == Heard(front, r, reply.known)
    <3>1. engine = "up" => Agree(front, Running, Resident, replaced)
      BY DEF DPInv
    <3>2. engine = "up" => Agree(H, Running, Resident, replaced)
      BY <2>2, <2>14, <3>1, HeardAgrees
    <3> HIDE DEF H
    <3>3. F \in {front, H}
      BY DEF H
    <3> HIDE DEF F
    <3> QED
      BY <3>1, <3>2, <3>3
  <2>16. /\ \A p \in Ranks \X Ids : front.ids[p] = None => F.ids[p] = None
         /\ \A c \in Chains : front.chain_sequences[c] = None => F.chain_sequences[c] = None
    <3> DEFINE H == Heard(front, r, reply.known)
    <3>1. IsHeard(H, front, r, reply.known)
      BY <2>2, HeardFacts
    <3> HIDE DEF H
    <3>2. F \in {front, H}
      BY DEF H
    <3>3. /\ \A p \in Ranks \X Ids : front.ids[p] = None => H.ids[p] = None
          /\ \A c \in Chains : front.chain_sequences[c] = None => H.chain_sequences[c] = None
      BY <3>1 DEF IsHeard
    <3> HIDE DEF F
    <3> QED
      BY <3>2, <3>3
  <2> HIDE DEF F
  <2>17. engine = "up" => FreshNames(front)'
    <3>1. engine = "up" => FreshNames(front)
      BY DEF DPInv
    <3>2. \A q \in Ranks, s \in Ids : <<q, s>> \in Ranks \X Ids
      OBVIOUS
    <3> QED
      BY <2>1, <2>12, <2>16, <3>1, <3>2 DEF FreshNames, SameLoads
  <2> QED
    BY <2>1, <2>7, <2>8, <2>12, <2>13, <2>15, <2>17 DEF DPInv
<1> QED
  BY <1>2, <1>3

\* Once every reply was read, the replicas are quiet and what they finished is
\* what the replies say.
LEMMA AllRead ==
  ASSUME DPInv, call.kind # "none", call.pending = {}
  PROVE  \A r \in Ranks :
           /\ PipeOK(r) /\ Quiet(r) /\ worker[r].out = <<>> /\ worker[r].at = "idle"
           /\ call.got[r] \in Replies /\ call.got[r].done \subseteq call.got[r].rows
           /\ call.got[r].done \cap worker[r].run = {}
           /\ call.kind = "control" => call.got[r].done = {}
           /\ \A s \in Ids : s \in Unreported(r) <=> s \in call.got[r].done
<1> SUFFICES ASSUME NEW r \in Ranks
             PROVE  /\ PipeOK(r) /\ Quiet(r) /\ worker[r].out = <<>> /\ worker[r].at = "idle"
                    /\ call.got[r] \in Replies /\ call.got[r].done \subseteq call.got[r].rows
                    /\ call.got[r].done \cap worker[r].run = {}
                    /\ call.kind = "control" => call.got[r].done = {}
                    /\ \A s \in Ids : s \in Unreported(r) <=> s \in call.got[r].done
  OBVIOUS
<1>1. PipeOK(r) /\ r \notin call.pending
  BY DEF DPInv, PipesOK
<1>2. /\ Quiet(r) /\ call.got[r] \in Replies /\ call.got[r].done \subseteq call.got[r].rows
      /\ call.got[r].done \cap worker[r].run = {}
      /\ call.kind = "control" => call.got[r].done = {}
  BY <1>1 DEF PipeOK
<1>3. worker[r].out = <<>> /\ worker[r].at = "idle"
  BY <1>2 DEF Quiet
<1> QED
  BY <1>1, <1>2, <1>3 DEF Unreported

\* The frontend leaves a call whose replies were all read.
LEMMA ReturnsPipes ==
  ASSUME DPInv, call.kind # "none", call.pending = {}, worker' = worker, engine' = engine,
         call' = NoCall
  PROVE  PipesOK' /\ \A r \in Ranks : Unreported(r)' = {}
<1>1. call'.kind = "none" /\ call'.pending = {}
  BY NoCallFacts
<1>2. ASSUME NEW r \in Ranks
      PROVE  PipeOK(r)' /\ (Quiet(r)' <=> Quiet(r)) /\ Unreported(r)' = {}
  <2>1. worker'[r].out = <<>> /\ worker'[r].at = "idle" /\ worker[r] = worker'[r] /\ PipeOK(r)
    BY AllRead
  <2>2. Len(worker'[r].out) <= 1
    BY <2>1
  <2> QED
    BY <1>1, <2>1, <2>2 DEF PipeOK, Quiet, Unreported
<1>3. RepliesOwed'
  BY <1>1, <1>2 DEF DPInv, PipesOK, RepliesOwed, Dead
<1> QED
  BY <1>2, <1>3 DEF PipesOK

\* A control call returns.
LEMMA ControlReturnsInv ==
  ASSUME DPInv, ControlReturns
  PROVE  DPInv'
<1>1. /\ call.kind = "control" /\ call.pending = {} /\ call' = NoCall
      /\ mode' = mode /\ front' = front /\ worker' = worker /\ engine' = engine
      /\ nextChain' = nextChain /\ faults' = faults /\ replaced' = replaced
  BY DEF ControlReturns
<1>2. TypeOK'
  BY <1>1, NoCallFacts DEF DPInv, TypeOK
<1>3. PipesOK' /\ \A r \in Ranks : Unreported(r)' = {}
  BY <1>1, ReturnsPipes
<1>4. SameLoads
  BY <1>1, <1>3, AllRead DEF SameLoads
<1> QED
  BY <1>1, <1>2, <1>3, <1>4, SameLoadsInv

\* A step returns: the finished requests leave the tables.
LEMMA StepReturnsInv ==
  ASSUME DPInv, StepReturns
  PROVE  DPInv'
<1> DEFINE done == {p \in Ranks \X Ids : p[2] \in call.got[p[1]].done}
           active == [r \in Ranks |-> {g \in front.active[r] :
                                         \A p \in done : p[1] = r => front.ids[p] # g}]
           bad == \E r \in Ranks : \E s \in call.got[r].rows : front.ids[<<r, s>>] = None
           H == ReleaseIdentity([front EXCEPT !.active = active], {front.ids[p] : p \in done})
<1>1. /\ call.kind = "step" /\ call.pending = {}
      /\ bad => Terminated
      /\ ~bad => /\ front' = H /\ call' = NoCall
                 /\ mode' = mode /\ worker' = worker /\ engine' = engine
                 /\ nextChain' = nextChain /\ faults' = faults /\ replaced' = replaced
  BY DEF StepReturns
<1>2. CASE bad
  BY <1>1, <1>2, TerminatedInv
<1>3. CASE ~bad
  <2>1. /\ front' = H /\ call' = NoCall
        /\ mode' = mode /\ worker' = worker /\ engine' = engine
        /\ nextChain' = nextChain /\ faults' = faults /\ replaced' = replaced
    BY <1>1, <1>3
  <2>2. /\ TypeOK /\ front \in Fronts /\ TablesOK(front, replaced) /\ Pairs
        /\ Running \in Runs /\ Resident \in Recs
    BY RunsAndRecs, PairFacts DEF DPInv, TypeOK
  <2>3. done \in SUBSET (Ranks \X Ids) /\ \A p \in done : front.ids[p] # None
    <3>1. ASSUME NEW p \in done
          PROVE  front.ids[p] # None
      <4>1. p[1] \in Ranks /\ p[2] \in call.got[p[1]].done /\ p = <<p[1], p[2]>>
        BY <2>2 DEF Pairs
      <4>2. p[2] \in call.got[p[1]].rows
        BY <1>1, <4>1, AllRead
      <4> QED
        BY <1>3, <4>1, <4>2
    <3> QED
      BY <3>1
  <2>4. H \in Fronts /\ IsReturned(H, front, done)
    BY <2>2, <2>3, ReturnedFacts DEF TablesOK
  <2> HIDE DEF H
  <2>5. TablesOK(H, replaced)
    BY <2>2, <2>3, <2>4, ReturnedTables
  <2>6. TypeOK'
    BY <2>1, <2>2, <2>4, NoCallFacts DEF TypeOK
  <2>7. PipesOK' /\ \A r \in Ranks : Unreported(r)' = {}
    BY <1>1, <2>1, ReturnsPipes
  <2>8. Running' = Running \ done
    <3>1. Running' = {p \in Ranks \X Ids : p[2] \in worker'[p[1]].run \/ p[2] \in Unreported(p[1])'}
      BY DEF Running
    <3>2. ASSUME NEW p \in Ranks \X Ids
          PROVE  p \in Running' <=> p \in Running /\ p \notin done
      <4>1. p[1] \in Ranks /\ p[2] \in Ids
        OBVIOUS
      <4>2. p \in Running' <=> p[2] \in worker[p[1]].run
        BY <2>1, <2>7, <3>1, <4>1
      <4>3. p \in Running <=> p[2] \in worker[p[1]].run \/ p[2] \in call.got[p[1]].done
        BY <1>1, <4>1, AllRead DEF Running
      <4>4. call.got[p[1]].done \cap worker[p[1]].run = {}
        BY <1>1, <4>1, AllRead
      <4> QED
        BY <4>2, <4>3, <4>4
    <3> QED
      BY <2>2, <3>1, <3>2 DEF Runs
  <2>9. Resident' = Resident
    BY <2>1 DEF Resident
  <2> HIDE DEF done
  <2>10. engine = "up" => Agree(H, Running', Resident', replaced)
    <3> SUFFICES ASSUME engine = "up"
                 PROVE  Agree(H, Running \ done, Resident, replaced)
      BY <2>8, <2>9
    <3>1. Agree(front, Running, Resident, replaced)
      BY DEF DPInv
    <3> QED
      BY <2>2, <2>3, <2>4, <3>1, ReturnedAgrees
  <2>11. engine = "up" => FreshNames(front)'
    <3>1. engine = "up" => FreshNames(front)
      BY DEF DPInv
    <3>2. \A q \in Ranks, s \in Ids : <<q, s>> \in Ranks \X Ids
      OBVIOUS
    <3>3. /\ \A p \in Ranks \X Ids : front.ids[p] = None => H.ids[p] = None
          /\ H.chain_sequences = front.chain_sequences
      BY <2>4 DEF IsReturned
    <3> QED
      BY <2>1, <3>1, <3>2, <3>3 DEF FreshNames
  <2> QED
    BY <2>1, <2>5, <2>6, <2>7, <2>10, <2>11 DEF DPInv
<1> QED
  BY <1>2, <1>3

-----------------------------------------------------------------------------
(* The theorems *)

\* The engine starts in the invariant.
LEMMA DPInitInv == Init => DPInv
<1> SUFFICES ASSUME Init
             PROVE  DPInv
  OBVIOUS
<1>0. Pairs
  BY PairFacts
<1>1. NewFront \in Fronts
  <2> DEFINE owners == [g \in Ids |-> None]
             ids == [p \in Ranks \X Ids |-> None]
             chains == [c \in Chains |-> None]
             act == [r \in Ranks |-> {}]
  <2>1. /\ owners \in [Ids -> (Ranks \X Ids) \cup {None}]
        /\ ids \in [Ranks \X Ids -> Ids \cup {None}]
        /\ chains \in [Chains -> Ranks \cup {None}] /\ chains \in [Chains -> Ids \cup {None}]
        /\ act \in [Ranks -> SUBSET Ids]
    OBVIOUS
  <2>2. NewFront = [owners |-> owners, ids |-> ids, chain_owners |-> chains, chain_seq_ids |-> {},
                    chain_sequences |-> chains, active |-> act, next |-> 1]
    BY DEF NewFront
  <2> HIDE DEF owners, ids, chains, act
  <2> QED
    BY <2>1, <2>2 DEF Fronts
<1>2. /\ NewWorker \in Workers /\ NewWorker.out = <<>> /\ NewWorker.at = "idle" /\ NewWorker.alive
      /\ NewWorker.run = {} /\ \A c \in Chains : NewWorker.rec[c] = None
  <2> DEFINE none == [c \in Chains |-> None]
             empty == <<>>
  <2>1. none \in [Chains -> Ids \cup {None}] /\ (\A c \in Chains : none[c] = None)
    OBVIOUS
  <2>2. empty \in Seq(Chains) /\ empty \in Seq(Replies)
    OBVIOUS
  <2>3. NewWorker = [alive |-> TRUE, run |-> {}, rec |-> none, tomb |-> empty,
                     next |-> 1, at |-> "idle", out |-> empty]
    BY DEF NewWorker
  <2> HIDE DEF none, empty
  <2>4. /\ NewWorker \in Workers /\ NewWorker.out = empty /\ NewWorker.at = "idle"
        /\ NewWorker.alive /\ NewWorker.run = {} /\ NewWorker.rec = none
    BY <2>1, <2>2, <2>3 DEF Workers
  <2> QED
    BY <2>1, <2>4 DEF empty
<1>3. /\ front = NewFront /\ call = NoCall /\ engine = "up" /\ nextChain = 1 /\ faults = 0
      /\ replaced = {} /\ mode \in Modes
      /\ worker = [r \in Ranks |-> NewWorker]
  BY DEF Init
<1>4. TypeOK
  BY <1>1, <1>2, <1>3, NoCallFacts DEF TypeOK
<1>5. \A r \in Ranks : worker[r] = NewWorker
  BY <1>3
<1>6. ASSUME NEW r \in Ranks
      PROVE  PipeOK(r) /\ Quiet(r) /\ Unreported(r) = {}
  <2>1. worker[r].out = <<>> /\ worker[r].at = "idle"
    BY <1>2, <1>5
  <2>2. Len(worker[r].out) <= 1 /\ call.kind = "none" /\ call.pending = {}
    BY <1>3, <2>1, NoCallFacts
  <2> QED
    BY <2>1, <2>2 DEF PipeOK, Quiet, Unreported
<1>7. RepliesOwed
  <2>1. call.pending = {}
    BY <1>3, NoCallFacts
  <2> QED
    BY <1>3, <1>6, <2>1 DEF RepliesOwed
<1>8. /\ \A g \in Ids : front.owners[g] = None
      /\ \A p \in Ranks \X Ids : front.ids[p] = None
      /\ \A c \in Chains : front.chain_owners[c] = None /\ front.chain_sequences[c] = None
      /\ front.chain_seq_ids = {} /\ \A r \in Ranks : front.active[r] = {}
  BY <1>3 DEF NewFront
<1>9. TablesOK(front, replaced)
  BY <1>0, <1>8 DEF TablesOK, IdsInverse, FreshIds, ChainTables, SharedIds, IdsNeeded, Pairs
<1>10. Running = {} /\ \A r \in Ranks, c \in Chains : Resident[r][c] = None
  <2>1. \A p \in Ranks \X Ids : p[1] \in Ranks
    OBVIOUS
  <2>2. \A p \in Ranks \X Ids : p[2] \notin worker[p[1]].run /\ p[2] \notin Unreported(p[1])
    BY <1>2, <1>5, <1>6, <2>1
  <2>3. Running = {}
    BY <2>2 DEF Running
  <2>4. \A r \in Ranks, c \in Chains : Resident[r][c] = None
    BY <1>2, <1>5 DEF Resident
  <2> QED
    BY <2>3, <2>4
<1>11. Agree(front, Running, Resident, replaced)
  BY <1>8, <1>10 DEF Agree, ActiveRuns, RunsKnown, ChainsKnown, Routed, Named, OneReplica
<1>12. FreshNames(front)
  BY <1>0, <1>2, <1>3, <1>5, <1>8 DEF FreshNames, Pairs
<1> QED
  BY <1>4, <1>6, <1>7, <1>9, <1>11, <1>12 DEF DPInv, PipesOK

\* Every step of the front end, of a replica and of the pipes keeps the invariant.
LEMMA DPNextInv == DPInv /\ [Next]_vars => DPInv'
<1> SUFFICES ASSUME DPInv, [Next]_vars
             PROVE  DPInv'
  OBVIOUS
<1>1. CASE UNCHANGED vars
  <2>1. /\ mode' = mode /\ front' = front /\ worker' = worker /\ call' = call
        /\ engine' = engine /\ nextChain' = nextChain /\ faults' = faults /\ replaced' = replaced
    BY <1>1
  <2>2. TypeOK'
    BY <2>1 DEF DPInv, TypeOK
  <2>3. \A r \in Ranks : PipeOK(r)' /\ Unreported(r)' = Unreported(r)
    BY <2>1 DEF DPInv, PipesOK, PipeOK, Known, Quiet, Unreported
  <2>4. RepliesOwed'
    BY <2>1 DEF DPInv, PipesOK, RepliesOwed, Dead, Quiet
  <2>5. SameLoads
    BY <2>1, <2>3 DEF SameLoads
  <2> QED
    BY <2>1, <2>2, <2>3, <2>4, <2>5, SameLoadsInv DEF PipesOK
<1>2. CASE Next
  <2>1. ASSUME NEW r \in Ranks, AdmitNew(r) \/ Read(r) \/ ReadsOldReply(r) \/ StepRaises(r) \/ Dies(r)
        PROVE  DPInv'
    BY <2>1, AdmitNewInv, ReadInv, OldReplyInv, StepRaisesInv, DiesInv
  <2>2. ASSUME NEW c \in Chains, AdmitResumed(c) \/ AdmitRecreated(c) \/ InvalidateUnowned(c)
        PROVE  DPInv'
    BY <2>2, AdmitResumedInv, AdmitRecreatedInv, InvalidateInv
  <2>3. ASSUME NEW g \in Ids, AbortRequest(g) \/ \E c \in Chains : DiscardChain(c, g)
        PROVE  DPInv'
    BY <2>3, AbortInv, DiscardInv
  <2>4. ASSUME NEW kind \in {"step", "control"}, CallAll(kind)
        PROVE  DPInv'
    BY <2>4, CallAllInv
  <2>5. ASSUME NEW r \in Ranks, Replica(r)
        PROVE  DPInv'
    BY <2>5, ReplyControlInv, EnterStepInv, LeaveStepInv DEF Replica
  <2>6. CASE Frontend
    <3>1. CASE \E r \in Ranks : Receive(r)
      BY <3>1, ReceiveInv
    <3>2. CASE NoticeDeath
      BY <3>2, TerminatedInv DEF NoticeDeath
    <3> QED
      BY <2>6, <3>1, <3>2, StepReturnsInv, ControlReturnsInv DEF Frontend
  <2>7. CASE Timeout \/ Exit
    BY <2>7, TerminatedInv DEF Timeout, Exit
  <2> QED
    BY <1>2, <2>1, <2>2, <2>3, <2>4, <2>5, <2>6, <2>7, CollectiveInv, MatchMeetsDeadInv DEF Next
<1> QED
  BY <1>1, <1>2

\* Every reachable state satisfies the inductive invariant: the types, who owes
\* a reply to whom, the tables among themselves, and the tables against what
\* the replicas run and keep, also in the middle of a call to all replicas.
THEOREM DPInvariance == Spec => []DPInv
<1> QED
  BY DPInitInv, DPNextInv, PTL DEF Spec

\* What the inductive invariant says between two calls.
LEMMA BetweenCalls ==
  ASSUME DPInv
  PROVE  IdentitiesExact
<1> SUFFICES ASSUME engine = "up", call.kind = "none"
             PROVE  IdentitiesExact
  BY DEF IdentitiesExact
<1>1. /\ TablesOK(front, replaced) /\ Typed(front) /\ Pairs
      /\ Agree(front, Running, Resident, replaced)
      /\ Running = {p \in Ranks \X Ids : p[2] \in worker[p[1]].run}
      /\ \A r \in Ranks : Resident[r] = worker[r].rec
  BY QuietRuns, RunsAndRecs, FrontFacts, PairFacts DEF DPInv, TypeOK
<1>2. ASSUME NEW r \in Ranks, NEW s \in Ids, <<r, s>> \notin replaced, NEW g,
             g = front.ids[<<r, s>>]
      PROVE  /\ g # None => front.owners[g] = <<r, s>>
             /\ s \in worker[r].run => g # None /\ g \in front.active[r]
             /\ \A c \in Chains : worker[r].rec[c] = s =>
                  /\ g # None /\ g \in front.chain_seq_ids
                  /\ front.chain_owners[c] = r /\ front.chain_sequences[c] = g
  <2>1. g \in Ids \cup {None} /\ <<r, s>> \in Ranks \X Ids
    BY <1>1, <1>2 DEF Typed, Pairs
  <2>2. g # None => front.owners[g] = <<r, s>>
    BY <1>1, <1>2, <2>1 DEF TablesOK, IdsInverse
  <2>3. s \in worker[r].run => g # None /\ g \in front.active[r]
    <3> SUFFICES ASSUME s \in worker[r].run
                 PROVE  g # None /\ g \in front.active[r]
      OBVIOUS
    <3>1. <<r, s>> \in Running \ replaced /\ <<r, s>>[1] = r
      BY <1>1, <1>2, <2>1 DEF Pairs
    <3>2. g \in front.active[r]
      BY <1>1, <1>2, <3>1 DEF Agree, RunsKnown
    <3> QED
      BY <1>1, <3>2 DEF Typed, Pairs
  <2>4. ASSUME NEW c \in Chains, worker[r].rec[c] = s
        PROVE  /\ g # None /\ g \in front.chain_seq_ids
               /\ front.chain_owners[c] = r /\ front.chain_sequences[c] = g
    <3> DEFINE h == front.chain_sequences[c]
    <3>1. h # None /\ front.chain_owners[c] = r /\ front.owners[h] = <<r, s>>
      BY <1>1, <1>2, <2>4, SMTT(60) DEF Agree, ChainsKnown, Routed, Pairs
    <3>2. h \in Ids /\ front.owners[h] # None
      BY <1>1, <2>1, <3>1 DEF Typed, Pairs
    <3>3. h = g
      BY <1>1, <1>2, <2>1, <3>1, <3>2 DEF TablesOK, IdsInverse
    <3>4. h \in front.chain_seq_ids
      BY <1>1, <3>2 DEF TablesOK, ChainTables
    <3> QED
      BY <3>1, <3>3, <3>4
  <2> QED
    BY <2>2, <2>3, <2>4
<1>3. ASSUME NEW r \in Ranks, NEW g \in front.active[r], NEW p, p = front.owners[g]
      PROVE  IF p = None THEN replaced # {}
             ELSE p[1] = r /\ p[2] \in worker[r].run /\ front.ids[p] = g
  <2>1. g \in Ids /\ p \in (Ranks \X Ids) \cup {None}
    BY <1>1, <1>3 DEF Typed
  <2>2. /\ p = None => replaced # {}
        /\ p # None => p[1] = r /\ p \in Running
    BY <1>1, <1>3, <2>1 DEF Agree, ActiveRuns
  <2>3. p # None => p[2] \in worker[r].run
    BY <1>1, <2>2
  <2>4. p # None => front.ids[p] = g
    BY <1>1, <1>3, <2>1 DEF TablesOK, IdsInverse
  <2> QED
    BY <2>2, <2>3, <2>4
<1>4. ASSUME NEW g \in Ids, front.owners[g] # None
      PROVE  \/ \E r \in Ranks : g \in front.active[r]
             \/ \E c \in Chains : front.chain_sequences[c] = g /\ front.chain_owners[c] # None
  <2>1. front.owners[g][1] \in Ranks
    BY <1>1, <1>4 DEF Typed, Pairs
  <2>2. CASE g \in front.active[front.owners[g][1]]
    BY <2>1, <2>2
  <2>3. CASE g \in front.chain_seq_ids
    <3>1. PICK c \in Chains : front.chain_sequences[c] = g
      BY <1>1, <2>3 DEF TablesOK, ChainTables
    <3>2. front.chain_owners[c] # None
      BY <1>1, <3>1 DEF TablesOK, ChainTables, Pairs
    <3> QED
      BY <3>1, <3>2
  <2> QED
    BY <1>1, <1>4, <2>2, <2>3 DEF TablesOK, IdsNeeded
<1> QED
  BY <1>2, <1>3, <1>4, SMTT(60) DEF IdentitiesExact

\* Between calls the frontend's tables are exact (the property the runs check):
\* a running request has a global id that finds it, an active id runs, a
\* resident chain is routed to its replica under the id of its sequence, and no
\* id is kept for nothing, for any number of replicas, requests and chains.
THEOREM TablesAreExact == Spec => []IdentitiesExact
<1> QED
  BY DPInvariance, BetweenCalls, PTL

\* No reply is taken for that to another call while every replica lives: the
\* frontend reads every reply before it raises the error of a control call.
THEOREM RepliesAreMatched == Spec => []RepliesMatchCalls
<1>1. DPInv => RepliesMatchCalls
  BY DEF DPInv, PipesOK, RepliesOwed, RepliesMatchCalls
<1> QED
  BY <1>1, DPInvariance, PTL

=============================================================================
