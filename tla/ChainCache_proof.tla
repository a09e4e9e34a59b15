-------------------------- MODULE ChainCache_proof --------------------------
(***************************************************************************)
(* Safety of chain mode, for every number of ranks, every size of the      *)
(* device and of the host, and every number of chains.                     *)
(*                                                                         *)
(* The inductive invariant says of each rank that its index, rows,         *)
(* snapshots and copies fit together (RankInv), of the ranks that they     *)
(* differ only in which copies they know to be over (Same), and of the     *)
(* driver that its requests are the writers of the active chains and know  *)
(* how much of each row is computed (DriverInv).                           *)
(***************************************************************************)
EXTENDS ChainCache, SequenceFacts

\* What a row, or the snapshot of one, holds.
Content(x) == [chain |-> x.chain, toks |-> x.toks, slots |-> x.slots]

RankState ==
  [rec : [Ids -> Record \cup {None}], lru : Seq(Ids), kv : [Ids -> Row \cup {None}],
   snap : [Ids -> Snapshot \cup {None}], copies : Seq(Ids)]

\* The record q of chain c against the row and the snapshot of its sequence.
ChainOK(c, q, row, snap) ==
  LET boundary == [chain |-> c, toks |-> q.processed, slots |-> q.physical]
  IN  /\ q.state = "IDLE" =>
           /\ q.processed > 0 /\ q.reserved_slots = 0 /\ q.reserved_rows = 0
           /\ row = IF q.resident_rows = 1 THEN boundary ELSE None
           /\ q.resident_rows = 0 => snap # None /\ snap.state = "valid"
           /\ snap # None => snap.state # "stale" /\ Content(snap) = boundary
      /\ q.state = "ACTIVE" => q.resident_rows = 1 /\ (snap = None \/ snap.state = "stale")

LruInv(R) == IsInjective(R.lru) /\ Range(R.lru) = Chains(R)

\* The copy of s is still reading the row it was made from.
CopyOK(row, snap) ==
  snap # None /\ snap.state = "copying" /\ row # None /\ row = Content(snap)

CopyInv(R) == IsInjective(R.copies) /\ \A s \in Range(R.copies) : CopyOK(R.kv[s], R.snap[s])

OwnerInv(R) ==
  /\ \A c, d \in Chains(R) : R.rec[c].seq = R.rec[d].seq => c = d
  /\ \A s \in Ids : R.kv[s] # None \/ R.snap[s] # None => \E c \in Chains(R) : R.rec[c].seq = s

RoomInv(R) ==
  /\ conf.host \in Nat
  /\ \A s \in Ids : /\ R.kv[s] # None => R.kv[s].slots <= R.kv[s].toks
                    /\ R.snap[s] # None => R.snap[s].slots <= R.snap[s].toks
  /\ Used(R.kv) <= NumSlots /\ Cardinality(Rows(R)) <= NumRows /\ Used(R.snap) <= conf.host
  /\ conf.host = 0 => \A s \in Ids : R.snap[s] = None

\* What holds of the records, but of those of the chains in X.
RecordsInv(R, X) ==
  \A c \in Chains(R) \ X : ChainOK(c, R.rec[c], R.kv[R.rec[c].seq], R.snap[R.rec[c].seq])

RankInv(R, X) ==
  /\ R \in RankState
  /\ LruInv(R) /\ CopyInv(R) /\ OwnerInv(R) /\ RoomInv(R) /\ RecordsInv(R, X)

\* The ranks differ only in the progress of their copies.
Same(R, T) ==
  /\ R.rec = T.rec /\ R.lru = T.lru /\ R.kv = T.kv
  /\ \A s \in Ids : /\ R.snap[s] = None <=> T.snap[s] = None
                    /\ R.snap[s] # None => Content(R.snap[s]) = Content(T.snap[s])

-----------------------------------------------------------------------------
(* Sums and sets over sequences when one row or snapshot changes *)

\* There are finitely many ids.
LEMMA IdsFinite == IsFiniteSet(Ids) /\ Ids \subseteq Nat \ {0}
<1>1. MaxIds \in Nat
  BY ChainAssumption
<1>2. IsFiniteSet(1..MaxIds)
  BY <1>1, FS_Interval
<1>3. QED BY <1>1, <1>2 DEF Ids

\* Entries of a table of rows or snapshots: None, or something with slots.
Sized(f) == \A s \in Ids : f[s] # None => f[s].slots \in Nat

Slot(x) == IF x = None THEN 0 ELSE x.slots

\* What is used is a number of slots.
LEMMA UsedNat == ASSUME NEW f, Sized(f) PROVE Used(f) \in Nat
<1>1. PICK w : w = [s \in Ids |-> IF f[s] = None THEN 0 ELSE f[s].slots]
  OBVIOUS
<1>2. \A s \in Ids : w[s] \in Nat
  BY <1>1 DEF Sized
<1>3. SumFunctionOnSet(w, Ids) \in Nat
  BY <1>2, IdsFinite, SumNat
<1>4. QED BY <1>1, <1>3 DEF Used

\* A row that changes changes what is used by the difference.
LEMMA UsedChange ==
  ASSUME NEW f, Sized(f), NEW h, NEW s \in Ids, \A t \in Ids : t # s => h[t] = f[t],
         Slot(h[s]) \in Nat
  PROVE  Used(h) = Used(f) - Slot(f[s]) + Slot(h[s]) /\ Used(h) \in Int /\ Used(f) \in Int
<1>1. PICK w : w = [t \in Ids |-> IF f[t] = None THEN 0 ELSE f[t].slots]
  OBVIOUS
<1>2. PICK v : v = [t \in Ids |-> IF h[t] = None THEN 0 ELSE h[t].slots]
  OBVIOUS
<1>3. Weights(w, Ids) /\ v[s] \in Int
  BY <1>1, <1>2 DEF Sized, Weights, Slot
<1>4. \A t \in Ids : t # s => v[t] = w[t]
  BY <1>1, <1>2
<1>5. SumFunctionOnSet(v, Ids) = SumFunctionOnSet(w, Ids) - w[s] + v[s]
  BY <1>3, <1>4, IdsFinite, SumChange
<1>6. w[s] = Slot(f[s]) /\ v[s] = Slot(h[s]) /\ w[s] \in Int
  BY <1>1, <1>2, <1>3 DEF Slot, Weights
<1>7. SumFunctionOnSet(w, Ids) \in Int
  BY <1>3, IdsFinite, SumFacts
<1>8. Used(f) = SumFunctionOnSet(w, Ids) /\ Used(h) = SumFunctionOnSet(v, Ids)
  BY <1>1, <1>2 DEF Used
<1>9. QED BY <1>3, <1>5, <1>6, <1>7, <1>8

\* Tables that agree on what their entries take use the same number of slots.
LEMMA UsedSame ==
  ASSUME NEW f, NEW h, \A s \in Ids : Slot(h[s]) = Slot(f[s])
  PROVE  Used(h) = Used(f)
<1>1. \A s \in Ids : (IF h[s] = None THEN 0 ELSE h[s].slots) = (IF f[s] = None THEN 0 ELSE f[s].slots)
  BY DEF Slot
<1>2. QED BY <1>1, Zenon DEF Used

\* Without entries nothing is used.
LEMMA UsedNone == ASSUME NEW f, \A s \in Ids : f[s] = None PROVE Used(f) = 0
<1>1. PICK w : w = [s \in Ids |-> IF f[s] = None THEN 0 ELSE f[s].slots]
  OBVIOUS
<1>2. \A s \in Ids : w[s] = 0
  BY <1>1
<1>3. PICK B : B = {}
  OBVIOUS
<1>4. Weights(w, B) /\ B \in SUBSET Ids /\ IsFiniteSet(B) /\ IsFiniteSet(Ids)
  BY <1>3, FS_EmptySet, IdsFinite DEF Weights
<1>5. (\A x \in B : w[x] = w[x]) /\ (\A x \in Ids \ B : w[x] = 0)
  BY <1>2
<1>6. SumFunctionOnSet(w, Ids) = SumFunctionOnSet(w, B)
  BY <1>4, <1>5, SumSupport
<1>7. SumFunctionOnSet(w, B) = 0
  BY <1>3, <1>4, SumFacts
<1>8. QED BY <1>1, <1>6, <1>7 DEF Used

\* The number of rows when one of them comes or goes.
LEMMA RowsChange ==
  ASSUME NEW R, NEW T, NEW s \in Ids, \A t \in Ids : t # s => T.kv[t] = R.kv[t]
  PROVE  /\ Cardinality(Rows(R)) \in Nat /\ Cardinality(Rows(T)) \in Nat
         /\ Cardinality(Rows(T)) <= Cardinality(Rows(R)) + 1
         /\ T.kv[s] = None \/ R.kv[s] # None => Cardinality(Rows(T)) <= Cardinality(Rows(R))
<1>1. PICK A : A = Rows(R)
  OBVIOUS
<1>2. PICK B : B = Rows(T)
  OBVIOUS
<1>3. A \subseteq Ids /\ B \subseteq Ids /\ B \subseteq A \cup {s} /\ (T.kv[s] = None \/ R.kv[s] # None => B \subseteq A)
  BY <1>1, <1>2 DEF Rows
<1>4. IsFiniteSet(A) /\ IsFiniteSet(B) /\ Cardinality(A) \in Nat /\ Cardinality(B) \in Nat
  <2>1. IsFiniteSet(A) /\ IsFiniteSet(B)
    BY <1>3, IdsFinite, FS_Subset
  <2>2. QED BY <2>1, FS_CardinalityType
<1>5. IsFiniteSet(A \cup {s}) /\ Cardinality(A \cup {s}) <= Cardinality(A) + 1 /\ Cardinality(A \cup {s}) \in Nat
  <2>1. /\ IsFiniteSet(A \cup {s})
        /\ Cardinality(A \cup {s}) = Cardinality(A) \/ Cardinality(A \cup {s}) = Cardinality(A) + 1
    BY <1>4, FS_AddElement, Zenon
  <2>2. QED BY <1>4, <2>1
<1>6. Cardinality(B) <= Cardinality(A \cup {s})
  BY <1>3, <1>5, FS_Subset
<1>7. B \subseteq A => Cardinality(B) <= Cardinality(A)
  BY <1>4, FS_Subset
<1>8. QED BY <1>1, <1>2, <1>3, <1>4, <1>5, <1>6, <1>7

-----------------------------------------------------------------------------
(* Steps that change one chain and one sequence *)

\* T is R but for the record of c, and the row and the snapshot of s.
ChangesOnly(R, T, c, s) ==
  /\ \A d \in Ids : d # c => T.rec[d] = R.rec[d]
  /\ \A t \in Ids : t # s => T.kv[t] = R.kv[t] /\ T.snap[t] = R.snap[t]

\* In R sequence s belongs to chain c, or to none.
OnlyOwner(R, c, s) ==
  /\ R.rec[c] # None => R.rec[c].seq = s
  /\ \A d \in Ids : d # c /\ R.rec[d] # None => R.rec[d].seq # s

\* What the step must leave of the record, the row and the snapshot it changed.
LeavesWhole(T, c, s, Y) ==
  /\ T.rec[c] = None => T.kv[s] = None /\ T.snap[s] = None
  /\ T.rec[c] # None => /\ T.rec[c].seq = s
                        /\ c \notin Y => ChainOK(c, T.rec[c], T.kv[s], T.snap[s])
  /\ s \in Range(T.copies) => CopyOK(T.kv[s], T.snap[s])
  /\ T.kv[s] # None => T.kv[s].slots <= T.kv[s].toks
  /\ T.snap[s] # None => T.snap[s].slots <= T.snap[s].toks
  /\ conf.host = 0 => T.snap[s] = None

\* What is used fits, and the queues are in order.
FitsAndOrdered(R, T, s) ==
  /\ LruInv(T) /\ IsInjective(T.copies) /\ Range(T.copies) \subseteq Range(R.copies) \cup {s}
  /\ Used(T.kv) <= NumSlots /\ Cardinality(Rows(T)) <= NumRows /\ Used(T.snap) <= conf.host

\* A chain that is known is the only owner of its sequence.
LEMMA KnownOwner ==
  ASSUME NEW R, NEW X, RankInv(R, X), NEW c \in Chains(R)
  PROVE  OnlyOwner(R, c, R.rec[c].seq) /\ R.rec[c].seq \in Ids /\ c \in Ids
         /\ R.rec[c] \in Record /\ R.rec[c] # None
<1>1. c \in Ids /\ R.rec[c] # None /\ R.rec[c] \in Record \cup {None}
  BY DEF RankInv, Chains, RankState
<1>2. R.rec[c] \in Record /\ R.rec[c].seq \in Ids
  BY <1>1 DEF Record
<1>3. \A d \in Ids : d # c /\ R.rec[d] # None => R.rec[d].seq # R.rec[c].seq
  BY <1>1 DEF RankInv, OwnerInv, Chains
<1>4. QED BY <1>1, <1>2, <1>3 DEF OnlyOwner

\* A step that changes one chain keeps the invariant of the rank if it leaves
\* that chain whole and what is used fits.
LEMMA OneChain ==
  ASSUME NEW R, NEW X, RankInv(R, X), NEW T \in RankState, NEW Y, NEW c \in Ids, NEW s \in Ids,
         ChangesOnly(R, T, c, s), OnlyOwner(R, c, s), LeavesWhole(T, c, s, Y),
         FitsAndOrdered(R, T, s), X \subseteq Y \cup {c}
  PROVE  RankInv(T, Y)
<1>1. LruInv(T) /\ IsInjective(T.copies)
  BY DEF FitsAndOrdered
<1>2. CopyInv(T)
  <2>1. ASSUME NEW t \in Range(T.copies) PROVE CopyOK(T.kv[t], T.snap[t])
    <3>1. CASE t = s
      BY <2>1, <3>1 DEF LeavesWhole
    <3>2. CASE t # s
      <4>1. t \in Ids
        BY <2>1, RangeFacts DEF RankState
      <4>2. CopyOK(R.kv[t], R.snap[t])
        BY <2>1, <3>2 DEF FitsAndOrdered, RankInv, CopyInv
      <4>3. QED BY <3>2, <4>1, <4>2 DEF ChangesOnly
    <3>3. QED BY <3>1, <3>2
  <2>2. QED BY <1>1, <2>1 DEF CopyInv
<1>3. OwnerInv(T)
  <2>1. \A d, e \in Chains(T) : T.rec[d].seq = T.rec[e].seq => d = e
    <3>1. \A d \in Chains(T) : d \in Ids /\ (d # c => d \in Chains(R) /\ T.rec[d] = R.rec[d] /\ R.rec[d].seq # s)
      BY DEF Chains, ChangesOnly, OnlyOwner
    <3>2. c \in Chains(T) => T.rec[c].seq = s
      BY DEF Chains, LeavesWhole
    <3>3. \A d, e \in Chains(R) : R.rec[d].seq = R.rec[e].seq => d = e
      BY DEF RankInv, OwnerInv
    <3>4. QED BY <3>1, <3>2, <3>3
  <2>2. ASSUME NEW t \in Ids, T.kv[t] # None \/ T.snap[t] # None
        PROVE  \E d \in Chains(T) : T.rec[d].seq = t
    <3>1. CASE t = s
      <4>1. T.rec[c] # None /\ T.rec[c].seq = s
        BY <2>2, <3>1 DEF LeavesWhole
      <4>2. QED BY <3>1, <4>1 DEF Chains
    <3>2. CASE t # s
      <4>1. R.kv[t] # None \/ R.snap[t] # None
        BY <2>2, <3>2 DEF ChangesOnly
      <4>2. PICK d \in Chains(R) : R.rec[d].seq = t
        BY <2>2, <4>1 DEF RankInv, OwnerInv
      <4>3. d # c
        BY <3>2, <4>2 DEF OnlyOwner, Chains
      <4>4. QED BY <4>2, <4>3 DEF Chains, ChangesOnly
    <3>3. QED BY <3>1, <3>2
  <2>3. QED BY <2>1, <2>2 DEF OwnerInv
<1>4. RoomInv(T)
  <2>1. ASSUME NEW t \in Ids
        PROVE  /\ T.kv[t] # None => T.kv[t].slots <= T.kv[t].toks
               /\ T.snap[t] # None => T.snap[t].slots <= T.snap[t].toks
    <3>1. CASE t = s
      BY <2>1, <3>1 DEF LeavesWhole
    <3>2. CASE t # s
      BY <2>1, <3>2 DEF ChangesOnly, RankInv, RoomInv
    <3>3. QED BY <3>1, <3>2
  <2>2. conf.host = 0 => \A t \in Ids : T.snap[t] = None
    BY DEF LeavesWhole, ChangesOnly, RankInv, RoomInv
  <2>3. conf.host \in Nat
    BY DEF RankInv, RoomInv
  <2>4. QED BY <2>1, <2>2, <2>3 DEF RoomInv, FitsAndOrdered
<1>5. RecordsInv(T, Y)
  <2>1. SUFFICES ASSUME NEW d \in Chains(T) \ Y
                 PROVE  ChainOK(d, T.rec[d], T.kv[T.rec[d].seq], T.snap[T.rec[d].seq])
    BY DEF RecordsInv
  <2>2. CASE d = c
    <3>1. T.rec[c] # None /\ c \notin Y
      BY <2>1, <2>2 DEF Chains
    <3>2. QED BY <2>2, <3>1 DEF LeavesWhole
  <2>3. CASE d # c
    <3>1. d \in Ids /\ T.rec[d] = R.rec[d] /\ d \in Chains(R) \ X
      BY <2>1, <2>3 DEF Chains, ChangesOnly
    <3>2. R.rec[d].seq \in Ids /\ R.rec[d].seq # s
      BY <2>3, <3>1, KnownOwner DEF OnlyOwner, Chains
    <3>3. ChainOK(d, R.rec[d], R.kv[R.rec[d].seq], R.snap[R.rec[d].seq])
      BY <3>1 DEF RankInv, RecordsInv
    <3>4. QED BY <3>1, <3>2, <3>3 DEF ChangesOnly
  <2>4. QED BY <2>2, <2>3
<1>6. QED BY <1>1, <1>2, <1>3, <1>4, <1>5 DEF RankInv

\* Rows and snapshots of a rank have sizes.
LEMMA RankSizes ==
  ASSUME NEW R \in RankState
  PROVE  /\ Sized(R.kv) /\ Sized(R.snap)
         /\ \A s \in Ids : Slot(R.kv[s]) \in Nat /\ Slot(R.snap[s]) \in Nat
<1>1. \A s \in Ids : R.kv[s] \in Row \cup {None} /\ R.snap[s] \in Snapshot \cup {None}
  BY DEF RankState
<1>2. \A x \in Row \cup Snapshot : x.slots \in Nat
  BY ChainAssumption DEF Row, Snapshot
<1>3. QED BY <1>1, <1>2 DEF Sized, Slot

\* A row or snapshot that only shrinks leaves room for the others.
LEMMA ShrinkFits ==
  ASSUME NEW R, NEW X, RankInv(R, X), NEW T \in RankState, NEW c \in Ids, NEW s \in Ids,
         ChangesOnly(R, T, c, s)
  PROVE  /\ Slot(T.kv[s]) <= Slot(R.kv[s]) => Used(T.kv) <= NumSlots
         /\ T.kv[s] = None \/ R.kv[s] # None => Cardinality(Rows(T)) <= NumRows
         /\ Slot(T.snap[s]) <= Slot(R.snap[s]) => Used(T.snap) <= conf.host
<1>1. R \in RankState /\ Used(R.kv) <= NumSlots /\ Cardinality(Rows(R)) <= NumRows /\ Used(R.snap) <= conf.host
      /\ conf.host \in Nat
  BY DEF RankInv, RoomInv
<1>2. Sized(R.kv) /\ Sized(R.snap) /\ Slot(R.kv[s]) \in Nat /\ Slot(R.snap[s]) \in Nat
      /\ Slot(T.kv[s]) \in Nat /\ Slot(T.snap[s]) \in Nat
  BY <1>1, RankSizes
<1>3. (\A t \in Ids : t # s => T.kv[t] = R.kv[t]) /\ (\A t \in Ids : t # s => T.snap[t] = R.snap[t])
  BY DEF ChangesOnly
<1>4. PICK f : f = R.kv
  OBVIOUS
<1>5. PICK h : h = T.kv
  OBVIOUS
<1>6. Used(h) = Used(f) - Slot(f[s]) + Slot(h[s]) /\ Used(h) \in Int /\ Used(f) \in Int
  BY <1>2, <1>3, <1>4, <1>5, UsedChange
<1>7. PICK g : g = R.snap
  OBVIOUS
<1>8. PICK k : k = T.snap
  OBVIOUS
<1>9. Used(k) = Used(g) - Slot(g[s]) + Slot(k[s]) /\ Used(k) \in Int /\ Used(g) \in Int
  BY <1>2, <1>3, <1>7, <1>8, UsedChange
<1>10. NumSlots \in Int /\ NumRows \in Int
  BY ChainAssumption
<1>11. Slot(T.kv[s]) <= Slot(R.kv[s]) => Used(T.kv) <= NumSlots
  BY <1>1, <1>2, <1>4, <1>5, <1>6, <1>10
<1>12. T.kv[s] = None \/ R.kv[s] # None => Cardinality(Rows(T)) <= NumRows
  <2>1. /\ Cardinality(Rows(R)) \in Nat /\ Cardinality(Rows(T)) \in Nat
        /\ T.kv[s] = None \/ R.kv[s] # None => Cardinality(Rows(T)) <= Cardinality(Rows(R))
    BY <1>3, RowsChange
  <2>2. QED BY <1>1, <1>10, <2>1
<1>13. Slot(T.snap[s]) <= Slot(R.snap[s]) => Used(T.snap) <= conf.host
  BY <1>1, <1>2, <1>7, <1>8, <1>9
<1>14. QED BY <1>11, <1>12, <1>13

-----------------------------------------------------------------------------
(* ChainOffloadController *)

\* A part of a queue: its members, and for one without duplicates none of those before it.
LEMMA SubSeqFacts ==
  ASSUME NEW S, NEW q \in Seq(S), NEW m \in 1..(Len(q) + 1), NEW n \in 0..Len(q)
  PROVE  /\ SubSeq(q, m, n) \in Seq(S)
         /\ Range(SubSeq(q, m, n)) \subseteq Range(q)
         /\ IsInjective(q) => /\ IsInjective(SubSeq(q, m, n))
                              /\ \A i \in 1..(m - 1) : q[i] \notin Range(SubSeq(q, m, n))
<1>1. PICK p : p = SubSeq(q, m, n)
  OBVIOUS
<1>2. Len(q) \in Nat /\ m \in Nat \ {0} /\ n \in Nat /\ DOMAIN q = 1..Len(q) /\ m <= Len(q) + 1 /\ n <= Len(q)
  OBVIOUS
<1>3. p \in Seq(S) /\ \A i \in DOMAIN p : i \in 1..(n - m + 1) /\ p[i] = q[i + m - 1]
  BY <1>1, <1>2
<1>4. \A i \in DOMAIN p : i + m - 1 \in DOMAIN q /\ ~(i + m - 1 <= m - 1) /\ i \in Nat
  BY <1>2, <1>3
<1>5. Range(p) \subseteq Range(q)
  BY <1>3, <1>4 DEF Range
<1>6. ASSUME IsInjective(q) PROVE IsInjective(p)
  <2>1. \A i, j \in DOMAIN p : i + m - 1 = j + m - 1 => i = j
    BY <1>2, <1>4
  <2>2. \A i, j \in DOMAIN q : q[i] = q[j] => i = j
    BY <1>6 DEF IsInjective
  <2>3. QED BY <1>3, <1>4, <2>1, <2>2 DEF IsInjective
<1>7. ASSUME IsInjective(q), NEW i \in 1..(m - 1) PROVE q[i] \notin Range(p)
  <2>1. i \in DOMAIN q /\ i <= m - 1 /\ i \in Nat
    BY <1>2, <1>7
  <2>2. \A j, k \in DOMAIN q : q[j] = q[k] => j = k
    BY <1>7 DEF IsInjective
  <2>3. ASSUME NEW j \in DOMAIN p, p[j] = q[i] PROVE FALSE
    <3>1. q[j + m - 1] = q[i] /\ j + m - 1 \in DOMAIN q /\ ~(j + m - 1 <= m - 1)
      BY <1>3, <1>4, <2>3
    <3>2. j + m - 1 = i
      BY <2>1, <2>2, <3>1
    <3>3. QED BY <2>1, <3>1, <3>2
  <2>4. QED BY <2>3 DEF Range
<1>8. QED BY <1>1, <1>3, <1>5, <1>6, <1>7

\* T is R but for its snapshots and copies.
KeepsIndex(R, T) == T.rec = R.rec /\ T.lru = R.lru /\ T.kv = R.kv

OthersKept(R, T, s) == \A t \in Ids : t # s => T.snap[t] = R.snap[t]

\* The copies of T are copies of R, and none is of s.
CopiesWithout(R, T, s) == IsInjective(T.copies) /\ Range(T.copies) \subseteq Range(R.copies) \ {s}

\* wait: the snapshot keeps its content, and no copy of it is under way.
LEMMA WaitFacts ==
  ASSUME NEW R \in RankState, CopyInv(R), NEW s \in Ids, R.snap[s] # None
  PROVE  /\ Wait(R, s) \in RankState /\ KeepsIndex(R, Wait(R, s)) /\ OthersKept(R, Wait(R, s), s)
         /\ Wait(R, s).snap[s] # None /\ Content(Wait(R, s).snap[s]) = Content(R.snap[s])
         /\ Wait(R, s).snap[s] \in Snapshot
         /\ Wait(R, s).snap[s].state = IF R.snap[s].state = "copying" THEN "valid" ELSE R.snap[s].state
         /\ CopiesWithout(R, Wait(R, s), s)
<1>1. R.snap[s] \in Snapshot /\ R.copies \in Seq(Ids) /\ IsInjective(R.copies)
  BY DEF RankState, CopyInv
<1>2. CASE R.snap[s].state # "copying"
  <2>1. s \notin Range(R.copies)
    BY <1>2 DEF CopyInv, CopyOK
  <2>2. QED BY <1>1, <1>2, <2>1 DEF Wait, KeepsIndex, OthersKept, CopiesWithout
<1>3. CASE R.snap[s].state = "copying"
  <2>1. PICK W : W = Wait(R, s)
    OBVIOUS
  <2>2. PICK done : done = {i \in DOMAIN R.copies : R.copies[i] = s}
    OBVIOUS
  <2>3. PICK k : k = IF done = {} THEN R.copies ELSE SubSeq(R.copies, Max(done) + 1, Len(R.copies))
    OBVIOUS
  <2>4. W = [R EXCEPT !.snap[s].state = "valid", !.copies = k]
    BY <1>3, <2>1, <2>2, <2>3 DEF Wait
  <2>5. k \in Seq(Ids) /\ IsInjective(k) /\ Range(k) \subseteq Range(R.copies) \ {s}
    <3>1. CASE done = {}
      <4>1. s \notin Range(R.copies)
        BY <2>2, <3>1 DEF Range
      <4>2. QED BY <1>1, <2>3, <3>1, <4>1
    <3>2. CASE done # {}
      <4>1. PICK i \in DOMAIN R.copies : R.copies[i] = s
        BY <2>2, <3>2
      <4>2. done = {i}
        BY <1>1, <2>2, <4>1 DEF IsInjective
      <4>3. i \in Nat \ {0} /\ i <= Len(R.copies) /\ Len(R.copies) \in Nat
        BY <1>1, <4>1
      <4>4. Max(done) = i
        BY <4>2, <4>3 DEF Max
      <4>5. PICK m : m = i + 1
        OBVIOUS
      <4>6. m \in 1..(Len(R.copies) + 1) /\ Len(R.copies) \in 0..Len(R.copies) /\ i \in 1..(m - 1)
        BY <4>3, <4>5
      <4>7. k = SubSeq(R.copies, m, Len(R.copies))
        BY <2>3, <3>2, <4>4, <4>5
      <4>8. QED BY <1>1, <4>1, <4>6, <4>7, SubSeqFacts
    <3>3. QED BY <3>1, <3>2
  <2>6. PICK v : v = [R.snap[s] EXCEPT !.state = "valid"]
    OBVIOUS
  <2>7. v \in Snapshot /\ v.state = "valid" /\ Content(v) = Content(R.snap[s])
    BY <1>1, <2>6 DEF Snapshot, Content
  <2>8. W = [R EXCEPT !.snap = [R.snap EXCEPT ![s] = v], !.copies = k]
    BY <2>4, <2>6 DEF RankState
  <2>9. W \in RankState /\ KeepsIndex(R, W) /\ OthersKept(R, W, s) /\ W.snap[s] = v /\ W.copies = k
    BY <2>5, <2>7, <2>8 DEF RankState, KeepsIndex, OthersKept
  <2>10. v # None
    BY <2>7, NoneIsNoValue
  <2>11. QED BY <1>3, <2>1, <2>5, <2>7, <2>9, <2>10 DEF CopiesWithout
<1>4. QED BY <1>2, <1>3

\* drop: the snapshot of s is gone, and with it its copy.
LEMMA DropFacts ==
  ASSUME NEW R \in RankState, CopyInv(R), NEW s \in Ids
  PROVE  /\ Drop(R, s) \in RankState /\ KeepsIndex(R, Drop(R, s)) /\ OthersKept(R, Drop(R, s), s)
         /\ Drop(R, s).snap[s] = None /\ CopiesWithout(R, Drop(R, s), s)
<1>1. CASE R.snap[s] = None
  <2>1. s \notin Range(R.copies) /\ IsInjective(R.copies)
    BY <1>1 DEF CopyInv, CopyOK
  <2>2. QED BY <1>1, <2>1 DEF Drop, KeepsIndex, OthersKept, CopiesWithout
<1>2. CASE R.snap[s] # None
  <2>1. PICK W : W = Wait(R, s)
    OBVIOUS
  <2>2. W \in RankState /\ KeepsIndex(R, W) /\ OthersKept(R, W, s) /\ CopiesWithout(R, W, s)
    BY <1>2, <2>1, WaitFacts
  <2>3. Drop(R, s) = [W EXCEPT !.snap[s] = None]
    BY <1>2, <2>1 DEF Drop
  <2>4. PICK D : D = Drop(R, s)
    OBVIOUS
  <2>5. D = [W EXCEPT !.snap = [W.snap EXCEPT ![s] = None]]
    BY <2>2, <2>3, <2>4 DEF RankState
  <2>6. D \in RankState /\ D.rec = W.rec /\ D.lru = W.lru /\ D.kv = W.kv /\ D.copies = W.copies
    BY <2>2, <2>5 DEF RankState
  <2>7. D.snap[s] = None /\ \A t \in Ids : t # s => D.snap[t] = W.snap[t]
    BY <2>2, <2>5 DEF RankState
  <2>8. QED BY <2>2, <2>4, <2>6, <2>7 DEF KeepsIndex, OthersKept, CopiesWithout
<1>3. QED BY <1>1, <1>2

\* invalidate: a snapshot becomes a stale one of the same content.
LEMMA InvalidateFacts ==
  ASSUME NEW R \in RankState, CopyInv(R), NEW s \in Ids
  PROVE  /\ Invalidate(R, s) \in RankState /\ KeepsIndex(R, Invalidate(R, s))
         /\ OthersKept(R, Invalidate(R, s), s) /\ CopiesWithout(R, Invalidate(R, s), s)
         /\ R.snap[s] = None => Invalidate(R, s).snap[s] = None
         /\ R.snap[s] # None => /\ Invalidate(R, s).snap[s] # None
                                /\ Invalidate(R, s).snap[s].state = "stale"
                                /\ Content(Invalidate(R, s).snap[s]) = Content(R.snap[s])
<1>1. CASE R.snap[s] = None
  <2>1. s \notin Range(R.copies) /\ IsInjective(R.copies)
    BY <1>1 DEF CopyInv, CopyOK
  <2>2. QED BY <1>1, <2>1 DEF Invalidate, KeepsIndex, OthersKept, CopiesWithout
<1>2. CASE R.snap[s] # None
  <2>1. PICK W : W = Wait(R, s)
    OBVIOUS
  <2>2. W \in RankState /\ KeepsIndex(R, W) /\ OthersKept(R, W, s) /\ CopiesWithout(R, W, s)
        /\ W.snap[s] \in Snapshot /\ Content(W.snap[s]) = Content(R.snap[s])
    BY <1>2, <2>1, WaitFacts
  <2>3. PICK v : v = [W.snap[s] EXCEPT !.state = "stale"]
    OBVIOUS
  <2>4. v \in Snapshot /\ v.state = "stale" /\ Content(v) = Content(R.snap[s]) /\ v # None
    BY <2>2, <2>3, NoneIsNoValue DEF Snapshot, Content
  <2>5. Invalidate(R, s) = [W EXCEPT !.snap = [W.snap EXCEPT ![s] = v]]
    BY <1>2, <2>1, <2>2, <2>3 DEF Invalidate, RankState
  <2>6. PICK D : D = Invalidate(R, s)
    OBVIOUS
  <2>7. D \in RankState /\ D.rec = W.rec /\ D.lru = W.lru /\ D.kv = W.kv /\ D.copies = W.copies
    <3>1. D = [W EXCEPT !.snap = [W.snap EXCEPT ![s] = v]] /\ [W.snap EXCEPT ![s] = v] \in [Ids -> Snapshot \cup {None}]
      BY <2>2, <2>4, <2>5, <2>6 DEF RankState
    <3>2. QED BY <2>2, <3>1 DEF RankState
  <2>8. D.snap[s] = v /\ \A t \in Ids : t # s => D.snap[t] = W.snap[t]
    BY <2>2, <2>5, <2>6 DEF RankState
  <2>9. QED BY <1>2, <2>2, <2>4, <2>6, <2>7, <2>8 DEF KeepsIndex, OthersKept, CopiesWithout
<1>3. QED BY <1>1, <1>2

\* poll: snapshots whose copies are over become valid, and nothing else changes.
LEMMA PollFacts ==
  ASSUME NEW R \in RankState
  PROVE  /\ Poll(R) \in RankState /\ KeepsIndex(R, Poll(R)) /\ Poll(R).copies = R.copies
         /\ \A s \in Ids :
              /\ R.snap[s] = None <=> Poll(R).snap[s] = None
              /\ R.snap[s] # None => /\ Content(Poll(R).snap[s]) = Content(R.snap[s])
                                     /\ \/ Poll(R).snap[s].state = R.snap[s].state
                                        \/ /\ R.snap[s].state = "copying" /\ s \notin Range(R.copies)
                                           /\ Poll(R).snap[s].state = "valid"
<1>1. PICK f : f = [s \in Ids |-> IF R.snap[s] # None /\ R.snap[s].state = "copying" /\ s \notin Range(R.copies)
                                  THEN [R.snap[s] EXCEPT !.state = "valid"] ELSE R.snap[s]]
  OBVIOUS
<1>2. Poll(R) = [R EXCEPT !.snap = f]
  BY <1>1 DEF Poll
<1>3. ASSUME NEW s \in Ids
      PROVE  /\ f[s] \in Snapshot \cup {None}
             /\ R.snap[s] = None <=> f[s] = None
             /\ R.snap[s] # None => /\ Content(f[s]) = Content(R.snap[s])
                                    /\ \/ f[s].state = R.snap[s].state
                                       \/ /\ R.snap[s].state = "copying" /\ s \notin Range(R.copies)
                                          /\ f[s].state = "valid"
  <2>1. R.snap[s] \in Snapshot \cup {None}
    BY DEF RankState
  <2>2. CASE R.snap[s] # None /\ R.snap[s].state = "copying" /\ s \notin Range(R.copies)
    <3>1. f[s] = [R.snap[s] EXCEPT !.state = "valid"]
      BY <1>1, <2>2
    <3>2. f[s] \in Snapshot /\ f[s].state = "valid" /\ Content(f[s]) = Content(R.snap[s])
      BY <2>1, <2>2, <3>1 DEF Snapshot, Content
    <3>3. QED BY <2>2, <3>2, NoneIsNoValue
  <2>3. CASE ~(R.snap[s] # None /\ R.snap[s].state = "copying" /\ s \notin Range(R.copies))
    BY <1>1, <2>1, <2>3
  <2>4. QED BY <2>2, <2>3
<1>4. f \in [Ids -> Snapshot \cup {None}]
  BY <1>1, <1>3
<1>5. Poll(R) \in RankState /\ KeepsIndex(R, Poll(R)) /\ Poll(R).copies = R.copies /\ Poll(R).snap = f
  BY <1>2, <1>4 DEF RankState, KeepsIndex
<1>6. QED BY <1>3, <1>5

\* Ranks that agree agree after equal changes; Same is an equivalence.
LEMMA SameEquivalence ==
  /\ \A R : Same(R, R)
  /\ \A R, T : Same(R, T) => Same(T, R)
  /\ \A R, T, U : Same(R, T) /\ Same(T, U) => Same(R, U)
BY DEF Same

\* poll keeps the rank as it is, but for copies known to be over.
LEMMA PollKeeps ==
  ASSUME NEW R, NEW X, RankInv(R, X)
  PROVE  RankInv(Poll(R), X) /\ Same(R, Poll(R))
<1>1. PICK P : P = Poll(R)
  OBVIOUS
<1>2. R \in RankState /\ LruInv(R) /\ CopyInv(R) /\ OwnerInv(R) /\ RoomInv(R) /\ RecordsInv(R, X)
  BY DEF RankInv
<1>3. /\ P \in RankState /\ P.rec = R.rec /\ P.lru = R.lru /\ P.kv = R.kv /\ P.copies = R.copies
      /\ \A s \in Ids :
           /\ R.snap[s] = None <=> P.snap[s] = None
           /\ R.snap[s] # None => /\ Content(P.snap[s]) = Content(R.snap[s])
                                  /\ \/ P.snap[s].state = R.snap[s].state
                                     \/ /\ R.snap[s].state = "copying" /\ s \notin Range(R.copies)
                                        /\ P.snap[s].state = "valid"
  BY <1>1, <1>2, PollFacts DEF KeepsIndex
<1>4. Chains(P) = Chains(R) /\ Rows(P) = Rows(R)
  BY <1>3 DEF Chains, Rows
<1>5. Same(R, P)
  BY <1>3 DEF Same
<1>6. LruInv(P) /\ OwnerInv(P)
  BY <1>2, <1>3, <1>4 DEF LruInv, OwnerInv
<1>7. CopyInv(P)
  <2>1. ASSUME NEW s \in Range(R.copies) PROVE CopyOK(P.kv[s], P.snap[s])
    <3>1. s \in Ids /\ CopyOK(R.kv[s], R.snap[s])
      BY <1>2, <2>1, RangeFacts DEF CopyInv, RankState
    <3>2. P.snap[s] # None /\ P.snap[s].state = "copying" /\ Content(P.snap[s]) = Content(R.snap[s])
      BY <1>3, <2>1, <3>1 DEF CopyOK
    <3>3. QED BY <1>3, <3>1, <3>2 DEF CopyOK
  <2>2. QED BY <1>2, <1>3, <2>1 DEF CopyInv
<1>8. RoomInv(P)
  <2>1. \A s \in Ids : Slot(P.snap[s]) = Slot(R.snap[s])
    BY <1>3 DEF Slot, Content
  <2>2. PICK f : f = R.snap
    OBVIOUS
  <2>3. PICK h : h = P.snap
    OBVIOUS
  <2>4. Used(h) = Used(f)
    BY <2>1, <2>2, <2>3, UsedSame
  <2>5. \A s \in Ids : P.snap[s] # None => P.snap[s].slots <= P.snap[s].toks
    <3>1. \A s \in Ids : P.snap[s] # None => /\ R.snap[s] # None
                                             /\ P.snap[s].slots = R.snap[s].slots
                                             /\ P.snap[s].toks = R.snap[s].toks
      BY <1>3 DEF Content
    <3>2. QED BY <1>2, <3>1 DEF RoomInv
  <2>6. QED BY <1>2, <1>3, <1>4, <2>2, <2>3, <2>4, <2>5 DEF RoomInv
<1>9. RecordsInv(P, X)
  <2>1. SUFFICES ASSUME NEW c \in Chains(R) \ X
                 PROVE  ChainOK(c, R.rec[c], R.kv[R.rec[c].seq], P.snap[R.rec[c].seq])
    BY <1>3, <1>4 DEF RecordsInv
  <2>2. PICK s : s = R.rec[c].seq
    OBVIOUS
  <2>3. s \in Ids
    BY <2>2, KnownOwner
  <2>4. ChainOK(c, R.rec[c], R.kv[s], R.snap[s])
    BY <1>2, <2>2 DEF RecordsInv
  <2>5. ChainOK(c, R.rec[c], R.kv[s], P.snap[s])
    <3>1. CASE R.snap[s] = None
      BY <1>3, <2>3, <2>4, <3>1
    <3>2. CASE R.snap[s] # None
      BY <1>3, <2>3, <2>4, <3>2 DEF ChainOK
    <3>3. QED BY <3>1, <3>2
  <2>6. QED BY <2>2, <2>5
<1>10. QED BY <1>1, <1>3, <1>5, <1>6, <1>7, <1>8, <1>9 DEF RankInv

-----------------------------------------------------------------------------
(* Chains that leave the device *)

\* A rank state by its parts.
IsRank(T) == T = [rec |-> T.rec, lru |-> T.lru, kv |-> T.kv, snap |-> T.snap, copies |-> T.copies]

\* A record with those fields is one.
LEMMA IsRankState ==
  ASSUME NEW T, IsRank(T), T.rec \in [Ids -> Record \cup {None}], T.lru \in Seq(Ids),
         T.kv \in [Ids -> Row \cup {None}], T.snap \in [Ids -> Snapshot \cup {None}],
         T.copies \in Seq(Ids)
  PROVE  T \in RankState
<1>1. PICK a, b, c, d, e : a = T.rec /\ b = T.lru /\ c = T.kv /\ d = T.snap /\ e = T.copies
  OBVIOUS
<1>2. T = [rec |-> a, lru |-> b, kv |-> c, snap |-> d, copies |-> e]
  BY <1>1, Zenon DEF IsRank
<1>3. QED BY <1>1, <1>2 DEF RankState

\* The parts of a rank state.
LEMMA RankParts ==
  ASSUME NEW R \in RankState
  PROVE  /\ R.rec \in [Ids -> Record \cup {None}] /\ R.lru \in Seq(Ids)
         /\ R.kv \in [Ids -> Row \cup {None}] /\ R.snap \in [Ids -> Snapshot \cup {None}]
         /\ R.copies \in Seq(Ids)
BY DEF RankState

\* T is R without chain c.
Gone(R, T, c) ==
  /\ T.rec = [R.rec EXCEPT ![c] = None] /\ T.lru = RemoveFirst(R.lru, c)
  /\ T.kv = [R.kv EXCEPT ![R.rec[c].seq] = None]
  /\ T.snap[R.rec[c].seq] = None /\ OthersKept(R, T, R.rec[c].seq)

\* T is R with chain c on the host alone.
OnHost(R, T, c) ==
  /\ T.rec = [R.rec EXCEPT ![c].resident_rows = 0] /\ T.lru = R.lru
  /\ T.kv = [R.kv EXCEPT ![R.rec[c].seq] = None]
  /\ T.snap[R.rec[c].seq] # None /\ Content(T.snap[R.rec[c].seq]) = Content(R.snap[R.rec[c].seq])
  /\ OthersKept(R, T, R.rec[c].seq)

\* The order of use without a chain that left.
LEMMA LruWithout ==
  ASSUME NEW R \in RankState, LruInv(R), NEW T, NEW c, T.lru = RemoveFirst(R.lru, c),
         T.rec = [R.rec EXCEPT ![c] = None]
  PROVE  LruInv(T) /\ T.lru \in Seq(Ids)
<1>1. R.lru \in Seq(Ids) /\ IsInjective(R.lru) /\ Range(R.lru) = Chains(R) /\ R.rec \in [Ids -> Record \cup {None}]
  BY DEF RankState, LruInv
<1>2. T.lru \in Seq(Ids) /\ Range(T.lru) = Range(R.lru) \ {c} /\ IsInjective(T.lru)
  BY <1>1, RemoveFacts
<1>3. Chains(T) = Chains(R) \ {c}
  BY <1>1 DEF Chains
<1>4. QED BY <1>1, <1>2, <1>3 DEF LruInv

\* chain_invalidate, or the eviction of a victim.
LEMMA RemoveChainKeeps ==
  ASSUME NEW R, NEW X, RankInv(R, X), NEW c \in Chains(R), NEW Y, X \subseteq Y \cup {c}
  PROVE  RankInv(RemoveChain(R, c), Y) /\ Gone(R, RemoveChain(R, c), c)
<1>1. PICK s : s = R.rec[c].seq
  OBVIOUS
<1>2. OnlyOwner(R, c, s) /\ s \in Ids /\ c \in Ids /\ R.rec[c] # None
  BY <1>1, KnownOwner
<1>3. R \in RankState /\ LruInv(R) /\ CopyInv(R)
  BY DEF RankInv
<1>4. PICK D : D = Drop(R, s)
  OBVIOUS
<1>5. D \in RankState /\ D.rec = R.rec /\ D.lru = R.lru /\ D.kv = R.kv /\ OthersKept(R, D, s)
      /\ D.snap[s] = None /\ CopiesWithout(R, D, s)
  BY <1>2, <1>3, <1>4, DropFacts DEF KeepsIndex
<1>6. PICK T : T = RemoveChain(R, c)
  OBVIOUS
<1>7. T = [[D EXCEPT !.rec[c] = None, !.lru = RemoveFirst(D.lru, c)] EXCEPT !.kv[s] = None]
  BY <1>1, <1>4, <1>6 DEF RemoveChain, FreeSeq, Forget
<1>8. /\ T.rec = [R.rec EXCEPT ![c] = None] /\ T.lru = RemoveFirst(R.lru, c)
      /\ T.kv = [R.kv EXCEPT ![s] = None] /\ T.snap = D.snap /\ T.copies = D.copies
      /\ IsRank(T)
  BY <1>5, <1>7 DEF RankState, IsRank
<1>9. LruInv(T) /\ T.lru \in Seq(Ids)
  BY <1>3, <1>8, LruWithout
<1>10. T \in RankState
  <2>1. R.rec \in [Ids -> Record \cup {None}] /\ R.kv \in [Ids -> Row \cup {None}]
        /\ D.snap \in [Ids -> Snapshot \cup {None}] /\ D.copies \in Seq(Ids)
    BY <1>3, <1>5, RankParts
  <2>2. T.rec \in [Ids -> Record \cup {None}] /\ T.kv \in [Ids -> Row \cup {None}]
    BY <1>8, <2>1
  <2>3. QED BY <1>8, <1>9, <2>1, <2>2, IsRankState
<1>11. T.rec[c] = None /\ T.kv[s] = None /\ T.snap[s] = None /\ s \notin Range(T.copies)
  BY <1>2, <1>3, <1>5, <1>8 DEF RankState, CopiesWithout
<1>12. ChangesOnly(R, T, c, s)
  BY <1>3, <1>5, <1>8 DEF ChangesOnly, OthersKept, RankState
<1>13. LeavesWhole(T, c, s, Y)
  BY <1>11 DEF LeavesWhole
<1>14. FitsAndOrdered(R, T, s)
  <2>1. Slot(T.kv[s]) <= Slot(R.kv[s]) /\ Slot(T.snap[s]) <= Slot(R.snap[s])
    BY <1>2, <1>3, <1>11, RankSizes DEF Slot
  <2>2. Used(T.kv) <= NumSlots /\ Cardinality(Rows(T)) <= NumRows /\ Used(T.snap) <= conf.host
    BY <1>2, <1>10, <1>11, <1>12, <2>1, ShrinkFits
  <2>3. QED BY <1>5, <1>8, <1>9, <2>2 DEF FitsAndOrdered, CopiesWithout
<1>15. RankInv(T, Y)
  BY <1>2, <1>10, <1>12, <1>13, <1>14, OneChain
<1>16. Gone(R, T, c)
  BY <1>1, <1>5, <1>8 DEF Gone, OthersKept
<1>17. QED BY <1>6, <1>15, <1>16

\* An idle chain on the device.
IdleHere(R, c) == c \in Chains(R) /\ R.rec[c].state = "IDLE" /\ R.rec[c].resident_rows = 1

\* The demotion of an idle chain that has a snapshot.
LEMMA DemoteKeeps ==
  ASSUME NEW R, NEW X, RankInv(R, X), NEW c, IdleHere(R, c), c \notin X, R.snap[R.rec[c].seq] # None
  PROVE  RankInv(Demote(R, c), X) /\ OnHost(R, Demote(R, c), c)
<1>1. PICK s : s = R.rec[c].seq
  OBVIOUS
<1>2. OnlyOwner(R, c, s) /\ s \in Ids /\ c \in Ids /\ R.rec[c] # None /\ R.rec[c] \in Record
      /\ R.rec[c].state = "IDLE" /\ R.rec[c].resident_rows = 1
  BY <1>1, KnownOwner DEF IdleHere
<1>3. R \in RankState /\ LruInv(R) /\ CopyInv(R) /\ ChainOK(c, R.rec[c], R.kv[s], R.snap[s])
  BY <1>1 DEF RankInv, RecordsInv, IdleHere
<1>4. PICK W : W = Wait(R, s)
  OBVIOUS
<1>5. W \in RankState /\ W.rec = R.rec /\ W.lru = R.lru /\ W.kv = R.kv /\ OthersKept(R, W, s)
      /\ W.snap[s] # None /\ CopiesWithout(R, W, s) /\ Content(W.snap[s]) = Content(R.snap[s])
      /\ W.snap[s].state = IF R.snap[s].state = "copying" THEN "valid" ELSE R.snap[s].state
  BY <1>1, <1>2, <1>3, <1>4, WaitFacts DEF KeepsIndex
<1>6. R.snap[s] # None /\ R.snap[s] \in Snapshot
  BY <1>1, <1>2, <1>3 DEF RankState
<1>7. W.snap[s].state = "valid"
  BY <1>2, <1>3, <1>5, <1>6 DEF ChainOK, Snapshot
<1>8. PICK T : T = Demote(R, c)
  OBVIOUS
<1>9. T = [[W EXCEPT !.kv[s] = None] EXCEPT !.rec[c].resident_rows = 0]
  BY <1>1, <1>4, <1>8 DEF Demote, FreeSeq
<1>10. PICK q : q = [R.rec[c] EXCEPT !.resident_rows = 0]
  OBVIOUS
<1>11. q \in Record /\ q.state = "IDLE" /\ q.resident_rows = 0 /\ q.seq = s /\ q.processed = R.rec[c].processed
       /\ q.physical = R.rec[c].physical /\ q.reserved_slots = R.rec[c].reserved_slots
       /\ q.reserved_rows = R.rec[c].reserved_rows
  BY <1>1, <1>2, <1>10 DEF Record
<1>12. /\ T.rec = [R.rec EXCEPT ![c] = q] /\ T.lru = R.lru
       /\ T.kv = [R.kv EXCEPT ![s] = None] /\ T.snap = W.snap /\ T.copies = W.copies
       /\ IsRank(T)
  BY <1>2, <1>5, <1>9, <1>10 DEF RankState, IsRank
<1>13. T \in RankState
  <2>1. R.rec \in [Ids -> Record \cup {None}] /\ R.kv \in [Ids -> Row \cup {None}] /\ R.lru \in Seq(Ids)
        /\ W.snap \in [Ids -> Snapshot \cup {None}] /\ W.copies \in Seq(Ids)
    BY <1>3, <1>5, RankParts
  <2>2. T.rec \in [Ids -> Record \cup {None}] /\ T.kv \in [Ids -> Row \cup {None}]
    BY <1>11, <1>12, <2>1, ZenonT(60)
  <2>3. QED BY <1>12, <2>1, <2>2, IsRankState
<1>14. T.rec[c] = q /\ T.kv[s] = None /\ T.snap[s] = W.snap[s] /\ s \notin Range(T.copies) /\ q # None
  BY <1>2, <1>3, <1>5, <1>11, <1>12, NoneIsNoValue DEF RankState, CopiesWithout
<1>15. ChangesOnly(R, T, c, s)
  BY <1>3, <1>5, <1>12 DEF ChangesOnly, OthersKept, RankState
<1>16. ChainOK(c, q, None, W.snap[s])
  BY <1>2, <1>3, <1>5, <1>6, <1>7, <1>11 DEF ChainOK
<1>17. LeavesWhole(T, c, s, X)
  <2>1. conf.host = 0 => R.snap[s] = None
    BY <1>2 DEF RankInv, RoomInv
  <2>2. T.snap[s].slots <= T.snap[s].toks
    <3>1. R.snap[s].slots <= R.snap[s].toks
      BY <1>2, <1>6 DEF RankInv, RoomInv
    <3>2. T.snap[s].slots = R.snap[s].slots /\ T.snap[s].toks = R.snap[s].toks
      BY <1>5, <1>14 DEF Content
    <3>3. QED BY <3>1, <3>2
  <2>3. QED BY <1>6, <1>11, <1>14, <1>16, <2>1, <2>2 DEF LeavesWhole
<1>18. FitsAndOrdered(R, T, s)
  <2>1. Slot(T.kv[s]) <= Slot(R.kv[s]) /\ Slot(T.snap[s]) <= Slot(R.snap[s])
    <3>1. Slot(R.kv[s]) \in Nat /\ Slot(R.snap[s]) \in Nat
      BY <1>2, <1>3, RankSizes
    <3>2. Slot(T.snap[s]) = Slot(R.snap[s])
      BY <1>5, <1>6, <1>14 DEF Slot, Content
    <3>3. QED BY <1>14, <3>1, <3>2 DEF Slot
  <2>2. Used(T.kv) <= NumSlots /\ Cardinality(Rows(T)) <= NumRows /\ Used(T.snap) <= conf.host
    BY <1>2, <1>13, <1>14, <1>15, <2>1, ShrinkFits
  <2>3. LruInv(T)
    <3>1. Chains(T) = Chains(R)
      BY <1>2, <1>3, <1>12, <1>14 DEF Chains, RankState
    <3>2. QED BY <1>3, <1>12, <3>1 DEF LruInv
  <2>4. QED BY <1>5, <1>12, <2>2, <2>3 DEF FitsAndOrdered, CopiesWithout
<1>19. RankInv(T, X)
  BY <1>2, <1>13, <1>15, <1>17, <1>18, OneChain
<1>20. OnHost(R, T, c)
  BY <1>1, <1>5, <1>10, <1>12 DEF OnHost, OthersKept
<1>21. QED BY <1>8, <1>19, <1>20

\* T is R but for the chains in V, which left.
Frame(R, T, V) ==
  /\ \A d \in Ids \ V : T.rec[d] = R.rec[d]
  /\ \A s \in Ids : (\A v \in V : R.rec[v].seq # s) => T.kv[s] = R.kv[s] /\ T.snap[s] = R.snap[s]
  /\ Chains(T) \subseteq Chains(R)
  /\ \A v \in V \cap Chains(T) : T.rec[v].seq = R.rec[v].seq /\ T.rec[v].state = "IDLE"

\* One more victim leaves.
LEMMA LeaveStep ==
  ASSUME NEW R, RankInv(R, {}), NEW A, RankInv(A, {}), NEW V, Frame(R, A, V),
         \A v \in V : IdleHere(R, v), NEW c, c \notin V, IdleHere(R, c),
         NEW demote \in BOOLEAN, demote => R.snap[R.rec[c].seq] # None
  PROVE  /\ RankInv(ReclaimIdle(A, c, demote), {})
         /\ Frame(R, ReclaimIdle(A, c, demote), V \cup {c})
         /\ IF demote THEN OnHost(A, ReclaimIdle(A, c, demote), c)
                      ELSE Gone(A, ReclaimIdle(A, c, demote), c)
<1>1. PICK B : B = ReclaimIdle(A, c, demote)
  OBVIOUS
<1>2. PICK s : s = R.rec[c].seq
  OBVIOUS
<1>3. OnlyOwner(R, c, s) /\ s \in Ids /\ c \in Ids /\ R.rec[c] # None
  BY <1>2, KnownOwner DEF IdleHere
<1>4. A.rec[c] = R.rec[c]
  BY <1>3 DEF Frame
<1>5. A.kv[s] = R.kv[s] /\ A.snap[s] = R.snap[s]
  <2>1. \A v \in V : R.rec[v].seq # s
    BY <1>3 DEF OnlyOwner, IdleHere, Chains
  <2>2. QED BY <1>3, <2>1 DEF Frame
<1>6. IdleHere(A, c) /\ c \in Chains(A)
  BY <1>3, <1>4 DEF IdleHere, Chains
<1>7. A \in RankState /\ B \in RankState /\ RankInv(B, {}) /\ (IF demote THEN OnHost(A, B, c) ELSE Gone(A, B, c))
  <2>1. CASE demote
    <3>1. A.snap[A.rec[c].seq] # None /\ c \notin {}
      BY <1>2, <1>4, <1>5, <2>1
    <3>2. RankInv(B, {}) /\ OnHost(A, B, c)
      BY <1>1, <1>6, <2>1, <3>1, DemoteKeeps DEF ReclaimIdle
    <3>3. QED BY <2>1, <3>2 DEF RankInv
  <2>2. CASE ~demote
    <3>1. {} \subseteq {} \cup {c}
      OBVIOUS
    <3>2. RankInv(B, {}) /\ Gone(A, B, c)
      BY <1>1, <1>6, <2>2, <3>1, RemoveChainKeeps DEF ReclaimIdle
    <3>3. QED BY <2>2, <3>2 DEF RankInv
  <2>3. QED BY <2>1, <2>2
<1>8. A.rec \in [Ids -> Record \cup {None}] /\ A.kv \in [Ids -> Row \cup {None}]
  BY <1>7, RankParts
<1>9. /\ \A d \in Ids : d # c => B.rec[d] = A.rec[d]
      /\ \A t \in Ids : t # s => B.kv[t] = A.kv[t] /\ B.snap[t] = A.snap[t]
      /\ B.rec[c] # None => B.rec[c].seq = s /\ B.rec[c].state = "IDLE"
  <2>1. CASE demote
    <3>1. B.rec = [A.rec EXCEPT ![c].resident_rows = 0] /\ B.kv = [A.kv EXCEPT ![s] = None] /\ OthersKept(A, B, s)
      BY <1>2, <1>4, <1>7, <2>1 DEF OnHost
    <3>2. A.rec[c] \in Record /\ A.rec[c].state = "IDLE" /\ A.rec[c].seq = s
      BY <1>2, <1>3, <1>4, <1>6, <1>8 DEF IdleHere
    <3>3. B.rec[c] = [A.rec[c] EXCEPT !.resident_rows = 0]
      BY <1>3, <1>8, <3>1
    <3>4. B.rec[c].seq = s /\ B.rec[c].state = "IDLE"
      BY <3>2, <3>3 DEF Record
    <3>5. QED BY <1>8, <3>1, <3>4 DEF OthersKept
  <2>2. CASE ~demote
    <3>1. B.rec = [A.rec EXCEPT ![c] = None] /\ B.kv = [A.kv EXCEPT ![s] = None] /\ OthersKept(A, B, s)
      BY <1>2, <1>4, <1>7, <2>2 DEF Gone
    <3>2. QED BY <1>3, <1>8, <3>1 DEF OthersKept
  <2>3. QED BY <2>1, <2>2
<1>10. Frame(R, B, V \cup {c})
  <2>1. \A d \in Ids \ (V \cup {c}) : B.rec[d] = R.rec[d]
    BY <1>9 DEF Frame
  <2>2. ASSUME NEW t \in Ids, \A v \in V \cup {c} : R.rec[v].seq # t
        PROVE  B.kv[t] = R.kv[t] /\ B.snap[t] = R.snap[t]
    <3>1. t # s /\ \A v \in V : R.rec[v].seq # t
      BY <1>2, <2>2
    <3>2. QED BY <1>9, <3>1 DEF Frame
  <2>3. Chains(B) \subseteq Chains(A)
    <3>1. \A d \in Ids : B.rec[d] # None => A.rec[d] # None
      BY <1>3, <1>4, <1>9
    <3>2. QED BY <3>1 DEF Chains
  <2>4. ASSUME NEW v \in (V \cup {c}) \cap Chains(B)
        PROVE  B.rec[v].seq = R.rec[v].seq /\ B.rec[v].state = "IDLE"
    <3>1. CASE v = c
      BY <1>2, <1>9, <2>4, <3>1 DEF Chains
    <3>2. CASE v # c
      <4>1. v \in V \cap Chains(A) /\ v \in Ids /\ B.rec[v] = A.rec[v]
        BY <1>9, <2>3, <2>4, <3>2 DEF Chains
      <4>2. QED BY <4>1 DEF Frame
    <3>3. QED BY <3>1, <3>2
  <2>5. Chains(B) \subseteq Chains(R)
    BY <2>3 DEF Frame
  <2>6. QED BY <2>1, <2>2, <2>4, <2>5 DEF Frame
<1>11. QED BY <1>1, <1>7, <1>10

\* f[i] is the rank after the first i victims left.
Leaves(f, R, q, demote, n) ==
  f = [i \in 0..n |-> IF i = 0 THEN R ELSE ReclaimIdle(f[i - 1], q[i], q[i] \in demote)]

\* The recursion that defines Leave has a solution, for every number of victims.
LEMMA LeavesExists ==
  ASSUME NEW R, NEW q, NEW demote, NEW n \in Nat PROVE \E f : Leaves(f, R, q, demote, n)
<1> DEFINE T == {k \in Nat : ~ \E f : Leaves(f, R, q, demote, k)}
<1>1. SUFFICES ASSUME T # {} PROVE FALSE
  OBVIOUS
<1>2. PICK k \in T : \A m \in T : k <= m
  BY <1>1, LeastNat
<1>3. k # 0
  <2>1. Leaves([i \in 0..0 |-> R], R, q, demote, 0)
    BY DEF Leaves
  <2>2. QED BY <2>1
<1>4. k - 1 \in Nat /\ ~(k <= k - 1)
  BY <1>3
<1>5. PICK f : Leaves(f, R, q, demote, k - 1)
  BY <1>2, <1>4
<1>6. PICK e : e = ReclaimIdle(f[k - 1], q[k], q[k] \in demote)
  OBVIOUS
<1>7. PICK g : g = [i \in 0..k |-> IF i = k THEN e ELSE f[i]]
  OBVIOUS
<1>8. Leaves(g, R, q, demote, k)
  <2>1. \A i \in 0..(k - 1) : i \in 0..k /\ i # k /\ (i # 0 => i - 1 \in 0..(k - 1) /\ i - 1 # k /\ i - 1 \in 0..k)
    BY <1>3
  <2>2. \A i \in 0..(k - 1) : g[i] = f[i]
    BY <1>7, <2>1
  <2>3. \A i \in 0..(k - 1) : f[i] = IF i = 0 THEN R ELSE ReclaimIdle(f[i - 1], q[i], q[i] \in demote)
    BY <1>5 DEF Leaves
  <2>4. g[k] = e /\ g[k - 1] = f[k - 1]
    BY <1>3, <1>7, <2>2
  <2>5. \A i \in 0..k : i = k \/ i \in 0..(k - 1)
    OBVIOUS
  <2>6. \A i \in 0..k : g[i] = IF i = 0 THEN R ELSE ReclaimIdle(g[i - 1], q[i], q[i] \in demote)
    BY <1>3, <1>6, <2>1, <2>2, <2>3, <2>4, <2>5
  <2>7. g = [i \in 0..k |-> g[i]]
    BY <1>7
  <2>8. QED BY <2>6, <2>7 DEF Leaves
<1>9. QED BY <1>2, <1>8

\* Leave is the last value of that solution.
LEMMA LeaveDef ==
  ASSUME NEW R, NEW q \in Seq(Ids), NEW demote
  PROVE  \E f : Leaves(f, R, q, demote, Len(q)) /\ Leave(R, q, demote) = f[Len(q)]
<1>1. PICK f : f = CHOOSE g : Leaves(g, R, q, demote, Len(q))
  OBVIOUS
<1>2. Leaves(f, R, q, demote, Len(q))
  BY <1>1, LeavesExists
<1>3. Leave(R, q, demote) = f[Len(q)]
  BY <1>1 DEF Leave, Leaves
<1>4. QED BY <1>2, <1>3

\* The first k members of a queue.
FirstOf(q, k) == {q[j] : j \in 1..k}

\* One member more, and all of them.
LEMMA FirstOfFacts ==
  ASSUME NEW q \in Seq(Ids), IsInjective(q)
  PROVE  /\ FirstOf(q, 0) = {} /\ FirstOf(q, Len(q)) = Range(q)
         /\ \A k \in 1..Len(q) : /\ FirstOf(q, k) = FirstOf(q, k - 1) \cup {q[k]}
                                 /\ q[k] \notin FirstOf(q, k - 1) /\ q[k] \in Range(q)
                                 /\ FirstOf(q, k - 1) \subseteq Range(q)
<1>1. Len(q) \in Nat /\ DOMAIN q = 1..Len(q)
  OBVIOUS
<1>2. FirstOf(q, 0) = {} /\ FirstOf(q, Len(q)) = Range(q)
  BY <1>1 DEF FirstOf, Range
<1>3. ASSUME NEW k \in 1..Len(q)
      PROVE  /\ FirstOf(q, k) = FirstOf(q, k - 1) \cup {q[k]}
             /\ q[k] \notin FirstOf(q, k - 1) /\ q[k] \in Range(q) /\ FirstOf(q, k - 1) \subseteq Range(q)
  <2>1. \A j \in 1..k : j \in 1..(k - 1) \/ j = k
    BY <1>1
  <2>2. k \in 1..k /\ \A j \in 1..(k - 1) : j \in 1..k /\ j # k /\ j \in DOMAIN q
    BY <1>1
  <2>3. k \in DOMAIN q
    BY <1>1
  <2>4. q[k] \notin FirstOf(q, k - 1)
    BY <2>2, <2>3 DEF IsInjective, FirstOf
  <2>5. QED BY <2>1, <2>2, <2>3, <2>4 DEF FirstOf, Range
<1>4. QED BY <1>2, <1>3

\* What the victims of q must be for Leave.
Victims(R, q, demote) ==
  /\ q \in Seq(Ids) /\ IsInjective(q)
  /\ \A c \in Range(q) : IdleHere(R, c) /\ (c \in demote => R.snap[R.rec[c].seq] # None)

\* However many victims left, the rank is in order and the others are untouched;
\* each one left as the driver decided.
LEMMA LeaveStates ==
  ASSUME NEW R, RankInv(R, {}), NEW q, NEW demote, Victims(R, q, demote),
         NEW f, Leaves(f, R, q, demote, Len(q))
  PROVE  /\ f[0] = R
         /\ \A k \in 0..Len(q) : RankInv(f[k], {}) /\ Frame(R, f[k], FirstOf(q, k))
         /\ \A k \in 1..Len(q) : IF q[k] \in demote THEN OnHost(f[k - 1], f[k], q[k])
                                                   ELSE Gone(f[k - 1], f[k], q[k])
<1> DEFINE Fine(k) == RankInv(f[k], {}) /\ Frame(R, f[k], FirstOf(q, k))
           T == {k \in 0..Len(q) : ~Fine(k)}
<1>1. q \in Seq(Ids) /\ IsInjective(q) /\ Len(q) \in Nat
  BY DEF Victims
<1>2. \A i \in 0..Len(q) : f[i] = IF i = 0 THEN R ELSE ReclaimIdle(f[i - 1], q[i], q[i] \in demote)
  BY DEF Leaves
<1>3. f[0] = R
  BY <1>1, <1>2
<1>4. Fine(0)
  <2>1. FirstOf(q, 0) = {}
    BY <1>1, FirstOfFacts
  <2>2. Frame(R, R, {})
    BY DEF Frame
  <2>3. QED BY <1>3, <2>1, <2>2
<1>5. ASSUME NEW k \in 1..Len(q), Fine(k - 1)
      PROVE  Fine(k) /\ IF q[k] \in demote THEN OnHost(f[k - 1], f[k], q[k])
                                         ELSE Gone(f[k - 1], f[k], q[k])
  <2>1. PICK A : A = f[k - 1]
    OBVIOUS
  <2>2. PICK V : V = FirstOf(q, k - 1)
    OBVIOUS
  <2>3. PICK b : b = (q[k] \in demote)
    OBVIOUS
  <2>4. f[k] = ReclaimIdle(A, q[k], b) /\ b \in BOOLEAN
    BY <1>1, <1>2, <1>5, <2>1, <2>3
  <2>5. FirstOf(q, k) = V \cup {q[k]} /\ q[k] \notin V /\ q[k] \in Range(q) /\ V \subseteq Range(q)
    BY <1>1, <2>2, FirstOfFacts
  <2>6. IdleHere(R, q[k]) /\ (b => R.snap[R.rec[q[k]].seq] # None) /\ \A v \in V : IdleHere(R, v)
    BY <2>3, <2>5 DEF Victims
  <2>7. RankInv(A, {}) /\ Frame(R, A, V)
    BY <1>5, <2>1, <2>2
  <2>8. PICK c : c = q[k]
    OBVIOUS
  <2>9. /\ RankInv(ReclaimIdle(A, c, b), {}) /\ Frame(R, ReclaimIdle(A, c, b), V \cup {c})
        /\ IF b THEN OnHost(A, ReclaimIdle(A, c, b), c) ELSE Gone(A, ReclaimIdle(A, c, b), c)
    BY <2>4, <2>5, <2>6, <2>7, <2>8, LeaveStep
  <2>10. QED BY <2>1, <2>3, <2>4, <2>5, <2>8, <2>9
<1> HIDE DEF Fine
<1>6. T = {}
  <2>1. SUFFICES ASSUME T # {} PROVE FALSE
    OBVIOUS
  <2>2. T \in SUBSET Nat
    BY <1>1
  <2>3. PICK k \in T : \A m \in T : k <= m
    BY <2>1, <2>2, LeastNat, Zenon
  <2>4. k # 0
    BY <1>4, <2>3
  <2>5. k \in 1..Len(q) /\ k - 1 \in 0..Len(q) /\ ~(k <= k - 1)
    BY <1>1, <2>3, <2>4
  <2>6. Fine(k - 1)
    BY <2>3, <2>5
  <2>7. QED BY <1>5, <2>3, <2>5, <2>6
<1>7. \A k \in 1..Len(q) : Fine(k - 1)
  <2>1. \A k \in 1..Len(q) : k - 1 \in 0..Len(q)
    BY <1>1
  <2>2. QED BY <1>6, <2>1
<1>8. QED BY <1>3, <1>5, <1>6, <1>7 DEF Fine

\* The victims leave, and nothing else changes.
LEMMA LeaveKeeps ==
  ASSUME NEW R, RankInv(R, {}), NEW q, NEW demote, Victims(R, q, demote)
  PROVE  RankInv(Leave(R, q, demote), {}) /\ Frame(R, Leave(R, q, demote), Range(q))
<1>1. q \in Seq(Ids) /\ IsInjective(q) /\ Len(q) \in 0..Len(q)
  BY DEF Victims
<1>2. PICK f : Leaves(f, R, q, demote, Len(q)) /\ Leave(R, q, demote) = f[Len(q)]
  BY <1>1, LeaveDef
<1>3. RankInv(f[Len(q)], {}) /\ Frame(R, f[Len(q)], FirstOf(q, Len(q)))
  BY <1>1, <1>2, LeaveStates
<1>4. FirstOf(q, Len(q)) = Range(q)
  BY <1>1, FirstOfFacts
<1>5. QED BY <1>2, <1>3, <1>4

\* Ranks that agree still agree when the same chain is removed from both.
LEMMA GoneSame ==
  ASSUME NEW R, NEW T, Same(R, T), NEW A, NEW B, NEW c, Gone(R, A, c), Gone(T, B, c)
  PROVE  Same(A, B)
BY DEF Same, Gone, OthersKept

\* Ranks that agree still agree when the same chain is demoted on both.
LEMMA OnHostSame ==
  ASSUME NEW R, NEW T, Same(R, T), NEW A, NEW B, NEW c, OnHost(R, A, c), OnHost(T, B, c),
         R.rec[c].seq \in Ids, R.snap[R.rec[c].seq] # None
  PROVE  Same(A, B)
<1>1. PICK s : s = R.rec[c].seq
  OBVIOUS
<1>2. T.rec = R.rec /\ T.kv = R.kv /\ T.lru = R.lru
  BY DEF Same
<1>3. A.rec = B.rec /\ A.lru = B.lru /\ A.kv = B.kv
  BY <1>2 DEF OnHost
<1>4. /\ \A t \in Ids : t # s => A.snap[t] = R.snap[t] /\ B.snap[t] = T.snap[t]
      /\ A.snap[s] # None /\ B.snap[s] # None
      /\ Content(A.snap[s]) = Content(R.snap[s]) /\ Content(B.snap[s]) = Content(T.snap[s])
  BY <1>1, <1>2 DEF OnHost, OthersKept
<1>5. \A t \in Ids : /\ R.snap[t] = None <=> T.snap[t] = None
                     /\ R.snap[t] # None => Content(R.snap[t]) = Content(T.snap[t])
  BY DEF Same
<1>6. ASSUME NEW t \in Ids
      PROVE  /\ A.snap[t] = None <=> B.snap[t] = None
             /\ A.snap[t] # None => Content(A.snap[t]) = Content(B.snap[t])
  <2>1. CASE t = s
    BY <1>1, <1>4, <1>5, <2>1
  <2>2. CASE t # s
    BY <1>4, <1>5, <2>2
  <2>3. QED BY <2>1, <2>2
<1>7. QED BY <1>3, <1>6 DEF Same

\* Ranks that agree have the same victims.
LEMMA SameVictims ==
  ASSUME NEW R, NEW X, RankInv(R, X), NEW T, Same(R, T), NEW q, NEW demote, Victims(R, q, demote)
  PROVE  Victims(T, q, demote)
<1>1. T.rec = R.rec /\ Chains(T) = Chains(R)
  BY DEF Same, Chains
<1>2. ASSUME NEW c \in Range(q)
      PROVE  IdleHere(T, c) /\ (c \in demote => T.snap[T.rec[c].seq] # None)
  <2>1. IdleHere(R, c) /\ (c \in demote => R.snap[R.rec[c].seq] # None)
    BY DEF Victims
  <2>2. R.rec[c].seq \in Ids
    BY <2>1, KnownOwner DEF IdleHere
  <2>3. QED BY <1>1, <2>1, <2>2 DEF IdleHere, Same
<1>3. QED BY <1>2 DEF Victims

\* Ranks that agree still agree when the same victims leave both.
LEMMA LeaveSame ==
  ASSUME NEW R, RankInv(R, {}), NEW T, RankInv(T, {}), Same(R, T), NEW q, NEW demote,
         Victims(R, q, demote)
  PROVE  Same(Leave(R, q, demote), Leave(T, q, demote))
<1>1. q \in Seq(Ids) /\ IsInjective(q) /\ Len(q) \in Nat /\ Victims(T, q, demote)
  BY SameVictims DEF Victims
<1>2. PICK f : Leaves(f, R, q, demote, Len(q)) /\ Leave(R, q, demote) = f[Len(q)]
  BY <1>1, LeaveDef
<1>3. PICK g : Leaves(g, T, q, demote, Len(q)) /\ Leave(T, q, demote) = g[Len(q)]
  BY <1>1, LeaveDef
<1>4. /\ f[0] = R /\ \A k \in 0..Len(q) : RankInv(f[k], {}) /\ Frame(R, f[k], FirstOf(q, k))
      /\ \A k \in 1..Len(q) : IF q[k] \in demote THEN OnHost(f[k - 1], f[k], q[k])
                                                ELSE Gone(f[k - 1], f[k], q[k])
  BY <1>2, LeaveStates
<1>5. /\ g[0] = T
      /\ \A k \in 1..Len(q) : IF q[k] \in demote THEN OnHost(g[k - 1], g[k], q[k])
                                                ELSE Gone(g[k - 1], g[k], q[k])
  BY <1>1, <1>3, LeaveStates
<1> DEFINE Z == {k \in 0..Len(q) : ~Same(f[k], g[k])}
<1>6. ASSUME NEW k \in 1..Len(q), Same(f[k - 1], g[k - 1]) PROVE Same(f[k], g[k])
  <2>1. PICK c, A, B : c = q[k] /\ A = f[k - 1] /\ B = g[k - 1]
    OBVIOUS
  <2>2. k - 1 \in 0..Len(q) /\ Same(A, B)
    BY <1>1, <1>6, <2>1
  <2>3. CASE c \in demote
    <3>1. OnHost(A, f[k], c) /\ OnHost(B, g[k], c)
      BY <1>4, <1>5, <2>1, <2>3
    <3>2. RankInv(A, {}) /\ Frame(R, A, FirstOf(q, k - 1))
      BY <1>4, <2>1, <2>2
    <3>3. c \in Range(q) /\ c \notin FirstOf(q, k - 1) /\ FirstOf(q, k - 1) \subseteq Range(q)
      BY <1>1, <2>1, FirstOfFacts
    <3>4. IdleHere(R, c) /\ R.snap[R.rec[c].seq] # None
      BY <2>3, <3>3 DEF Victims
    <3>5. c \in Chains(R)
      BY <3>4 DEF IdleHere
    <3>6. c \in Ids /\ R.rec[c].seq \in Ids /\ OnlyOwner(R, c, R.rec[c].seq)
      BY <3>5, KnownOwner
    <3>7. A.rec[c] = R.rec[c]
      BY <3>2, <3>3, <3>6 DEF Frame
    <3>8. \A v \in FirstOf(q, k - 1) : R.rec[v].seq # R.rec[c].seq
      <4>1. \A v \in FirstOf(q, k - 1) : v \in Chains(R) /\ v # c
        BY <3>3 DEF Victims, IdleHere
      <4>2. QED BY <3>6, <4>1 DEF OnlyOwner, Chains
    <3>9. A.snap[R.rec[c].seq] = R.snap[R.rec[c].seq]
      BY <3>2, <3>6, <3>8 DEF Frame
    <3>10. QED BY <2>2, <3>1, <3>4, <3>6, <3>7, <3>9, OnHostSame
  <2>4. CASE c \notin demote
    <3>1. Gone(A, f[k], c) /\ Gone(B, g[k], c)
      BY <1>4, <1>5, <2>1, <2>4
    <3>2. QED BY <2>2, <3>1, GoneSame
  <2>5. QED BY <2>3, <2>4
<1>7. Z = {}
  <2>1. SUFFICES ASSUME Z # {} PROVE FALSE
    OBVIOUS
  <2>2. Z \in SUBSET Nat
    BY <1>1
  <2>3. PICK k \in Z : \A m \in Z : k <= m
    BY <2>1, <2>2, LeastNat, Zenon
  <2>4. k # 0
    BY <1>4, <1>5, <2>3
  <2>5. k \in 1..Len(q) /\ k - 1 \in 0..Len(q) /\ ~(k <= k - 1)
    BY <1>1, <2>3, <2>4
  <2>6. Same(f[k - 1], g[k - 1])
    BY <2>3, <2>5
  <2>7. QED BY <1>6, <2>3, <2>5, <2>6
<1>8. Len(q) \in 0..Len(q)
  BY <1>1
<1>9. QED BY <1>2, <1>3, <1>7, <1>8

-----------------------------------------------------------------------------
(* Admission: the plan and its victims *)

\* The least member of a set of numbers is one of its members.
LEMMA MinIsMember == ASSUME NEW S \in SUBSET Nat, S # {} PROVE Min(S) \in S
<1>1. \E n \in S : \A m \in S : n <= m
  BY LeastNat
<1>2. QED BY <1>1 DEF Min

\* idle_resident_lru lists each idle chain on the device once.
LEMMA IdleLRUFacts ==
  ASSUME NEW R, NEW X, RankInv(R, X)
  PROVE  /\ IdleLRU(R) \in Seq(Ids) /\ IsInjective(IdleLRU(R))
         /\ \A c \in Range(IdleLRU(R)) : IdleHere(R, c)
<1>1. R.lru \in Seq(Ids) /\ IsInjective(R.lru) /\ R.rec \in [Ids -> Record \cup {None}]
  BY RankParts DEF RankInv, LruInv
<1>2. PICK S : S = {c \in Chains(R) : R.rec[c].state = "IDLE" /\ R.rec[c].resident_rows > 0}
  OBVIOUS
<1>3. IdleLRU(R) = Keep(R.lru, S)
  BY <1>2 DEF IdleLRU
<1>4. IdleLRU(R) \in Seq(Ids) /\ IsInjective(IdleLRU(R)) /\ Range(IdleLRU(R)) \subseteq S
  BY <1>1, <1>3, KeepFacts
<1>5. \A c \in S : IdleHere(R, c)
  <2>1. \A c \in S : c \in Chains(R) /\ R.rec[c] \in Record /\ R.rec[c].state = "IDLE" /\ R.rec[c].resident_rows > 0
    BY <1>1, <1>2 DEF Chains
  <2>2. \A x \in Record : x.resident_rows > 0 => x.resident_rows = 1
    BY DEF Record
  <2>3. QED BY <2>1, <2>2 DEF IdleHere
<1>6. QED BY <1>4, <1>5

\* What a plan asks of the rank that carries it out.
Feasible(R, p, c, s) ==
  /\ p.chain = c /\ p.seq = s /\ p.reused = Resident(R, c, s).processed
  /\ Victims(R, p.demote, Ids)
  /\ p.evict \in Seq(Ids) /\ IsInjective(p.evict) /\ \A v \in Range(p.evict) : IdleHere(R, v)
  /\ Range(p.demote) \cap Range(p.evict) = {} /\ c \notin Range(p.demote) \cup Range(p.evict)
  /\ p.required \in 0..(2 * MaxLen) /\ p.rows \in 0..1
  /\ R.rec[c] # None /\ R.rec[c].resident_rows = 0 => p.required >= R.rec[c].physical

\* The victims of a plan are idle chains other than the one admitted; those to
\* be demoted have snapshots.
LEMMA PlanFacts ==
  ASSUME NEW R, RankInv(R, {}), NEW windows, NEW c \in Ids, NEW s \in Ids, NEW prompt \in 0..MaxLen
  PROVE  Feasible(R, Plan(R, windows, c, s, prompt), c, s)
<1>1. PICK p : p = Plan(R, windows, c, s, prompt)
  OBVIOUS
<1>2. PICK lru : lru = Keep(IdleLRU(R), Ids \ {c})
  OBVIOUS
<1>3. PICK need : need = Deficits(R, windows, c, s, prompt)
  OBVIOUS
<1>4. PICK enough : enough = {n \in 0..Len(lru) :
        n >= need.rows /\ SumFunctionOnSet([i \in 1..n |-> R.rec[lru[i]].physical], 1..n) >= need.slots}
  OBVIOUS
<1>5. PICK victims : victims = IF enough = {} THEN <<>> ELSE SubSeq(lru, 1, Min(enough))
  OBVIOUS
<1>6. PICK H : H = {v \in Chains(R) : HasSnapshot(R, R.rec[v].seq)}
  OBVIOUS
<1>7. /\ p.chain = c /\ p.seq = s /\ p.reused = Resident(R, c, s).processed
      /\ p.demote = Keep(victims, H) /\ p.evict = Keep(victims, Ids \ H)
      /\ p.required = need.required /\ p.rows = need.row
  BY <1>1, <1>2, <1>3, <1>4, <1>5, <1>6 DEF Plan
<1>8. lru \in Seq(Ids) /\ IsInjective(lru) /\ \A v \in Range(lru) : IdleHere(R, v) /\ v # c
  <2>1. IdleLRU(R) \in Seq(Ids) /\ IsInjective(IdleLRU(R)) /\ \A v \in Range(IdleLRU(R)) : IdleHere(R, v)
    BY IdleLRUFacts
  <2>2. lru \in Seq(Ids) /\ IsInjective(lru) /\ Range(lru) = Range(IdleLRU(R)) \cap (Ids \ {c})
    BY <1>2, <2>1, KeepFacts
  <2>3. QED BY <2>1, <2>2
<1>9. victims \in Seq(Ids) /\ IsInjective(victims) /\ Range(victims) \subseteq Range(lru)
  <2>1. CASE enough = {}
    BY <1>5, <2>1, EmptyFacts
  <2>2. CASE enough # {}
    <3>1. enough \in SUBSET Nat /\ Len(lru) \in Nat
      BY <1>4, <1>8
    <3>2. PICK n : n = Min(enough)
      OBVIOUS
    <3>3. n \in enough
      BY <2>2, <3>1, <3>2, MinIsMember
    <3>4. n \in 0..Len(lru) /\ 1 \in 1..(Len(lru) + 1)
      BY <1>4, <3>1, <3>3
    <3>5. victims = SubSeq(lru, 1, n)
      BY <1>5, <2>2, <3>2
    <3>6. QED BY <1>8, <3>4, <3>5, SubSeqFacts
  <2>3. QED BY <2>1, <2>2
<1>10. /\ p.demote \in Seq(Ids) /\ IsInjective(p.demote) /\ Range(p.demote) = Range(victims) \cap H
       /\ p.evict \in Seq(Ids) /\ IsInjective(p.evict) /\ Range(p.evict) = Range(victims) \cap (Ids \ H)
  BY <1>7, <1>9, KeepFacts
<1>11. Victims(R, p.demote, Ids)
  BY <1>6, <1>8, <1>9, <1>10 DEF Victims, HasSnapshot
<1>12. /\ \A v \in Range(p.evict) : IdleHere(R, v)
       /\ Range(p.demote) \cap Range(p.evict) = {} /\ c \notin Range(p.demote) \cup Range(p.evict)
  BY <1>8, <1>9, <1>10
<1>13. PICK old : old = Resident(R, c, s)
  OBVIOUS
<1>14. MaxLen \in Nat /\ old \in Record
  <2>1. R.rec[c] \in Record \cup {None}
    BY RankParts DEF RankInv
  <2>2. CASE R.rec[c] = None
    <3>1. MaxLen \in Nat
      BY ChainAssumption
    <3>2. old = [NewRecord(s) EXCEPT !.resident_rows = 0]
      BY <1>13, <2>2 DEF Resident
    <3>3. QED BY <3>1, <3>2 DEF NewRecord, Record
  <2>3. CASE R.rec[c] # None
    BY <1>13, <2>1, <2>3, ChainAssumption DEF Resident
  <2>4. QED BY <2>2, <2>3
<1>15. old.processed \in 0..MaxLen /\ old.physical \in 0..MaxLen /\ old.resident_rows \in 0..1
  BY <1>14 DEF Record
<1>16. PICK row : row = IF old.resident_rows = 0 THEN 1 ELSE 0
  OBVIOUS
<1>17. need.row = row /\ need.required = Positive(prompt - old.processed) + row * old.physical
  BY <1>3, <1>13, <1>16 DEF Deficits
<1>18. Positive(prompt - old.processed) \in 0..MaxLen
  BY <1>14, <1>15 DEF Positive
<1>19. row * old.physical \in 0..MaxLen /\ (old.resident_rows = 0 => row * old.physical = old.physical)
  <2>1. CASE old.resident_rows = 0
    BY <1>14, <1>15, <1>16, <2>1
  <2>2. CASE old.resident_rows # 0
    BY <1>14, <1>15, <1>16, <2>2
  <2>3. QED BY <2>1, <2>2
<1>20. p.required \in 0..(2 * MaxLen) /\ p.rows \in 0..1 /\ (old.resident_rows = 0 => p.required >= old.physical)
  <2>1. PICK a, b : a = Positive(prompt - old.processed) /\ b = row * old.physical
    OBVIOUS
  <2>2. a \in 0..MaxLen /\ b \in 0..MaxLen /\ p.required = a + b
    BY <1>7, <1>17, <1>18, <1>19, <2>1
  <2>3. p.required \in 0..(2 * MaxLen) /\ p.required >= b
    BY <1>14, <2>2
  <2>4. p.rows \in 0..1
    BY <1>7, <1>16, <1>17
  <2>5. QED BY <1>19, <2>1, <2>3, <2>4
<1>21. R.rec[c] # None /\ R.rec[c].resident_rows = 0 => p.required >= R.rec[c].physical
  BY <1>13, <1>20 DEF Resident
<1>22. Feasible(R, p, c, s)
  BY <1>7, <1>10, <1>11, <1>12, <1>20, <1>21 DEF Feasible
<1>23. QED BY <1>1, <1>22

\* The rank once the victims of plan p left.
Room(R, p) == Leave(Leave(R, p.demote, Ids), p.evict, {})

\* Room for a turn: nothing but the victims changed.
LEMMA RoomKeeps ==
  ASSUME NEW R, RankInv(R, {}), NEW p, NEW c, NEW s, Feasible(R, p, c, s)
  PROVE  RankInv(Room(R, p), {}) /\ Frame(R, Room(R, p), Range(p.demote) \cup Range(p.evict))
         /\ RankInv(Leave(R, p.demote, Ids), {}) /\ Victims(Leave(R, p.demote, Ids), p.evict, {})
<1>1. PICK A : A = Leave(R, p.demote, Ids)
  OBVIOUS
<1>2. PICK V, W : V = Range(p.demote) /\ W = Range(p.evict)
  OBVIOUS
<1>3. RankInv(A, {}) /\ Frame(R, A, V)
  BY <1>1, <1>2, LeaveKeeps DEF Feasible
<1>4. V \cap W = {} /\ (\A v \in W : IdleHere(R, v) /\ v \in Ids) /\ (\A v \in V : IdleHere(R, v))
  BY <1>2 DEF Feasible, Victims, IdleHere, Chains
<1>5. \A v \in W : A.rec[v] = R.rec[v] /\ IdleHere(A, v)
  BY <1>3, <1>4 DEF Frame, IdleHere, Chains
<1>6. Victims(A, p.evict, {})
  BY <1>2, <1>5 DEF Victims, Feasible
<1>7. PICK B : B = Leave(A, p.evict, {})
  OBVIOUS
<1>8. RankInv(B, {}) /\ Frame(A, B, W)
  BY <1>2, <1>3, <1>6, <1>7, LeaveKeeps
<1>9. Frame(R, B, V \cup W)
  <2>1. \A d \in Ids \ (V \cup W) : B.rec[d] = R.rec[d]
    BY <1>3, <1>8 DEF Frame
  <2>2. ASSUME NEW t \in Ids, \A v \in V \cup W : R.rec[v].seq # t
        PROVE  B.kv[t] = R.kv[t] /\ B.snap[t] = R.snap[t]
    <3>1. A.kv[t] = R.kv[t] /\ A.snap[t] = R.snap[t]
      BY <1>3, <2>2 DEF Frame
    <3>2. \A v \in W : A.rec[v].seq # t
      BY <1>5, <2>2
    <3>3. QED BY <1>8, <3>1, <3>2 DEF Frame
  <2>3. Chains(B) \subseteq Chains(A) /\ Chains(A) \subseteq Chains(R)
    BY <1>3, <1>8 DEF Frame
  <2>4. ASSUME NEW v \in (V \cup W) \cap Chains(B)
        PROVE  B.rec[v].seq = R.rec[v].seq /\ B.rec[v].state = "IDLE"
    <3>1. CASE v \in W
      BY <1>5, <1>8, <2>4, <3>1 DEF Frame
    <3>2. CASE v \notin W
      <4>1. v \in V \cap Chains(A) /\ v \in Ids \ W
        BY <2>3, <2>4, <3>2 DEF Chains
      <4>2. B.rec[v] = A.rec[v]
        BY <1>8, <4>1 DEF Frame
      <4>3. QED BY <1>3, <4>1, <4>2 DEF Frame
    <3>3. QED BY <3>1, <3>2
  <2>5. QED BY <2>1, <2>2, <2>3, <2>4 DEF Frame
<1>10. QED BY <1>1, <1>2, <1>3, <1>6, <1>7, <1>8, <1>9 DEF Room

\* Ranks that agree have the same feasible plans and agree once the victims left.
LEMMA RoomSame ==
  ASSUME NEW R, RankInv(R, {}), NEW T, RankInv(T, {}), Same(R, T),
         NEW p, NEW c, NEW s, Feasible(R, p, c, s)
  PROVE  Feasible(T, p, c, s) /\ Same(Room(R, p), Room(T, p))
<1>1. T.rec = R.rec /\ Chains(T) = Chains(R)
  BY DEF Same, Chains
<1>2. Victims(R, p.demote, Ids) /\ Victims(T, p.demote, Ids)
  BY SameVictims DEF Feasible
<1>3. Feasible(T, p, c, s)
  BY <1>1, <1>2 DEF Feasible, IdleHere, Resident
<1>4. PICK A, B : A = Leave(R, p.demote, Ids) /\ B = Leave(T, p.demote, Ids)
  OBVIOUS
<1>5. Same(A, B)
  BY <1>2, <1>4, LeaveSame
<1>6. RankInv(A, {}) /\ Victims(A, p.evict, {}) /\ RankInv(B, {})
  BY <1>3, <1>4, RoomKeeps
<1>7. Same(Leave(A, p.evict, {}), Leave(B, p.evict, {}))
  BY <1>5, <1>6, LeaveSame
<1>8. QED BY <1>3, <1>4, <1>7 DEF Room

\* Chain c, which sequence s does or will serve, is idle or unknown.
MayAdmit(R, c, s) ==
  /\ c \in Ids /\ s \in Ids /\ OnlyOwner(R, c, s)
  /\ R.rec[c] # None => R.rec[c].state = "IDLE"

\* Room for a turn does not touch its chain.
LEMMA RoomForAdmission ==
  ASSUME NEW R, RankInv(R, {}), NEW p, NEW c, NEW s, Feasible(R, p, c, s), MayAdmit(R, c, s)
  PROVE  /\ MayAdmit(Room(R, p), c, s) /\ Room(R, p).rec[c] = R.rec[c]
         /\ Room(R, p).kv[s] = R.kv[s] /\ Room(R, p).snap[s] = R.snap[s]
<1>1. PICK B : B = Room(R, p)
  OBVIOUS
<1>2. PICK V : V = Range(p.demote) \cup Range(p.evict)
  OBVIOUS
<1>3. RankInv(B, {}) /\ Frame(R, B, V) /\ c \notin V /\ \A v \in V : v \in Chains(R)
  BY <1>1, <1>2, RoomKeeps DEF Feasible, Victims, IdleHere
<1>4. B.rec[c] = R.rec[c]
  BY <1>3 DEF Frame, MayAdmit
<1>5. \A v \in V : R.rec[v].seq # s
  BY <1>3 DEF MayAdmit, OnlyOwner, Chains
<1>6. B.kv[s] = R.kv[s] /\ B.snap[s] = R.snap[s]
  BY <1>3, <1>5 DEF Frame, MayAdmit
<1>7. OnlyOwner(B, c, s)
  <2>1. \A d \in Chains(B) : d \in Chains(R) /\ d \in Ids /\ B.rec[d].seq = R.rec[d].seq
    BY <1>3 DEF Frame, Chains
  <2>2. QED BY <1>4, <2>1 DEF OnlyOwner, MayAdmit, Chains
<1>8. QED BY <1>1, <1>4, <1>6, <1>7 DEF MayAdmit

\* apply_admission once the victims left.
Marked(B, p) ==
  LET record == IF B.rec[p.chain] = None THEN NewRecord(p.seq) ELSE B.rec[p.chain]
  IN  Touch([B EXCEPT !.rec[p.chain] =
               [record EXCEPT !.state = "ACTIVE", !.reserved_slots = p.required,
                              !.reserved_rows = p.rows]], p.chain)

\* apply_admission is room for the turn, then its writer and its promise.
LEMMA ApplyIsMarked == ASSUME NEW R, NEW p PROVE ApplyAdmission(R, p) = Marked(Room(R, p), p)
BY DEF ApplyAdmission, Marked, Room

\* The record of a chain being admitted.
Writer(q, p) ==
  [(IF q = None THEN NewRecord(p.seq) ELSE q) EXCEPT
     !.state = "ACTIVE", !.reserved_slots = p.required, !.reserved_rows = p.rows]

\* A chain that is used goes to the end of the order of use.
LEMMA TouchFacts ==
  ASSUME NEW q \in Seq(Ids), IsInjective(q), NEW c \in Ids
  PROVE  /\ Append(RemoveFirst(q, c), c) \in Seq(Ids) /\ IsInjective(Append(RemoveFirst(q, c), c))
         /\ Range(Append(RemoveFirst(q, c), c)) = Range(q) \cup {c}
<1>1. PICK r : r = RemoveFirst(q, c)
  OBVIOUS
<1>2. r \in Seq(Ids) /\ IsInjective(r) /\ Range(r) = Range(q) \ {c}
  BY <1>1, RemoveFacts
<1>3. Append(r, c) \in Seq(Ids) /\ IsInjective(Append(r, c)) /\ Range(Append(r, c)) = Range(r) \cup {c}
  BY <1>2, AppendFacts
<1>4. QED BY <1>1, <1>2, <1>3

\* What apply_admission makes of the record, and of nothing else.
LEMMA MarkedFacts ==
  ASSUME NEW B, RankInv(B, {}), NEW p, NEW c, NEW s, MayAdmit(B, c, s), p.chain = c, p.seq = s,
         p.required \in 0..(2 * MaxLen), p.rows \in 0..1
  PROVE  LET A == Marked(B, p)
             q == Writer(B.rec[c], p)
         IN  /\ A \in RankState /\ A.rec = [B.rec EXCEPT ![c] = q] /\ A.kv = B.kv /\ A.snap = B.snap
             /\ A.copies = B.copies /\ A.lru = Append(RemoveFirst(B.lru, c), c) /\ LruInv(A)
             /\ q \in Record /\ q # None /\ q.seq = s /\ q.state = "ACTIVE" /\ q.reserved_slots = p.required
             /\ q.resident_rows = IF B.rec[c] = None THEN 1 ELSE B.rec[c].resident_rows
             /\ B.rec[c] # None => q.processed = B.rec[c].processed /\ q.physical = B.rec[c].physical
<1>1. PICK A, q : A = Marked(B, p) /\ q = Writer(B.rec[c], p)
  OBVIOUS
<1>2. B \in RankState /\ LruInv(B) /\ c \in Ids /\ s \in Ids /\ (B.rec[c] # None => B.rec[c].seq = s)
  BY DEF RankInv, MayAdmit, OnlyOwner
<1>3. /\ B.rec \in [Ids -> Record \cup {None}] /\ B.lru \in Seq(Ids)
      /\ B.kv \in [Ids -> Row \cup {None}] /\ B.snap \in [Ids -> Snapshot \cup {None}]
      /\ B.copies \in Seq(Ids)
  BY <1>2, RankParts
<1>4. PICK l : l = Append(RemoveFirst(B.lru, c), c)
  OBVIOUS
<1>5. l \in Seq(Ids) /\ IsInjective(l) /\ Range(l) = Chains(B) \cup {c}
  BY <1>2, <1>3, <1>4, TouchFacts DEF LruInv
<1>6. A = [[B EXCEPT !.rec[c] = q] EXCEPT !.lru = l]
  BY <1>1, <1>2, <1>3, <1>4 DEF Marked, Touch, Writer, RankState
<1>7. /\ A.rec = [B.rec EXCEPT ![c] = q] /\ A.kv = B.kv /\ A.snap = B.snap /\ A.copies = B.copies
      /\ A.lru = l /\ IsRank(A)
  BY <1>2, <1>6 DEF RankState, IsRank
<1>8. /\ q \in Record /\ q.seq = s /\ q.state = "ACTIVE" /\ q.reserved_slots = p.required
      /\ q.resident_rows = IF B.rec[c] = None THEN 1 ELSE B.rec[c].resident_rows
      /\ B.rec[c] # None => q.processed = B.rec[c].processed /\ q.physical = B.rec[c].physical
  <2>1. PICK o : o = IF B.rec[c] = None THEN NewRecord(s) ELSE B.rec[c]
    OBVIOUS
  <2>2. o \in Record /\ o.seq = s /\ o.resident_rows = IF B.rec[c] = None THEN 1 ELSE B.rec[c].resident_rows
    <3>1. MaxLen \in Nat
      BY ChainAssumption
    <3>2. CASE B.rec[c] = None
      BY <1>2, <2>1, <3>1, <3>2 DEF NewRecord, Record
    <3>3. CASE B.rec[c] # None
      BY <1>2, <1>3, <2>1, <3>3
    <3>4. QED BY <3>2, <3>3
  <2>3. q = [o EXCEPT !.state = "ACTIVE", !.reserved_slots = p.required, !.reserved_rows = p.rows]
    BY <1>1, <2>1 DEF Writer
  <2>4. q \in Record /\ q.seq = o.seq /\ q.state = "ACTIVE" /\ q.reserved_slots = p.required
        /\ q.resident_rows = o.resident_rows /\ q.processed = o.processed /\ q.physical = o.physical
    BY <2>2, <2>3 DEF Record
  <2>5. QED BY <2>1, <2>2, <2>4
<1>9. q # None
  BY <1>8, NoneIsNoValue
<1>10. A.rec \in [Ids -> Record \cup {None}]
  BY <1>3, <1>7, <1>8
<1>11. A \in RankState
  BY <1>3, <1>5, <1>7, <1>10, IsRankState
<1>12. Chains(A) = Chains(B) \cup {c}
  BY <1>2, <1>3, <1>7, <1>9 DEF Chains
<1>13. LruInv(A)
  BY <1>5, <1>7, <1>12 DEF LruInv
<1>14. QED BY <1>1, <1>4, <1>7, <1>8, <1>9, <1>11, <1>13

\* The record of a turn that runs: a restored row counts against its promise.
Turn(q, p) ==
  IF q # None /\ q.resident_rows = 0
  THEN [Writer(q, p) EXCEPT !.resident_rows = 1, !.reserved_rows = 0,
                            !.reserved_slots = Writer(q, p).reserved_slots - q.physical]
  ELSE Writer(q, p)

\* The row a turn starts with: what the chain last finished.
FirstRow(q, c) ==
  IF q = None THEN None ELSE [chain |-> c, toks |-> q.processed, slots |-> q.physical]

\* T is B with chain c admitted under plan p.
Admitted(B, T, c, s, p) ==
  /\ T.rec = [B.rec EXCEPT ![c] = Turn(B.rec[c], p)] /\ T.lru = Append(RemoveFirst(B.lru, c), c)
  /\ T.kv = [B.kv EXCEPT ![s] = FirstRow(B.rec[c], c)]
  /\ OthersKept(B, T, s) /\ (T.snap[s] = None <=> B.snap[s] = None)
  /\ B.snap[s] # None => Content(T.snap[s]) = Content(B.snap[s])

\* A sequence without a chain has no row and no snapshot.
LEMMA Unowned ==
  ASSUME NEW R, NEW X, RankInv(R, X), NEW c, NEW s \in Ids, OnlyOwner(R, c, s), R.rec[c] = None
  PROVE  R.kv[s] = None /\ R.snap[s] = None
BY DEF RankInv, OwnerInv, OnlyOwner, Chains

\* A plan for chain c under sequence s, whose numbers are in range.
PlanOK(B, p, c, s) ==
  /\ p.chain = c /\ p.seq = s /\ p.required \in 0..(2 * MaxLen) /\ p.rows \in 0..1
  /\ B.rec[c] # None /\ B.rec[c].resident_rows = 0 => p.required >= B.rec[c].physical

\* M is B with the record x and the row of chain c, its snapshot as it was.
HasRow(B, M, c, s, x, row) ==
  /\ M \in RankState /\ LruInv(M) /\ CopyInv(M)
  /\ M.rec = [B.rec EXCEPT ![c] = x] /\ M.lru = Append(RemoveFirst(B.lru, c), c)
  /\ M.kv = [B.kv EXCEPT ![s] = row]
  /\ x \in Record /\ x.seq = s /\ x.state = "ACTIVE" /\ x.resident_rows = 1
  /\ OthersKept(B, M, s) /\ (M.snap[s] = None <=> B.snap[s] = None)
  /\ B.snap[s] # None => Content(M.snap[s]) = Content(B.snap[s])
  /\ IsInjective(M.copies) /\ Range(M.copies) \subseteq Range(B.copies)

\* restore, or nothing where the row is still there: the chain has its row.
LEMMA RestoredFacts ==
  ASSUME NEW B, RankInv(B, {}), NEW p, NEW c, NEW s, MayAdmit(B, c, s), PlanOK(B, p, c, s),
         NEW A, A = Marked(B, p)
  PROVE  HasRow(B, Restored(A, c), c, s, Turn(B.rec[c], p), FirstRow(B.rec[c], c))
<1>1. PICK q, o : q = Writer(B.rec[c], p) /\ o = B.rec[c]
  OBVIOUS
<1>2. /\ A \in RankState /\ A.rec = [B.rec EXCEPT ![c] = q] /\ A.kv = B.kv /\ A.snap = B.snap
      /\ A.copies = B.copies /\ A.lru = Append(RemoveFirst(B.lru, c), c) /\ LruInv(A)
      /\ q \in Record /\ q # None /\ q.seq = s /\ q.state = "ACTIVE" /\ q.reserved_slots = p.required
      /\ q.resident_rows = IF o = None THEN 1 ELSE o.resident_rows
      /\ o # None => q.processed = o.processed /\ q.physical = o.physical
  BY <1>1, MarkedFacts DEF PlanOK
<1>3. c \in Ids /\ s \in Ids /\ OnlyOwner(B, c, s) /\ B \in RankState /\ CopyInv(B)
  BY DEF MayAdmit, RankInv
<1>4. /\ B.rec \in [Ids -> Record \cup {None}] /\ B.kv \in [Ids -> Row \cup {None}]
      /\ B.snap \in [Ids -> Snapshot \cup {None}] /\ A.copies \in Seq(Ids) /\ A.lru \in Seq(Ids)
  BY <1>2, <1>3, RankParts
<1>5. A.rec[c] = q /\ CopyInv(A) /\ o \in Record \cup {None} /\ c \in Chains(A)
  BY <1>1, <1>2, <1>3, <1>4 DEF CopyInv, Chains
<1>6. o # None => ChainOK(c, o, B.kv[s], B.snap[s]) /\ o.state = "IDLE" /\ o \in Record
  BY <1>1, <1>3, <1>5 DEF RankInv, RecordsInv, MayAdmit, Chains, OnlyOwner
<1>7. PICK M : M = Restored(A, c)
  OBVIOUS
<1>8. CASE o = None \/ o.resident_rows # 0
  <2>1. q.resident_rows = 1
    BY <1>2, <1>5, <1>8 DEF Record
  <2>2. M = A
    BY <1>5, <1>7, <2>1 DEF Restored
  <2>3. Turn(B.rec[c], p) = q
    BY <1>1, <1>8 DEF Turn
  <2>4. B.kv[s] = FirstRow(B.rec[c], c)
    <3>1. CASE o = None
      BY <1>1, <1>3, <3>1, Unowned DEF FirstRow
    <3>2. CASE o # None
      <4>1. o.resident_rows = 1
        BY <1>5, <1>8, <3>2 DEF Record
      <4>2. QED BY <1>1, <1>6, <3>2, <4>1 DEF FirstRow, ChainOK
    <3>3. QED BY <3>1, <3>2
  <2>5. B.kv = [B.kv EXCEPT ![s] = FirstRow(B.rec[c], c)]
    BY <1>4, <2>4
  <2>6. OthersKept(B, M, s) /\ IsInjective(M.copies) /\ Range(M.copies) \subseteq Range(B.copies)
    BY <1>2, <1>3, <2>2 DEF OthersKept, CopyInv
  <2>7. QED BY <1>1, <1>2, <1>5, <1>7, <2>1, <2>2, <2>3, <2>5, <2>6 DEF HasRow
<1>9. CASE o # None /\ o.resident_rows = 0
  <2>1. B.snap[s] # None /\ Content(B.snap[s]) = FirstRow(o, c) /\ B.kv[s] = None
    BY <1>6, <1>9 DEF ChainOK, FirstRow
  <2>2. PICK w : w = Wait(A, s)
    OBVIOUS
  <2>3. w \in RankState /\ w.rec = A.rec /\ w.lru = A.lru /\ w.kv = A.kv /\ OthersKept(A, w, s)
        /\ w.snap[s] # None /\ w.snap[s] \in Snapshot /\ Content(w.snap[s]) = Content(A.snap[s])
        /\ CopiesWithout(A, w, s)
    BY <1>2, <1>3, <1>5, <2>1, <2>2, WaitFacts DEF KeepsIndex
  <2>4. PICK row : row = Content(w.snap[s])
    OBVIOUS
  <2>5. row = FirstRow(o, c) /\ row \in Row /\ row # None
    <3>1. row = FirstRow(o, c)
      BY <1>2, <2>1, <2>3, <2>4
    <3>2. row \in Row
      BY <2>3, <2>4 DEF Content, Snapshot, Row
    <3>3. QED BY <3>1, <3>2, NoneIsNoValue
  <2>6. PICK x : x = [q EXCEPT !.resident_rows = 1, !.reserved_rows = 0, !.reserved_slots = @ - q.physical]
    OBVIOUS
  <2>7. x = Turn(o, p)
    BY <1>1, <1>2, <1>9, <2>6 DEF Turn
  <2>8. x \in Record /\ x.seq = s /\ x.state = "ACTIVE" /\ x.resident_rows = 1
    <3>1. q.physical = o.physical /\ o.physical \in Nat /\ p.required >= o.physical
      BY <1>1, <1>2, <1>5, <1>9, ChainAssumption DEF PlanOK, Record
    <3>2. PICK y : y = q.reserved_slots - q.physical
      OBVIOUS
    <3>3. y \in 0..(2 * MaxLen)
      <4>1. p.required \in 0..(2 * MaxLen) /\ MaxLen \in Nat
        BY ChainAssumption DEF PlanOK
      <4>2. QED BY <1>2, <3>1, <3>2, <4>1
    <3>4. x = [q EXCEPT !.resident_rows = 1, !.reserved_rows = 0, !.reserved_slots = y]
      BY <2>6, <3>2
    <3>5. q \in Record
      BY <1>2
    <3>6. q = [seq |-> q.seq, state |-> q.state, processed |-> q.processed, physical |-> q.physical,
               resident_rows |-> q.resident_rows, reserved_slots |-> q.reserved_slots,
               reserved_rows |-> q.reserved_rows]
      BY <3>5 DEF Record
    <3>7. x = [seq |-> q.seq, state |-> q.state, processed |-> q.processed, physical |-> q.physical,
               resident_rows |-> 1, reserved_slots |-> y, reserved_rows |-> 0]
      BY <3>4, <3>6
    <3>8. x \in Record /\ x.seq = q.seq /\ x.state = q.state /\ x.resident_rows = 1
      BY <3>3, <3>5, <3>7 DEF Record
    <3>9. QED BY <1>2, <3>8
  <2>9. /\ M.rec = [w.rec EXCEPT ![c] = x] /\ M.kv = [w.kv EXCEPT ![s] = row] /\ M.lru = w.lru
        /\ M.snap = w.snap /\ M.copies = w.copies /\ IsRank(M)
    <3>1. A.rec[c].resident_rows = 0 /\ A.rec[c].seq = s
      BY <1>2, <1>5, <1>9
    <3>2. M = [w EXCEPT !.kv[s] = row, !.rec[c].resident_rows = 1, !.rec[c].reserved_rows = 0,
                        !.rec[c].reserved_slots = @ - A.rec[c].physical]
      BY <1>7, <2>2, <2>4, <3>1 DEF Restored, Content
    <3>3. w.rec[c] = q /\ q \in Record /\ A.rec[c] = q
      BY <1>2, <1>5, <2>3
    <3>4. PICK k, y : k = [w.kv EXCEPT ![s] = row] /\ y = A.rec[c].physical
      OBVIOUS
    <3>5. /\ M.rec = [[[w.rec EXCEPT ![c].resident_rows = 1] EXCEPT ![c].reserved_rows = 0]
                          EXCEPT ![c].reserved_slots = @ - y]
          /\ M.kv = k /\ M.lru = w.lru /\ M.snap = w.snap /\ M.copies = w.copies /\ IsRank(M)
      BY <2>3, <3>2, <3>4, ZenonT(60) DEF RankState, IsRank
    <3>6. w.rec \in [Ids -> Record \cup {None}]
      BY <2>3, RankParts
    <3>7. M.rec = [w.rec EXCEPT ![c] = [[[q EXCEPT !.resident_rows = 1] EXCEPT !.reserved_rows = 0]
                                            EXCEPT !.reserved_slots = @ - y]]
      BY <1>3, <3>3, <3>5, <3>6
    <3>8. x = [[[q EXCEPT !.resident_rows = 1] EXCEPT !.reserved_rows = 0] EXCEPT !.reserved_slots = @ - y]
      BY <2>6, <3>3, <3>4
    <3>9. QED BY <3>4, <3>5, <3>7, <3>8
  <2>10. /\ M.rec = [w.rec EXCEPT ![c] = x] /\ M.kv = [w.kv EXCEPT ![s] = row] /\ M.lru = w.lru
         /\ M.snap = w.snap /\ M.copies = w.copies /\ IsRank(M)
    BY <2>9
  <2>11. M.rec = [B.rec EXCEPT ![c] = x] /\ M.kv = [B.kv EXCEPT ![s] = row]
    BY <1>2, <1>3, <1>4, <2>3, <2>10
  <2>12. M \in RankState
    <3>1. M.rec \in [Ids -> Record \cup {None}] /\ M.kv \in [Ids -> Row \cup {None}]
      <4>1. x \in Record \cup {None} /\ row \in Row \cup {None}
        BY <2>5, <2>8
      <4>2. QED BY <1>4, <2>11, <4>1
    <3>2. w.snap \in [Ids -> Snapshot \cup {None}] /\ w.copies \in Seq(Ids) /\ w.lru \in Seq(Ids)
      BY <2>3, RankParts
    <3>3. QED BY <2>10, <3>1, <3>2, IsRankState
  <2>13. LruInv(M)
    <3>1. Chains(M) = Chains(A)
      BY <1>2, <1>3, <1>4, <2>8, <2>11, NoneIsNoValue DEF Chains
    <3>2. QED BY <1>2, <2>3, <2>10, <3>1 DEF LruInv
  <2>14. CopyInv(M)
    <3>1. ASSUME NEW t \in Range(M.copies) PROVE CopyOK(M.kv[t], M.snap[t])
      <4>1. t \in Range(A.copies) /\ t # s
        BY <2>3, <2>10, <3>1 DEF CopiesWithout
      <4>2. t \in Ids
        BY <1>4, <4>1, RangeFacts
      <4>3. CopyOK(A.kv[t], A.snap[t])
        BY <1>5, <4>1 DEF CopyInv
      <4>4. M.kv[t] = A.kv[t] /\ M.snap[t] = A.snap[t]
        BY <1>2, <1>4, <2>3, <2>10, <2>11, <4>1, <4>2 DEF OthersKept
      <4>5. QED BY <4>3, <4>4
    <3>2. QED BY <2>3, <2>10, <3>1 DEF CopyInv, CopiesWithout
  <2>15. /\ OthersKept(B, M, s) /\ M.snap[s] # None /\ Content(M.snap[s]) = Content(B.snap[s])
         /\ IsInjective(M.copies) /\ Range(M.copies) \subseteq Range(B.copies)
    BY <1>2, <2>3, <2>10 DEF OthersKept, CopiesWithout
  <2>16. QED BY <1>1, <1>2, <1>7, <2>1, <2>3, <2>5, <2>7, <2>8, <2>10, <2>11, <2>12, <2>13, <2>14, <2>15 DEF HasRow
<1>10. QED BY <1>8, <1>9

\* prepare_resumed_chain: the admitted chain has its row and no snapshot that
\* a copy still reads, and the rank has room for it.
LEMMA PrepareKeeps ==
  ASSUME NEW B, RankInv(B, {}), NEW p, NEW c, NEW s, MayAdmit(B, c, s), PlanOK(B, p, c, s),
         NEW A, A = Marked(B, p), A.rec[c].resident_rows = 0 => CanRestore(A, s)
  PROVE  RankInv(PrepareResumed(A, c), {}) /\ Admitted(B, PrepareResumed(A, c), c, s, p)
         /\ Turn(B.rec[c], p) # None /\ Turn(B.rec[c], p).state = "ACTIVE" /\ Turn(B.rec[c], p).seq = s
<1>1. PICK M, x, row : M = Restored(A, c) /\ x = Turn(B.rec[c], p) /\ row = FirstRow(B.rec[c], c)
  OBVIOUS
<1>2. /\ M \in RankState /\ LruInv(M) /\ CopyInv(M)
      /\ M.rec = [B.rec EXCEPT ![c] = x] /\ M.lru = Append(RemoveFirst(B.lru, c), c)
      /\ M.kv = [B.kv EXCEPT ![s] = row]
      /\ x \in Record /\ x.seq = s /\ x.state = "ACTIVE" /\ x.resident_rows = 1
      /\ OthersKept(B, M, s) /\ (M.snap[s] = None <=> B.snap[s] = None)
      /\ B.snap[s] # None => Content(M.snap[s]) = Content(B.snap[s])
      /\ IsInjective(M.copies) /\ Range(M.copies) \subseteq Range(B.copies)
  <2>1. HasRow(B, M, c, s, x, row)
    BY <1>1, RestoredFacts
  <2>2. QED BY <2>1 DEF HasRow
<1>3. c \in Ids /\ s \in Ids /\ OnlyOwner(B, c, s) /\ B \in RankState
  BY DEF MayAdmit, RankInv
<1>4. /\ B.rec \in [Ids -> Record \cup {None}] /\ B.kv \in [Ids -> Row \cup {None}]
      /\ B.snap \in [Ids -> Snapshot \cup {None}]
  BY <1>3, RankParts
<1>5. A.rec[c].seq = s /\ A.kv = B.kv /\ A.snap = B.snap
      /\ A.rec[c].resident_rows = IF B.rec[c] = None THEN 1 ELSE B.rec[c].resident_rows
  <2>1. LET q == Writer(B.rec[c], p)
        IN  A.rec = [B.rec EXCEPT ![c] = q] /\ A.kv = B.kv /\ A.snap = B.snap /\ q.seq = s
            /\ q.resident_rows = IF B.rec[c] = None THEN 1 ELSE B.rec[c].resident_rows
    BY MarkedFacts DEF PlanOK
  <2>2. QED BY <1>3, <1>4, <2>1
<1>6. PICK T : T = PrepareResumed(A, c)
  OBVIOUS
<1>7. T = Invalidate(M, s)
  BY <1>1, <1>5, <1>6 DEF PrepareResumed
<1>8. /\ T \in RankState /\ T.rec = M.rec /\ T.lru = M.lru /\ T.kv = M.kv
      /\ OthersKept(M, T, s) /\ CopiesWithout(M, T, s)
      /\ M.snap[s] = None => T.snap[s] = None
      /\ M.snap[s] # None => T.snap[s] # None /\ T.snap[s].state = "stale" /\ Content(T.snap[s]) = Content(M.snap[s])
  BY <1>2, <1>3, <1>7, InvalidateFacts DEF KeepsIndex
<1>9. T.rec[c] = x /\ T.kv[s] = row /\ x # None
  BY <1>2, <1>3, <1>4, <1>8, NoneIsNoValue
<1>10. ChangesOnly(B, T, c, s)
  BY <1>2, <1>4, <1>8 DEF ChangesOnly, OthersKept
<1>11. B.rec[c] # None => ChainOK(c, B.rec[c], B.kv[s], B.snap[s]) /\ B.rec[c].state = "IDLE" /\ B.rec[c] \in Record
  <2>1. SUFFICES ASSUME B.rec[c] # None
                 PROVE  ChainOK(c, B.rec[c], B.kv[s], B.snap[s]) /\ B.rec[c].state = "IDLE" /\ B.rec[c] \in Record
    OBVIOUS
  <2>2. c \in Chains(B) \ {} /\ B.rec[c].seq = s /\ B.rec[c].state = "IDLE" /\ B.rec[c] \in Record
    BY <1>3, <1>4, <2>1 DEF MayAdmit, Chains, OnlyOwner
  <2>3. QED BY <2>2 DEF RankInv, RecordsInv
<1>12. row # None => row.slots <= row.toks
  <2>1. SUFFICES ASSUME row # None PROVE row.slots <= row.toks
    OBVIOUS
  <2>2. B.rec[c] # None /\ row = [chain |-> c, toks |-> B.rec[c].processed, slots |-> B.rec[c].physical]
    BY <1>1, <2>1 DEF FirstRow
  <2>3. CASE B.rec[c].resident_rows = 1
    <3>1. B.kv[s] = row
      BY <1>11, <2>2, <2>3 DEF ChainOK
    <3>2. QED BY <1>3, <2>1, <3>1 DEF RankInv, RoomInv
  <2>4. CASE B.rec[c].resident_rows # 1
    <3>1. B.rec[c].resident_rows = 0
      BY <1>11, <2>2, <2>4 DEF Record
    <3>2. B.snap[s] # None /\ Content(B.snap[s]) = row
      BY <1>11, <2>2, <3>1 DEF ChainOK
    <3>3. B.snap[s].slots <= B.snap[s].toks
      BY <1>3, <3>2 DEF RankInv, RoomInv
    <3>4. row.slots = B.snap[s].slots /\ row.toks = B.snap[s].toks
      BY <3>2 DEF Content
    <3>5. QED BY <3>3, <3>4
  <2>5. QED BY <2>3, <2>4
<1>13. LeavesWhole(T, c, s, {})
  <2>1. s \notin Range(T.copies)
    BY <1>8 DEF CopiesWithout
  <2>2. ChainOK(c, x, row, T.snap[s])
    BY <1>2, <1>8 DEF ChainOK
  <2>3. T.snap[s] # None => B.snap[s] # None /\ Content(T.snap[s]) = Content(B.snap[s])
    BY <1>2, <1>8
  <2>4. T.snap[s] # None => T.snap[s].slots <= T.snap[s].toks
    <3>1. B.snap[s] # None => B.snap[s].slots <= B.snap[s].toks
      BY <1>3 DEF RankInv, RoomInv
    <3>2. T.snap[s] # None => T.snap[s].slots = B.snap[s].slots /\ T.snap[s].toks = B.snap[s].toks
      BY <2>3 DEF Content
    <3>3. QED BY <2>3, <3>1, <3>2
  <2>5. conf.host = 0 => T.snap[s] = None
    BY <1>3, <2>3 DEF RankInv, RoomInv
  <2>6. QED BY <1>2, <1>9, <1>12, <2>1, <2>2, <2>4, <2>5 DEF LeavesWhole
<1>14. FitsAndOrdered(B, T, s)
  <2>1. Used(T.snap) <= conf.host
    <3>1. Slot(T.snap[s]) = Slot(B.snap[s]) /\ Slot(B.snap[s]) \in Nat
      <4>1. Slot(B.snap[s]) \in Nat
        BY <1>3, RankSizes
      <4>2. Slot(T.snap[s]) = Slot(B.snap[s])
        BY <1>2, <1>8 DEF Slot, Content
      <4>3. QED BY <4>1, <4>2
    <3>2. Slot(T.snap[s]) <= Slot(B.snap[s])
      BY <3>1
    <3>3. QED BY <1>3, <1>8, <1>10, <3>2, ShrinkFits
  <2>2. Used(T.kv) <= NumSlots /\ Cardinality(Rows(T)) <= NumRows
    <3>1. CASE B.rec[c] = None \/ B.rec[c].resident_rows # 0
      <4>1. B.kv[s] = row
        <5>1. CASE B.rec[c] = None
          BY <1>1, <1>3, <5>1, Unowned DEF FirstRow
        <5>2. CASE B.rec[c] # None
          <6>1. B.rec[c].resident_rows = 1
            BY <1>11, <3>1, <5>2 DEF Record
          <6>2. QED BY <1>1, <1>11, <5>2, <6>1 DEF FirstRow, ChainOK
        <5>3. QED BY <5>1, <5>2
      <4>2. Slot(T.kv[s]) <= Slot(B.kv[s])
        <5>1. Slot(B.kv[s]) \in Nat
          BY <1>3, RankSizes
        <5>2. QED BY <1>9, <4>1, <5>1
      <4>3. T.kv[s] = None \/ B.kv[s] # None
        BY <1>9, <4>1
      <4>4. QED BY <1>3, <1>8, <1>10, <4>2, <4>3, ShrinkFits
    <3>2. CASE B.rec[c] # None /\ B.rec[c].resident_rows = 0
      <4>1. CanRestore(A, s) /\ B.kv[s] = None /\ B.snap[s] # None /\ Content(B.snap[s]) = row
        BY <1>1, <1>5, <1>11, <3>2 DEF ChainOK, FirstRow
      <4>2. /\ Sized(B.kv) /\ Slot(B.kv[s]) = 0 /\ Slot(T.kv[s]) \in Nat
            /\ \A t \in Ids : t # s => T.kv[t] = B.kv[t]
        BY <1>3, <1>8, <1>10, <4>1, RankSizes DEF ChangesOnly, Slot
      <4>3. PICK f, h : f = B.kv /\ h = T.kv
        OBVIOUS
      <4>4. Used(h) = Used(f) - Slot(f[s]) + Slot(h[s]) /\ Used(h) \in Int /\ Used(f) \in Int
        BY <1>3, <4>2, <4>3, UsedChange
      <4>5. row # None /\ Slot(row) = B.snap[s].slots
        <5>1. row = [chain |-> c, toks |-> B.rec[c].processed, slots |-> B.rec[c].physical]
          BY <1>1, <3>2 DEF FirstRow
        <5>2. row.slots = B.snap[s].slots
          BY <4>1 DEF Content
        <5>3. row # None
          <6>1. row \in Row
            BY <1>3, <1>11, <3>2, <5>1 DEF Row, Record
          <6>2. QED BY <6>1, NoneIsNoValue
        <5>4. QED BY <5>2, <5>3 DEF Slot
      <4>6. NumRows - Cardinality(Rows(A)) > 0 /\ NumSlots - Used(A.kv) >= A.snap[s].slots
        BY <4>1 DEF CanRestore, Free, FreeRows
      <4>7. Rows(A) = Rows(B)
        BY <1>5 DEF Rows
      <4>8. NumSlots \in Int /\ NumRows \in Int
        BY ChainAssumption
      <4>9. Used(T.kv) <= NumSlots
        <5>1. Slot(h[s]) = Slot(row) /\ Slot(h[s]) \in Nat /\ Slot(f[s]) = 0
          BY <1>9, <4>2, <4>3
        <5>2. NumSlots - Used(f) >= Slot(row)
          BY <1>5, <4>3, <4>5, <4>6
        <5>3. QED BY <4>3, <4>4, <4>8, <5>1, <5>2
      <4>10. Cardinality(Rows(T)) <= NumRows
        <5>1. /\ Cardinality(Rows(B)) \in Nat /\ Cardinality(Rows(T)) \in Nat
              /\ Cardinality(Rows(T)) <= Cardinality(Rows(B)) + 1
          BY <1>3, <4>2, RowsChange
        <5>2. QED BY <4>6, <4>7, <4>8, <5>1
      <4>11. QED BY <4>9, <4>10
    <3>3. QED BY <3>1, <3>2
  <2>3. LruInv(T)
    <3>1. Chains(T) = Chains(M)
      BY <1>8 DEF Chains
    <3>2. QED BY <1>2, <1>8, <3>1 DEF LruInv
  <2>4. QED BY <1>2, <1>8, <2>1, <2>2, <2>3 DEF FitsAndOrdered, CopiesWithout
<1>15. RankInv(T, {})
  <2>1. {} \subseteq {} \cup {c}
    OBVIOUS
  <2>2. QED BY <1>3, <1>8, <1>10, <1>13, <1>14, <2>1, OneChain
<1>16. Admitted(B, T, c, s, p)
  <2>1. OthersKept(B, T, s)
    BY <1>2, <1>8 DEF OthersKept
  <2>2. QED BY <1>1, <1>2, <1>8, <2>1 DEF Admitted
<1>17. QED BY <1>1, <1>2, <1>6, <1>9, <1>15, <1>16

\* Ranks that agree still agree when the same turn is admitted on both.
LEMMA AdmittedSame ==
  ASSUME NEW R, NEW T, Same(R, T), NEW A, NEW B, NEW c, NEW s \in Ids, NEW p,
         Admitted(R, A, c, s, p), Admitted(T, B, c, s, p)
  PROVE  Same(A, B)
<1>1. T.rec = R.rec /\ T.kv = R.kv /\ T.lru = R.lru
  BY DEF Same
<1>2. A.rec = B.rec /\ A.lru = B.lru /\ A.kv = B.kv
  BY <1>1 DEF Admitted
<1>3. \A t \in Ids : t # s => A.snap[t] = R.snap[t] /\ B.snap[t] = T.snap[t]
  BY DEF Admitted, OthersKept
<1>4. ASSUME NEW t \in Ids
      PROVE  /\ A.snap[t] = None <=> B.snap[t] = None
             /\ A.snap[t] # None => Content(A.snap[t]) = Content(B.snap[t])
  <2>1. CASE t = s
    BY <2>1 DEF Admitted, Same
  <2>2. CASE t # s
    BY <1>3, <2>2 DEF Same
  <2>3. QED BY <2>1, <2>2
<1>5. QED BY <1>2, <1>4 DEF Same

\* A restore that fails leaves the index and the rows as they were.
LEMMA RestoreFailedKeeps ==
  ASSUME NEW B, RankInv(B, {}), NEW p, NEW c, NEW s, MayAdmit(B, c, s), PlanOK(B, p, c, s),
         NEW A, A = Marked(B, p), A.rec[c].resident_rows = 0
  PROVE  RankInv(RestoreFailed(A, c), {}) /\ RestoreFailed(A, c).rec = B.rec /\ RestoreFailed(A, c).kv = B.kv
<1>1. PICK q, o : q = Writer(B.rec[c], p) /\ o = B.rec[c]
  OBVIOUS
<1>2. /\ A \in RankState /\ A.rec = [B.rec EXCEPT ![c] = q] /\ A.kv = B.kv /\ A.snap = B.snap
      /\ A.copies = B.copies /\ LruInv(A)
      /\ q \in Record /\ q # None /\ q.seq = s
      /\ q.resident_rows = IF o = None THEN 1 ELSE o.resident_rows
  BY <1>1, MarkedFacts DEF PlanOK
<1>3. c \in Ids /\ s \in Ids /\ OnlyOwner(B, c, s) /\ B \in RankState /\ CopyInv(B)
  BY DEF MayAdmit, RankInv
<1>4. /\ B.rec \in [Ids -> Record \cup {None}] /\ B.kv \in [Ids -> Row \cup {None}]
      /\ B.snap \in [Ids -> Snapshot \cup {None}] /\ A.lru \in Seq(Ids)
  BY <1>2, <1>3, RankParts
<1>5. A.rec[c] = q /\ CopyInv(A) /\ o # None /\ o.resident_rows = 0 /\ o \in Record
  BY <1>1, <1>2, <1>3, <1>4 DEF CopyInv
<1>6. ChainOK(c, o, B.kv[s], B.snap[s]) /\ o.state = "IDLE" /\ o.seq = s
  <2>1. c \in Chains(B) \ {} /\ o.seq = s /\ o.state = "IDLE"
    BY <1>1, <1>3, <1>5 DEF MayAdmit, Chains, OnlyOwner
  <2>2. QED BY <1>1, <2>1 DEF RankInv, RecordsInv
<1>7. B.snap[s] # None /\ B.snap[s].state = "valid" /\ o.reserved_slots = 0 /\ o.reserved_rows = 0
  BY <1>5, <1>6 DEF ChainOK
<1>8. PICK w : w = Wait(A, s)
  OBVIOUS
<1>9. w = A
  BY <1>2, <1>7, <1>8 DEF Wait
<1>10. PICK F : F = RestoreFailed(A, c)
  OBVIOUS
<1>11. F = [A EXCEPT !.rec[c].state = "IDLE", !.rec[c].reserved_slots = 0, !.rec[c].reserved_rows = 0]
  BY <1>2, <1>5, <1>8, <1>9, <1>10 DEF RestoreFailed
<1>12. /\ F.rec = [[[A.rec EXCEPT ![c].state = "IDLE"] EXCEPT ![c].reserved_slots = 0] EXCEPT ![c].reserved_rows = 0]
       /\ F.kv = A.kv /\ F.lru = A.lru /\ F.snap = A.snap /\ F.copies = A.copies /\ IsRank(F)
  BY <1>2, <1>11 DEF RankState, IsRank
<1>13. F.rec = B.rec
  <2>0. PICK a, b, d, i, j : /\ a = o.processed /\ b = o.physical /\ d = o.resident_rows
                             /\ i = p.required /\ j = p.rows
    OBVIOUS
  <2>1. o = [seq |-> s, state |-> "IDLE", processed |-> a, physical |-> b,
             resident_rows |-> d, reserved_slots |-> 0, reserved_rows |-> 0]
    <3>1. o = [seq |-> o.seq, state |-> o.state, processed |-> o.processed, physical |-> o.physical,
               resident_rows |-> o.resident_rows, reserved_slots |-> o.reserved_slots,
               reserved_rows |-> o.reserved_rows]
      BY <1>5 DEF Record
    <3>2. QED BY <1>6, <1>7, <2>0, <3>1, Zenon
  <2>2. q = [seq |-> s, state |-> "ACTIVE", processed |-> a, physical |-> b,
             resident_rows |-> d, reserved_slots |-> i, reserved_rows |-> j]
    <3>1. q = [o EXCEPT !.state = "ACTIVE", !.reserved_slots = i, !.reserved_rows = j]
      BY <1>1, <1>5, <2>0 DEF Writer
    <3>2. QED BY <2>1, <3>1
  <2>3. [[[q EXCEPT !.state = "IDLE"] EXCEPT !.reserved_slots = 0] EXCEPT !.reserved_rows = 0] = o
    <3>1. [q EXCEPT !.state = "IDLE"] =
            [seq |-> s, state |-> "IDLE", processed |-> a, physical |-> b,
             resident_rows |-> d, reserved_slots |-> i, reserved_rows |-> j]
      BY <2>2
    <3>2. PICK u : u = [seq |-> s, state |-> "IDLE", processed |-> a, physical |-> b,
                        resident_rows |-> d, reserved_slots |-> i, reserved_rows |-> j]
      OBVIOUS
    <3>3. [u EXCEPT !.reserved_slots = 0] =
            [seq |-> s, state |-> "IDLE", processed |-> a, physical |-> b,
             resident_rows |-> d, reserved_slots |-> 0, reserved_rows |-> j]
      BY <3>2
    <3>4. PICK v : v = [seq |-> s, state |-> "IDLE", processed |-> a, physical |-> b,
                        resident_rows |-> d, reserved_slots |-> 0, reserved_rows |-> j]
      OBVIOUS
    <3>5. [v EXCEPT !.reserved_rows = 0] = o
      BY <2>1, <3>4
    <3>6. [q EXCEPT !.state = "IDLE"] = u /\ [u EXCEPT !.reserved_slots = 0] = v
      BY <3>1, <3>2, <3>3, <3>4, Zenon
    <3>7. QED BY <3>5, <3>6, Zenon
  <2>4. F.rec = [A.rec EXCEPT ![c] = [[[q EXCEPT !.state = "IDLE"] EXCEPT !.reserved_slots = 0] EXCEPT !.reserved_rows = 0]]
    BY <1>2, <1>3, <1>4, <1>5, <1>12
  <2>5. F.rec = [A.rec EXCEPT ![c] = o]
    BY <2>3, <2>4
  <2>6. QED BY <1>1, <1>2, <1>3, <1>4, <2>5
<1>14. F \in RankState
  <2>1. A.snap \in [Ids -> Snapshot \cup {None}] /\ A.copies \in Seq(Ids) /\ A.kv \in [Ids -> Row \cup {None}]
    BY <1>2, RankParts
  <2>2. QED BY <1>4, <1>12, <1>13, <2>1, IsRankState
<1>15. Chains(F) = Chains(B) /\ Chains(A) = Chains(B) /\ Rows(F) = Rows(B)
  <2>1. Chains(F) = Chains(B) /\ Rows(F) = Rows(B)
    BY <1>2, <1>12, <1>13 DEF Chains, Rows
  <2>2. Chains(A) = Chains(B)
    BY <1>1, <1>2, <1>3, <1>4, <1>5 DEF Chains
  <2>3. QED BY <2>1, <2>2
<1>16. LruInv(F)
  BY <1>2, <1>12, <1>15 DEF LruInv
<1>17. CopyInv(F) /\ OwnerInv(F) /\ RoomInv(F) /\ RecordsInv(F, {})
  <2>1. F.rec = B.rec /\ F.kv = B.kv /\ F.snap = B.snap /\ F.copies = B.copies
    BY <1>2, <1>12, <1>13
  <2>2. CopyInv(F)
    BY <1>3, <2>1 DEF CopyInv
  <2>3. OwnerInv(F)
    BY <1>15, <2>1, ZenonT(60) DEF RankInv, OwnerInv
  <2>4. RoomInv(F)
    BY <1>15, <2>1, Zenon DEF RankInv, RoomInv
  <2>5. RecordsInv(F, {})
    BY <1>15, <2>1, Zenon DEF RankInv, RecordsInv
  <2>6. QED BY <2>2, <2>3, <2>4, <2>5
<1>18. QED BY <1>2, <1>10, <1>12, <1>13, <1>14, <1>16, <1>17 DEF RankInv

-----------------------------------------------------------------------------
(* A step of a running turn *)

\* Chain c runs a turn under sequence s.
Runs(R, c, s) == c \in Chains(R) /\ R.rec[c].state = "ACTIVE" /\ R.rec[c].seq = s

\* A running turn owns its sequence, and no copy reads its row.
LEMMA RunsFacts ==
  ASSUME NEW R, RankInv(R, {}), NEW c, NEW s, Runs(R, c, s)
  PROVE  /\ c \in Ids /\ s \in Ids /\ R.rec[c] \in Record /\ R.rec[c] # None /\ OnlyOwner(R, c, s)
         /\ R.rec[c].resident_rows = 1 /\ (R.snap[s] = None \/ R.snap[s].state = "stale")
         /\ s \notin Range(R.copies)
<1>1. c \in Ids /\ s \in Ids /\ R.rec[c] \in Record /\ R.rec[c] # None /\ OnlyOwner(R, c, s)
  BY KnownOwner DEF Runs
<1>2. ChainOK(c, R.rec[c], R.kv[s], R.snap[s])
  BY DEF RankInv, RecordsInv, Runs
<1>3. R.rec[c].resident_rows = 1 /\ (R.snap[s] = None \/ R.snap[s].state = "stale")
  BY <1>2 DEF ChainOK, Runs
<1>4. s \notin Range(R.copies)
  BY <1>3 DEF RankInv, CopyInv, CopyOK
<1>5. QED BY <1>1, <1>3, <1>4

\* T is R but for the record of c and the row of s.
OnlyRow(R, T, c, s, q, row) ==
  /\ T.rec = [R.rec EXCEPT ![c] = q] /\ T.kv = [R.kv EXCEPT ![s] = row]
  /\ T.lru = R.lru /\ T.snap = R.snap /\ T.copies = R.copies /\ IsRank(T)

\* A running turn may change its row, within its length and the room there is.
LEMMA RowKeeps ==
  ASSUME NEW R, RankInv(R, {}), NEW c, NEW s, Runs(R, c, s), NEW T, NEW q \in Record, NEW row,
         OnlyRow(R, T, c, s, q, row), q.state = "ACTIVE", q.seq = s, q.resident_rows = 1,
         row = None \/ (row \in Row /\ row.slots <= row.toks),
         Used(R.kv) - Slot(R.kv[s]) + Slot(row) <= NumSlots,
         row # None /\ R.kv[s] = None => FreeRows(R) > 0
  PROVE  RankInv(T, {})
<1>1. /\ c \in Ids /\ s \in Ids /\ R.rec[c] # None /\ OnlyOwner(R, c, s)
      /\ (R.snap[s] = None \/ R.snap[s].state = "stale") /\ s \notin Range(R.copies)
  BY RunsFacts
<1>2. R \in RankState /\ LruInv(R) /\ CopyInv(R) /\ RoomInv(R)
  BY DEF RankInv
<1>3. /\ R.rec \in [Ids -> Record \cup {None}] /\ R.lru \in Seq(Ids)
      /\ R.kv \in [Ids -> Row \cup {None}] /\ R.snap \in [Ids -> Snapshot \cup {None}]
      /\ R.copies \in Seq(Ids)
  BY <1>2, RankParts
<1>4. T.rec[c] = q /\ T.kv[s] = row /\ q # None
  BY <1>1, <1>3, NoneIsNoValue DEF OnlyRow
<1>5. T \in RankState
  <2>1. q \in Record \cup {None} /\ row \in Row \cup {None}
    OBVIOUS
  <2>2. T.rec = [R.rec EXCEPT ![c] = q] /\ T.kv = [R.kv EXCEPT ![s] = row]
    BY DEF OnlyRow
  <2>3. T.rec \in [Ids -> Record \cup {None}]
    BY <1>3, <2>1, <2>2
  <2>4. T.kv \in [Ids -> Row \cup {None}]
    BY <1>3, <2>1, <2>2
  <2>5. T.lru = R.lru /\ T.snap = R.snap /\ T.copies = R.copies /\ IsRank(T)
    BY DEF OnlyRow
  <2>6. QED BY <1>3, <2>3, <2>4, <2>5, IsRankState
<1>6. ChangesOnly(R, T, c, s)
  BY <1>3 DEF OnlyRow, ChangesOnly
<1>7. LeavesWhole(T, c, s, {})
  <2>1. ChainOK(c, q, row, T.snap[s])
    BY <1>1 DEF ChainOK, OnlyRow
  <2>2. /\ T.snap[s] # None => T.snap[s].slots <= T.snap[s].toks
        /\ conf.host = 0 => T.snap[s] = None
    BY <1>1, <1>2 DEF OnlyRow, RoomInv
  <2>3. s \notin Range(T.copies)
    BY <1>1 DEF OnlyRow
  <2>4. QED BY <1>4, <2>1, <2>2, <2>3 DEF LeavesWhole
<1>8. FitsAndOrdered(R, T, s)
  <2>1. LruInv(T)
    <3>1. Chains(T) = Chains(R)
      BY <1>1, <1>3, <1>4 DEF OnlyRow, Chains
    <3>2. QED BY <1>2, <3>1 DEF LruInv, OnlyRow
  <2>2. Sized(R.kv) /\ Slot(T.kv[s]) \in Nat /\ Slot(R.kv[s]) \in Nat /\ Slot(R.snap[s]) \in Nat
    BY <1>1, <1>2, <1>5, RankSizes
  <2>3. PICK f, h : f = R.kv /\ h = T.kv
    OBVIOUS
  <2>4. \A t \in Ids : t # s => h[t] = f[t]
    BY <1>6, <2>3 DEF ChangesOnly
  <2>5. Used(h) = Used(f) - Slot(f[s]) + Slot(h[s])
    BY <1>1, <2>2, <2>3, <2>4, UsedChange
  <2>6. Used(T.kv) <= NumSlots
    BY <1>4, <2>3, <2>5
  <2>7. Cardinality(Rows(T)) <= NumRows
    <3>1. /\ Cardinality(Rows(R)) \in Nat /\ Cardinality(Rows(T)) \in Nat
          /\ Cardinality(Rows(T)) <= Cardinality(Rows(R)) + 1
          /\ T.kv[s] = None \/ R.kv[s] # None => Cardinality(Rows(T)) <= Cardinality(Rows(R))
      BY <1>1, <2>3, <2>4, RowsChange
    <3>2. NumRows \in Nat /\ Cardinality(Rows(R)) <= NumRows
      BY <1>2, ChainAssumption DEF RoomInv
    <3>3. row # None /\ R.kv[s] = None => NumRows - Cardinality(Rows(R)) > 0
      BY DEF FreeRows
    <3>4. QED BY <1>4, <3>1, <3>2, <3>3
  <2>8. Used(T.snap) <= conf.host
    BY <1>2 DEF RoomInv, OnlyRow
  <2>9. QED BY <1>2, <2>1, <2>6, <2>7, <2>8 DEF FitsAndOrdered, OnlyRow, CopyInv
<1>9. {} \subseteq {} \cup {c}
  OBVIOUS
<1>10. QED BY <1>1, <1>5, <1>6, <1>7, <1>8, <1>9, OneChain

\* Ranks that agree still agree when the same row and record change on both.
LEMMA OnlyRowSame ==
  ASSUME NEW R, NEW T, Same(R, T), NEW A, NEW B, NEW c, NEW s, NEW q, NEW row,
         OnlyRow(R, A, c, s, q, row), OnlyRow(T, B, c, s, q, row)
  PROVE  Same(A, B)
BY DEF Same, OnlyRow

\* A preempted turn gives up its row.
LEMMA FreeSeqKeeps ==
  ASSUME NEW R, RankInv(R, {}), NEW c, NEW s, Runs(R, c, s)
  PROVE  RankInv(FreeSeq(R, s), {}) /\ OnlyRow(R, FreeSeq(R, s), c, s, R.rec[c], None)
<1>1. PICK T : T = FreeSeq(R, s)
  OBVIOUS
<1>2. R \in RankState /\ c \in Ids /\ s \in Ids /\ R.rec[c] \in Record /\ R.rec[c].resident_rows = 1
  BY RunsFacts DEF RankInv
<1>3. OnlyRow(R, T, c, s, R.rec[c], None)
  BY <1>1, <1>2 DEF FreeSeq, OnlyRow, RankState, IsRank
<1>4. Used(R.kv) - Slot(R.kv[s]) + Slot(None) <= NumSlots
  <2>1. Sized(R.kv) /\ Slot(R.kv[s]) \in Nat
    BY <1>2, RankSizes
  <2>2. PICK f : f = R.kv
    OBVIOUS
  <2>3. Used(f) \in Nat /\ NumSlots \in Nat /\ Used(f) <= NumSlots
    BY <2>1, <2>2, UsedNat, ChainAssumption DEF RankInv, RoomInv
  <2>4. QED BY <2>1, <2>2, <2>3 DEF Slot
<1>5. RankInv(T, {})
  BY <1>2, <1>3, <1>4, RowKeeps DEF Runs
<1>6. QED BY <1>1, <1>3, <1>5

\* The least of some numbers is one of them, and none is less.
LEMMA MinFacts ==
  ASSUME NEW S \in SUBSET Nat, S # {} PROVE Min(S) \in S /\ \A m \in S : Min(S) <= m
<1>1. \E n \in S : \A m \in S : n <= m
  BY LeastNat
<1>2. QED BY <1>1 DEF Min

\* The row of a turn after n more tokens, and its record.
GrownRow(row, c, n, last) ==
  [chain |-> c, toks |-> (IF row = None THEN 0 ELSE row.toks) + n,
   slots |-> IF last THEN Min({Slot(row) + n, Budget}) ELSE Slot(row) + n]

GrownRecord(q, last) == IF last THEN [q EXCEPT !.reserved_slots = 0, !.reserved_rows = 0] ELSE q

\* Room for n more tokens of chain c in row.
MayGrow(R, row, c, n) ==
  /\ n \in Nat /\ n <= Free(R) /\ (IF row = None THEN 0 ELSE row.toks) + n <= MaxLen
  /\ IF row = None THEN FreeRows(R) > 0 ELSE row.chain = c

\* What a chunk or a token makes of the row.
LEMMA GrownRowFacts ==
  ASSUME NEW R, NEW row \in Row \cup {None}, NEW c \in Ids, NEW n, MayGrow(R, row, c, n), NEW last \in BOOLEAN,
         row # None => row.slots <= row.toks
  PROVE  /\ GrownRow(row, c, n, last) \in Row
         /\ GrownRow(row, c, n, last).slots <= GrownRow(row, c, n, last).toks
         /\ GrownRow(row, c, n, last).slots <= Slot(row) + n
<1>1. PICK t, a : t = (IF row = None THEN 0 ELSE row.toks) /\ a = Slot(row)
  OBVIOUS
<1>2. n \in Nat /\ t + n <= MaxLen /\ MaxLen \in Nat /\ Budget \in Nat
  BY <1>1, ChainAssumption DEF MayGrow
<1>3. t \in Nat /\ a \in Nat /\ a <= t
  <2>1. CASE row = None
    BY <1>1, <2>1 DEF Slot
  <2>2. CASE row # None
    <3>1. row \in Row /\ t = row.toks /\ a = row.slots
      BY <1>1, <2>2 DEF Slot
    <3>2. row.toks \in 0..MaxLen /\ row.slots \in 0..MaxLen
      BY <3>1 DEF Row
    <3>3. QED BY <1>2, <2>2, <3>1, <3>2
  <2>3. QED BY <2>1, <2>2
<1>4. PICK m : m = IF last THEN Min({a + n, Budget}) ELSE a + n
  OBVIOUS
<1>5. m \in Nat /\ m <= a + n
  <2>1. PICK S : S = {a + n, Budget}
    OBVIOUS
  <2>2. S \in SUBSET Nat /\ S # {} /\ a + n \in S
    BY <1>2, <1>3, <2>1
  <2>3. Min(S) \in S /\ Min(S) <= a + n
    BY <2>2, MinFacts
  <2>4. Min(S) \in Nat /\ m = IF last THEN Min(S) ELSE a + n
    BY <1>4, <2>1, <2>2, <2>3
  <2>5. QED BY <1>2, <1>3, <2>3, <2>4
<1>6. GrownRow(row, c, n, last) = [chain |-> c, toks |-> t + n, slots |-> m]
  BY <1>1, <1>4 DEF GrownRow
<1>7. t + n \in 0..MaxLen /\ m \in 0..MaxLen /\ m <= t + n
  BY <1>2, <1>3, <1>5
<1>8. QED BY <1>1, <1>5, <1>6, <1>7 DEF Row

\* A chunk or a token: the row of the turn grows, and nothing else changes.
LEMMA GrownIsRow ==
  ASSUME NEW R \in RankState, NEW c \in Ids, NEW s \in Ids, c = req[s].chain, NEW n, NEW last \in BOOLEAN,
         R.rec[c] \in Record, MayGrow(R, R.kv[s], c, n)
  PROVE  OnlyRow(R, Grown(R, s, n, last), c, s, GrownRecord(R.rec[c], last), GrownRow(R.kv[s], c, n, last))
<1>1. PICK G, o, row : G = Grown(R, s, n, last) /\ o = R.rec[c] /\ row = R.kv[s]
  OBVIOUS
<1>2. /\ R.rec \in [Ids -> Record \cup {None}] /\ R.kv \in [Ids -> Row \cup {None}]
  BY RankParts
<1>3. PICK x : x = IF row = None THEN [chain |-> c, toks |-> 0, slots |-> 0] ELSE row
  OBVIOUS
<1>4. PICK y : y = [x EXCEPT !.toks = x.toks + n, !.slots = IF last THEN Min({x.slots + n, Budget}) ELSE x.slots + n]
  OBVIOUS
<1>5. PICK q : q = GrownRecord(o, last)
  OBVIOUS
<1>6. G = [R EXCEPT !.kv[s] = y, !.rec[c] = q]
  <2>1. q = IF last THEN [R.rec[c] EXCEPT !.reserved_slots = 0, !.reserved_rows = 0] ELSE R.rec[c]
    BY <1>1, <1>5 DEF GrownRecord
  <2>2. QED BY <1>1, <1>3, <1>4, <2>1 DEF Grown
<1>7. y = GrownRow(row, c, n, last)
  <2>1. x = [chain |-> c, toks |-> (IF row = None THEN 0 ELSE row.toks), slots |-> Slot(row)]
    <3>1. CASE row = None
      BY <1>3, <3>1 DEF Slot
    <3>2. CASE row # None
      <4>1. row \in Row /\ row.chain = c
        BY <1>1, <1>2, <3>2 DEF MayGrow
      <4>2. QED BY <1>3, <3>2, <4>1 DEF Row, Slot
    <3>3. QED BY <3>1, <3>2
  <2>2. PICK t, a : t = (IF row = None THEN 0 ELSE row.toks) /\ a = Slot(row)
    OBVIOUS
  <2>3. x = [chain |-> c, toks |-> t, slots |-> a]
    BY <2>1, <2>2, Zenon
  <2>4. PICK m : m = IF last THEN Min({a + n, Budget}) ELSE a + n
    OBVIOUS
  <2>5. x.toks = t /\ x.slots = a
    BY <2>3
  <2>6. y = [x EXCEPT !.toks = t + n, !.slots = m]
    BY <1>4, <2>4, <2>5, Zenon
  <2>7. y = [chain |-> c, toks |-> t + n, slots |-> m]
    BY <2>3, <2>6
  <2>8. GrownRow(row, c, n, last) = [chain |-> c, toks |-> t + n, slots |-> m]
    BY <2>2, <2>4, Zenon DEF GrownRow
  <2>9. QED BY <2>7, <2>8
<1>8. OnlyRow(R, G, c, s, q, y)
  BY <1>6 DEF OnlyRow, RankState, IsRank
<1>9. QED BY <1>1, <1>5, <1>7, <1>8

\* What a running turn needs of a step that grew its row.
Grew(R, G, c, s, n) ==
  /\ RankInv(G, {}) /\ Runs(G, c, s) /\ G.kv[s] # None /\ G.kv[s].chain = c
  /\ G.kv[s].toks = (IF R.kv[s] = None THEN 0 ELSE R.kv[s].toks) + n
  /\ \A d \in Ids \ {c} : G.rec[d] = R.rec[d]
  /\ \A t \in Ids \ {s} : G.kv[t] = R.kv[t]

\* A chunk or a token that there is room for keeps the rank in order.
LEMMA GrownKeeps ==
  ASSUME NEW R, RankInv(R, {}), NEW c, NEW s, Runs(R, c, s), c = req[s].chain, NEW n, NEW last \in BOOLEAN,
         MayGrow(R, R.kv[s], c, n)
  PROVE  Grew(R, Grown(R, s, n, last), c, s, n)
<1>1. PICK G, o, row : G = Grown(R, s, n, last) /\ o = R.rec[c] /\ row = R.kv[s]
  OBVIOUS
<1>2. R \in RankState /\ c \in Ids /\ s \in Ids /\ o \in Record /\ o.resident_rows = 1
      /\ o.state = "ACTIVE" /\ o.seq = s /\ RoomInv(R)
  BY <1>1, RunsFacts DEF RankInv, Runs
<1>3. /\ R.rec \in [Ids -> Record \cup {None}] /\ R.kv \in [Ids -> Row \cup {None}]
  BY <1>2, RankParts
<1>4. PICK q, y : q = GrownRecord(o, last) /\ y = GrownRow(row, c, n, last)
  OBVIOUS
<1>5. OnlyRow(R, G, c, s, q, y)
  BY <1>1, <1>2, <1>4, GrownIsRow
<1>6. q \in Record /\ q.state = "ACTIVE" /\ q.seq = s /\ q.resident_rows = 1
  <2>1. CASE ~last
    BY <1>2, <1>4, <2>1 DEF GrownRecord
  <2>2. CASE last
    <3>1. q = [o EXCEPT !.reserved_slots = 0, !.reserved_rows = 0]
      BY <1>4, <2>2 DEF GrownRecord
    <3>2. 0 \in 0..(2 * MaxLen)
      BY ChainAssumption
    <3>3. PICK M : M = 0..(2 * MaxLen)
      OBVIOUS
    <3>4. o \in [seq : Ids, state : {"ACTIVE", "IDLE"}, processed : 0..MaxLen, physical : 0..MaxLen,
                resident_rows : 0..1, reserved_slots : M, reserved_rows : 0..1]
      BY <1>2, <3>3, Zenon DEF Record
    <3>5. q \in [seq : Ids, state : {"ACTIVE", "IDLE"}, processed : 0..MaxLen, physical : 0..MaxLen,
                resident_rows : 0..1, reserved_slots : M, reserved_rows : 0..1]
      <4>1. PICK N, L : N = 0..MaxLen /\ L = 0..1
        OBVIOUS
      <4>2. o \in [seq : Ids, state : {"ACTIVE", "IDLE"}, processed : N, physical : N,
                  resident_rows : L, reserved_slots : M, reserved_rows : L]
        BY <3>4, <4>1, Zenon
      <4>3. 0 \in M /\ 0 \in L
        BY <3>2, <3>3, <4>1
      <4>4. q \in [seq : Ids, state : {"ACTIVE", "IDLE"}, processed : N, physical : N,
                  resident_rows : L, reserved_slots : M, reserved_rows : L]
        BY <3>1, <4>2, <4>3
      <4>5. QED BY <4>1, <4>4, Zenon
    <3>6. q.state = o.state /\ q.seq = o.seq /\ q.resident_rows = o.resident_rows
      BY <3>1, <3>4
    <3>7. QED BY <1>2, <3>3, <3>5, <3>6, Zenon DEF Record
  <2>3. QED BY <2>1, <2>2
<1>7. row \in Row \cup {None} /\ (row # None => row.slots <= row.toks) /\ MayGrow(R, row, c, n)
  BY <1>1, <1>2, <1>3 DEF RoomInv
<1>8. y \in Row /\ y.slots <= y.toks /\ y.slots <= Slot(row) + n /\ y # None
  <2>1. y \in Row /\ y.slots <= y.toks /\ y.slots <= Slot(row) + n
    BY <1>2, <1>4, <1>7, GrownRowFacts
  <2>2. QED BY <2>1, NoneIsNoValue
<1>9. Used(R.kv) - Slot(R.kv[s]) + Slot(y) <= NumSlots
  <2>1. Sized(R.kv) /\ Slot(R.kv[s]) \in Nat
    BY <1>2, RankSizes
  <2>2. PICK f : f = R.kv
    OBVIOUS
  <2>3. Used(f) \in Nat /\ NumSlots \in Nat
    BY <2>1, <2>2, UsedNat, ChainAssumption
  <2>4. n \in Nat /\ n <= NumSlots - Used(f)
    BY <1>7, <2>2 DEF MayGrow, Free
  <2>5. Slot(y) = y.slots /\ y.slots \in Nat
    BY <1>8, ChainAssumption DEF Slot, Row
  <2>6. PICK a, b, u : a = Slot(row) /\ b = y.slots /\ u = Used(f)
    OBVIOUS
  <2>7. a \in Nat /\ b \in Nat /\ u \in Nat /\ b <= a + n /\ n <= NumSlots - u
    BY <1>1, <1>8, <2>1, <2>3, <2>4, <2>5, <2>6
  <2>8. u - a + b <= NumSlots
    BY <2>3, <2>4, <2>7
  <2>9. QED BY <1>1, <2>2, <2>5, <2>6, <2>8
<1>10. y # None /\ R.kv[s] = None => FreeRows(R) > 0
  BY <1>1, <1>7 DEF MayGrow
<1>11. RankInv(G, {})
  BY <1>5, <1>6, <1>8, <1>9, <1>10, RowKeeps
<1>12. G.rec[c] = q /\ G.kv[s] = y /\ (\A d \in Ids \ {c} : G.rec[d] = R.rec[d]) /\ \A t \in Ids \ {s} : G.kv[t] = R.kv[t]
  BY <1>2, <1>3, <1>5 DEF OnlyRow
<1>13. Runs(G, c, s)
  BY <1>2, <1>6, <1>12, NoneIsNoValue DEF Runs, Chains
<1>14. y.chain = c /\ y.toks = (IF row = None THEN 0 ELSE row.toks) + n
  BY <1>4 DEF GrownRow
<1>15. QED BY <1>1, <1>8, <1>11, <1>12, <1>13, <1>14 DEF Grew

-----------------------------------------------------------------------------
(* The end of a turn *)

\* The record of a chain whose turn ended after n tokens.
EndRecord(q, row, n) ==
  [q EXCEPT !.state = "IDLE", !.processed = n, !.physical = row.slots, !.resident_rows = 1,
            !.reserved_slots = 0, !.reserved_rows = 0]

\* Its fields.
Ended(e, s, n, slots) ==
  /\ e.seq = s /\ e.state = "IDLE" /\ e.processed = n /\ e.physical = slots
  /\ e.resident_rows = 1 /\ e.reserved_slots = 0 /\ e.reserved_rows = 0

\* F is R with the turn of chain c over.
Finished(R, F, c, s, n) ==
  /\ F.rec = [R.rec EXCEPT ![c] = EndRecord(R.rec[c], R.kv[s], n)] /\ F.lru = Append(RemoveFirst(R.lru, c), c)
  /\ F.kv = R.kv /\ F.snap = R.snap /\ F.copies = R.copies

\* The row of the turn is whole: the n tokens of chain c.
HoldsTurn(R, c, s, n) ==
  /\ Runs(R, c, s) /\ n \in 1..MaxLen /\ R.kv[s] # None /\ R.kv[s].chain = c /\ R.kv[s].toks = n

\* index.finish_digest changes the record and the order of use.
LEMMA FinishFacts ==
  ASSUME NEW R, RankInv(R, {}), NEW c, NEW s, NEW n, HoldsTurn(R, c, s, n)
  PROVE  FinishRecord(R, c, n) \in RankState /\ Finished(R, FinishRecord(R, c, n), c, s, n)
         /\ LruInv(FinishRecord(R, c, n)) /\ EndRecord(R.rec[c], R.kv[s], n) \in Record
         /\ Ended(EndRecord(R.rec[c], R.kv[s], n), s, n, R.kv[s].slots)
<1>1. PICK F, o, row : F = FinishRecord(R, c, n) /\ o = R.rec[c] /\ row = R.kv[s]
  OBVIOUS
<1>2. R \in RankState /\ c \in Ids /\ s \in Ids /\ o \in Record /\ o # None /\ o.seq = s /\ LruInv(R)
  BY <1>1, RunsFacts DEF RankInv, Runs, HoldsTurn
<1>3. /\ R.rec \in [Ids -> Record \cup {None}] /\ R.kv \in [Ids -> Row \cup {None}] /\ R.lru \in Seq(Ids)
      /\ R.snap \in [Ids -> Snapshot \cup {None}] /\ R.copies \in Seq(Ids)
  BY <1>2, RankParts
<1>4. PICK e, a : e = EndRecord(o, row, n) /\ a = row.slots
  OBVIOUS
<1>5. a \in 0..MaxLen /\ n \in 0..MaxLen
  <2>1. row \in Row
    BY <1>1, <1>2, <1>3 DEF HoldsTurn
  <2>2. n \in 1..MaxLen
    BY DEF HoldsTurn
  <2>3. QED BY <1>4, <2>1, <2>2, ChainAssumption DEF Row
<1>6. e = [o EXCEPT !.state = "IDLE", !.processed = n, !.physical = a, !.resident_rows = 1,
                    !.reserved_slots = 0, !.reserved_rows = 0]
  BY <1>4 DEF EndRecord
<1>7. e \in Record /\ e # None /\ Ended(e, s, n, a)
  <2>1. PICK M, N, L : M = 0..(2 * MaxLen) /\ N = 0..MaxLen /\ L = 0..1
    OBVIOUS
  <2>2. o \in [seq : Ids, state : {"ACTIVE", "IDLE"}, processed : N, physical : N,
               resident_rows : L, reserved_slots : M, reserved_rows : L]
    BY <1>2, <2>1, Zenon DEF Record
  <2>3. 0 \in M /\ 0 \in L /\ 1 \in L /\ a \in N /\ n \in N
    BY <1>5, <2>1, ChainAssumption
  <2>4. e \in [seq : Ids, state : {"ACTIVE", "IDLE"}, processed : N, physical : N,
               resident_rows : L, reserved_slots : M, reserved_rows : L]
    BY <1>6, <2>2, <2>3
  <2>5. e \in Record
    BY <2>1, <2>4, Zenon DEF Record
  <2>6. Ended(e, s, n, a)
    BY <1>2, <1>6, <2>2 DEF Ended
  <2>7. QED BY <2>5, <2>6, NoneIsNoValue
<1>8. PICK E : E = [R EXCEPT !.rec[c] = e]
  OBVIOUS
<1>9. F = [E EXCEPT !.lru = Append(RemoveFirst(E.lru, c), c)]
  <2>1. E = [R EXCEPT !.rec[c] = [R.rec[c] EXCEPT !.state = "IDLE", !.processed = n,
               !.physical = R.kv[R.rec[c].seq].slots, !.resident_rows = 1,
               !.reserved_slots = 0, !.reserved_rows = 0]]
    BY <1>1, <1>2, <1>4, <1>6, <1>8
  <2>2. QED BY <1>1, <2>1 DEF FinishRecord, Touch
<1>10. /\ F.rec = [R.rec EXCEPT ![c] = e] /\ F.lru = Append(RemoveFirst(R.lru, c), c)
       /\ F.kv = R.kv /\ F.snap = R.snap /\ F.copies = R.copies /\ IsRank(F)
  BY <1>2, <1>8, <1>9 DEF RankState, IsRank
<1>11. F.lru \in Seq(Ids) /\ IsInjective(F.lru) /\ Range(F.lru) = Range(R.lru) \cup {c}
  BY <1>2, <1>3, <1>10, TouchFacts DEF LruInv
<1>12. F \in RankState
  <2>1. e \in Record \cup {None}
    BY <1>7
  <2>2. F.rec \in [Ids -> Record \cup {None}]
    BY <1>2, <1>3, <1>10, <2>1
  <2>3. QED BY <1>3, <1>10, <1>11, <2>2, IsRankState
<1>13. LruInv(F)
  <2>1. Chains(F) = Chains(R) /\ c \in Chains(R)
    BY <1>1, <1>2, <1>3, <1>7, <1>10 DEF Chains
  <2>2. QED BY <1>2, <1>11, <2>1 DEF LruInv
<1>14. QED BY <1>1, <1>4, <1>7, <1>10, <1>12, <1>13 DEF Finished

\* A turn that ended leaves a chain that is whole, but for its old snapshot.
LEMMA FinishKeeps ==
  ASSUME NEW R, RankInv(R, {}), NEW c, NEW s, NEW n, HoldsTurn(R, c, s, n)
  PROVE  /\ RankInv(FinishRecord(R, c, n), {c}) /\ Finished(R, FinishRecord(R, c, n), c, s, n)
         /\ R.snap[s] = None => RankInv(FinishRecord(R, c, n), {})
<1>1. PICK F, e, row : F = FinishRecord(R, c, n) /\ e = EndRecord(R.rec[c], R.kv[s], n) /\ row = R.kv[s]
  OBVIOUS
<1>2. /\ F \in RankState /\ Finished(R, F, c, s, n) /\ LruInv(F) /\ e \in Record
      /\ Ended(e, s, n, row.slots)
  BY <1>1, FinishFacts
<1>3. /\ F.rec = [R.rec EXCEPT ![c] = e] /\ F.kv = R.kv /\ F.snap = R.snap /\ F.copies = R.copies
  BY <1>1, <1>2 DEF Finished
<1>4. /\ R \in RankState /\ c \in Ids /\ s \in Ids /\ OnlyOwner(R, c, s) /\ s \notin Range(R.copies)
      /\ RoomInv(R) /\ CopyInv(R)
  BY RunsFacts DEF RankInv, HoldsTurn
<1>5. R.rec \in [Ids -> Record \cup {None}] /\ R.kv \in [Ids -> Row \cup {None}]
  BY <1>4, RankParts
<1>6. F.rec[c] = e /\ e # None /\ e.seq = s
  BY <1>1, <1>2, <1>3, <1>4, <1>5, NoneIsNoValue DEF Ended
<1>7. ChangesOnly(R, F, c, s)
  BY <1>3, <1>5 DEF ChangesOnly
<1>8. FitsAndOrdered(R, F, s)
  <2>1. Rows(F) = Rows(R)
    BY <1>3 DEF Rows
  <2>2. QED BY <1>2, <1>3, <1>4, <2>1 DEF FitsAndOrdered, RoomInv, CopyInv
<1>9. /\ F.kv[s] # None => F.kv[s].slots <= F.kv[s].toks
      /\ F.snap[s] # None => F.snap[s].slots <= F.snap[s].toks
      /\ conf.host = 0 => F.snap[s] = None
      /\ s \notin Range(F.copies)
  BY <1>3, <1>4 DEF RoomInv
<1>10. LeavesWhole(F, c, s, {c})
  BY <1>6, <1>9 DEF LeavesWhole
<1>11. RankInv(F, {c})
  <2>1. {} \subseteq {c} \cup {c}
    OBVIOUS
  <2>2. QED BY <1>2, <1>4, <1>7, <1>8, <1>10, <2>1, OneChain
<1>12. ASSUME R.snap[s] = None PROVE RankInv(F, {})
  <2>1. row = [chain |-> c, toks |-> n, slots |-> row.slots] /\ n > 0
    <3>1. row \in Row /\ row.chain = c /\ row.toks = n
      BY <1>1, <1>4, <1>5 DEF HoldsTurn
    <3>2. n > 0
      BY ChainAssumption DEF HoldsTurn
    <3>3. QED BY <3>1, <3>2 DEF Row
  <2>4. ChainOK(c, e, row, None)
    BY <1>2, <2>1 DEF ChainOK, Ended
  <2>5. LeavesWhole(F, c, s, {})
    BY <1>1, <1>3, <1>6, <1>9, <1>12, <2>4 DEF LeavesWhole
  <2>6. {} \subseteq {} \cup {c}
    OBVIOUS
  <2>7. QED BY <1>2, <1>4, <1>7, <1>8, <2>5, <2>6, OneChain
<1>13. QED BY <1>1, <1>2, <1>11, <1>12

\* Ranks that agree still agree when the same turn ended on both.
LEMMA FinishedSame ==
  ASSUME NEW R, NEW T, Same(R, T), NEW A, NEW B, NEW c, NEW s, NEW n,
         Finished(R, A, c, s, n), Finished(T, B, c, s, n)
  PROVE  Same(A, B)
BY DEF Same, Finished

\* T is R without the snapshot of chain v, and without the chain if it lived
\* on the host alone.
HostDropped(R, T, v, s) ==
  /\ T.kv = R.kv /\ T.snap[s] = None /\ OthersKept(R, T, s)
  /\ IF R.rec[v].resident_rows = 0
     THEN T.rec = [R.rec EXCEPT ![v] = None] /\ T.lru = RemoveFirst(R.lru, v)
     ELSE T.rec = R.rec /\ T.lru = R.lru

\* One victim of save_finished_chain leaves the host.
LEMMA DropHostKeeps ==
  ASSUME NEW R, NEW X, RankInv(R, X), NEW v \in Chains(R), v \notin X
  PROVE  RankInv(DropHost(R, v), X) /\ HostDropped(R, DropHost(R, v), v, R.rec[v].seq)
<1>1. PICK T, s, o : T = DropHost(R, v) /\ s = R.rec[v].seq /\ o = R.rec[v]
  OBVIOUS
<1>2. OnlyOwner(R, v, s) /\ s \in Ids /\ v \in Ids /\ o \in Record /\ o # None
  BY <1>1, KnownOwner
<1>3. R \in RankState /\ LruInv(R) /\ CopyInv(R) /\ RoomInv(R)
  BY DEF RankInv
<1>4. /\ R.rec \in [Ids -> Record \cup {None}] /\ R.kv \in [Ids -> Row \cup {None}] /\ R.lru \in Seq(Ids)
  BY <1>3, RankParts
<1>5. PICK D : D = Drop(R, s)
  OBVIOUS
<1>6. D \in RankState /\ D.rec = R.rec /\ D.lru = R.lru /\ D.kv = R.kv /\ OthersKept(R, D, s)
      /\ D.snap[s] = None /\ CopiesWithout(R, D, s)
  BY <1>2, <1>3, <1>5, DropFacts DEF KeepsIndex
<1>7. ChainOK(v, o, R.kv[s], R.snap[s])
  BY <1>1 DEF RankInv, RecordsInv
<1>8. T = IF o.resident_rows = 0 THEN Forget(D, v) ELSE D
  BY <1>1, <1>5 DEF DropHost
<1>9. /\ T \in RankState /\ LruInv(T) /\ T.kv = R.kv /\ T.snap = D.snap /\ T.copies = D.copies
      /\ IF o.resident_rows = 0 THEN T.rec = [R.rec EXCEPT ![v] = None] /\ T.lru = RemoveFirst(R.lru, v)
                                ELSE T.rec = R.rec /\ T.lru = R.lru
  <2>1. CASE o.resident_rows # 0
    <3>1. T = D /\ Chains(D) = Chains(R)
      BY <1>6, <1>8, <2>1 DEF Chains
    <3>2. QED BY <1>3, <1>6, <2>1, <3>1 DEF LruInv
  <2>2. CASE o.resident_rows = 0
    <3>1. T = [D EXCEPT !.rec[v] = None, !.lru = RemoveFirst(D.lru, v)]
      BY <1>8, <2>2 DEF Forget
    <3>2. /\ T.rec = [R.rec EXCEPT ![v] = None] /\ T.lru = RemoveFirst(R.lru, v)
          /\ T.kv = R.kv /\ T.snap = D.snap /\ T.copies = D.copies /\ IsRank(T)
      BY <1>6, <3>1 DEF RankState, IsRank
    <3>3. LruInv(T) /\ T.lru \in Seq(Ids)
      BY <1>3, <3>2, LruWithout
    <3>4. T \in RankState
      <4>1. D.snap \in [Ids -> Snapshot \cup {None}] /\ D.copies \in Seq(Ids)
        BY <1>6, RankParts
      <4>2. T.rec \in [Ids -> Record \cup {None}]
        BY <1>4, <3>2
      <4>3. QED BY <1>4, <3>2, <3>3, <4>1, <4>2, IsRankState
    <3>5. QED BY <2>2, <3>2, <3>3, <3>4
  <2>3. QED BY <2>1, <2>2
<1>10. ChangesOnly(R, T, v, s)
  <2>1. \A d \in Ids : d # v => T.rec[d] = R.rec[d]
    BY <1>4, <1>9
  <2>2. QED BY <1>6, <1>9, <2>1 DEF ChangesOnly, OthersKept
<1>11. LeavesWhole(T, v, s, X)
  <2>1. T.snap[s] = None /\ s \notin Range(T.copies) /\ T.kv[s] = R.kv[s]
    BY <1>6, <1>9 DEF CopiesWithout
  <2>2. T.kv[s] # None => T.kv[s].slots <= T.kv[s].toks
    BY <1>2, <1>3, <2>1 DEF RoomInv
  <2>3. CASE o.resident_rows # 0
    <3>1. T.rec[v] = o /\ o.seq = s
      BY <1>1, <1>9, <2>3
    <3>2. ChainOK(v, o, T.kv[s], T.snap[s])
      BY <1>7, <2>1, <2>3 DEF ChainOK
    <3>3. QED BY <1>2, <2>1, <2>2, <3>1, <3>2 DEF LeavesWhole
  <2>4. CASE o.resident_rows = 0
    <3>1. T.rec[v] = None
      BY <1>2, <1>4, <1>9, <2>4
    <3>2. R.kv[s] = None
      <4>1. o.state = "IDLE"
        BY <1>2, <1>7, <2>4 DEF ChainOK, Record
      <4>2. QED BY <1>7, <2>4, <4>1 DEF ChainOK
    <3>3. QED BY <2>1, <3>1, <3>2 DEF LeavesWhole
  <2>5. QED BY <2>3, <2>4
<1>12. FitsAndOrdered(R, T, s)
  <2>1. Slot(T.kv[s]) <= Slot(R.kv[s]) /\ Slot(T.snap[s]) <= Slot(R.snap[s])
    <3>1. T.snap[s] = None /\ T.kv[s] = R.kv[s] /\ Slot(R.kv[s]) \in Nat /\ Slot(R.snap[s]) \in Nat
      BY <1>2, <1>3, <1>6, <1>9, RankSizes
    <3>2. QED BY <3>1 DEF Slot
  <2>2. T.kv[s] # None => R.kv[s] # None
    BY <1>9
  <2>3. Used(T.kv) <= NumSlots /\ Cardinality(Rows(T)) <= NumRows /\ Used(T.snap) <= conf.host
    BY <1>2, <1>9, <1>10, <2>1, <2>2, ShrinkFits
  <2>4. QED BY <1>6, <1>9, <2>3 DEF FitsAndOrdered, CopiesWithout
<1>13. RankInv(T, X)
  <2>1. X \subseteq X \cup {v}
    OBVIOUS
  <2>2. QED BY <1>2, <1>9, <1>10, <1>11, <1>12, <2>1, OneChain
<1>14. HostDropped(R, T, v, s)
  BY <1>1, <1>6, <1>9 DEF HostDropped, OthersKept
<1>15. QED BY <1>1, <1>13, <1>14

\* Ranks that agree still agree when the same chain leaves both hosts.
LEMMA HostDroppedSame ==
  ASSUME NEW R, NEW T, Same(R, T), NEW A, NEW B, NEW v, NEW s,
         HostDropped(R, A, v, s), HostDropped(T, B, v, s)
  PROVE  Same(A, B)
<1>1. A.rec = B.rec /\ A.lru = B.lru /\ A.kv = B.kv
  BY DEF HostDropped, Same
<1>2. ASSUME NEW t \in Ids
      PROVE  /\ A.snap[t] = None <=> B.snap[t] = None
             /\ A.snap[t] # None => Content(A.snap[t]) = Content(B.snap[t])
  <2>1. CASE t = s
    BY <2>1 DEF HostDropped
  <2>2. CASE t # s
    BY <2>2 DEF HostDropped, OthersKept, Same
  <2>3. QED BY <2>1, <2>2
<1>3. QED BY <1>1, <1>2 DEF Same

\* A is R once the chains in V left the host.
HostFrame(R, A, V) ==
  /\ A.kv = R.kv /\ \A d \in Ids \ V : A.rec[d] = R.rec[d]
  /\ \A v \in V : A.rec[v] = R.rec[v] \/ (A.rec[v] = None /\ R.rec[v].state = "IDLE")
  /\ \A v \in V : A.snap[R.rec[v].seq] = None
  /\ \A s \in Ids : (\A v \in V : R.rec[v].seq # s) => A.snap[s] = R.snap[s]

\* One more chain leaves the host.
LEMMA HostStep ==
  ASSUME NEW R, NEW c, RankInv(R, {c}), NEW A, RankInv(A, {c}), NEW V \in SUBSET (Chains(R) \ {c}),
         HostFrame(R, A, V), NEW v \in Chains(R) \ {c}, v \notin V
  PROVE  /\ RankInv(DropHost(A, v), {c}) /\ HostFrame(R, DropHost(A, v), V \cup {v})
         /\ HostDropped(A, DropHost(A, v), v, R.rec[v].seq)
<1>1. PICK T, s, o : T = DropHost(A, v) /\ s = R.rec[v].seq /\ o = R.rec[v]
  OBVIOUS
<1>2. OnlyOwner(R, v, s) /\ s \in Ids /\ v \in Ids /\ o \in Record /\ o # None
  BY <1>1, KnownOwner
<1>3. A.rec[v] = o /\ v \in Chains(A)
  BY <1>1, <1>2 DEF HostFrame, Chains
<1>4. RankInv(T, {c}) /\ HostDropped(A, T, v, s)
  BY <1>1, <1>3, DropHostKeeps
<1>5. A \in RankState /\ A.rec \in [Ids -> Record \cup {None}]
  BY RankParts DEF RankInv
<1>6. \A w \in V : w \in Ids /\ R.rec[w] # None /\ w # v /\ R.rec[w].seq # s /\ R.rec[w].seq \in Ids
  BY <1>2, KnownOwner DEF Chains, OnlyOwner
<1>7. \A d \in Ids : d # v => T.rec[d] = A.rec[d]
  BY <1>2, <1>4, <1>5 DEF HostDropped
<1>8. T.rec[v] = o \/ (T.rec[v] = None /\ o.state = "IDLE")
  <2>1. CASE o.resident_rows # 0
    BY <1>3, <1>4, <2>1 DEF HostDropped
  <2>2. CASE o.resident_rows = 0
    <3>1. ChainOK(v, o, A.kv[s], A.snap[s])
      BY <1>1, <1>3 DEF RankInv, RecordsInv
    <3>2. o.state = "IDLE"
      BY <1>2, <2>2, <3>1 DEF ChainOK, Record
    <3>3. T.rec = [A.rec EXCEPT ![v] = None]
      BY <1>3, <1>4, <2>2 DEF HostDropped
    <3>4. QED BY <1>2, <1>5, <3>2, <3>3
  <2>3. QED BY <2>1, <2>2
<1>9. \A d \in Ids \ (V \cup {v}) : T.rec[d] = R.rec[d]
  BY <1>7 DEF HostFrame
<1>10. \A w \in V \cup {v} : T.rec[w] = R.rec[w] \/ (T.rec[w] = None /\ R.rec[w].state = "IDLE")
  BY <1>1, <1>6, <1>7, <1>8 DEF HostFrame
<1>11. \A w \in V \cup {v} : T.snap[R.rec[w].seq] = None
  BY <1>1, <1>4, <1>6 DEF HostFrame, HostDropped, OthersKept
<1>12. ASSUME NEW t \in Ids, \A w \in V \cup {v} : R.rec[w].seq # t PROVE T.snap[t] = R.snap[t]
  <2>1. t # s /\ A.snap[t] = R.snap[t]
    BY <1>1, <1>12 DEF HostFrame
  <2>2. QED BY <1>4, <2>1 DEF HostDropped, OthersKept
<1>13. T.kv = R.kv
  BY <1>4 DEF HostDropped, HostFrame
<1>14. HostFrame(R, T, V \cup {v})
  BY <1>9, <1>10, <1>11, <1>12, <1>13 DEF HostFrame
<1>15. QED BY <1>1, <1>4, <1>14

\* The chains whose snapshots may make way for that of c, in order.
HostVictims(R, c, state) ==
  {v \in Chains(R) \ {c} : R.rec[v].state = state /\ HasSnapshot(R, R.rec[v].seq)}

HostOrder(R, c) == Keep(R.lru, HostVictims(R, c, "ACTIVE")) \o Keep(R.lru, HostVictims(R, c, "IDLE"))

\* Each of them is listed once.
LEMMA HostOrderFacts ==
  ASSUME NEW R, NEW c, RankInv(R, {c})
  PROVE  /\ HostOrder(R, c) \in Seq(Ids) /\ IsInjective(HostOrder(R, c)) /\ Len(HostOrder(R, c)) \in Nat
         /\ Range(HostOrder(R, c)) = {v \in Chains(R) \ {c} : R.snap[R.rec[v].seq] # None}
<1>1. R \in RankState /\ R.lru \in Seq(Ids) /\ IsInjective(R.lru) /\ Range(R.lru) = Chains(R)
  BY RankParts DEF RankInv, LruInv
<1>2. PICK A, B : A = HostVictims(R, c, "ACTIVE") /\ B = HostVictims(R, c, "IDLE")
  OBVIOUS
<1>3. PICK p, q : p = Keep(R.lru, A) /\ q = Keep(R.lru, B)
  OBVIOUS
<1>4. p \in Seq(Ids) /\ IsInjective(p) /\ Range(p) = Chains(R) \cap A
  BY <1>1, <1>3, KeepFacts
<1>5. q \in Seq(Ids) /\ IsInjective(q) /\ Range(q) = Chains(R) \cap B
  BY <1>1, <1>3, KeepFacts
<1>6. A \cap B = {} /\ A \subseteq Chains(R) /\ B \subseteq Chains(R)
  BY <1>2 DEF HostVictims
<1>7. A \cup B = {v \in Chains(R) \ {c} : R.snap[R.rec[v].seq] # None}
  <2>1. \A v \in Chains(R) : R.rec[v] \in Record
    BY KnownOwner
  <2>2. \A v \in Chains(R) : R.rec[v].state = "ACTIVE" \/ R.rec[v].state = "IDLE"
    BY <2>1 DEF Record
  <2>3. QED BY <1>2, <2>2 DEF HostVictims, HasSnapshot
<1>8. HostOrder(R, c) = p \o q
  BY <1>2, <1>3 DEF HostOrder
<1>9. p \o q \in Seq(Ids) /\ Range(p \o q) = Range(p) \cup Range(q) /\ IsInjective(p \o q)
  <2>1. Range(p) \cap Range(q) = {}
    BY <1>4, <1>5, <1>6
  <2>2. QED BY <1>4, <1>5, <2>1, ConcatFacts
<1>10. Range(p \o q) = A \cup B
  BY <1>4, <1>5, <1>6, <1>9
<1>11. QED BY <1>7, <1>8, <1>9, <1>10

\* f[i] is the rank after the first i of them left the host.
HostLeaves(f, R, q, n) == f = [i \in 0..n |-> IF i = 0 THEN R ELSE DropHost(f[i - 1], q[i])]

\* The recursion of save_finished_chain has a solution.
LEMMA HostLeavesExists == ASSUME NEW R, NEW q, NEW n \in Nat PROVE \E f : HostLeaves(f, R, q, n)
<1> DEFINE T == {k \in Nat : ~ \E f : HostLeaves(f, R, q, k)}
<1>1. SUFFICES ASSUME T # {} PROVE FALSE
  OBVIOUS
<1>2. PICK k \in T : \A m \in T : k <= m
  BY <1>1, LeastNat
<1>3. k # 0
  <2>1. HostLeaves([i \in 0..0 |-> R], R, q, 0)
    BY DEF HostLeaves
  <2>2. QED BY <2>1
<1>4. k - 1 \in Nat /\ ~(k <= k - 1)
  BY <1>3
<1>5. PICK f : HostLeaves(f, R, q, k - 1)
  BY <1>2, <1>4
<1>6. PICK e : e = DropHost(f[k - 1], q[k])
  OBVIOUS
<1>7. PICK g : g = [i \in 0..k |-> IF i = k THEN e ELSE f[i]]
  OBVIOUS
<1>8. HostLeaves(g, R, q, k)
  <2>1. \A i \in 0..(k - 1) : i \in 0..k /\ i # k /\ (i # 0 => i - 1 \in 0..(k - 1) /\ i - 1 # k /\ i - 1 \in 0..k)
    BY <1>3
  <2>2. \A i \in 0..(k - 1) : g[i] = f[i]
    BY <1>7, <2>1
  <2>3. \A i \in 0..(k - 1) : f[i] = IF i = 0 THEN R ELSE DropHost(f[i - 1], q[i])
    BY <1>5 DEF HostLeaves
  <2>4. g[k] = e /\ g[k - 1] = f[k - 1]
    BY <1>3, <1>7, <2>2
  <2>5. \A i \in 0..k : i = k \/ i \in 0..(k - 1)
    OBVIOUS
  <2>6. \A i \in 0..k : g[i] = IF i = 0 THEN R ELSE DropHost(g[i - 1], q[i])
    BY <1>3, <1>6, <2>1, <2>2, <2>3, <2>4, <2>5
  <2>7. g = [i \in 0..k |-> g[i]]
    BY <1>7
  <2>8. QED BY <2>6, <2>7 DEF HostLeaves
<1>9. QED BY <1>2, <1>8

\* The new snapshot of s fits once the rank is A.
HostFits(A, s, slots) == HostUsed(Drop(A, s)) + slots <= conf.host

\* After how many departures save_finished_chain stops.
HostStop(f, s, slots, n) == Min({k \in 0..n : HostFits(f[k], s, slots) \/ k = n})

\* MakeHostRoom is that solution where the new snapshot fits first.
LEMMA HostRoomDef ==
  ASSUME NEW R, NEW c, NEW s, s = R.rec[c].seq, NEW q \in Seq(Ids), q = HostOrder(R, c)
  PROVE  \E f : /\ HostLeaves(f, R, q, Len(q))
                /\ MakeHostRoom(R, c) = f[HostStop(f, s, R.kv[s].slots, Len(q))]
<1>1. PICK f : f = CHOOSE g : HostLeaves(g, R, q, Len(q))
  OBVIOUS
<1>2. HostLeaves(f, R, q, Len(q))
  <2>1. Len(q) \in Nat
    OBVIOUS
  <2>2. \E g : HostLeaves(g, R, q, Len(q))
    BY <2>1, HostLeavesExists
  <2>3. QED BY <1>1, <2>2, Zenon
<1>3. MakeHostRoom(R, c) = f[HostStop(f, s, R.kv[s].slots, Len(q))]
  BY <1>1, SMTT(60) DEF MakeHostRoom, HostLeaves, HostStop, HostFits, HostOrder, HostVictims
<1>4. QED BY <1>2, <1>3

\* However many chains left the host, the rank is in order but for c.
LEMMA HostStates ==
  ASSUME NEW R, NEW c, RankInv(R, {c}), NEW q, q = HostOrder(R, c), NEW f, HostLeaves(f, R, q, Len(q))
  PROVE  /\ f[0] = R
         /\ \A k \in 0..Len(q) : RankInv(f[k], {c}) /\ HostFrame(R, f[k], FirstOf(q, k))
         /\ \A k \in 1..Len(q) : HostDropped(f[k - 1], f[k], q[k], R.rec[q[k]].seq)
<1> DEFINE Fine(k) == RankInv(f[k], {c}) /\ HostFrame(R, f[k], FirstOf(q, k))
           T == {k \in 0..Len(q) : ~Fine(k)}
<1>1. q \in Seq(Ids) /\ IsInjective(q) /\ Len(q) \in Nat /\ Range(q) \subseteq Chains(R) \ {c}
  BY HostOrderFacts
<1>2. \A i \in 0..Len(q) : f[i] = IF i = 0 THEN R ELSE DropHost(f[i - 1], q[i])
  BY DEF HostLeaves
<1>3. f[0] = R
  BY <1>1, <1>2
<1>4. Fine(0)
  <2>1. FirstOf(q, 0) = {}
    BY <1>1, FirstOfFacts
  <2>2. HostFrame(R, R, {})
    BY DEF HostFrame
  <2>3. QED BY <1>3, <2>1, <2>2
<1>5. ASSUME NEW k \in 1..Len(q), Fine(k - 1)
      PROVE  Fine(k) /\ HostDropped(f[k - 1], f[k], q[k], R.rec[q[k]].seq)
  <2>1. PICK A, V, v : A = f[k - 1] /\ V = FirstOf(q, k - 1) /\ v = q[k]
    OBVIOUS
  <2>2. f[k] = DropHost(A, v)
    BY <1>1, <1>2, <1>5, <2>1
  <2>3. FirstOf(q, k) = V \cup {v} /\ v \notin V /\ v \in Range(q) /\ V \subseteq Range(q)
    BY <1>1, <2>1, FirstOfFacts
  <2>4. v \in Chains(R) \ {c} /\ V \in SUBSET (Chains(R) \ {c})
    BY <1>1, <2>3
  <2>5. RankInv(A, {c}) /\ HostFrame(R, A, V)
    BY <1>5, <2>1
  <2>6. /\ RankInv(DropHost(A, v), {c}) /\ HostFrame(R, DropHost(A, v), V \cup {v})
        /\ HostDropped(A, DropHost(A, v), v, R.rec[v].seq)
    BY <2>3, <2>4, <2>5, HostStep
  <2>7. QED BY <2>1, <2>2, <2>3, <2>6
<1> HIDE DEF Fine
<1>6. T = {}
  <2>1. SUFFICES ASSUME T # {} PROVE FALSE
    OBVIOUS
  <2>2. T \in SUBSET Nat
    BY <1>1
  <2>3. PICK k \in T : \A m \in T : k <= m
    BY <2>1, <2>2, LeastNat, Zenon
  <2>4. k # 0
    BY <1>4, <2>3
  <2>5. k \in 1..Len(q) /\ k - 1 \in 0..Len(q) /\ ~(k <= k - 1)
    BY <1>1, <2>3, <2>4
  <2>6. Fine(k - 1)
    BY <2>3, <2>5
  <2>7. QED BY <1>5, <2>3, <2>5, <2>6
<1>7. \A k \in 1..Len(q) : Fine(k - 1)
  <2>1. \A k \in 1..Len(q) : k - 1 \in 0..Len(q)
    BY <1>1
  <2>2. QED BY <1>6, <2>1
<1>8. QED BY <1>3, <1>5, <1>6, <1>7 DEF Fine

\* The chain whose turn ended, as save_finished_chain finds it.
JustEnded(R, c, s) ==
  /\ RankInv(R, {c}) /\ c \in Chains(R) /\ R.rec[c].seq = s
  /\ R.kv[s] # None /\ R.kv[s].slots <= conf.host

\* There is room on the host in the end.
LEMMA HostRoomKeeps ==
  ASSUME NEW R, NEW c, NEW s, JustEnded(R, c, s)
  PROVE  /\ RankInv(MakeHostRoom(R, c), {c}) /\ HostFits(MakeHostRoom(R, c), s, R.kv[s].slots)
         /\ \E V \in SUBSET (Chains(R) \ {c}) : HostFrame(R, MakeHostRoom(R, c), V)
<1>1. PICK q, a : q = HostOrder(R, c) /\ a = R.kv[s].slots
  OBVIOUS
<1>2. /\ q \in Seq(Ids) /\ IsInjective(q) /\ Len(q) \in Nat
      /\ Range(q) = {v \in Chains(R) \ {c} : R.snap[R.rec[v].seq] # None}
  BY <1>1, HostOrderFacts DEF JustEnded
<1>3. PICK f : HostLeaves(f, R, q, Len(q)) /\ MakeHostRoom(R, c) = f[HostStop(f, s, a, Len(q))]
  BY <1>1, <1>2, HostRoomDef DEF JustEnded
<1>4. \A k \in 0..Len(q) : RankInv(f[k], {c}) /\ HostFrame(R, f[k], FirstOf(q, k))
  BY <1>1, <1>3, HostStates DEF JustEnded
<1>5. PICK S, m : S = {k \in 0..Len(q) : HostFits(f[k], s, a) \/ k = Len(q)} /\ m = HostStop(f, s, a, Len(q))
  OBVIOUS
<1>6. S \in SUBSET Nat /\ S # {} /\ m = Min(S)
  BY <1>2, <1>5 DEF HostStop
<1>7. m \in 0..Len(q) /\ (HostFits(f[m], s, a) \/ m = Len(q))
  <2>1. m \in S
    BY <1>6, MinFacts
  <2>2. QED BY <1>5, <2>1
<1>8. c \in Ids /\ s \in Ids /\ OnlyOwner(R, c, s)
  BY KnownOwner DEF JustEnded
<1>9. ASSUME m = Len(q) PROVE HostFits(f[m], s, a)
  <2>1. PICK A, D : A = f[m] /\ D = Drop(f[m], s)
    OBVIOUS
  <2>2. RankInv(A, {c}) /\ HostFrame(R, A, Range(q))
    <3>1. FirstOf(q, m) = Range(q)
      BY <1>2, <1>9, FirstOfFacts
    <3>2. RankInv(f[m], {c}) /\ HostFrame(R, f[m], FirstOf(q, m))
      BY <1>4, <1>7
    <3>3. QED BY <2>1, <3>1, <3>2, Zenon
  <2>3. OthersKept(A, D, s) /\ D.snap[s] = None
    BY <1>8, <2>1, <2>2, DropFacts DEF RankInv
  <2>4. ASSUME NEW t \in Ids PROVE D.snap[t] = None
    <3>1. CASE t = s
      BY <2>3, <3>1
    <3>2. CASE t # s /\ R.snap[t] # None
      <4>1. PICK v \in Chains(R) : R.rec[v].seq = t
        BY <3>2 DEF JustEnded, RankInv, OwnerInv
      <4>2. v \in Range(q)
        BY <1>2, <3>2, <4>1 DEF JustEnded
      <4>3. A.snap[t] = None
        BY <2>2, <4>1, <4>2 DEF HostFrame
      <4>4. QED BY <2>3, <3>2, <4>3 DEF OthersKept
    <3>3. CASE t # s /\ R.snap[t] = None
      <4>1. A.snap[t] = None
        <5>1. CASE \E v \in Range(q) : R.rec[v].seq = t
          BY <2>2, <5>1 DEF HostFrame
        <5>2. CASE \A v \in Range(q) : R.rec[v].seq # t
          BY <2>2, <3>3, <5>2 DEF HostFrame
        <5>3. QED BY <5>1, <5>2
      <4>2. QED BY <2>3, <3>3, <4>1 DEF OthersKept
    <3>4. QED BY <3>1, <3>2, <3>3
  <2>5. PICK g : g = D.snap
    OBVIOUS
  <2>6. Used(g) = 0
    BY <2>4, <2>5, UsedNone
  <2>7. a <= conf.host /\ conf.host \in Nat /\ a \in Nat
    <3>1. a <= conf.host /\ conf.host \in Nat /\ R \in RankState
      BY <1>1 DEF JustEnded, RankInv, RoomInv
    <3>2. Sized(R.kv)
      BY <3>1, RankSizes
    <3>3. QED BY <1>1, <1>8, <3>1, <3>2 DEF Sized, JustEnded
  <2>8. HostUsed(D) = 0
    BY <2>5, <2>6 DEF HostUsed
  <2>9. QED BY <2>1, <2>7, <2>8 DEF HostFits
<1>10. HostFits(f[m], s, a)
  BY <1>7, <1>9
<1>11. FirstOf(q, m) \subseteq Chains(R) \ {c}
  <2>1. \A j \in 1..m : q[j] \in Range(q)
    BY <1>2, <1>7 DEF Range
  <2>2. QED BY <1>2, <2>1 DEF FirstOf
<1>12. HostFrame(R, f[m], FirstOf(q, m)) /\ RankInv(f[m], {c})
  BY <1>4, <1>7
<1>13. QED BY <1>1, <1>3, <1>5, <1>10, <1>11, <1>12

\* Ranks that agree use the same space of the host.
LEMMA SameHostUse ==
  ASSUME NEW R, NEW T, Same(R, T)
  PROVE  HostUsed(R) = HostUsed(T) /\ \A t \in Ids : Slot(R.snap[t]) = Slot(T.snap[t])
<1>1. ASSUME NEW t \in Ids PROVE Slot(R.snap[t]) = Slot(T.snap[t])
  <2>1. CASE R.snap[t] = None
    BY <2>1 DEF Same, Slot
  <2>2. CASE R.snap[t] # None
    <3>1. T.snap[t] # None /\ Content(R.snap[t]) = Content(T.snap[t])
      BY <2>2 DEF Same
    <3>2. R.snap[t].slots = T.snap[t].slots
      BY <3>1 DEF Content
    <3>3. QED BY <2>2, <3>1, <3>2 DEF Slot
  <2>3. QED BY <2>1, <2>2
<1>2. PICK f, h : f = R.snap /\ h = T.snap
  OBVIOUS
<1>3. Used(f) = Used(h)
  BY <1>1, <1>2, UsedSame
<1>4. QED BY <1>1, <1>2, <1>3 DEF HostUsed

\* Ranks that agree still agree when both drop the same snapshot.
LEMMA DropSame ==
  ASSUME NEW R, NEW X, RankInv(R, X), NEW T, RankInv(T, X), Same(R, T), NEW s \in Ids
  PROVE  Same(Drop(R, s), Drop(T, s))
<1>1. PICK A, B : A = Drop(R, s) /\ B = Drop(T, s)
  OBVIOUS
<1>2. A.rec = R.rec /\ A.lru = R.lru /\ A.kv = R.kv /\ OthersKept(R, A, s) /\ A.snap[s] = None
  BY <1>1, DropFacts DEF RankInv, KeepsIndex
<1>3. B.rec = T.rec /\ B.lru = T.lru /\ B.kv = T.kv /\ OthersKept(T, B, s) /\ B.snap[s] = None
  BY <1>1, DropFacts DEF RankInv, KeepsIndex
<1>4. ASSUME NEW t \in Ids
      PROVE  /\ A.snap[t] = None <=> B.snap[t] = None
             /\ A.snap[t] # None => Content(A.snap[t]) = Content(B.snap[t])
  <2>1. CASE t = s
    BY <1>2, <1>3, <2>1
  <2>2. CASE t # s
    BY <1>2, <1>3, <2>2 DEF OthersKept, Same
  <2>3. QED BY <2>1, <2>2
<1>5. A.rec = B.rec /\ A.lru = B.lru /\ A.kv = B.kv
  BY <1>2, <1>3 DEF Same
<1>6. QED BY <1>1, <1>4, <1>5 DEF Same

\* Ranks that agree make the same room on their hosts.
LEMMA HostRoomSame ==
  ASSUME NEW R, NEW T, NEW c, NEW s, JustEnded(R, c, s), JustEnded(T, c, s), Same(R, T)
  PROVE  Same(MakeHostRoom(R, c), MakeHostRoom(T, c))
<1>1. PICK q, a : q = HostOrder(R, c) /\ a = R.kv[s].slots
  OBVIOUS
<1>2. T.rec = R.rec /\ T.lru = R.lru /\ T.kv = R.kv /\ Chains(T) = Chains(R)
  BY DEF Same, Chains
<1>3. q = HostOrder(T, c) /\ a = T.kv[s].slots
  <2>1. \A v \in Chains(R) : R.rec[v].seq \in Ids
    BY KnownOwner DEF JustEnded
  <2>2. \A v \in Chains(R) : HasSnapshot(R, R.rec[v].seq) <=> HasSnapshot(T, T.rec[v].seq)
    BY <1>2, <2>1 DEF HasSnapshot, Same
  <2>3. HostVictims(R, c, "ACTIVE") = HostVictims(T, c, "ACTIVE")
        /\ HostVictims(R, c, "IDLE") = HostVictims(T, c, "IDLE")
    BY <1>2, <2>2 DEF HostVictims
  <2>4. QED BY <1>1, <1>2, <2>3 DEF HostOrder
<1>4. q \in Seq(Ids) /\ IsInjective(q) /\ Len(q) \in Nat /\ Range(q) \subseteq Chains(R)
  BY <1>1, HostOrderFacts DEF JustEnded
<1>5. PICK f : HostLeaves(f, R, q, Len(q)) /\ MakeHostRoom(R, c) = f[HostStop(f, s, a, Len(q))]
  BY <1>1, <1>4, HostRoomDef DEF JustEnded
<1>6. PICK g : HostLeaves(g, T, q, Len(q)) /\ MakeHostRoom(T, c) = g[HostStop(g, s, a, Len(q))]
  <2>1. s = T.rec[c].seq
    BY DEF JustEnded
  <2>2. \E g : /\ HostLeaves(g, T, q, Len(q))
               /\ MakeHostRoom(T, c) = g[HostStop(g, s, T.kv[s].slots, Len(q))]
    BY <1>3, <1>4, <2>1, HostRoomDef
  <2>3. QED BY <1>3, <2>2, Zenon
<1>7. /\ f[0] = R /\ \A k \in 0..Len(q) : RankInv(f[k], {c})
      /\ \A k \in 1..Len(q) : HostDropped(f[k - 1], f[k], q[k], R.rec[q[k]].seq)
  BY <1>1, <1>5, HostStates DEF JustEnded
<1>8. /\ g[0] = T /\ \A k \in 0..Len(q) : RankInv(g[k], {c})
      /\ \A k \in 1..Len(q) : HostDropped(g[k - 1], g[k], q[k], R.rec[q[k]].seq)
  <2>1. RankInv(T, {c})
    BY DEF JustEnded
  <2>2. /\ g[0] = T /\ \A k \in 0..Len(q) : RankInv(g[k], {c})
        /\ \A k \in 1..Len(q) : HostDropped(g[k - 1], g[k], q[k], T.rec[q[k]].seq)
    BY <1>3, <1>6, <2>1, HostStates
  <2>3. QED BY <1>2, <2>2, Zenon
<1> DEFINE Z == {k \in 0..Len(q) : ~Same(f[k], g[k])}
<1>9. ASSUME NEW k \in 1..Len(q), Same(f[k - 1], g[k - 1]) PROVE Same(f[k], g[k])
  <2>1. HostDropped(f[k - 1], f[k], q[k], R.rec[q[k]].seq) /\ HostDropped(g[k - 1], g[k], q[k], R.rec[q[k]].seq)
    BY <1>7, <1>8
  <2>2. QED BY <1>9, <2>1, HostDroppedSame
<1>10. Z = {}
  <2>1. SUFFICES ASSUME Z # {} PROVE FALSE
    OBVIOUS
  <2>2. Z \in SUBSET Nat
    BY <1>4
  <2>3. PICK k \in Z : \A m \in Z : k <= m
    BY <2>1, <2>2, LeastNat, Zenon
  <2>4. k # 0
    BY <1>7, <1>8, <2>3
  <2>5. k \in 1..Len(q) /\ k - 1 \in 0..Len(q) /\ ~(k <= k - 1)
    BY <1>4, <2>3, <2>4
  <2>6. Same(f[k - 1], g[k - 1])
    BY <2>3, <2>5
  <2>7. QED BY <1>9, <2>3, <2>5, <2>6
<1>11. s \in Ids
  BY KnownOwner DEF JustEnded
<1>12. \A k \in 0..Len(q) : HostFits(f[k], s, a) <=> HostFits(g[k], s, a)
  <2>1. ASSUME NEW k \in 0..Len(q) PROVE HostUsed(Drop(f[k], s)) = HostUsed(Drop(g[k], s))
    <3>1. PICK A, B : A = f[k] /\ B = g[k]
      OBVIOUS
    <3>2. RankInv(A, {c}) /\ RankInv(B, {c}) /\ Same(A, B)
      BY <1>7, <1>8, <1>10, <3>1
    <3>3. Same(Drop(A, s), Drop(B, s))
      BY <1>11, <3>2, DropSame
    <3>4. QED BY <3>1, <3>3, SameHostUse
  <2>2. QED BY <2>1 DEF HostFits
<1>13. PICK m : m = HostStop(f, s, a, Len(q))
  OBVIOUS
<1>14. m = HostStop(g, s, a, Len(q))
  <2>1. {k \in 0..Len(q) : HostFits(f[k], s, a) \/ k = Len(q)} = {k \in 0..Len(q) : HostFits(g[k], s, a) \/ k = Len(q)}
    BY <1>12
  <2>2. QED BY <1>13, <2>1, Zenon DEF HostStop
<1>15. m \in 0..Len(q)
  <2>1. PICK S : S = {k \in 0..Len(q) : HostFits(f[k], s, a) \/ k = Len(q)}
    OBVIOUS
  <2>2. S \in SUBSET Nat /\ S # {} /\ m = Min(S)
    BY <1>4, <1>13, <2>1 DEF HostStop
  <2>3. m \in S
    BY <2>2, MinFacts
  <2>4. QED BY <2>1, <2>3
<1>16. QED BY <1>5, <1>6, <1>10, <1>13, <1>14, <1>15

\* T is H with the row of s on its way to the host.
Saved(H, T, s) ==
  /\ T.rec = H.rec /\ T.lru = H.lru /\ T.kv = H.kv
  /\ T.snap[s] # None /\ Content(T.snap[s]) = Content(H.kv[s])
  /\ \A t \in Ids : t # s => /\ T.snap[t] = None <=> H.snap[t] = None
                             /\ H.snap[t] # None => Content(T.snap[t]) = Content(H.snap[t])

\* What save needs: the chain just finished, and room on the host for its row.
MaySave(H, c, s, n) ==
  /\ RankInv(H, {c}) /\ c \in Chains(H) /\ H.kv[s] # None /\ H.kv[s].chain = c /\ H.kv[s].toks = n
  /\ Ended(H.rec[c], s, n, H.kv[s].slots) /\ n \in 1..MaxLen
  /\ conf.host > 0 /\ HostFits(H, s, H.kv[s].slots)

\* save: the chain is whole again, with a snapshot of the turn it finished.
LEMMA SaveKeeps ==
  ASSUME NEW H, NEW c, NEW s, NEW n, MaySave(H, c, s, n)
  PROVE  RankInv(Save(H, s), {}) /\ Saved(H, Save(H, s), s)
<1>1. PICK P, D, T : P = Poll(H) /\ D = Drop(Poll(H), s) /\ T = Save(H, s)
  OBVIOUS
<1>2. PICK row, o : row = H.kv[s] /\ o = H.rec[c]
  OBVIOUS
<1>3. RankInv(H, {c}) /\ c \in Ids /\ s \in Ids /\ o \in Record /\ o # None /\ Ended(o, s, n, row.slots)
      /\ row # None /\ OnlyOwner(H, c, s)
  BY <1>2, KnownOwner DEF MaySave, Ended
<1>4. RankInv(P, {c}) /\ Same(H, P) /\ H \in RankState /\ P \in RankState /\ CopyInv(P)
  BY <1>1, <1>3, PollKeeps DEF RankInv
<1>5. P.rec = H.rec /\ P.lru = H.lru /\ P.kv = H.kv
  BY <1>4 DEF Same
<1>6. D \in RankState /\ D.rec = H.rec /\ D.lru = H.lru /\ D.kv = H.kv /\ OthersKept(P, D, s)
      /\ D.snap[s] = None /\ CopiesWithout(P, D, s)
  BY <1>1, <1>3, <1>4, <1>5, DropFacts DEF KeepsIndex
<1>7. /\ D.rec \in [Ids -> Record \cup {None}] /\ D.lru \in Seq(Ids)
      /\ D.kv \in [Ids -> Row \cup {None}] /\ D.snap \in [Ids -> Snapshot \cup {None}]
      /\ D.copies \in Seq(Ids)
  BY <1>6, RankParts
<1>8. row \in Row /\ row.chain = c /\ row.toks = n /\ row.slots \in 0..MaxLen /\ n > 0
  <2>1. row \in Row /\ row.chain = c /\ row.toks = n
    BY <1>2, <1>3, <1>6, <1>7 DEF MaySave
  <2>2. n > 0
    BY ChainAssumption DEF MaySave
  <2>3. QED BY <2>1, <2>2 DEF Row
<1>9. PICK x : x = [state |-> "copying", chain |-> row.chain, toks |-> row.toks, slots |-> row.slots]
  OBVIOUS
<1>10. x \in Snapshot /\ x # None /\ x.state = "copying" /\ Content(x) = Content(row) /\ Content(x) = row
       /\ x.slots = row.slots /\ x.toks = row.toks
  <2>1. x \in Snapshot
    BY <1>8, <1>9 DEF Snapshot, Row
  <2>2. x.state = "copying" /\ Content(x) = Content(row) /\ x.slots = row.slots /\ x.toks = row.toks
    BY <1>9 DEF Content
  <2>3. Content(row) = row
    BY <1>8 DEF Content, Row
  <2>4. QED BY <2>1, <2>2, <2>3, NoneIsNoValue
<1>11. T = [D EXCEPT !.snap[s] = x, !.copies = Append(D.copies, s)]
  BY <1>1, <1>2, <1>9 DEF Save
<1>12. /\ T.rec = H.rec /\ T.lru = H.lru /\ T.kv = H.kv /\ T.snap = [D.snap EXCEPT ![s] = x]
       /\ T.copies = Append(D.copies, s) /\ IsRank(T)
  BY <1>6, <1>11 DEF RankState, IsRank
<1>13. T.copies \in Seq(Ids) /\ IsInjective(T.copies) /\ Range(T.copies) = Range(D.copies) \cup {s}
  <2>1. IsInjective(D.copies) /\ s \notin Range(D.copies)
    BY <1>6 DEF CopiesWithout
  <2>2. PICK k : k = D.copies
    OBVIOUS
  <2>3. QED BY <1>3, <1>7, <1>12, <2>1, <2>2, AppendFacts
<1>14. T \in RankState
  <2>1. T.snap \in [Ids -> Snapshot \cup {None}]
    BY <1>7, <1>10, <1>12
  <2>2. QED BY <1>6, <1>7, <1>12, <1>13, <2>1, IsRankState
<1>15. T.snap[s] = x /\ \A t \in Ids : t # s => T.snap[t] = P.snap[t]
  BY <1>3, <1>6, <1>7, <1>12 DEF OthersKept
<1>16. ChangesOnly(P, T, c, s) /\ OnlyOwner(P, c, s)
  BY <1>3, <1>5, <1>12, <1>15 DEF ChangesOnly, OnlyOwner
<1>17. LeavesWhole(T, c, s, {})
  <2>1. row = [chain |-> c, toks |-> n, slots |-> row.slots]
    BY <1>8 DEF Row
  <2>2. ChainOK(c, o, row, x)
    BY <1>3, <1>8, <1>10, <2>1 DEF ChainOK, Ended
  <2>3. CopyOK(row, x)
    BY <1>3, <1>10 DEF CopyOK
  <2>4. row.slots <= row.toks
    BY <1>2, <1>3 DEF RankInv, RoomInv
  <2>5. T.rec[c] = o /\ T.kv[s] = row /\ o.seq = s
    BY <1>2, <1>3, <1>12 DEF Ended
  <2>6. conf.host # 0
    BY <1>3 DEF MaySave, RankInv, RoomInv
  <2>7. QED BY <1>3, <1>10, <1>15, <2>2, <2>3, <2>4, <2>5, <2>6 DEF LeavesWhole
<1>18. FitsAndOrdered(P, T, s)
  <2>1. LruInv(T)
    BY <1>3, <1>12 DEF RankInv, LruInv, Chains
  <2>2. Rows(T) = Rows(H) /\ Used(T.kv) <= NumSlots /\ Cardinality(Rows(T)) <= NumRows
    BY <1>3, <1>12 DEF Rows, RankInv, RoomInv
  <2>3. Range(T.copies) \subseteq Range(P.copies) \cup {s}
    BY <1>6, <1>13 DEF CopiesWithout
  <2>4. PICK d, h : d = D.snap /\ h = T.snap
    OBVIOUS
  <2>5. Used(h) = Used(d) - Slot(d[s]) + Slot(h[s])
    <3>1. Sized(d) /\ Slot(h[s]) \in Nat
      BY <1>3, <1>6, <1>14, <2>4, RankSizes
    <3>2. \A t \in Ids : t # s => h[t] = d[t]
      BY <1>6, <1>15, <2>4 DEF OthersKept
    <3>3. QED BY <1>3, <3>1, <3>2, UsedChange
  <2>6. Slot(d[s]) = 0 /\ Slot(h[s]) = row.slots
    BY <1>6, <1>10, <1>15, <2>4 DEF Slot
  <2>7. HostUsed(Drop(H, s)) = Used(d)
    <3>1. Same(Drop(H, s), D)
      BY <1>1, <1>3, <1>4, DropSame
    <3>2. HostUsed(Drop(H, s)) = HostUsed(D)
      BY <3>1, SameHostUse
    <3>3. QED BY <2>4, <3>2 DEF HostUsed
  <2>8. Used(d) + row.slots <= conf.host
    BY <1>2, <2>7 DEF MaySave, HostFits
  <2>9. Used(d) \in Nat /\ row.slots \in Nat
    <3>1. Sized(d)
      BY <1>6, <2>4, RankSizes
    <3>2. QED BY <1>8, <3>1, UsedNat, ChainAssumption
  <2>10. Used(T.snap) <= conf.host
    <3>1. Used(h) = Used(d) + row.slots
      BY <2>5, <2>6, <2>9
    <3>2. QED BY <2>4, <2>8, <3>1
  <2>11. QED BY <1>13, <2>1, <2>2, <2>3, <2>10 DEF FitsAndOrdered
<1>19. RankInv(T, {})
  <2>1. {c} \subseteq {} \cup {c}
    OBVIOUS
  <2>2. QED BY <1>3, <1>4, <1>14, <1>16, <1>17, <1>18, <2>1, OneChain
<1>20. Saved(H, T, s)
  <2>1. \A t \in Ids : t # s => /\ T.snap[t] = None <=> H.snap[t] = None
                                /\ H.snap[t] # None => Content(T.snap[t]) = Content(H.snap[t])
    BY <1>4, <1>15 DEF Same
  <2>2. QED BY <1>2, <1>10, <1>12, <1>15, <2>1 DEF Saved
<1>21. QED BY <1>1, <1>19, <1>20

\* Ranks that agree still agree when both save the same row.
LEMMA SavedSame ==
  ASSUME NEW R, NEW T, Same(R, T), NEW A, NEW B, NEW s \in Ids, Saved(R, A, s), Saved(T, B, s)
  PROVE  Same(A, B)
<1>1. A.rec = B.rec /\ A.lru = B.lru /\ A.kv = B.kv /\ R.kv = T.kv
  BY DEF Saved, Same
<1>2. ASSUME NEW t \in Ids
      PROVE  /\ A.snap[t] = None <=> B.snap[t] = None
             /\ A.snap[t] # None => Content(A.snap[t]) = Content(B.snap[t])
  <2>1. CASE t = s
    BY <1>1, <2>1 DEF Saved
  <2>2. CASE t # s
    BY <2>2 DEF Saved, Same
  <2>3. QED BY <2>1, <2>2
<1>3. QED BY <1>1, <1>2 DEF Same

-----------------------------------------------------------------------------
(* The plan does not depend on the copies' progress *)

\* Ranks that agree make the same plan for any turn.
LEMMA PlanSame ==
  ASSUME NEW R, NEW X, RankInv(R, X), NEW T, Same(R, T), NEW w, NEW c, NEW s, NEW prompt
  PROVE  Plan(R, w, c, s, prompt) = Plan(T, w, c, s, prompt)
<1>1. T.rec = R.rec /\ T.lru = R.lru /\ T.kv = R.kv
  BY DEF Same
<1>2. Chains(T) = Chains(R) /\ Rows(T) = Rows(R)
  BY <1>1 DEF Chains, Rows
<1>3. \A v \in Chains(R) : HasSnapshot(R, R.rec[v].seq) <=> HasSnapshot(T, T.rec[v].seq)
  <2>1. \A v \in Chains(R) : R.rec[v].seq \in Ids
    BY KnownOwner
  <2>2. QED BY <1>1, <2>1 DEF HasSnapshot, Same
<1>4. PICK H : H = {v \in Chains(R) : HasSnapshot(R, R.rec[v].seq)}
  OBVIOUS
<1>5. H = {v \in Chains(T) : HasSnapshot(T, T.rec[v].seq)}
  BY <1>2, <1>3, <1>4
<1>6. Free(T) = Free(R) /\ FreeRows(T) = FreeRows(R) /\ Resident(T, c, s) = Resident(R, c, s)
  BY <1>1, <1>2, Zenon DEF Free, FreeRows, Resident
<1>7. \A E : Owing(T, E) = Owing(R, E)
  BY <1>1, <1>2, Zenon DEF Owing
<1>8. \A d : Realized(T, d) = Realized(R, d)
  BY <1>1, Zenon DEF Realized
<1>9. OutstandingSlots(T, {}) = OutstandingSlots(R, {})
  <2>1. PICK O : O = Owing(R, {})
    OBVIOUS
  <2>2. Owing(T, {}) = O
    BY <1>7, <2>1
  <2>3. [d \in O |-> Positive(T.rec[d].reserved_slots - Realized(T, d))]
          = [d \in O |-> Positive(R.rec[d].reserved_slots - Realized(R, d))]
    BY <1>1, <1>8
  <2>4. QED BY <2>1, <2>2, <2>3, Zenon DEF OutstandingSlots
<1>10. OutstandingRows(T) = OutstandingRows(R)
  <2>1. {d \in Owing(T, {}) : T.rec[d].reserved_rows = 1 /\ T.kv[T.rec[d].seq] = None}
          = {d \in Owing(R, {}) : R.rec[d].reserved_rows = 1 /\ R.kv[R.rec[d].seq] = None}
    BY <1>1, <1>7
  <2>2. QED BY <2>1, Zenon DEF OutstandingRows
<1>11. Deficits(T, w, c, s, prompt) = Deficits(R, w, c, s, prompt)
  BY <1>6, <1>9, <1>10, Zenon DEF Deficits
<1>12. IdleLRU(T) = IdleLRU(R)
  BY <1>1, <1>2, Zenon DEF IdleLRU
<1>13. QED BY <1>1, <1>4, <1>5, <1>6, <1>11, <1>12, Zenon DEF Plan

-----------------------------------------------------------------------------
(* The driver *)

\* The row of a request of which done tokens are computed.
HoldsDone(row, c, done) == IF done = 0 THEN row = None ELSE row # None /\ row.chain = c /\ row.toks = done

\* Request q of sequence s: its chain is a running one or, after a failed
\* finish, gone; while steps go on, its row holds what the scheduler counts.
TurnOK(R, s, q, nx, md) ==
  /\ q.prompt + MaxTokens <= MaxLen /\ s < nx
  /\ R.rec[q.chain] # None => R.rec[q.chain].state = "ACTIVE" /\ R.rec[q.chain].seq = s
  /\ md = "up" =>
       /\ R.rec[q.chain] # None /\ q.gen < MaxTokens
       /\ IF q.gen = 0 THEN q.done < q.prompt ELSE q.done <= q.prompt + q.gen - 1
       /\ HoldsDone(R.kv[s], q.chain, q.done)

\* The record q of chain c: an active chain has its request.
KnownTurn(c, q, rq, nx) ==
  c < nx /\ q.seq < nx /\ (q.state = "ACTIVE" => rq[q.seq] # None /\ rq[q.seq].chain = c)

DriverInv(R, rq, nx, md) ==
  /\ rq \in [Ids -> Request \cup {None}] /\ nx \in 1..(MaxIds + 1)
  /\ \A s \in Ids : rq[s] # None => TurnOK(R, s, rq[s], nx, md)
  /\ \A c \in Ids : R.rec[c] # None => KnownTurn(c, R.rec[c], rq, nx)

\* Chains outside X stay as they are for the driver, or were idle and left.
OthersStay(R, T, X) ==
  \A d \in Ids \ X :
    \/ T.rec[d] = None /\ (R.rec[d] # None => R.rec[d].state = "IDLE")
    \/ /\ R.rec[d] # None /\ T.rec[d] # None
       /\ T.rec[d].seq = R.rec[d].seq /\ T.rec[d].state = R.rec[d].state
       /\ R.rec[d].state = "ACTIVE" => T.kv[R.rec[d].seq] = R.kv[R.rec[d].seq]

\* One step after the other.
LEMMA OthersStayTwice ==
  ASSUME NEW R, NEW A, NEW B, NEW X, OthersStay(R, A, {}), OthersStay(A, B, X)
  PROVE  OthersStay(R, B, X)
BY DEF OthersStay

\* The driver is in order when only idle chains left.
LEMMA DriverStay ==
  ASSUME NEW R, NEW T, NEW rq, NEW nx, NEW md, DriverInv(R, rq, nx, md), OthersStay(R, T, {})
  PROVE  DriverInv(T, rq, nx, md)
<1>1. ASSUME NEW s \in Ids, rq[s] # None PROVE TurnOK(T, s, rq[s], nx, md)
  <2>1. PICK q, d : q = rq[s] /\ d = rq[s].chain
    OBVIOUS
  <2>2. TurnOK(R, s, q, nx, md) /\ q \in Request /\ d \in Ids
    BY <1>1, <2>1 DEF DriverInv, Request
  <2>3. \/ T.rec[d] = None /\ (R.rec[d] # None => R.rec[d].state = "IDLE")
        \/ /\ R.rec[d] # None /\ T.rec[d] # None
           /\ T.rec[d].seq = R.rec[d].seq /\ T.rec[d].state = R.rec[d].state
           /\ R.rec[d].state = "ACTIVE" => T.kv[R.rec[d].seq] = R.kv[R.rec[d].seq]
    BY <2>2 DEF OthersStay
  <2>4. QED BY <2>1, <2>2, <2>3 DEF TurnOK
<1>2. ASSUME NEW c \in Ids, T.rec[c] # None PROVE KnownTurn(c, T.rec[c], rq, nx)
  <2>1. R.rec[c] # None /\ T.rec[c].seq = R.rec[c].seq /\ T.rec[c].state = R.rec[c].state
    BY <1>2 DEF OthersStay
  <2>2. KnownTurn(c, R.rec[c], rq, nx)
    BY <2>1 DEF DriverInv
  <2>3. QED BY <2>1, <2>2 DEF KnownTurn
<1>3. QED BY <1>1, <1>2 DEF DriverInv

\* What a step leaves of chain c and of the request of s.
TurnLeft(T, c, s, rq, nx, md) ==
  /\ rq[s] # None => TurnOK(T, s, rq[s], nx, md)
  /\ T.rec[c] # None => T.rec[c].seq = s /\ KnownTurn(c, T.rec[c], rq, nx)

\* A step that changes the request of s and its chain c.
LEMMA DriverStep ==
  ASSUME NEW R, NEW X, RankInv(R, X), NEW T, NEW rq, NEW nx, NEW md, DriverInv(R, rq, nx, md),
         NEW c \in Ids, NEW s \in Ids, OnlyOwner(R, c, s), md = "up" \/ R.rec[c] # None,
         OthersStay(R, T, {c}),
         NEW rq2 \in [Ids -> Request \cup {None}], \A t \in Ids : t # s => rq2[t] = rq[t],
         NEW nx2 \in 1..(MaxIds + 1), nx <= nx2, NEW md2, md2 = "up" => md = "up",
         TurnLeft(T, c, s, rq2, nx2, md2)
  PROVE  DriverInv(T, rq2, nx2, md2)
<1>0. MaxIds \in Nat /\ nx \in 1..(MaxIds + 1)
  BY ChainAssumption DEF DriverInv
<1>1. ASSUME NEW t \in Ids, rq2[t] # None PROVE TurnOK(T, t, rq2[t], nx2, md2)
  <2>1. CASE t = s
    BY <1>1, <2>1 DEF TurnLeft
  <2>2. CASE t # s
    <3>1. PICK q, d : q = rq[t] /\ d = rq[t].chain
      OBVIOUS
    <3>2. TurnOK(R, t, q, nx, md) /\ q \in Request /\ d \in Ids /\ rq2[t] = q
      BY <1>1, <2>2, <3>1 DEF DriverInv, Request
    <3>3. d # c
      BY <2>2, <3>1, <3>2 DEF TurnOK, OnlyOwner
    <3>4. \/ T.rec[d] = None /\ (R.rec[d] # None => R.rec[d].state = "IDLE")
          \/ /\ R.rec[d] # None /\ T.rec[d] # None
             /\ T.rec[d].seq = R.rec[d].seq /\ T.rec[d].state = R.rec[d].state
             /\ R.rec[d].state = "ACTIVE" => T.kv[R.rec[d].seq] = R.kv[R.rec[d].seq]
      BY <3>2, <3>3 DEF OthersStay
    <3>5. t < nx2
      <4>1. t < nx /\ t \in Nat
        BY <3>2, IdsFinite DEF TurnOK
      <4>2. QED BY <1>0, <4>1
    <3>6. QED BY <3>1, <3>2, <3>4, <3>5 DEF TurnOK
  <2>3. QED BY <2>1, <2>2
<1>2. ASSUME NEW d \in Ids, T.rec[d] # None PROVE KnownTurn(d, T.rec[d], rq2, nx2)
  <2>1. CASE d = c
    BY <1>2, <2>1 DEF TurnLeft
  <2>2. CASE d # c
    <3>1. R.rec[d] # None /\ T.rec[d].seq = R.rec[d].seq /\ T.rec[d].state = R.rec[d].state
      BY <1>2, <2>2 DEF OthersStay
    <3>2. KnownTurn(d, R.rec[d], rq, nx) /\ R.rec[d].seq # s
      BY <2>2, <3>1 DEF DriverInv, OnlyOwner
    <3>3. d < nx /\ R.rec[d].seq < nx /\ (R.rec[d].state = "ACTIVE" => rq[R.rec[d].seq] # None /\ rq[R.rec[d].seq].chain = d)
      BY <3>2 DEF KnownTurn
    <3>4. R.rec[d].seq \in Ids
      BY <3>1, KnownOwner DEF Chains
    <3>5. d < nx2 /\ R.rec[d].seq < nx2
      <4>1. d \in Nat /\ R.rec[d].seq \in Nat
        BY <3>4, IdsFinite
      <4>2. QED BY <1>0, <3>3, <4>1
    <3>6. QED BY <3>1, <3>2, <3>3, <3>4, <3>5 DEF KnownTurn
  <2>3. QED BY <2>1, <2>2
<1>3. QED BY <1>1, <1>2 DEF DriverInv

-----------------------------------------------------------------------------
(* The inductive invariant *)

\* Every rank is in order, and all agree with the driver's.
RanksInv(rk) ==
  /\ rk = [r \in Ranks |-> rk[r]]
  /\ \A r \in Ranks : RankInv(rk[r], {}) /\ Same(rk[r], rk[0])

ChainState(rk, rq, ac, nx, md, fl) ==
  /\ conf \in Confs /\ RanksInv(rk) /\ DriverInv(rk[0], rq, nx, md)
  /\ ac = {s \in Ids : rq[s] # None} /\ md \in {"up", "raised", "dead"} /\ fl \in 0..MaxFaults

ChainInv == ChainState(rank, req, active, next, mode, faults)

\* A deployment has a rank 0 and a host of some size.
LEMMA ConfFacts ==
  ASSUME conf \in Confs
  PROVE  conf.tp \in Nat \ {0} /\ conf.host \in Nat /\ conf.history \in Nat /\ 0 \in Ranks
         /\ (conf.tp = 1 => Ranks = {0})
<1>1. conf.tp \in Nat \ {0} /\ conf.host \in Nat /\ conf.history \in Nat
  BY ChainAssumption
<1>2. QED BY <1>1 DEF Ranks

\* A step keeps the deployment, so the invariant of the next state is that of
\* its variables.
LEMMA NextState ==
  ASSUME conf' = conf, ChainState(rank', req', active', next', mode', faults')
  PROVE  ChainInv'
<1>1. Ranks' = Ranks
  BY DEF Ranks
<1>2. \A R, X : RankInv(R, X)' <=> RankInv(R, X)
  BY DEF RankInv, RoomInv
<1>3. QED BY <1>1, <1>2 DEF ChainInv, ChainState, RanksInv

\* An empty rank is in order.
LEMMA EmptyKeeps == ASSUME conf \in Confs PROVE RankInv(EmptyRank, {})
<1>1. PICK E : E = EmptyRank
  OBVIOUS
<1>2. /\ E.rec = [c \in Ids |-> None] /\ E.lru = <<>> /\ E.kv = [s \in Ids |-> None]
      /\ E.snap = [s \in Ids |-> None] /\ E.copies = <<>> /\ IsRank(E)
  BY <1>1 DEF EmptyRank, IsRank
<1>3. Chains(E) = {} /\ Rows(E) = {}
  BY <1>2 DEF Chains, Rows
<1>4. E \in RankState
  <2>1. E.rec \in [Ids -> Record \cup {None}] /\ E.kv \in [Ids -> Row \cup {None}]
        /\ E.snap \in [Ids -> Snapshot \cup {None}]
    BY <1>2
  <2>2. E.lru \in Seq(Ids) /\ E.copies \in Seq(Ids)
    BY <1>2
  <2>3. QED BY <1>2, <2>1, <2>2, IsRankState
<1>5. LruInv(E) /\ CopyInv(E)
  BY <1>2, <1>3, EmptyFacts DEF LruInv, CopyInv
<1>6. OwnerInv(E) /\ RecordsInv(E, {})
  BY <1>2, <1>3 DEF OwnerInv, RecordsInv
<1>7. RoomInv(E)
  <2>1. PICK f, h : f = E.kv /\ h = E.snap
    OBVIOUS
  <2>2. (\A s \in Ids : f[s] = None) /\ (\A s \in Ids : h[s] = None)
    BY <1>2, <2>1
  <2>3. Used(f) = 0 /\ Used(h) = 0
    BY <2>2, UsedNone
  <2>4. Cardinality(Rows(E)) = 0
    BY <1>3, FS_EmptySet
  <2>5. conf.host \in Nat /\ NumSlots \in Nat /\ NumRows \in Nat
    BY ConfFacts, ChainAssumption
  <2>6. QED BY <2>1, <2>2, <2>3, <2>4, <2>5 DEF RoomInv
<1>8. QED BY <1>1, <1>4, <1>5, <1>6, <1>7 DEF RankInv

\* The system starts in order.
LEMMA ChainInit == Init => ChainInv
<1>1. SUFFICES ASSUME Init PROVE ChainInv
  OBVIOUS
<1>2. conf \in Confs /\ rank = [r \in Ranks |-> EmptyRank] /\ req = [s \in Ids |-> None]
      /\ active = {} /\ next = 1 /\ mode = "up" /\ faults = 0
  BY <1>1 DEF Init
<1>3. RankInv(EmptyRank, {}) /\ 0 \in Ranks
  BY <1>2, EmptyKeeps, ConfFacts
<1>4. RanksInv(rank)
  BY <1>2, <1>3, SameEquivalence DEF RanksInv
<1>5. DriverInv(rank[0], req, next, mode)
  <2>1. \A c \in Ids : rank[0].rec[c] = None
    BY <1>2, <1>3 DEF EmptyRank
  <2>2. next \in 1..(MaxIds + 1)
    BY <1>2, ChainAssumption
  <2>3. QED BY <1>2, <2>1, <2>2 DEF DriverInv
<1>6. active = {s \in Ids : req[s] # None} /\ faults \in 0..MaxFaults
  BY <1>2, ChainAssumption
<1>7. QED BY <1>2, <1>4, <1>5, <1>6 DEF ChainInv, ChainState

-----------------------------------------------------------------------------
(* What the driver sees of a step on its rank *)

\* Victims of pressure are idle: no running turn is touched.
LEMMA FrameStays ==
  ASSUME NEW R, NEW X, RankInv(R, X), NEW T, NEW V, Frame(R, T, V), \A v \in V : IdleHere(R, v)
  PROVE  OthersStay(R, T, {})
<1>1. SUFFICES ASSUME NEW d \in Ids
               PROVE  \/ T.rec[d] = None /\ (R.rec[d] # None => R.rec[d].state = "IDLE")
                      \/ /\ R.rec[d] # None /\ T.rec[d] # None
                         /\ T.rec[d].seq = R.rec[d].seq /\ T.rec[d].state = R.rec[d].state
                         /\ R.rec[d].state = "ACTIVE" => T.kv[R.rec[d].seq] = R.kv[R.rec[d].seq]
  BY DEF OthersStay
<1>2. CASE d \in V
  BY <1>2 DEF Frame, IdleHere, Chains
<1>3. CASE d \notin V
  <2>1. T.rec[d] = R.rec[d]
    BY <1>3 DEF Frame
  <2>2. CASE R.rec[d] = None
    BY <2>1, <2>2
  <2>3. CASE R.rec[d] # None
    <3>1. d \in Chains(R)
      BY <2>3 DEF Chains
    <3>2. OnlyOwner(R, d, R.rec[d].seq) /\ R.rec[d].seq \in Ids
      BY <3>1, KnownOwner
    <3>3. \A v \in V : R.rec[v].seq # R.rec[d].seq
      BY <1>3, <3>2 DEF OnlyOwner, IdleHere, Chains
    <3>4. T.kv[R.rec[d].seq] = R.kv[R.rec[d].seq]
      BY <3>2, <3>3 DEF Frame
    <3>5. QED BY <2>1, <2>3, <3>4
  <2>4. QED BY <2>2, <2>3
<1>4. QED BY <1>2, <1>3

\* A step that changes only the record of c and the row of its sequence.
LEMMA OneChainStays ==
  ASSUME NEW R, NEW T, NEW c, NEW s, OnlyOwner(R, c, s), \A d \in Ids \ {c} : T.rec[d] = R.rec[d],
         \A t \in Ids \ {s} : T.kv[t] = R.kv[t], NEW X, RankInv(R, X)
  PROVE  OthersStay(R, T, {c})
<1>1. \A d \in Ids \ {c} : R.rec[d] # None => R.rec[d].seq \in Ids \ {s}
  <2>1. \A d \in Ids : R.rec[d] # None => R.rec[d].seq \in Ids
    BY KnownOwner DEF Chains
  <2>2. QED BY <2>1 DEF OnlyOwner
<1>2. QED BY <1>1 DEF OthersStay

\* A removed chain leaves the others.
LEMMA GoneStays ==
  ASSUME NEW R, NEW X, RankInv(R, X), NEW T, NEW c \in Chains(R), Gone(R, T, c)
  PROVE  /\ OthersStay(R, T, {c}) /\ T.rec[c] = None
         /\ R.rec[c].state = "IDLE" => OthersStay(R, T, {})
<1>1. PICK s : s = R.rec[c].seq
  OBVIOUS
<1>2. OnlyOwner(R, c, s) /\ c \in Ids /\ s \in Ids /\ R.rec[c] # None
  BY <1>1, KnownOwner
<1>3. R.rec \in [Ids -> Record \cup {None}] /\ R.kv \in [Ids -> Row \cup {None}]
  BY RankParts DEF RankInv
<1>4. /\ \A d \in Ids \ {c} : T.rec[d] = R.rec[d]
      /\ \A t \in Ids \ {s} : T.kv[t] = R.kv[t]
      /\ T.rec[c] = None
  BY <1>1, <1>2, <1>3 DEF Gone
<1>5. OthersStay(R, T, {c})
  BY <1>2, <1>4, OneChainStays
<1>6. R.rec[c].state = "IDLE" => OthersStay(R, T, {})
  BY <1>4, <1>5 DEF OthersStay
<1>7. QED BY <1>4, <1>5, <1>6

\* Ranks that agree look the same to the driver.
LEMMA SameDriver ==
  ASSUME NEW R, NEW T, Same(R, T), NEW rq, NEW nx, NEW md, DriverInv(R, rq, nx, md)
  PROVE  DriverInv(T, rq, nx, md)
BY DEF Same, DriverInv, TurnOK

\* A step that raises, or that ends the workers, leaves the driver in order.
LEMMA DriverMode ==
  ASSUME NEW R, NEW rq, NEW nx, NEW md, DriverInv(R, rq, nx, md), NEW md2, md2 # "up"
  PROVE  DriverInv(R, rq, nx, md2)
BY DEF DriverInv, TurnOK

\* A request of a driver that steps: its chain runs on every rank.
LEMMA RequestRuns ==
  ASSUME NEW rk, RanksInv(rk), NEW rq, NEW nx, NEW md, DriverInv(rk[0], rq, nx, md), 0 \in Ranks,
         NEW s \in Ids, rq[s] # None, md = "up" \/ rk[0].rec[rq[s].chain] # None
  PROVE  \A r \in Ranks : Runs(rk[r], rq[s].chain, s)
<1>1. PICK c : c = rq[s].chain
  OBVIOUS
<1>2. rq[s] \in Request /\ TurnOK(rk[0], s, rq[s], nx, md)
  BY DEF DriverInv
<1>3. c \in Ids
  BY <1>1, <1>2 DEF Request
<1>4. rk[0].rec[c] # None /\ rk[0].rec[c].state = "ACTIVE" /\ rk[0].rec[c].seq = s
  BY <1>1, <1>2 DEF TurnOK
<1>5. \A r \in Ranks : rk[r].rec = rk[0].rec
  BY DEF RanksInv, Same
<1>6. QED BY <1>1, <1>3, <1>4, <1>5 DEF Runs, Chains

-----------------------------------------------------------------------------
(* Pressure: idle chains leave *)

\* The victims the driver picks are idle chains of every rank; they leave, and
\* no running turn is touched.
LEMMA ReclaimedKeeps ==
  ASSUME ChainInv, NEW n \in 0..IdleCount
  PROVE  /\ RanksInv(Reclaimed(n)) /\ DriverInv(Reclaimed(n)[0], req, next, mode)
         /\ IdleCount \in Nat
<1>1. conf \in Confs /\ RanksInv(rank) /\ DriverInv(rank[0], req, next, mode) /\ 0 \in Ranks
  BY ConfFacts DEF ChainInv, ChainState
<1>2. PICK R, q : R = rank[0] /\ q = IdleLRU(rank[0])
  OBVIOUS
<1>3. RankInv(R, {}) /\ q \in Seq(Ids) /\ IsInjective(q) /\ (\A c \in Range(q) : IdleHere(R, c))
  BY <1>1, <1>2, IdleLRUFacts DEF RanksInv
<1>4. Len(q) \in Nat /\ IdleCount = Len(q) /\ n \in 0..Len(q) /\ 1 \in 1..(Len(q) + 1)
  BY <1>2, <1>3 DEF IdleCount
<1>5. PICK v : v = SubSeq(q, 1, n)
  OBVIOUS
<1>6. v \in Seq(Ids) /\ Range(v) \subseteq Range(q) /\ IsInjective(v)
  BY <1>3, <1>4, <1>5, SubSeqFacts
<1>7. PICK D : D = {c \in Range(v) : HasSnapshot(R, R.rec[c].seq)}
  OBVIOUS
<1>8. Reclaimed(n) = [r \in Ranks |-> Leave(rank[r], v, D)]
  BY <1>2, <1>5, <1>7 DEF Reclaimed
<1>9. Victims(R, v, D)
  BY <1>3, <1>6, <1>7 DEF Victims, HasSnapshot
<1>10. ASSUME NEW r \in Ranks
       PROVE  RankInv(Leave(rank[r], v, D), {}) /\ Same(Leave(rank[r], v, D), Leave(R, v, D))
  <2>1. PICK T : T = rank[r]
    OBVIOUS
  <2>2. RankInv(T, {}) /\ Same(T, R) /\ Same(R, T)
    BY <1>1, <1>2, <2>1, SameEquivalence DEF RanksInv
  <2>3. Victims(T, v, D)
    BY <1>3, <1>9, <2>2, SameVictims
  <2>4. RankInv(Leave(T, v, D), {})
    BY <2>2, <2>3, LeaveKeeps
  <2>5. Same(Leave(T, v, D), Leave(R, v, D))
    BY <1>3, <2>2, <2>3, LeaveSame
  <2>6. QED BY <2>1, <2>4, <2>5
<1>11. RanksInv(Reclaimed(n))
  BY <1>1, <1>2, <1>8, <1>10 DEF RanksInv
<1>12. OthersStay(R, Leave(R, v, D), {})
  <2>1. Frame(R, Leave(R, v, D), Range(v))
    BY <1>3, <1>9, LeaveKeeps
  <2>2. \A c \in Range(v) : IdleHere(R, c)
    BY <1>9 DEF Victims
  <2>3. QED BY <1>3, <2>1, <2>2, FrameStays
<1>13. DriverInv(Leave(R, v, D), req, next, mode)
  BY <1>1, <1>2, <1>12, DriverStay
<1>14. Reclaimed(n)[0] = Leave(R, v, D)
  BY <1>1, <1>2, <1>8
<1>15. QED BY <1>4, <1>11, <1>13, <1>14

-----------------------------------------------------------------------------
(* Requests that go on, and requests that end *)

\* rq2 is rq with new counts for the request of s.
Updated(rq, rq2, s, g, d, w) ==
  /\ rq2 \in [Ids -> Request \cup {None}] /\ \A t \in Ids : t # s => rq2[t] = rq[t]
  /\ rq2[s] # None /\ rq2[s].chain = rq[s].chain /\ rq2[s].prompt = rq[s].prompt
  /\ rq2[s].gen = g /\ rq2[s].done = d /\ rq2[s].window = w

\* The fields of a request.
LEMMA RequestFields ==
  ASSUME NEW q \in Request
  PROVE  /\ q.chain \in Ids /\ q.prompt \in 1..MaxLen /\ q.done \in 0..MaxLen
         /\ q.gen \in 0..MaxTokens /\ q.window \in 0..Window
BY DEF Request

\* A request whose entry is replaced by one with new counts.
LEMMA UpdatedEntry ==
  ASSUME NEW rq \in [Ids -> Request \cup {None}], NEW s \in Ids, NEW u \in Request,
         u.chain = rq[s].chain, u.prompt = rq[s].prompt
  PROVE  Updated(rq, [rq EXCEPT ![s] = u], s, u.gen, u.done, u.window)
<1>1. u \in Request \cup {None} /\ u # None
  BY NoneIsNoValue
<1>2. PICK h : h = [rq EXCEPT ![s] = u]
  OBVIOUS
<1>3. h \in [Ids -> Request \cup {None}] /\ h[s] = u /\ \A t \in Ids : t # s => h[t] = rq[t]
  BY <1>1, <1>2
<1>4. Updated(rq, h, s, u.gen, u.done, u.window)
  BY <1>1, <1>3 DEF Updated
<1>5. QED BY <1>2, <1>4

\* The updates the driver makes of a request.
LEMMA RequestUpdates ==
  ASSUME NEW rq \in [Ids -> Request \cup {None}], NEW s \in Ids, rq[s] # None,
         NEW g \in 0..MaxTokens, NEW d \in 0..MaxLen, NEW w \in 0..Window
  PROVE  /\ Updated(rq, [rq EXCEPT ![s].gen = g, ![s].done = d, ![s].window = w], s, g, d, w)
         /\ Updated(rq, [rq EXCEPT ![s].gen = g, ![s].done = d], s, g, d, rq[s].window)
         /\ Updated(rq, [rq EXCEPT ![s].done = d, ![s].window = w], s, rq[s].gen, d, w)
         /\ Updated(rq, [rq EXCEPT ![s].done = d], s, rq[s].gen, d, rq[s].window)
         /\ Updated(rq, [rq EXCEPT ![s].window = w], s, rq[s].gen, rq[s].done, w)
<1>1. PICK q : q = rq[s]
  OBVIOUS
<1>2. q \in Request
  BY <1>1
<1>3. PICK P, N, G, W : P = 1..MaxLen /\ N = 0..MaxLen /\ G = 0..MaxTokens /\ W = 0..Window
  OBVIOUS
<1>4. q \in [chain : Ids, prompt : P, done : N, gen : G, window : W] /\ g \in G /\ d \in N /\ w \in W
  BY <1>2, <1>3, Zenon DEF Request
<1>5. ASSUME NEW u \in [chain : Ids, prompt : P, done : N, gen : G, window : W] PROVE u \in Request
  BY <1>3, <1>5, Zenon DEF Request
<1>6. Updated(rq, [rq EXCEPT ![s].gen = g, ![s].done = d, ![s].window = w], s, g, d, w)
  <2>1. PICK u : u = [q EXCEPT !.gen = g, !.done = d, !.window = w]
    OBVIOUS
  <2>2. u \in [chain : Ids, prompt : P, done : N, gen : G, window : W] /\ u.chain = q.chain
        /\ u.prompt = q.prompt /\ u.gen = g /\ u.done = d /\ u.window = w
    BY <1>4, <2>1
  <2>3. [rq EXCEPT ![s].gen = g, ![s].done = d, ![s].window = w] = [rq EXCEPT ![s] = u]
    BY <1>1, <2>1
  <2>4. u \in Request
    BY <1>5, <2>2
  <2>5. Updated(rq, [rq EXCEPT ![s] = u], s, u.gen, u.done, u.window)
    BY <1>1, <2>2, <2>4, UpdatedEntry
  <2>6. QED BY <1>1, <2>2, <2>3, <2>5, Zenon
<1>7. Updated(rq, [rq EXCEPT ![s].gen = g, ![s].done = d], s, g, d, rq[s].window)
  <2>1. PICK u : u = [q EXCEPT !.gen = g, !.done = d]
    OBVIOUS
  <2>2. u \in [chain : Ids, prompt : P, done : N, gen : G, window : W] /\ u.chain = q.chain
        /\ u.prompt = q.prompt /\ u.gen = g /\ u.done = d /\ u.window = q.window
    BY <1>4, <2>1
  <2>3. [rq EXCEPT ![s].gen = g, ![s].done = d] = [rq EXCEPT ![s] = u]
    BY <1>1, <2>1
  <2>4. u \in Request
    BY <1>5, <2>2
  <2>5. Updated(rq, [rq EXCEPT ![s] = u], s, u.gen, u.done, u.window)
    BY <1>1, <2>2, <2>4, UpdatedEntry
  <2>6. QED BY <1>1, <2>2, <2>3, <2>5, Zenon
<1>8. Updated(rq, [rq EXCEPT ![s].done = d, ![s].window = w], s, rq[s].gen, d, w)
  <2>1. PICK u : u = [q EXCEPT !.done = d, !.window = w]
    OBVIOUS
  <2>2. u \in [chain : Ids, prompt : P, done : N, gen : G, window : W] /\ u.chain = q.chain
        /\ u.prompt = q.prompt /\ u.gen = q.gen /\ u.done = d /\ u.window = w
    BY <1>4, <2>1
  <2>3. [rq EXCEPT ![s].done = d, ![s].window = w] = [rq EXCEPT ![s] = u]
    BY <1>1, <2>1
  <2>4. u \in Request
    BY <1>5, <2>2
  <2>5. Updated(rq, [rq EXCEPT ![s] = u], s, u.gen, u.done, u.window)
    BY <1>1, <2>2, <2>4, UpdatedEntry
  <2>6. QED BY <1>1, <2>2, <2>3, <2>5, Zenon
<1>9. Updated(rq, [rq EXCEPT ![s].done = d], s, rq[s].gen, d, rq[s].window)
  <2>1. PICK u : u = [q EXCEPT !.done = d]
    OBVIOUS
  <2>2. u \in [chain : Ids, prompt : P, done : N, gen : G, window : W] /\ u.chain = q.chain
        /\ u.prompt = q.prompt /\ u.gen = q.gen /\ u.done = d /\ u.window = q.window
    BY <1>4, <2>1
  <2>3. [rq EXCEPT ![s].done = d] = [rq EXCEPT ![s] = u]
    BY <1>1, <2>1
  <2>4. u \in Request
    BY <1>5, <2>2
  <2>5. Updated(rq, [rq EXCEPT ![s] = u], s, u.gen, u.done, u.window)
    BY <1>1, <2>2, <2>4, UpdatedEntry
  <2>6. QED BY <1>1, <2>2, <2>3, <2>5, Zenon
<1>10. Updated(rq, [rq EXCEPT ![s].window = w], s, rq[s].gen, rq[s].done, w)
  <2>1. PICK u : u = [q EXCEPT !.window = w]
    OBVIOUS
  <2>2. u \in [chain : Ids, prompt : P, done : N, gen : G, window : W] /\ u.chain = q.chain
        /\ u.prompt = q.prompt /\ u.gen = q.gen /\ u.done = q.done /\ u.window = w
    BY <1>4, <2>1
  <2>3. [rq EXCEPT ![s].window = w] = [rq EXCEPT ![s] = u]
    BY <1>1, <2>1
  <2>4. u \in Request
    BY <1>5, <2>2
  <2>5. Updated(rq, [rq EXCEPT ![s] = u], s, u.gen, u.done, u.window)
    BY <1>1, <2>2, <2>4, UpdatedEntry
  <2>6. QED BY <1>1, <2>2, <2>3, <2>5, Zenon
<1>11. QED BY <1>6, <1>7, <1>8, <1>9, <1>10

\* What a step must leave of a request that goes on.
GoesOn(T, q, s, g, d) ==
  /\ T.rec[q.chain] # None /\ g < MaxTokens
  /\ IF g = 0 THEN d < q.prompt ELSE d <= q.prompt + g - 1
  /\ HoldsDone(T.kv[s], q.chain, d)

\* The request of s goes on with new counts.
LEMMA RequestStep ==
  ASSUME NEW R, RankInv(R, {}), NEW T, NEW rq, NEW nx, NEW md, DriverInv(R, rq, nx, md),
         NEW s \in Ids, rq[s] # None, Runs(R, rq[s].chain, s), OthersStay(R, T, {rq[s].chain}),
         NEW rq2, NEW g, NEW d, NEW w, Updated(rq, rq2, s, g, d, w), NEW md2, md2 = "up" => md = "up",
         T.rec[rq[s].chain] # None => Runs(T, rq[s].chain, s),
         md2 = "up" => GoesOn(T, rq[s], s, g, d)
  PROVE  DriverInv(T, rq2, nx, md2) /\ {t \in Ids : rq2[t] # None} = {t \in Ids : rq[t] # None}
<1>1. PICK q, c : q = rq[s] /\ c = rq[s].chain
  OBVIOUS
<1>2. q \in Request /\ TurnOK(R, s, q, nx, md) /\ nx \in 1..(MaxIds + 1) /\ nx <= nx
  BY <1>1, ChainAssumption DEF DriverInv
<1>3. c \in Ids /\ OnlyOwner(R, c, s) /\ R.rec[c] # None /\ R.rec[c].seq = s
  BY <1>1, RunsFacts DEF Runs
<1>4. R.rec[c].state = "ACTIVE" /\ c < nx
  <2>1. KnownTurn(c, R.rec[c], rq, nx) /\ R.rec[c].state = "ACTIVE"
    BY <1>1, <1>3 DEF DriverInv, Runs
  <2>2. QED BY <2>1 DEF KnownTurn
<1>5. rq2[s] # None /\ rq2[s].chain = c /\ rq2[s].prompt = q.prompt /\ rq2[s].gen = g /\ rq2[s].done = d
      /\ rq2 \in [Ids -> Request \cup {None}] /\ \A t \in Ids : t # s => rq2[t] = rq[t]
  BY <1>1 DEF Updated
<1>6. T.rec[c] # None => T.rec[c].state = "ACTIVE" /\ T.rec[c].seq = s
  BY <1>1 DEF Runs
<1>7. TurnOK(T, s, rq2[s], nx, md2)
  BY <1>1, <1>2, <1>5, <1>6 DEF TurnOK, GoesOn
<1>8. T.rec[c] # None => KnownTurn(c, T.rec[c], rq2, nx)
  BY <1>2, <1>4, <1>5, <1>6 DEF KnownTurn, TurnOK
<1>9. TurnLeft(T, c, s, rq2, nx, md2)
  BY <1>6, <1>7, <1>8 DEF TurnLeft
<1>10. DriverInv(T, rq2, nx, md2)
  BY <1>1, <1>2, <1>3, <1>5, <1>9, DriverStep
<1>11. QED BY <1>5, <1>10

\* A step from R to T after which the request of s is over, its chain idle or gone.
EndsTurn(R, T, rq, rq2, nx, md, md2, s) ==
  /\ RankInv(R, {}) /\ DriverInv(R, rq, nx, md) /\ s \in Ids /\ rq[s] # None
  /\ Runs(R, rq[s].chain, s) /\ OthersStay(R, T, {rq[s].chain}) /\ (md2 = "up" => md = "up")
  /\ T.rec[rq[s].chain] # None => T.rec[rq[s].chain].seq = s /\ T.rec[rq[s].chain].state # "ACTIVE"
  /\ rq2 = [rq EXCEPT ![s] = None]

\* The request of s ends.
LEMMA RequestEnds ==
  ASSUME NEW R, NEW T, NEW rq, NEW rq2, NEW nx, NEW md, NEW md2, NEW s, EndsTurn(R, T, rq, rq2, nx, md, md2, s)
  PROVE  DriverInv(T, rq2, nx, md2) /\ {t \in Ids : rq2[t] # None} = {t \in Ids : rq[t] # None} \ {s}
<1>0. /\ RankInv(R, {}) /\ DriverInv(R, rq, nx, md) /\ s \in Ids /\ rq[s] # None
      /\ Runs(R, rq[s].chain, s) /\ OthersStay(R, T, {rq[s].chain}) /\ (md2 = "up" => md = "up")
      /\ (T.rec[rq[s].chain] # None => T.rec[rq[s].chain].seq = s /\ T.rec[rq[s].chain].state # "ACTIVE")
      /\ rq2 = [rq EXCEPT ![s] = None]
  BY DEF EndsTurn
<1>1. PICK c : c = rq[s].chain
  OBVIOUS
<1>2. rq \in [Ids -> Request \cup {None}] /\ TurnOK(R, s, rq[s], nx, md) /\ nx \in 1..(MaxIds + 1) /\ nx <= nx
  BY <1>0, ChainAssumption DEF DriverInv
<1>3. c \in Ids /\ OnlyOwner(R, c, s) /\ R.rec[c] # None
  BY <1>0, <1>1, RunsFacts DEF Runs
<1>4. c < nx /\ s < nx
  <2>1. KnownTurn(c, R.rec[c], rq, nx)
    BY <1>0, <1>3 DEF DriverInv
  <2>2. QED BY <1>0, <1>2, <2>1 DEF KnownTurn, TurnOK
<1>5. rq2[s] = None /\ rq2 \in [Ids -> Request \cup {None}] /\ \A t \in Ids : t # s => rq2[t] = rq[t]
  BY <1>0, <1>1, <1>2
<1>6. TurnLeft(T, c, s, rq2, nx, md2)
  BY <1>0, <1>1, <1>4, <1>5 DEF TurnLeft, KnownTurn
<1>7. DriverInv(T, rq2, nx, md2)
  <2>1. OthersStay(R, T, {c})
    BY <1>0, <1>1
  <2>2. QED BY <1>0, <1>2, <1>3, <1>5, <1>6, <2>1, DriverStep, ZenonT(60)
<1>8. QED BY <1>0, <1>1, <1>5, <1>7

-----------------------------------------------------------------------------
(* The actions of the scheduler under pressure *)

\* The greatest of some bounded numbers is one of them.
LEMMA MaxIsMember == ASSUME NEW N \in Nat, NEW S \in SUBSET (0..N), S # {} PROVE Max(S) \in S
<1>1. PICK D : D = {n \in Nat : N - n \in S}
  OBVIOUS
<1>2. D \in SUBSET Nat /\ D # {}
  <2>1. PICK x \in S : TRUE
    OBVIOUS
  <2>2. N - x \in Nat /\ N - (N - x) = x
    BY <2>1
  <2>3. QED BY <1>1, <2>1, <2>2
<1>3. PICK m \in D : \A n \in D : m <= n
  BY <1>2, LeastNat
<1>4. N - m \in S
  BY <1>1, <1>3
<1>5. \A x \in S : x <= N - m
  <2>1. ASSUME NEW x \in S PROVE x <= N - m
    <3>1. x \in 0..N /\ N - x \in Nat /\ N - (N - x) = x
      OBVIOUS
    <3>2. N - x \in D
      BY <1>1, <3>1
    <3>3. m <= N - x /\ m \in Nat
      BY <1>2, <1>3, <3>2
    <3>4. QED BY <3>1, <3>3
  <2>2. QED BY <2>1
<1>6. \E y \in S : \A x \in S : y >= x
  BY <1>2, <1>3, <1>4, <1>5
<1>7. QED BY <1>6 DEF Max

\* What the invariant says of a request.
LEMMA RequestTurn ==
  ASSUME ChainInv, NEW s \in Ids, req[s] # None
  PROVE  /\ req[s] \in Request /\ TurnOK(rank[0], s, req[s], next, mode)
         /\ req \in [Ids -> Request \cup {None}] /\ conf \in Confs /\ 0 \in Ranks
         /\ RanksInv(rank) /\ DriverInv(rank[0], req, next, mode)
         /\ active = {t \in Ids : req[t] # None} /\ mode \in {"up", "raised", "dead"} /\ faults \in 0..MaxFaults
BY ConfFacts DEF ChainInv, ChainState, DriverInv

\* A request keeps what it needs when only idle chains left.
LEMMA StillGoesOn ==
  ASSUME NEW R, NEW s \in Ids, NEW nx, NEW q, TurnOK(R, s, q, nx, "up")
  PROVE  GoesOn(R, q, s, q.gen, q.done)
BY DEF TurnOK, GoesOn

\* A chain other than none stays itself.
LEMMA StaysStill == \A R, X : OthersStay(R, R, X)
BY DEF OthersStay

\* A decode gets its window; idle chains may have left for it.
LEMMA ReserveWindowKeeps ==
  ASSUME ChainInv, NEW s \in Ids, ReserveWindow(s)
  PROVE  ChainState(rank', req', active', next', mode', faults')
<1>1. /\ mode = "up" /\ s \in NeedsWindow /\ EnoughForWindow(s) # {} /\ UNCHANGED <<conf, active, next, mode, faults>>
  BY DEF ReserveWindow
<1>2. req[s] # None
  BY <1>1 DEF NeedsWindow, Decoding, Requests
<1>3. PICK n : n = Min(EnoughForWindow(s))
  OBVIOUS
<1>4. IdleCount \in Nat
  <2>1. rank[0] = rank[0] /\ RankInv(rank[0], {})
    BY <1>2, RequestTurn DEF RanksInv
  <2>2. QED BY <2>1, IdleLRUFacts DEF IdleCount
<1>5. n \in 0..IdleCount /\ WindowChoices(Reclaimed(n)[0], s) # {}
  <2>1. EnoughForWindow(s) \in SUBSET Nat
    BY <1>4 DEF EnoughForWindow
  <2>2. n \in EnoughForWindow(s)
    BY <1>1, <1>3, <2>1, MinFacts
  <2>3. QED BY <2>2 DEF EnoughForWindow
<1>6. RanksInv(Reclaimed(n)) /\ DriverInv(Reclaimed(n)[0], req, next, mode)
  BY <1>5, ReclaimedKeeps
<1>7. PICK ranks, R : ranks = Reclaimed(n) /\ R = Reclaimed(n)[0]
  OBVIOUS
<1>8. PICK w : w = Max(WindowChoices(R, s))
  OBVIOUS
<1>9. rank' = ranks /\ req' = [req EXCEPT ![s].window = w]
  BY <1>3, <1>7, <1>8 DEF ReserveWindow
<1>10. req[s] \in Request /\ conf \in Confs /\ 0 \in Ranks /\ active = {t \in Ids : req[t] # None}
       /\ faults \in 0..MaxFaults /\ req \in [Ids -> Request \cup {None}]
  BY <1>2, RequestTurn
<1>11. w \in 0..Window
  <2>1. PICK M : M = Min({Window, MaxTokens - req[s].gen})
    OBVIOUS
  <2>2. Window \in Nat /\ MaxTokens \in Nat /\ req[s].gen \in 0..MaxTokens
    BY <1>10, RequestFields, ChainAssumption
  <2>3. PICK Z : Z = {Window, MaxTokens - req[s].gen}
    OBVIOUS
  <2>4. Z \in SUBSET Nat /\ Z # {} /\ Window \in Z /\ M = Min(Z)
    BY <2>1, <2>2, <2>3
  <2>5. M \in Nat /\ M <= Window
    BY <2>4, MinFacts
  <2>6. PICK C : C = WindowChoices(R, s)
    OBVIOUS
  <2>7. C \subseteq 1..M
    BY <2>1, <2>6 DEF WindowChoices
  <2>8. C \in SUBSET (0..Window) /\ C # {}
    BY <1>5, <1>7, <2>2, <2>5, <2>6, <2>7
  <2>9. QED BY <1>8, <2>2, <2>6, <2>8, MaxIsMember
<1>12. PICK q, g, d : q = req[s] /\ g = req[s].gen /\ d = req[s].done
  OBVIOUS
<1>13. g \in 0..MaxTokens /\ d \in 0..MaxLen
  BY <1>10, <1>12, RequestFields
<1>14. Updated(req, req', s, g, d, w)
  BY <1>2, <1>9, <1>10, <1>11, <1>12, <1>13, RequestUpdates
<1>15. RankInv(R, {}) /\ Runs(R, req[s].chain, s) /\ DriverInv(R, req, next, mode)
  <2>1. \A r \in Ranks : Runs(ranks[r], req[s].chain, s)
    BY <1>1, <1>2, <1>6, <1>7, <1>10, RequestRuns
  <2>2. R = ranks[0]
    BY <1>7
  <2>3. QED BY <1>6, <1>7, <1>10, <2>1, <2>2 DEF RanksInv
<1>16. GoesOn(R, q, s, g, d)
  <2>1. TurnOK(R, s, q, next, "up")
    BY <1>1, <1>2, <1>12, <1>15 DEF DriverInv
  <2>2. QED BY <1>12, <2>1, StillGoesOn
<1>17. DriverInv(R, req', next, mode) /\ {t \in Ids : req'[t] # None} = {t \in Ids : req[t] # None}
  <2>1. OthersStay(R, R, {req[s].chain})
    BY StaysStill
  <2>2. PICK rq2 : rq2 = req'
    OBVIOUS
  <2>3. DriverInv(R, rq2, next, mode) /\ {t \in Ids : rq2[t] # None} = {t \in Ids : req[t] # None}
    <3>1. PICK c : c = req[s].chain
      OBVIOUS
    <3>2. OthersStay(R, R, {c}) /\ Runs(R, c, s) /\ RankInv(R, {}) /\ DriverInv(R, req, next, mode)
      BY <1>15, <2>1, <3>1
    <3>3. Updated(req, rq2, s, g, d, w) /\ GoesOn(R, req[s], s, g, d)
      BY <1>12, <1>14, <1>16, <2>2
    <3>4. PICK T : T = R
      OBVIOUS
    <3>5. OthersStay(R, T, {c}) /\ Runs(T, c, s) /\ GoesOn(T, req[s], s, g, d)
      BY <3>2, <3>3, <3>4
    <3>6. DriverInv(T, rq2, next, mode) /\ {t \in Ids : rq2[t] # None} = {t \in Ids : req[t] # None}
      <4>1. PICK rq, nx, md : rq = req /\ nx = next /\ md = mode
        OBVIOUS
      <4>2. RankInv(R, {}) /\ DriverInv(R, rq, nx, md) /\ rq[s] # None /\ Runs(R, rq[s].chain, s)
            /\ OthersStay(R, T, {rq[s].chain}) /\ Updated(rq, rq2, s, g, d, w)
            /\ Runs(T, rq[s].chain, s) /\ GoesOn(T, rq[s], s, g, d)
        BY <1>2, <3>1, <3>2, <3>3, <3>5, <4>1
      <4>3. DriverInv(T, rq2, nx, md) /\ {t \in Ids : rq2[t] # None} = {t \in Ids : rq[t] # None}
        BY <4>2, RequestStep
      <4>4. QED BY <4>1, <4>3
    <3>7. QED BY <3>4, <3>6
  <2>4. QED BY <2>2, <2>3
<1>18. rank'[0] = R /\ RanksInv(rank')
  BY <1>6, <1>7, <1>9
<1>19. QED BY <1>1, <1>10, <1>17, <1>18 DEF ChainState

\* A step that raises once the ranks are as in ranks.
LEMMA RaisesKeeps ==
  ASSUME ChainInv, NEW ranks, RanksInv(ranks), DriverInv(ranks[0], req, next, mode), Raises(ranks)
  PROVE  ChainState(rank', req', active', next', mode', faults')
<1>1. rank' = ranks /\ mode' = "raised" /\ UNCHANGED <<conf, req, active, next, faults>>
  BY DEF Raises
<1>2. DriverInv(ranks[0], req, next, "raised")
  BY DriverMode
<1>3. QED BY <1>1, <1>2 DEF ChainInv, ChainState

\* A step that changes nothing but the ranks.
LEMMA RanksOnly ==
  ASSUME ChainInv, NEW ranks, RanksInv(ranks), DriverInv(ranks[0], req, next, mode),
         rank' = ranks, UNCHANGED <<conf, req, active, next, mode, faults>>
  PROVE  ChainState(rank', req', active', next', mode', faults')
BY DEF ChainInv, ChainState

\* A preempted request gives up its row and starts again.
LEMMA PreemptedKeeps ==
  ASSUME ChainInv, mode = "up", NEW s \in Ids, req[s] # None, NEW ranks, RanksInv(ranks),
         DriverInv(ranks[0], req, next, mode), Preempted(ranks, s)
  PROVE  ChainState(rank', req', active', next', mode', faults')
<1>1. /\ rank' = [r \in Ranks |-> FreeSeq(ranks[r], s)]
      /\ req' = [req EXCEPT ![s].done = 0, ![s].window = 0]
      /\ UNCHANGED <<conf, active, next, mode, faults>>
  BY DEF Preempted
<1>2. req[s] \in Request /\ conf \in Confs /\ 0 \in Ranks /\ active = {t \in Ids : req[t] # None}
      /\ faults \in 0..MaxFaults /\ req \in [Ids -> Request \cup {None}]
  BY RequestTurn
<1>3. PICK c, g, R, q : c = req[s].chain /\ g = req[s].gen /\ R = ranks[0] /\ q = req[s]
  OBVIOUS
<1>4. \A r \in Ranks : Runs(ranks[r], c, s)
  BY <1>2, <1>3, RequestRuns
<1>5. \A r \in Ranks : RankInv(ranks[r], {}) /\ Same(ranks[r], R) /\ ranks[r].rec = R.rec
  BY <1>3 DEF RanksInv, Same
<1>6. ASSUME NEW r \in Ranks
      PROVE  RankInv(FreeSeq(ranks[r], s), {}) /\ OnlyRow(ranks[r], FreeSeq(ranks[r], s), c, s, R.rec[c], None)
  <2>1. PICK T : T = ranks[r]
    OBVIOUS
  <2>2. RankInv(T, {}) /\ Runs(T, c, s) /\ T.rec = R.rec
    BY <1>4, <1>5, <2>1
  <2>3. RankInv(FreeSeq(T, s), {}) /\ OnlyRow(T, FreeSeq(T, s), c, s, T.rec[c], None)
    BY <2>2, FreeSeqKeeps
  <2>4. QED BY <2>1, <2>2, <2>3
<1>7. \A r \in Ranks : Same(FreeSeq(ranks[r], s), FreeSeq(R, s))
  <2>1. ASSUME NEW r \in Ranks PROVE Same(FreeSeq(ranks[r], s), FreeSeq(R, s))
    <3>1. PICK T, A, B : T = ranks[r] /\ A = FreeSeq(ranks[r], s) /\ B = FreeSeq(R, s)
      OBVIOUS
    <3>2. Same(T, R) /\ OnlyRow(T, A, c, s, R.rec[c], None) /\ OnlyRow(R, B, c, s, R.rec[c], None)
      BY <1>2, <1>3, <1>5, <1>6, <3>1
    <3>3. QED BY <3>1, <3>2, OnlyRowSame
  <2>2. QED BY <2>1
<1>8. RanksInv(rank')
  BY <1>1, <1>2, <1>3, <1>6, <1>7 DEF RanksInv
<1>9. PICK T : T = FreeSeq(R, s)
  OBVIOUS
<1>10. rank'[0] = T /\ OnlyRow(R, T, c, s, R.rec[c], None) /\ RankInv(R, {}) /\ Runs(R, c, s)
  BY <1>1, <1>2, <1>3, <1>4, <1>5, <1>6, <1>9
<1>11. OnlyOwner(R, c, s) /\ c \in Ids /\ R.rec[c] # None
  BY <1>10, RunsFacts
<1>12. R.rec \in [Ids -> Record \cup {None}] /\ R.kv \in [Ids -> Row \cup {None}]
  BY <1>10, RankParts DEF RankInv
<1>13. T.rec[c] = R.rec[c] /\ T.kv[s] = None /\ (\A d \in Ids \ {c} : T.rec[d] = R.rec[d])
       /\ \A t \in Ids \ {s} : T.kv[t] = R.kv[t]
  BY <1>10, <1>11, <1>12 DEF OnlyRow
<1>14. OthersStay(R, T, {c})
  BY <1>10, <1>11, <1>13, OneChainStays
<1>15. Runs(T, c, s)
  BY <1>10, <1>11, <1>13 DEF Runs, Chains
<1>16. Updated(req, req', s, g, 0, 0)
  <2>1. 0 \in 0..MaxLen /\ 0 \in 0..Window /\ g \in 0..MaxTokens
    BY <1>2, <1>3, RequestFields, ChainAssumption
  <2>2. QED BY <1>1, <1>2, <1>3, <2>1, RequestUpdates
<1>17. GoesOn(T, q, s, g, 0)
  <2>1. TurnOK(R, s, q, next, "up") /\ q \in Request
    BY <1>2, <1>3 DEF DriverInv
  <2>2. g < MaxTokens /\ g \in Nat /\ q.prompt \in Nat /\ q.prompt > 0
    BY <1>3, <2>1, RequestFields, ChainAssumption DEF TurnOK
  <2>3. HoldsDone(T.kv[s], q.chain, 0)
    BY <1>13 DEF HoldsDone
  <2>4. QED BY <1>3, <1>11, <1>13, <2>2, <2>3 DEF GoesOn
<1>18. DriverInv(T, req', next, mode) /\ {t \in Ids : req'[t] # None} = {t \in Ids : req[t] # None}
  <2>1. PICK rq2 : rq2 = req'
    OBVIOUS
  <2>2. DriverInv(T, rq2, next, mode) /\ {t \in Ids : rq2[t] # None} = {t \in Ids : req[t] # None}
    <3>1. DriverInv(R, req, next, mode)
      BY <1>3
    <3>2. QED BY <1>3, <1>10, <1>14, <1>15, <1>16, <1>17, <2>1, <3>1, RequestStep, SMTT(60)
  <2>3. QED BY <2>1, <2>2
<1>19. QED BY <1>1, <1>2, <1>8, <1>10, <1>18 DEF ChainState

\* The number of idle resident chains.
LEMMA IdleCountNat == ASSUME ChainInv PROVE IdleCount \in Nat /\ IdleCount \in 0..IdleCount
<1>1. RankInv(rank[0], {})
  BY ConfFacts DEF ChainInv, ChainState, RanksInv
<1>2. IdleLRU(rank[0]) \in Seq(Ids)
  BY <1>1, IdleLRUFacts
<1>3. QED BY <1>2 DEF IdleCount

\* A decode that gets no slot: idle chains leave, and it is preempted, waits or raises.
LEMMA NoRoomToDecodeKeeps ==
  ASSUME ChainInv, NEW s \in Ids, NoRoomToDecode(s)
  PROVE  ChainState(rank', req', active', next', mode', faults') /\ conf' = conf
<1>1. PICK ranks : ranks = IF s \in NeedsWindow THEN Reclaimed(IdleCount) ELSE rank
  OBVIOUS
<1>2. mode = "up" /\ Stuck(s)
  BY DEF NoRoomToDecode
<1>3. req[s] # None
  BY <1>2 DEF Stuck, NeedsWindow, Decoding, Requests
<1>4. RanksInv(ranks) /\ DriverInv(ranks[0], req, next, mode)
  <2>1. CASE s \in NeedsWindow
    BY <1>1, <2>1, IdleCountNat, ReclaimedKeeps
  <2>2. CASE s \notin NeedsWindow
    BY <1>1, <2>2 DEF ChainInv, ChainState
  <2>3. QED BY <2>1, <2>2
<1>5. CASE Preempted(ranks, s)
  BY <1>2, <1>3, <1>4, <1>5, PreemptedKeeps DEF Preempted
<1>6. CASE rank' = ranks /\ UNCHANGED <<conf, req, active, next, mode, faults>>
  BY <1>4, <1>6, RanksOnly
<1>7. CASE Raises(ranks)
  BY <1>4, <1>7, RaisesKeeps DEF Raises
<1>8. QED BY <1>1, <1>5, <1>6, <1>7 DEF NoRoomToDecode

\* A prompt that does not fit: idle chains leave, and it waits or the step raises.
LEMMA NoRoomToPrefillKeeps ==
  ASSUME ChainInv, NEW s \in Ids, NoRoomToPrefill(s)
  PROVE  ChainState(rank', req', active', next', mode', faults') /\ conf' = conf
<1>1. PICK enough : enough = {n \in 1..IdleCount : PromptFits(Reclaimed(n)[0], s)}
  OBVIOUS
<1>2. PICK n : n = IF enough = {} THEN IdleCount ELSE Min(enough)
  OBVIOUS
<1>3. PICK ranks : ranks = Reclaimed(n)
  OBVIOUS
<1>4. IdleCount \in Nat
  BY IdleCountNat
<1>5. n \in 0..IdleCount
  <2>1. CASE enough = {}
    BY <1>2, <2>1, IdleCountNat
  <2>2. CASE enough # {}
    <3>1. enough \in SUBSET Nat /\ enough \subseteq 0..IdleCount
      BY <1>1, <1>4
    <3>2. QED BY <1>2, <2>2, <3>1, MinFacts
  <2>3. QED BY <2>1, <2>2
<1>6. RanksInv(ranks) /\ DriverInv(ranks[0], req, next, mode)
  BY <1>3, <1>5, ReclaimedKeeps
<1>7. CASE rank' = ranks /\ UNCHANGED <<conf, req, active, next, mode, faults>>
  BY <1>6, <1>7, RanksOnly
<1>8. CASE Raises(ranks)
  BY <1>6, <1>8, RaisesKeeps DEF Raises
<1>9. QED BY <1>1, <1>2, <1>3, <1>7, <1>8 DEF NoRoomToPrefill

-----------------------------------------------------------------------------
(* Failures, aborts and discards: a chain is removed on every rank *)

\* Every rank removes the same chain.
LEMMA RemovedKeeps ==
  ASSUME NEW rk, RanksInv(rk), 0 \in Ranks, NEW c, c \in Chains(rk[0]),
         NEW rk2, rk2 = [r \in Ranks |-> RemoveChain(rk[r], c)]
  PROVE  /\ RanksInv(rk2) /\ OthersStay(rk[0], rk2[0], {c}) /\ rk2[0].rec[c] = None
         /\ rk[0].rec[c].state = "IDLE" => OthersStay(rk[0], rk2[0], {})
<1>1. ASSUME NEW r \in Ranks
      PROVE  RankInv(rk2[r], {}) /\ Gone(rk[r], rk2[r], c)
  <2>1. PICK T : T = rk[r]
    OBVIOUS
  <2>2. RankInv(T, {}) /\ c \in Chains(T)
    BY <2>1 DEF RanksInv, Same, Chains
  <2>3. {} \subseteq {} \cup {c}
    OBVIOUS
  <2>4. RankInv(RemoveChain(T, c), {}) /\ Gone(T, RemoveChain(T, c), c)
    BY <2>2, <2>3, RemoveChainKeeps
  <2>5. QED BY <2>1, <2>4
<1>2. \A r \in Ranks : Same(rk2[r], rk2[0])
  BY <1>1, GoneSame DEF RanksInv
<1>3. PICK R, T : R = rk[0] /\ T = rk2[0]
  OBVIOUS
<1>4. RankInv(R, {}) /\ Gone(R, T, c) /\ c \in Chains(R)
  BY <1>1, <1>3 DEF RanksInv
<1>5. /\ OthersStay(R, T, {c}) /\ T.rec[c] = None
      /\ R.rec[c].state = "IDLE" => OthersStay(R, T, {})
  BY <1>4, GoneStays
<1>6. RanksInv(rk2)
  BY <1>1, <1>2 DEF RanksInv
<1>7. QED BY <1>3, <1>5, <1>6

\* The request of s ends and its chain is removed.
LEMMA RemovedRequest ==
  ASSUME ChainInv, NEW s \in Ids, req[s] # None, req[s].chain \in Chains(rank[0]),
         rank' = [r \in Ranks |-> RemoveChain(rank[r], req[s].chain)],
         req' = [req EXCEPT ![s] = None], active' = active \ {s}, next' = next,
         mode' \in {"up", "raised", "dead"}, mode' = "up" => mode = "up", faults' \in 0..MaxFaults
  PROVE  ChainState(rank', req', active', next', mode', faults')
<1>1. PICK rk, rk2, rq, rq2, nx, md, md2 :
        rk = rank /\ rk2 = rank' /\ rq = req /\ rq2 = req' /\ nx = next /\ md = mode /\ md2 = mode'
  OBVIOUS
<1>2. PICK c, R, T : c = rq[s].chain /\ R = rk[0] /\ T = rk2[0]
  OBVIOUS
<1>3. RanksInv(rk) /\ DriverInv(R, rq, nx, md) /\ 0 \in Ranks /\ conf \in Confs
      /\ active = {t \in Ids : rq[t] # None}
  BY <1>1, <1>2, RequestTurn
<1>4. RanksInv(rk2) /\ OthersStay(R, T, {c}) /\ T.rec[c] = None
  <2>1. c \in Chains(rk[0]) /\ rk2 = [r \in Ranks |-> RemoveChain(rk[r], c)]
    BY <1>1, <1>2
  <2>2. QED BY <1>2, <1>3, <2>1, RemovedKeeps
<1>5. Runs(R, c, s) /\ RankInv(R, {})
  <2>1. rk[0].rec[rq[s].chain] # None /\ rq[s] # None
    BY <1>1 DEF Chains
  <2>2. QED BY <1>2, <1>3, <2>1, RequestRuns DEF RanksInv
<1>6. DriverInv(T, rq2, nx, md2) /\ {t \in Ids : rq2[t] # None} = {t \in Ids : rq[t] # None} \ {s}
  <2>1. rq2 = [rq EXCEPT ![s] = None] /\ rq[s] # None /\ (md2 = "up" => md = "up")
    BY <1>1
  <2>2. Runs(R, rq[s].chain, s) /\ OthersStay(R, T, {rq[s].chain}) /\ T.rec[rq[s].chain] = None
    BY <1>2, <1>4, <1>5
  <2>3. EndsTurn(R, T, rq, rq2, nx, md, md2, s)
    BY <1>3, <1>5, <2>1, <2>2 DEF EndsTurn
  <2>4. QED BY <2>3, RequestEnds
<1>7. QED BY <1>1, <1>2, <1>3, <1>4, <1>6 DEF ChainState

\* The workers exit: nothing else changes.
LEMMA DiesKeeps ==
  ASSUME ChainInv, Dies, faults' \in 0..MaxFaults
  PROVE  ChainState(rank', req', active', next', mode', faults')
<1>1. mode' = "dead" /\ UNCHANGED <<rank, req, active, next>>
  BY DEF Dies
<1>2. DriverInv(rank[0], req, next, "dead")
  BY DriverMode DEF ChainInv, ChainState
<1>3. QED BY <1>1, <1>2 DEF ChainInv, ChainState

\* The count of failures stays within its bound.
LEMMA OneMoreFault ==
  ASSUME ChainInv, faults < MaxFaults, faults' = faults + 1 PROVE faults' \in 0..MaxFaults
BY ChainAssumption DEF ChainInv, ChainState

\* A step that fails.
LEMMA StepFailsKeeps ==
  ASSUME ChainInv, NEW s \in Ids, StepFails(s)
  PROVE  ChainState(rank', req', active', next', mode', faults') /\ conf' = conf
<1>1. /\ mode = "up" /\ s \in CanPrefill(rank[0]) \cup Decoding
      /\ faults < MaxFaults /\ faults' = faults + 1 /\ conf' = conf
  BY DEF StepFails
<1>2. req[s] # None
  BY <1>1 DEF CanPrefill, Waiting, Decoding, Requests
<1>3. faults' \in 0..MaxFaults
  BY <1>1, OneMoreFault
<1>4. CASE Dies
  BY <1>1, <1>3, <1>4, DiesKeeps
<1>5. CASE /\ conf.tp = 1 /\ rank' = [r \in Ranks |-> RemoveChain(rank[r], req[s].chain)]
           /\ req' = [req EXCEPT ![s] = None] /\ active' = active \ {s}
           /\ mode' = "raised" /\ UNCHANGED next
  <2>1. req[s].chain \in Chains(rank[0])
    <3>1. TurnOK(rank[0], s, req[s], next, mode) /\ req[s] \in Request
      BY <1>2, RequestTurn
    <3>2. QED BY <1>1, <3>1, RequestFields DEF TurnOK, Chains
  <2>2. QED BY <1>1, <1>2, <1>3, <1>5, <2>1, RemovedRequest
<1>6. QED BY <1>4, <1>5 DEF StepFails

\* abort_request of a running turn.
LEMMA AbortKeeps ==
  ASSUME ChainInv, NEW s \in Ids, AbortRequest(s)
  PROVE  ChainState(rank', req', active', next', mode', faults') /\ conf' = conf
<1>1. /\ mode \in {"up", "raised"} /\ s \in active /\ req[s].chain \in Chains(rank[0])
      /\ rank' = [r \in Ranks |-> RemoveChain(rank[r], req[s].chain)]
      /\ req' = [req EXCEPT ![s] = None] /\ active' = active \ {s}
      /\ UNCHANGED <<conf, next, mode, faults>>
  BY DEF AbortRequest
<1>2. req[s] # None /\ faults \in 0..MaxFaults
  BY <1>1 DEF ChainInv, ChainState
<1>3. QED BY <1>1, <1>2, RemovedRequest

\* discard_chain of an idle chain.
LEMMA DiscardKeeps ==
  ASSUME ChainInv, NEW c \in Ids, DiscardChain(c)
  PROVE  ChainState(rank', req', active', next', mode', faults') /\ conf' = conf
<1>1. /\ c \in IdleChains /\ rank' = [r \in Ranks |-> RemoveChain(rank[r], c)]
      /\ UNCHANGED <<conf, req, active, next, mode, faults>>
  BY DEF DiscardChain
<1>2. PICK rk, rk2 : rk = rank /\ rk2 = rank'
  OBVIOUS
<1>3. c \in Chains(rk[0]) /\ rk[0].rec[c].state = "IDLE" /\ rk2 = [r \in Ranks |-> RemoveChain(rk[r], c)]
  BY <1>1, <1>2 DEF IdleChains
<1>4. RanksInv(rk) /\ 0 \in Ranks /\ DriverInv(rk[0], req, next, mode)
  BY <1>2, ConfFacts DEF ChainInv, ChainState
<1>5. RanksInv(rk2) /\ OthersStay(rk[0], rk2[0], {})
  BY <1>3, <1>4, RemovedKeeps
<1>6. DriverInv(rk2[0], req, next, mode)
  BY <1>4, <1>5, DriverStay
<1>7. QED BY <1>1, <1>2, <1>5, <1>6, RanksOnly

-----------------------------------------------------------------------------
(* The copies' own progress *)

\* One rank learns that copies are over: the ranks still agree.
LEMMA OneRankMoves ==
  ASSUME ChainInv, NEW i \in Ranks, NEW T, RankInv(T, {}), Same(rank[i], T),
         rank' = [rank EXCEPT ![i] = T], UNCHANGED <<conf, req, active, next, mode, faults>>
  PROVE  ChainState(rank', req', active', next', mode', faults') /\ conf' = conf
<1>1. PICK rk, rk2 : rk = rank /\ rk2 = rank'
  OBVIOUS
<1>2. RanksInv(rk) /\ 0 \in Ranks /\ DriverInv(rk[0], req, next, mode)
  BY <1>1, ConfFacts DEF ChainInv, ChainState
<1>3. /\ rk2 = [rk EXCEPT ![i] = T] /\ rk = [r \in Ranks |-> rk[r]]
      /\ \A r \in Ranks : RankInv(rk[r], {}) /\ Same(rk[r], rk[0])
  BY <1>1, <1>2 DEF RanksInv
<1>4. rk2 = [r \in Ranks |-> rk2[r]] /\ rk2[i] = T /\ \A r \in Ranks : r # i => rk2[r] = rk[r]
  BY <1>3
<1>5. \A r \in Ranks : RankInv(rk2[r], {}) /\ Same(rk[r], rk2[r])
  <2>1. ASSUME NEW r \in Ranks PROVE RankInv(rk2[r], {}) /\ Same(rk[r], rk2[r])
    <3>1. CASE r = i
      BY <1>1, <1>4, <3>1
    <3>2. CASE r # i
      BY <1>3, <1>4, <3>2, SameEquivalence
    <3>3. QED BY <3>1, <3>2
  <2>2. QED BY <2>1
<1>6. \A r \in Ranks : Same(rk2[r], rk2[0])
  <2>1. ASSUME NEW r \in Ranks PROVE Same(rk2[r], rk2[0])
    <3>1. Same(rk2[r], rk[r]) /\ Same(rk[r], rk[0]) /\ Same(rk[0], rk2[0])
      BY <1>2, <1>3, <1>5, SameEquivalence
    <3>2. QED BY <3>1, SameEquivalence
  <2>2. QED BY <2>1
<1>7. RanksInv(rk2)
  BY <1>4, <1>5, <1>6 DEF RanksInv
<1>8. DriverInv(rk2[0], req, next, mode)
  BY <1>2, <1>5, SameDriver
<1>9. QED BY <1>1, <1>7, <1>8, RanksOnly

\* The device of a rank finishes its oldest copy.
LEMMA CopyDoneKeeps ==
  ASSUME ChainInv, NEW r \in Ranks, CopyDone(r)
  PROVE  ChainState(rank', req', active', next', mode', faults') /\ conf' = conf
<1>1. PICK R : R = rank[r]
  OBVIOUS
<1>2. PICK T : T = [R EXCEPT !.copies = Tail(@)]
  OBVIOUS
<1>3. RankInv(R, {}) /\ R.copies # <<>>
  BY <1>1 DEF ChainInv, ChainState, RanksInv, CopyDone
<1>4. R \in RankState /\ LruInv(R) /\ CopyInv(R) /\ OwnerInv(R) /\ RoomInv(R) /\ RecordsInv(R, {})
  BY <1>3 DEF RankInv
<1>5. /\ R.rec \in [Ids -> Record \cup {None}] /\ R.lru \in Seq(Ids)
      /\ R.kv \in [Ids -> Row \cup {None}] /\ R.snap \in [Ids -> Snapshot \cup {None}]
      /\ R.copies \in Seq(Ids)
  BY <1>4, RankParts
<1>6. /\ T.rec = R.rec /\ T.lru = R.lru /\ T.kv = R.kv /\ T.snap = R.snap
      /\ T.copies = Tail(R.copies) /\ IsRank(T)
  BY <1>2, <1>4 DEF RankState, IsRank
<1>7. /\ Tail(R.copies) \in Seq(Ids) /\ Range(Tail(R.copies)) \subseteq Range(R.copies)
      /\ IsInjective(R.copies) => IsInjective(Tail(R.copies))
  BY <1>3, <1>5, HeadTailFacts
<1>8. T \in RankState
  BY <1>5, <1>6, <1>7, IsRankState
<1>9. LruInv(T) /\ OwnerInv(T) /\ RoomInv(T) /\ RecordsInv(T, {})
  BY <1>4, <1>6 DEF LruInv, OwnerInv, RoomInv, RecordsInv, Chains, Rows
<1>10. CopyInv(T)
  BY <1>4, <1>6, <1>7 DEF CopyInv
<1>11. RankInv(T, {}) /\ Same(R, T)
  BY <1>6, <1>8, <1>9, <1>10 DEF RankInv, Same
<1>12. rank' = [rank EXCEPT ![r] = T] /\ UNCHANGED <<conf, req, active, next, mode, faults>>
  BY <1>1, <1>2 DEF CopyDone
<1>13. QED BY <1>1, <1>11, <1>12, OneRankMoves

\* The driver polls.
LEMMA PollDriverKeeps ==
  ASSUME ChainInv, PollDriver
  PROVE  ChainState(rank', req', active', next', mode', faults') /\ conf' = conf
<1>1. PICK R, T : R = rank[0] /\ T = Poll(R)
  OBVIOUS
<1>2. RankInv(R, {}) /\ 0 \in Ranks
  BY <1>1, ConfFacts DEF ChainInv, ChainState, RanksInv
<1>3. RankInv(T, {}) /\ Same(R, T)
  BY <1>1, <1>2, PollKeeps
<1>4. rank' = [rank EXCEPT ![0] = T] /\ UNCHANGED <<conf, req, active, next, mode, faults>>
  BY <1>1 DEF PollDriver
<1>5. QED BY <1>1, <1>2, <1>3, <1>4, OneRankMoves

-----------------------------------------------------------------------------
(* A step of the model: a chunk or a token, and the end of a turn *)

\* One step after the other, both about chain X.
LEMMA OthersStayAgain ==
  ASSUME NEW R, NEW A, NEW B, NEW X, OthersStay(R, A, X), OthersStay(A, B, X)
  PROVE  OthersStay(R, B, X)
BY DEF OthersStay

\* A step from R to T after which the request of s goes on with new counts.
StepsTurn(R, T, rq, rq2, nx, md, md2, s, g, d, w) ==
  /\ RankInv(R, {}) /\ DriverInv(R, rq, nx, md) /\ s \in Ids /\ rq[s] # None
  /\ Runs(R, rq[s].chain, s) /\ OthersStay(R, T, {rq[s].chain}) /\ (md2 = "up" => md = "up")
  /\ T.rec[rq[s].chain] # None => Runs(T, rq[s].chain, s)
  /\ Updated(rq, rq2, s, g, d, w) /\ (md2 = "up" => GoesOn(T, rq[s], s, g, d))

\* The request of s goes on, as RequestStep says.
LEMMA RequestSteps ==
  ASSUME NEW R, NEW T, NEW rq, NEW rq2, NEW nx, NEW md, NEW md2, NEW s, NEW g, NEW d, NEW w,
         StepsTurn(R, T, rq, rq2, nx, md, md2, s, g, d, w)
  PROVE  DriverInv(T, rq2, nx, md2) /\ {t \in Ids : rq2[t] # None} = {t \in Ids : rq[t] # None}
<1>1. /\ RankInv(R, {}) /\ DriverInv(R, rq, nx, md) /\ s \in Ids /\ rq[s] # None
      /\ Runs(R, rq[s].chain, s) /\ OthersStay(R, T, {rq[s].chain}) /\ (md2 = "up" => md = "up")
      /\ (T.rec[rq[s].chain] # None => Runs(T, rq[s].chain, s))
      /\ Updated(rq, rq2, s, g, d, w) /\ (md2 = "up" => GoesOn(T, rq[s], s, g, d))
  BY DEF StepsTurn
<1>2. QED BY <1>1, RequestStep

\* The rank once the turn of s is over and on its way to the host.
Over(R, c, s, n) ==
  IF Offload THEN Save(MakeHostRoom(FinishRecord(R, c, n), c), s) ELSE FinishRecord(R, c, n)

\* The end of a turn on one rank, with room for its snapshot on the host.
MayEnd(R, c, s, n) ==
  /\ RankInv(R, {}) /\ HoldsTurn(R, c, s, n) /\ conf \in Confs
  /\ Offload => R.kv[s].slots <= conf.host

\* What the end of a turn leaves of the rank.
EndedTurn(R, T, c, s) ==
  /\ RankInv(T, {}) /\ OthersStay(R, T, {c})
  /\ T.rec[c] # None => T.rec[c].seq = s /\ T.rec[c].state # "ACTIVE"

\* The finished chain as save_finished_chain finds it.
LEMMA FinishEnds ==
  ASSUME NEW R, NEW c, NEW s, NEW n, MayEnd(R, c, s, n), Offload
  PROVE  JustEnded(FinishRecord(R, c, n), c, s)
<1>1. PICK F : F = FinishRecord(R, c, n)
  OBVIOUS
<1>2. RankInv(R, {}) /\ HoldsTurn(R, c, s, n)
  BY DEF MayEnd
<1>3. RankInv(F, {c}) /\ Finished(R, F, c, s, n)
  BY <1>1, <1>2, FinishKeeps
<1>4. EndRecord(R.rec[c], R.kv[s], n) \in Record /\ Ended(EndRecord(R.rec[c], R.kv[s], n), s, n, R.kv[s].slots)
  BY <1>2, FinishFacts
<1>5. c \in Ids /\ R.rec \in [Ids -> Record \cup {None}]
  BY <1>2, RunsFacts, RankParts DEF HoldsTurn, RankInv
<1>6. F.rec[c] = EndRecord(R.rec[c], R.kv[s], n) /\ F.kv = R.kv
  BY <1>3, <1>5 DEF Finished
<1>7. c \in Chains(F) /\ F.rec[c].seq = s
  BY <1>4, <1>5, <1>6, NoneIsNoValue DEF Chains, Ended
<1>8. F.kv[s] # None /\ F.kv[s].slots <= conf.host
  BY <1>6 DEF MayEnd, HoldsTurn
<1>9. QED BY <1>1, <1>3, <1>7, <1>8 DEF JustEnded

\* There is room on the host for the finished turn.
LEMMA EndedSaves ==
  ASSUME NEW R, NEW c, NEW s, NEW n, MayEnd(R, c, s, n), Offload
  PROVE  /\ MaySave(MakeHostRoom(FinishRecord(R, c, n), c), c, s, n)
         /\ OthersStay(R, MakeHostRoom(FinishRecord(R, c, n), c), {c})
<1>1. PICK F, H : F = FinishRecord(R, c, n) /\ H = MakeHostRoom(FinishRecord(R, c, n), c)
  OBVIOUS
<1>2. RankInv(R, {}) /\ HoldsTurn(R, c, s, n) /\ JustEnded(F, c, s)
  BY <1>1, FinishEnds DEF MayEnd
<1>3. Finished(R, F, c, s, n) /\ Ended(EndRecord(R.rec[c], R.kv[s], n), s, n, R.kv[s].slots)
  BY <1>1, <1>2, FinishKeeps, FinishFacts
<1>4. c \in Ids /\ R.rec \in [Ids -> Record \cup {None}]
  BY <1>2, RunsFacts, RankParts DEF HoldsTurn, RankInv
<1>5. /\ F.rec[c] = EndRecord(R.rec[c], R.kv[s], n) /\ F.kv = R.kv /\ F.rec[c] # None
      /\ \A d \in Ids \ {c} : F.rec[d] = R.rec[d]
  BY <1>2, <1>3, <1>4 DEF Finished, JustEnded, Chains
<1>6. /\ RankInv(H, {c}) /\ HostFits(H, s, F.kv[s].slots)
      /\ \E V \in SUBSET (Chains(F) \ {c}) : HostFrame(F, H, V)
  BY <1>1, <1>2, HostRoomKeeps
<1>7. PICK V \in SUBSET (Chains(F) \ {c}) : HostFrame(F, H, V)
  BY <1>6
<1>8. H.kv = R.kv /\ H.rec[c] = F.rec[c]
  BY <1>4, <1>5, <1>7 DEF HostFrame
<1>9. MaySave(H, c, s, n)
  <2>1. conf.host > 0 /\ n \in 1..MaxLen /\ H.kv[s] # None /\ H.kv[s].chain = c /\ H.kv[s].toks = n
    BY <1>2, <1>8 DEF Offload, HoldsTurn
  <2>2. c \in Chains(H) /\ Ended(H.rec[c], s, n, H.kv[s].slots)
    BY <1>3, <1>4, <1>5, <1>8 DEF Chains
  <2>3. HostFits(H, s, H.kv[s].slots)
    BY <1>5, <1>6, <1>8
  <2>4. QED BY <1>6, <2>1, <2>2, <2>3 DEF MaySave
<1>10. OthersStay(R, H, {c})
  <2>1. ASSUME NEW d \in Ids \ {c}
        PROVE  H.rec[d] = R.rec[d] \/ (H.rec[d] = None /\ R.rec[d].state = "IDLE")
    <3>1. F.rec[d] = R.rec[d]
      BY <1>5
    <3>2. H.rec[d] = F.rec[d] \/ (H.rec[d] = None /\ F.rec[d].state = "IDLE")
      BY <1>7 DEF HostFrame
    <3>3. QED BY <3>1, <3>2
  <2>2. QED BY <1>8, <2>1 DEF OthersStay
<1>11. QED BY <1>1, <1>9, <1>10

\* The turn ends on a rank.
LEMMA OverKeeps ==
  ASSUME NEW R, NEW c, NEW s, NEW n, MayEnd(R, c, s, n)
  PROVE  EndedTurn(R, Over(R, c, s, n), c, s)
<1>1. PICK F, T : F = FinishRecord(R, c, n) /\ T = Over(R, c, s, n)
  OBVIOUS
<1>2. RankInv(R, {}) /\ HoldsTurn(R, c, s, n) /\ conf \in Confs
  BY DEF MayEnd
<1>3. c \in Ids /\ s \in Ids /\ R.rec \in [Ids -> Record \cup {None}] /\ RoomInv(R)
  BY <1>2, RunsFacts, RankParts DEF HoldsTurn, RankInv
<1>4. CASE ~Offload
  <2>1. R.snap[s] = None
    <3>1. conf.host \in Nat /\ ~(conf.host > 0)
      BY <1>2, <1>4, ConfFacts DEF Offload
    <3>2. conf.host = 0
      BY <3>1
    <3>3. QED BY <1>3, <3>2 DEF RoomInv
  <2>2. RankInv(F, {}) /\ Finished(R, F, c, s, n)
    BY <1>1, <1>2, <2>1, FinishKeeps
  <2>3. Ended(EndRecord(R.rec[c], R.kv[s], n), s, n, R.kv[s].slots)
    BY <1>2, FinishFacts
  <2>4. F.rec[c] = EndRecord(R.rec[c], R.kv[s], n) /\ F.kv = R.kv /\ \A d \in Ids \ {c} : F.rec[d] = R.rec[d]
    BY <1>3, <2>2 DEF Finished
  <2>5. OthersStay(R, F, {c})
    BY <2>4 DEF OthersStay
  <2>6. EndedTurn(R, F, c, s)
    BY <2>2, <2>3, <2>4, <2>5 DEF EndedTurn, Ended
  <2>7. QED BY <1>1, <1>4, <2>6 DEF Over
<1>5. CASE Offload
  <2>1. PICK H : H = MakeHostRoom(FinishRecord(R, c, n), c)
    OBVIOUS
  <2>2. MaySave(H, c, s, n) /\ OthersStay(R, H, {c})
    BY <1>5, <2>1, EndedSaves
  <2>3. T = Save(H, s)
    BY <1>1, <1>5, <2>1 DEF Over
  <2>4. RankInv(T, {}) /\ Saved(H, T, s)
    BY <2>2, <2>3, SaveKeeps
  <2>5. T.rec = H.rec /\ T.kv = H.kv /\ Ended(H.rec[c], s, n, H.kv[s].slots)
    BY <2>2, <2>4 DEF Saved, MaySave
  <2>6. OthersStay(R, T, {c})
    BY <2>2, <2>5 DEF OthersStay
  <2>7. EndedTurn(R, T, c, s)
    BY <2>4, <2>5, <2>6 DEF EndedTurn, Ended
  <2>8. QED BY <1>1, <2>7
<1>6. QED BY <1>4, <1>5

\* Ranks that agree still agree when the turn ends on both.
LEMMA OverSame ==
  ASSUME NEW R, NEW T, NEW c, NEW s, NEW n, MayEnd(R, c, s, n), MayEnd(T, c, s, n), Same(R, T)
  PROVE  Same(Over(R, c, s, n), Over(T, c, s, n))
<1>1. PICK A, B : A = FinishRecord(R, c, n) /\ B = FinishRecord(T, c, n)
  OBVIOUS
<1>2. /\ RankInv(R, {}) /\ HoldsTurn(R, c, s, n) /\ RankInv(T, {}) /\ HoldsTurn(T, c, s, n)
  BY DEF MayEnd
<1>3. Finished(R, A, c, s, n) /\ Finished(T, B, c, s, n)
  BY <1>1, <1>2, FinishKeeps
<1>4. Same(A, B)
  BY <1>3, FinishedSame
<1>5. CASE ~Offload
  BY <1>1, <1>4, <1>5 DEF Over
<1>6. CASE Offload
  <2>1. PICK H, J : H = MakeHostRoom(A, c) /\ J = MakeHostRoom(B, c)
    OBVIOUS
  <2>2. JustEnded(A, c, s) /\ JustEnded(B, c, s)
    BY <1>1, <1>6, FinishEnds
  <2>3. Same(H, J)
    BY <1>4, <2>1, <2>2, HostRoomSame
  <2>4. MaySave(H, c, s, n) /\ MaySave(J, c, s, n)
    BY <1>1, <1>6, <2>1, EndedSaves
  <2>5. Saved(H, Save(H, s), s) /\ Saved(J, Save(J, s), s)
    BY <2>4, SaveKeeps
  <2>6. s \in Ids
    BY <1>2, RunsFacts DEF HoldsTurn
  <2>7. Same(Save(H, s), Save(J, s))
    BY <2>3, <2>5, <2>6, SavedSame
  <2>8. QED BY <1>1, <1>6, <2>1, <2>7 DEF Over
<1>7. QED BY <1>5, <1>6

\* The finished chain is removed again.
LEMMA FinishRemoved ==
  ASSUME NEW R, NEW c, NEW s, NEW n, RankInv(R, {}), HoldsTurn(R, c, s, n)
  PROVE  /\ RankInv(RemoveChain(FinishRecord(R, c, n), c), {})
         /\ Gone(FinishRecord(R, c, n), RemoveChain(FinishRecord(R, c, n), c), c)
         /\ OthersStay(R, RemoveChain(FinishRecord(R, c, n), c), {c})
         /\ RemoveChain(FinishRecord(R, c, n), c).rec[c] = None
<1>1. PICK F, T : F = FinishRecord(R, c, n) /\ T = RemoveChain(FinishRecord(R, c, n), c)
  OBVIOUS
<1>2. RankInv(F, {c}) /\ Finished(R, F, c, s, n)
  BY <1>1, FinishKeeps
<1>3. c \in Ids /\ R.rec \in [Ids -> Record \cup {None}] /\ EndRecord(R.rec[c], R.kv[s], n) \in Record
  BY RunsFacts, RankParts, FinishFacts DEF HoldsTurn, RankInv
<1>4. F.rec[c] = EndRecord(R.rec[c], R.kv[s], n) /\ F.kv = R.kv /\ \A d \in Ids \ {c} : F.rec[d] = R.rec[d]
  BY <1>2, <1>3 DEF Finished
<1>5. c \in Chains(F)
  BY <1>3, <1>4, NoneIsNoValue DEF Chains
<1>6. {c} \subseteq {} \cup {c}
  OBVIOUS
<1>7. RankInv(RemoveChain(F, c), {}) /\ Gone(F, RemoveChain(F, c), c)
  BY <1>2, <1>5, <1>6, RemoveChainKeeps
<1>8. RankInv(T, {}) /\ Gone(F, T, c)
  BY <1>1, <1>7
<1>9. OthersStay(F, T, {c}) /\ T.rec[c] = None
  BY <1>2, <1>5, <1>8, GoneStays
<1>10. OthersStay(R, F, {c})
  BY <1>4 DEF OthersStay
<1>11. OthersStay(R, T, {c})
  BY <1>9, <1>10, OthersStayAgain
<1>12. QED BY <1>1, <1>8, <1>9, <1>11

\* Ranks that agree drop the same snapshots for the finished turn.
LEMMA RoomMadeSame ==
  ASSUME NEW R, NEW T, NEW c, NEW s, NEW n, MayEnd(R, c, s, n), MayEnd(T, c, s, n), Same(R, T), Offload
  PROVE  Same(MakeHostRoom(FinishRecord(R, c, n), c), MakeHostRoom(FinishRecord(T, c, n), c))
<1>1. PICK A, B : A = FinishRecord(R, c, n) /\ B = FinishRecord(T, c, n)
  OBVIOUS
<1>2. /\ RankInv(R, {}) /\ HoldsTurn(R, c, s, n) /\ RankInv(T, {}) /\ HoldsTurn(T, c, s, n)
  BY DEF MayEnd
<1>3. Finished(R, A, c, s, n) /\ Finished(T, B, c, s, n)
  BY <1>1, <1>2, FinishKeeps
<1>4. Same(A, B)
  BY <1>3, FinishedSame
<1>5. JustEnded(A, c, s) /\ JustEnded(B, c, s)
  BY <1>1, FinishEnds
<1>6. Same(MakeHostRoom(A, c), MakeHostRoom(B, c))
  BY <1>4, <1>5, HostRoomSame
<1>7. QED BY <1>1, <1>6

\* The finished chain is removed once the host victims have left.
LEMMA RoomRemoved ==
  ASSUME NEW R, NEW c, NEW s, NEW n, MayEnd(R, c, s, n), Offload
  PROVE  /\ RankInv(RemoveChain(MakeHostRoom(FinishRecord(R, c, n), c), c), {})
         /\ Gone(MakeHostRoom(FinishRecord(R, c, n), c), RemoveChain(MakeHostRoom(FinishRecord(R, c, n), c), c), c)
         /\ OthersStay(R, RemoveChain(MakeHostRoom(FinishRecord(R, c, n), c), c), {c})
         /\ RemoveChain(MakeHostRoom(FinishRecord(R, c, n), c), c).rec[c] = None
<1>1. PICK H, T : H = MakeHostRoom(FinishRecord(R, c, n), c) /\ T = RemoveChain(H, c)
  OBVIOUS
<1>2. MaySave(H, c, s, n) /\ OthersStay(R, H, {c})
  BY <1>1, EndedSaves
<1>3. RankInv(H, {c}) /\ c \in Chains(H)
  BY <1>2 DEF MaySave
<1>4. {c} \subseteq {} \cup {c}
  OBVIOUS
<1>5. RankInv(T, {}) /\ Gone(H, T, c)
  BY <1>1, <1>3, <1>4, RemoveChainKeeps
<1>6. OthersStay(H, T, {c}) /\ T.rec[c] = None
  BY <1>3, <1>5, GoneStays
<1>7. OthersStay(R, T, {c})
  BY <1>2, <1>6, OthersStayAgain
<1>8. QED BY <1>1, <1>5, <1>6, <1>7

\* The rows of a turn of n tokens, complete on every rank.
RowsHold(ranks, c, s, n) ==
  /\ RanksInv(ranks) /\ OthersStay(rank[0], ranks[0], {c})
  /\ \A r \in Ranks : HoldsTurn(ranks[r], c, s, n)

\* The request of a turn that steps, by its parts.
RequestParts(s, c, p, g, d, w) ==
  /\ req[s] # None /\ mode = "up" /\ c = req[s].chain /\ p = req[s].prompt /\ g = req[s].gen
  /\ d = req[s].done /\ w = req[s].window
  /\ c \in Ids /\ p \in Nat /\ g \in Nat /\ d \in Nat /\ w \in 0..Window /\ p >= 1 /\ g < MaxTokens
  /\ p + MaxTokens <= MaxLen /\ (IF g = 0 THEN d < p ELSE d <= p + g - 1)
  /\ MaxLen \in Nat /\ MaxTokens \in Nat

\* What the invariant says of them.
LEMMA RequestSplit ==
  ASSUME ChainInv, mode = "up", NEW s \in Ids, req[s] # None, NEW c, NEW p, NEW g, NEW d, NEW w,
         c = req[s].chain, p = req[s].prompt, g = req[s].gen, d = req[s].done, w = req[s].window
  PROVE  RequestParts(s, c, p, g, d, w) /\ HoldsDone(rank[0].kv[s], c, d)
<1>1. PICK q : q = req[s]
  OBVIOUS
<1>2. q \in Request /\ TurnOK(rank[0], s, q, next, "up")
  BY <1>1, RequestTurn
<1>3. c \in Ids /\ p \in 1..MaxLen /\ d \in 0..MaxLen /\ g \in 0..MaxTokens /\ w \in 0..Window
  BY <1>1, <1>2, RequestFields
<1>4. MaxLen \in Nat /\ MaxTokens \in Nat
  BY ChainAssumption
<1>5. /\ p + MaxTokens <= MaxLen /\ g < MaxTokens /\ (IF g = 0 THEN d < p ELSE d <= p + g - 1)
      /\ HoldsDone(rank[0].kv[s], c, d)
  BY <1>1, <1>2 DEF TurnOK
<1>6. p \in Nat /\ g \in Nat /\ d \in Nat /\ p >= 1
  BY <1>3, <1>4
<1>7. QED BY <1>3, <1>4, <1>5, <1>6 DEF RequestParts

\* The state after a step in which the request of s goes on.
LEMMA TurnSteps ==
  ASSUME ChainInv, mode = "up", NEW s \in Ids, req[s] # None, NEW rk2, RanksInv(rk2),
         OthersStay(rank[0], rk2[0], {req[s].chain}),
         rk2[0].rec[req[s].chain] # None => Runs(rk2[0], req[s].chain, s),
         NEW g, NEW d, NEW w, Updated(req, req', s, g, d, w), rank' = rk2, active' = active, next' = next,
         mode' \in {"up", "raised", "dead"}, mode' = "up" => GoesOn(rk2[0], req[s], s, g, d),
         faults' \in 0..MaxFaults
  PROVE  ChainState(rank', req', active', next', mode', faults')
<1>1. PICK rk, rq, rq2, nx, md, md2 :
        rk = rank /\ rq = req /\ rq2 = req' /\ nx = next /\ md = mode /\ md2 = mode'
  OBVIOUS
<1>2. PICK R, T : R = rk[0] /\ T = rk2[0]
  OBVIOUS
<1>3. RanksInv(rk) /\ DriverInv(R, rq, nx, md) /\ 0 \in Ranks /\ conf \in Confs
      /\ active = {t \in Ids : rq[t] # None}
  BY <1>1, <1>2, RequestTurn
<1>4. Runs(R, rq[s].chain, s) /\ RankInv(R, {})
  <2>1. md = "up" /\ rq[s] # None /\ DriverInv(rk[0], rq, nx, md)
    BY <1>1, <1>2, <1>3
  <2>2. \A r \in Ranks : Runs(rk[r], rq[s].chain, s)
    BY <1>3, <2>1, RequestRuns
  <2>3. QED BY <1>2, <1>3, <2>2 DEF RanksInv
<1>5. StepsTurn(R, T, rq, rq2, nx, md, md2, s, g, d, w)
  <2>1. rq[s] # None /\ md = "up" /\ OthersStay(R, T, {rq[s].chain}) /\ Updated(rq, rq2, s, g, d, w)
    BY <1>1, <1>2
  <2>2. T.rec[rq[s].chain] # None => Runs(T, rq[s].chain, s)
    BY <1>1, <1>2
  <2>3. md2 = "up" => GoesOn(T, rq[s], s, g, d)
    BY <1>1, <1>2
  <2>4. QED BY <1>3, <1>4, <2>1, <2>2, <2>3 DEF StepsTurn
<1>6. DriverInv(T, rq2, nx, md2) /\ {t \in Ids : rq2[t] # None} = {t \in Ids : rq[t] # None}
  BY <1>5, RequestSteps
<1>7. QED BY <1>1, <1>2, <1>3, <1>6 DEF ChainState

\* The turn is over on every rank; and the same with the chain removed again.
AllOver(rk2, ranks, c, s, n) == rk2 = [r \in Ranks |-> Over(ranks[r], c, s, n)]

AllRemoved(rk2, ranks, c, n) == rk2 = [r \in Ranks |-> RemoveChain(FinishRecord(ranks[r], c, n), c)]

AllDropped(rk2, ranks, c, n) ==
  rk2 = [r \in Ranks |-> RemoveChain(MakeHostRoom(FinishRecord(ranks[r], c, n), c), c)]

\* What the removal leaves of the ranks.
LeftAlone(rk2, ranks, c) ==
  RanksInv(rk2) /\ OthersStay(ranks[0], rk2[0], {c}) /\ rk2[0].rec[c] = None

\* The turn ends on every rank, and its request leaves.
LEMMA TurnEnds ==
  ASSUME ChainInv, mode = "up", NEW s \in Ids, req[s] # None, NEW ranks, NEW n,
         RowsHold(ranks, req[s].chain, s, n), Offload => ranks[0].kv[s].slots <= conf.host,
         AllOver(rank', ranks, req[s].chain, s, n),
         req' = [req EXCEPT ![s] = None], active' = active \ {s}, UNCHANGED <<next, mode, faults>>
  PROVE  ChainState(rank', req', active', next', mode', faults')
<1>1. PICK rk, rk2, rq, rq2, nx, md, c :
        rk = rank /\ rk2 = rank' /\ rq = req /\ rq2 = req' /\ nx = next /\ md = mode /\ c = req[s].chain
  OBVIOUS
<1>2. PICK R, A, T : R = rk[0] /\ A = ranks[0] /\ T = rk2[0]
  OBVIOUS
<1>3. RanksInv(rk) /\ DriverInv(R, rq, nx, md) /\ 0 \in Ranks /\ conf \in Confs
      /\ active = {t \in Ids : rq[t] # None} /\ faults \in 0..MaxFaults
  BY <1>1, <1>2, RequestTurn
<1>4. Runs(R, rq[s].chain, s) /\ RankInv(R, {})
  <2>1. md = "up" /\ rq[s] # None /\ DriverInv(rk[0], rq, nx, md)
    BY <1>1, <1>2, <1>3
  <2>2. \A r \in Ranks : Runs(rk[r], rq[s].chain, s)
    BY <1>3, <2>1, RequestRuns
  <2>3. QED BY <1>2, <1>3, <2>2 DEF RanksInv
<1>5. \A r \in Ranks : MayEnd(ranks[r], c, s, n) /\ Same(ranks[r], A)
  <2>1. \A r \in Ranks : RankInv(ranks[r], {}) /\ Same(ranks[r], A) /\ HoldsTurn(ranks[r], c, s, n)
                          /\ ranks[r].kv = A.kv
    BY <1>1, <1>2 DEF RowsHold, RanksInv, Same
  <2>2. Offload => A.kv[s].slots <= conf.host
    BY <1>2
  <2>3. QED BY <1>3, <2>1, <2>2 DEF MayEnd
<1>6. rk2 = [r \in Ranks |-> rk2[r]] /\ \A r \in Ranks : rk2[r] = Over(ranks[r], c, s, n)
  BY <1>1 DEF AllOver
<1>7. \A r \in Ranks : EndedTurn(ranks[r], rk2[r], c, s)
  BY <1>5, <1>6, OverKeeps
<1>8. \A r \in Ranks : Same(rk2[r], rk2[0])
  <2>1. ASSUME NEW r \in Ranks PROVE Same(rk2[r], rk2[0])
    <3>1. PICK B : B = ranks[r]
      OBVIOUS
    <3>2. MayEnd(B, c, s, n) /\ MayEnd(A, c, s, n) /\ Same(B, A)
      BY <1>2, <1>3, <1>5, <3>1
    <3>3. Same(Over(B, c, s, n), Over(A, c, s, n))
      BY <3>2, OverSame
    <3>4. QED BY <1>2, <1>3, <1>6, <3>1, <3>3
  <2>2. QED BY <2>1
<1>9. RanksInv(rk2)
  <2>1. rk2 = [r \in Ranks |-> rk2[r]]
    BY <1>6
  <2>2. QED BY <1>7, <1>8, <2>1 DEF RanksInv, EndedTurn
<1>10. /\ OthersStay(R, T, {c})
       /\ T.rec[c] # None => T.rec[c].seq = s /\ T.rec[c].state # "ACTIVE"
  <2>1. EndedTurn(A, T, c, s)
    BY <1>2, <1>3, <1>7
  <2>2. OthersStay(R, A, {c})
    BY <1>1, <1>2 DEF RowsHold
  <2>3. OthersStay(R, T, {c})
    BY <2>1, <2>2, OthersStayAgain DEF EndedTurn
  <2>4. QED BY <2>1, <2>3 DEF EndedTurn
<1>11. EndsTurn(R, T, rq, rq2, nx, md, md, s)
  <2>1. c = rq[s].chain /\ rq[s] # None /\ rq2 = [rq EXCEPT ![s] = None]
    BY <1>1
  <2>2. QED BY <1>3, <1>4, <1>10, <2>1 DEF EndsTurn
<1>12. DriverInv(T, rq2, nx, md) /\ {t \in Ids : rq2[t] # None} = {t \in Ids : rq[t] # None} \ {s}
  BY <1>11, RequestEnds
<1>13. QED BY <1>1, <1>2, <1>3, <1>9, <1>12 DEF ChainState

\* The finished chain is removed on every rank.
LEMMA RanksRemoved ==
  ASSUME NEW rk2, NEW ranks, NEW c, NEW s, NEW n, RowsHold(ranks, c, s, n), AllRemoved(rk2, ranks, c, n),
         0 \in Ranks
  PROVE  LeftAlone(rk2, ranks, c)
<1>1. PICK A : A = ranks[0]
  OBVIOUS
<1>2. rk2 = [r \in Ranks |-> RemoveChain(FinishRecord(ranks[r], c, n), c)]
  BY DEF AllRemoved
<1>3. ASSUME NEW r \in Ranks
      PROVE  /\ RankInv(rk2[r], {}) /\ Same(rk2[r], rk2[0]) /\ OthersStay(ranks[r], rk2[r], {c})
             /\ rk2[r].rec[c] = None
  <2>1. PICK B, F, G : B = ranks[r] /\ F = FinishRecord(B, c, n) /\ G = FinishRecord(A, c, n)
    OBVIOUS
  <2>2. /\ RankInv(B, {}) /\ HoldsTurn(B, c, s, n) /\ Same(B, A)
        /\ RankInv(A, {}) /\ HoldsTurn(A, c, s, n)
    BY <1>1, <2>1 DEF RowsHold, RanksInv
  <2>3. /\ RankInv(RemoveChain(F, c), {}) /\ Gone(F, RemoveChain(F, c), c)
        /\ OthersStay(B, RemoveChain(F, c), {c}) /\ RemoveChain(F, c).rec[c] = None
    BY <2>1, <2>2, FinishRemoved
  <2>4. Gone(G, RemoveChain(G, c), c)
    BY <2>1, <2>2, FinishRemoved
  <2>5. Finished(B, F, c, s, n) /\ Finished(A, G, c, s, n)
    BY <2>1, <2>2, FinishKeeps
  <2>6. Same(F, G)
    BY <2>2, <2>5, FinishedSame
  <2>7. Same(RemoveChain(F, c), RemoveChain(G, c))
    BY <2>3, <2>4, <2>6, GoneSame
  <2>8. rk2[r] = RemoveChain(F, c) /\ rk2[0] = RemoveChain(G, c)
    BY <1>1, <1>2, <2>1
  <2>9. QED BY <2>1, <2>3, <2>7, <2>8
<1>4. RanksInv(rk2)
  BY <1>2, <1>3 DEF RanksInv
<1>5. QED BY <1>3, <1>4 DEF LeftAlone

\* The same once the host victims have left.
LEMMA RanksDropped ==
  ASSUME NEW rk2, NEW ranks, NEW c, NEW s, NEW n, RowsHold(ranks, c, s, n), AllDropped(rk2, ranks, c, n),
         0 \in Ranks, conf \in Confs, Offload, ranks[0].kv[s].slots <= conf.host
  PROVE  LeftAlone(rk2, ranks, c)
<1>1. PICK A : A = ranks[0]
  OBVIOUS
<1>2. rk2 = [r \in Ranks |-> RemoveChain(MakeHostRoom(FinishRecord(ranks[r], c, n), c), c)]
  BY DEF AllDropped
<1>3. ASSUME NEW r \in Ranks
      PROVE  /\ RankInv(rk2[r], {}) /\ Same(rk2[r], rk2[0]) /\ OthersStay(ranks[r], rk2[r], {c})
             /\ rk2[r].rec[c] = None
  <2>1. PICK B, H, J : B = ranks[r] /\ H = MakeHostRoom(FinishRecord(B, c, n), c)
                       /\ J = MakeHostRoom(FinishRecord(A, c, n), c)
    OBVIOUS
  <2>2. /\ RankInv(B, {}) /\ HoldsTurn(B, c, s, n) /\ Same(B, A)
        /\ RankInv(A, {}) /\ HoldsTurn(A, c, s, n)
    BY <1>1, <2>1 DEF RowsHold, RanksInv
  <2>3. MayEnd(A, c, s, n) /\ MayEnd(B, c, s, n)
    BY <1>1, <2>2 DEF MayEnd, Same
  <2>4. Same(H, J)
    BY <2>1, <2>2, <2>3, RoomMadeSame
  <2>5. /\ RankInv(RemoveChain(H, c), {}) /\ Gone(H, RemoveChain(H, c), c)
        /\ OthersStay(B, RemoveChain(H, c), {c}) /\ RemoveChain(H, c).rec[c] = None
    BY <2>1, <2>3, RoomRemoved
  <2>6. Gone(J, RemoveChain(J, c), c)
    BY <2>1, <2>3, RoomRemoved
  <2>7. Same(RemoveChain(H, c), RemoveChain(J, c))
    BY <2>4, <2>5, <2>6, GoneSame
  <2>8. rk2[r] = RemoveChain(H, c) /\ rk2[0] = RemoveChain(J, c)
    BY <1>1, <1>2, <2>1
  <2>9. QED BY <2>1, <2>5, <2>7, <2>8
<1>4. RanksInv(rk2)
  BY <1>2, <1>3 DEF RanksInv
<1>5. QED BY <1>3, <1>4 DEF LeftAlone

\* The finished chain is gone from every rank, and its request stays.
LEMMA TurnRemoved ==
  ASSUME ChainInv, mode = "up", NEW s \in Ids, req[s] # None, NEW ranks, NEW n,
         RowsHold(ranks, req[s].chain, s, n), LeftAlone(rank', ranks, req[s].chain),
         NEW g, NEW d, NEW w, Updated(req, req', s, g, d, w), mode' = "raised", UNCHANGED <<active, next>>,
         faults' \in 0..MaxFaults
  PROVE  ChainState(rank', req', active', next', mode', faults')
<1>1. PICK rk2, c, A, T : rk2 = rank' /\ c = req[s].chain /\ A = ranks[0] /\ T = rk2[0]
  OBVIOUS
<1>2. RanksInv(rk2) /\ OthersStay(A, T, {c}) /\ T.rec[c] = None
  BY <1>1 DEF LeftAlone
<1>3. OthersStay(rank[0], rk2[0], {c}) /\ rk2[0].rec[c] = None
  <2>1. PICK R : R = rank[0]
    OBVIOUS
  <2>2. OthersStay(R, A, {c})
    BY <1>1, <2>1 DEF RowsHold
  <2>3. OthersStay(R, T, {c})
    BY <1>2, <2>2, OthersStayAgain
  <2>4. QED BY <1>1, <1>2, <2>1, <2>3
<1>4. QED
  <2>1. rank' = rk2 /\ OthersStay(rank[0], rk2[0], {req[s].chain}) /\ rk2[0].rec[req[s].chain] = None
    BY <1>1, <1>3
  <2>2. mode' \in {"up", "raised", "dead"} /\ mode' # "up" /\ active' = active /\ next' = next
    OBVIOUS
  <2>3. QED BY <1>2, <2>1, <2>2, TurnSteps

\* The end of a turn, whichever way it goes.
LEMMA FinishTurnKeeps ==
  ASSUME ChainInv, mode = "up", NEW s \in Ids, req[s] # None, NEW ranks, NEW n,
         n = req[s].prompt + req[s].gen, RowsHold(ranks, req[s].chain, s, n), FinishTurn(ranks, s, n + 1)
  PROVE  ChainState(rank', req', active', next', mode', faults')
<1>1. PICK c, p, g, d, w, gg :
        c = req[s].chain /\ p = req[s].prompt /\ g = req[s].gen /\ d = req[s].done /\ w = req[s].window
        /\ gg = req[s].gen + 1
  OBVIOUS
<1>2. RequestParts(s, c, p, g, d, w)
  BY <1>1, RequestSplit
<1>3. n \in Nat /\ (n + 1) - 1 = n /\ gg \in 0..MaxTokens /\ n \in 0..MaxLen
  BY <1>1, <1>2 DEF RequestParts
<1>4. 0 \in 0..Window /\ req \in [Ids -> Request \cup {None}] /\ faults \in 0..MaxFaults /\ 0 \in Ranks /\ conf \in Confs
  BY RequestTurn, ChainAssumption
<1>5. CASE /\ rank' = ranks /\ mode' = "raised"
           /\ req' = [req EXCEPT ![s].gen = @ + 1, ![s].done = (n + 1) - 1]
           /\ UNCHANGED <<active, next, faults>>
  <2>1. req' = [req EXCEPT ![s].gen = gg, ![s].done = n]
    BY <1>1, <1>3, <1>5, Zenon
  <2>2. Updated(req, [req EXCEPT ![s].gen = gg, ![s].done = n], s, gg, n, w)
    BY <1>1, <1>3, <1>4, RequestUpdates
  <2>3. Updated(req, req', s, gg, n, w)
    BY <2>1, <2>2, Zenon
  <2>4. RanksInv(ranks) /\ OthersStay(rank[0], ranks[0], {req[s].chain}) /\ Runs(ranks[0], req[s].chain, s)
    BY <1>4 DEF RowsHold, HoldsTurn
  <2>5. mode' \in {"up", "raised", "dead"} /\ mode' # "up" /\ active' = active /\ next' = next /\ faults' \in 0..MaxFaults
    BY <1>4, <1>5
  <2>6. QED BY <1>5, <2>3, <2>4, <2>5, TurnSteps
<1>6. CASE Dies /\ faults' \in 0..MaxFaults
  BY <1>6, DiesKeeps
<1>7. CASE /\ LeftAlone(rank', ranks, req[s].chain)
           /\ req' = [req EXCEPT ![s].gen = @ + 1, ![s].done = (n + 1) - 1, ![s].window = 0]
           /\ mode' = "raised" /\ UNCHANGED <<active, next>> /\ faults' \in 0..MaxFaults
  <2>1. req' = [req EXCEPT ![s].gen = gg, ![s].done = n, ![s].window = 0]
    BY <1>1, <1>3, <1>7, Zenon
  <2>2. Updated(req, [req EXCEPT ![s].gen = gg, ![s].done = n, ![s].window = 0], s, gg, n, 0)
    BY <1>1, <1>3, <1>4, RequestUpdates
  <2>3. Updated(req, req', s, gg, n, 0)
    BY <2>1, <2>2, Zenon
  <2>4. QED BY <1>7, <2>3, TurnRemoved
<1>8. ~(Offload /\ FinishRecord(ranks[0], c, (n + 1) - 1).kv[s].slots > conf.host)
        => (Offload => ranks[0].kv[s].slots <= conf.host)
  <2>1. PICK A, F : A = ranks[0] /\ F = FinishRecord(A, c, n)
    OBVIOUS
  <2>2. RankInv(A, {}) /\ HoldsTurn(A, c, s, n)
    BY <1>1, <1>4, <2>1 DEF RowsHold, RanksInv
  <2>3. F.kv = A.kv
    <3>1. Finished(A, F, c, s, n)
      BY <2>1, <2>2, FinishKeeps
    <3>2. QED BY <3>1 DEF Finished
  <2>4. A.kv[s].slots \in Nat /\ conf.host \in Nat
    <3>1. A.kv \in [Ids -> Row \cup {None}] /\ A.kv[s] # None
      BY <2>2, RankParts DEF RankInv, HoldsTurn
    <3>2. A.kv[s] \in Row
      BY <3>1
    <3>3. QED BY <1>2, <1>4, <3>2, ConfFacts DEF Row, RequestParts
  <2>5. FinishRecord(ranks[0], c, (n + 1) - 1) = F
    BY <1>3, <2>1, Zenon
  <2>6. QED BY <2>1, <2>3, <2>4, <2>5
<1>9. CASE /\ ~(Offload /\ FinishRecord(ranks[0], c, (n + 1) - 1).kv[s].slots > conf.host)
           /\ rank' = [r \in Ranks |-> IF Offload THEN Save(MakeHostRoom(FinishRecord(ranks[r], c, (n + 1) - 1), c), s)
                                       ELSE FinishRecord(ranks[r], c, (n + 1) - 1)]
           /\ req' = [req EXCEPT ![s] = None] /\ active' = active \ {s} /\ UNCHANGED <<next, mode, faults>>
  <2>1. AllOver(rank', ranks, req[s].chain, s, n)
    BY <1>1, <1>3, <1>9, Zenon DEF Over, AllOver
  <2>2. QED BY <1>8, <1>9, <2>1, TurnEnds
<1>10. CASE /\ IF conf.tp > 1 THEN Dies
               ELSE /\ rank' = [r \in Ranks |-> RemoveChain(FinishRecord(ranks[r], c, (n + 1) - 1), c)]
                    /\ req' = [req EXCEPT ![s].gen = @ + 1, ![s].done = (n + 1) - 1, ![s].window = 0]
                    /\ mode' = "raised" /\ UNCHANGED <<active, next>>
            /\ UNCHANGED faults
  <2>1. faults' \in 0..MaxFaults
    BY <1>4, <1>10
  <2>2. CASE conf.tp > 1
    BY <1>6, <1>10, <2>1, <2>2
  <2>3. CASE ~(conf.tp > 1)
    <3>1. rank' = [r \in Ranks |-> RemoveChain(FinishRecord(ranks[r], c, (n + 1) - 1), c)]
      BY <1>10, <2>3
    <3>2. AllRemoved(rank', ranks, req[s].chain, n)
      BY <1>1, <1>3, <3>1, Zenon DEF AllRemoved
    <3>3. LeftAlone(rank', ranks, req[s].chain)
      BY <1>4, <3>2, RanksRemoved
    <3>4. QED BY <1>7, <1>10, <2>1, <2>3, <3>3
  <2>4. QED BY <2>2, <2>3
<1>11. CASE /\ Offload /\ ~(Offload /\ FinishRecord(ranks[0], c, (n + 1) - 1).kv[s].slots > conf.host)
            /\ faults < MaxFaults /\ faults' = faults + 1
            /\ IF conf.tp > 1 THEN Dies
               ELSE /\ rank' = [r \in Ranks |-> RemoveChain(MakeHostRoom(FinishRecord(ranks[r], c, (n + 1) - 1), c), c)]
                    /\ req' = [req EXCEPT ![s].gen = @ + 1, ![s].done = (n + 1) - 1, ![s].window = 0]
                    /\ mode' = "raised" /\ UNCHANGED <<active, next>>
  <2>1. faults' \in 0..MaxFaults
    BY <1>4, <1>11, OneMoreFault
  <2>2. CASE conf.tp > 1
    BY <1>6, <1>11, <2>1, <2>2
  <2>3. CASE ~(conf.tp > 1)
    <3>1. rank' = [r \in Ranks |-> RemoveChain(MakeHostRoom(FinishRecord(ranks[r], c, (n + 1) - 1), c), c)]
      BY <1>11, <2>3
    <3>2. AllDropped(rank', ranks, req[s].chain, n)
      BY <1>1, <1>3, <3>1, Zenon DEF AllDropped
    <3>3. ranks[0].kv[s].slots <= conf.host
      BY <1>8, <1>11
    <3>4. LeftAlone(rank', ranks, req[s].chain)
      BY <1>4, <1>11, <3>2, <3>3, RanksDropped
    <3>5. QED BY <1>7, <1>11, <2>1, <2>3, <3>4
  <2>4. QED BY <2>2, <2>3
<1>12. QED BY <1>1, <1>4, <1>5, <1>9, <1>10, <1>11 DEF FinishTurn

\* A sampled token ends the turn or counts.
LEMMA SampledKeeps ==
  ASSUME ChainInv, mode = "up", NEW s \in Ids, req[s] # None, NEW ranks, NEW n,
         n = req[s].prompt + req[s].gen, RowsHold(ranks, req[s].chain, s, n),
         NEW window \in 0..Window, Sampled(ranks, s, window)
  PROVE  ChainState(rank', req', active', next', mode', faults')
<1>1. PICK c, p, g, d, w, gg :
        c = req[s].chain /\ p = req[s].prompt /\ g = req[s].gen /\ d = req[s].done /\ w = req[s].window
        /\ gg = req[s].gen + 1
  OBVIOUS
<1>2. RequestParts(s, c, p, g, d, w)
  BY <1>1, RequestSplit
<1>3. n \in Nat /\ (n + 1) - 1 = n /\ gg \in 0..MaxTokens /\ n \in 0..MaxLen /\ n # 0 /\ gg # 0 /\ n <= p + gg - 1
  BY <1>1, <1>2 DEF RequestParts
<1>4. req \in [Ids -> Request \cup {None}] /\ faults \in 0..MaxFaults /\ 0 \in Ranks
  BY RequestTurn
<1>5. CASE FinishTurn(ranks, s, n + 1)
  BY <1>5, FinishTurnKeeps
<1>6. CASE /\ req[s].gen + 1 < MaxTokens /\ rank' = ranks
           /\ req' = [req EXCEPT ![s].gen = @ + 1, ![s].done = (n + 1) - 1, ![s].window = window]
           /\ UNCHANGED <<active, next, mode, faults>>
  <2>1. req' = [req EXCEPT ![s].gen = gg, ![s].done = n, ![s].window = window]
    BY <1>1, <1>3, <1>6, Zenon
  <2>2. Updated(req, [req EXCEPT ![s].gen = gg, ![s].done = n, ![s].window = window], s, gg, n, window)
    BY <1>3, <1>4, RequestUpdates
  <2>3. Updated(req, req', s, gg, n, window)
    BY <2>1, <2>2, Zenon
  <2>4. RanksInv(ranks) /\ OthersStay(rank[0], ranks[0], {req[s].chain}) /\ HoldsTurn(ranks[0], req[s].chain, s, n)
    BY <1>4 DEF RowsHold
  <2>5. GoesOn(ranks[0], req[s], s, gg, n)
    <3>1. PICK A, q : A = ranks[0] /\ q = req[s]
      OBVIOUS
    <3>2. A.rec[q.chain] # None /\ HoldsDone(A.kv[s], q.chain, n)
      BY <1>3, <2>4, <3>1 DEF HoldsTurn, Runs, Chains, HoldsDone
    <3>3. gg < MaxTokens /\ n <= q.prompt + gg - 1
      BY <1>1, <1>3, <1>6, <3>1
    <3>4. QED BY <1>3, <3>1, <3>2, <3>3 DEF GoesOn
  <2>6. mode' \in {"up", "raised", "dead"} /\ active' = active /\ next' = next /\ faults' \in 0..MaxFaults
    BY <1>4, <1>6
  <2>7. Runs(ranks[0], req[s].chain, s)
    BY <2>4 DEF HoldsTurn
  <2>8. QED BY <1>6, <2>3, <2>4, <2>5, <2>6, <2>7, TurnSteps
<1>7. QED BY <1>5, <1>6 DEF Sampled

\* The rows of a turn, one chunk or one token later.
RowsGrew(ranks, c, s, m) ==
  /\ RanksInv(ranks) /\ OthersStay(rank[0], ranks[0], {c})
  /\ \A r \in Ranks : /\ Runs(ranks[r], c, s) /\ ranks[r].kv[s] # None
                      /\ ranks[r].kv[s].chain = c /\ ranks[r].kv[s].toks = m

\* Every rank computes the same chunk.
LEMMA AllGrow ==
  ASSUME ChainInv, mode = "up", NEW s \in Ids, req[s] # None, NEW n, NEW last \in BOOLEAN,
         MayGrow(rank[0], rank[0].kv[s], req[s].chain, n),
         NEW ranks, ranks = [r \in Ranks |-> Grown(rank[r], s, n, last)]
  PROVE  RowsGrew(ranks, req[s].chain, s, req[s].done + n)
<1>1. PICK c, p, g, d, w :
        c = req[s].chain /\ p = req[s].prompt /\ g = req[s].gen /\ d = req[s].done /\ w = req[s].window
  OBVIOUS
<1>2. RequestParts(s, c, p, g, d, w) /\ HoldsDone(rank[0].kv[s], c, d)
  BY <1>1, RequestSplit
<1>3. RanksInv(rank) /\ DriverInv(rank[0], req, next, mode) /\ 0 \in Ranks
  BY RequestTurn
<1>4. PICK R, row, q, x : R = rank[0] /\ row = rank[0].kv[s] /\ q = GrownRecord(rank[0].rec[c], last)
                          /\ x = GrownRow(rank[0].kv[s], c, n, last)
  OBVIOUS
<1>5. \A r \in Ranks : Runs(rank[r], c, s) /\ RankInv(rank[r], {}) /\ Same(rank[r], R)
  <2>1. PICK rk, rq, nx, md : rk = rank /\ rq = req /\ nx = next /\ md = mode
    OBVIOUS
  <2>2. RanksInv(rk) /\ DriverInv(rk[0], rq, nx, md) /\ rq[s] # None /\ md = "up"
    BY <1>3, <2>1
  <2>3. \A r \in Ranks : Runs(rk[r], rq[s].chain, s)
    BY <1>3, <2>2, RequestRuns
  <2>4. QED BY <1>1, <1>3, <1>4, <2>1, <2>3 DEF RanksInv
<1>6. (IF row = None THEN 0 ELSE row.toks) = d
  BY <1>2, <1>4 DEF HoldsDone
<1>7. ASSUME NEW r \in Ranks
      PROVE  /\ Grew(rank[r], ranks[r], c, s, n) /\ OnlyRow(rank[r], ranks[r], c, s, q, x)
             /\ rank[r].kv[s] = row /\ Same(rank[r], R)
  <2>1. PICK T : T = rank[r]
    OBVIOUS
  <2>2. RankInv(T, {}) /\ Runs(T, c, s) /\ T.rec = R.rec /\ T.kv = R.kv /\ T \in RankState /\ Same(T, R)
    BY <1>5, <2>1 DEF Same, RankInv
  <2>3. c \in Ids /\ T.rec[c] \in Record
    BY <2>2, RunsFacts
  <2>4. Free(T) = Free(R) /\ FreeRows(T) = FreeRows(R)
    BY <2>2 DEF Free, FreeRows, Rows
  <2>5. MayGrow(T, T.kv[s], c, n)
    <3>1. MayGrow(R, R.kv[s], c, n)
      BY <1>1, <1>4
    <3>2. QED BY <2>2, <2>4, <3>1 DEF MayGrow
  <2>6. Grew(T, Grown(T, s, n, last), c, s, n)
    BY <1>1, <2>2, <2>5, GrownKeeps
  <2>7. OnlyRow(T, Grown(T, s, n, last), c, s, GrownRecord(T.rec[c], last), GrownRow(T.kv[s], c, n, last))
    BY <1>1, <2>2, <2>3, <2>5, GrownIsRow
  <2>8. ranks[r] = Grown(T, s, n, last) /\ GrownRecord(T.rec[c], last) = q /\ GrownRow(T.kv[s], c, n, last) = x
    BY <1>4, <2>1, <2>2
  <2>9. Grew(T, ranks[r], c, s, n) /\ OnlyRow(T, ranks[r], c, s, q, x)
    BY <2>6, <2>7, <2>8, Zenon
  <2>10. QED BY <1>4, <2>1, <2>2, <2>9
<1>8. \A r \in Ranks : Same(ranks[r], ranks[0])
  <2>1. ASSUME NEW r \in Ranks PROVE Same(ranks[r], ranks[0])
    <3>1. PICK T, A, B : T = rank[r] /\ A = ranks[r] /\ B = ranks[0]
      OBVIOUS
    <3>2. Same(T, R) /\ OnlyRow(T, A, c, s, q, x) /\ OnlyRow(R, B, c, s, q, x)
      BY <1>3, <1>4, <1>7, <3>1
    <3>3. QED BY <3>1, <3>2, OnlyRowSame
  <2>2. QED BY <2>1
<1>9. RanksInv(ranks)
  <2>1. ranks = [r \in Ranks |-> ranks[r]]
    OBVIOUS
  <2>2. QED BY <1>7, <1>8, <2>1 DEF RanksInv, Grew
<1>10. OthersStay(R, ranks[0], {c})
  <2>1. PICK B : B = ranks[0]
    OBVIOUS
  <2>2. RankInv(R, {}) /\ Runs(R, c, s) /\ Grew(R, B, c, s, n)
    BY <1>3, <1>4, <1>5, <1>7, <2>1
  <2>3. OnlyOwner(R, c, s)
    BY <2>2, RunsFacts
  <2>4. QED BY <2>1, <2>2, <2>3, OneChainStays DEF Grew
<1>11. \A r \in Ranks : Runs(ranks[r], c, s) /\ ranks[r].kv[s] # None
                        /\ ranks[r].kv[s].chain = c /\ ranks[r].kv[s].toks = d + n
  BY <1>6, <1>7 DEF Grew
<1>12. QED BY <1>1, <1>4, <1>9, <1>10, <1>11 DEF RowsGrew

\* Rows that hold the whole turn.
LEMMA GrewWhole ==
  ASSUME NEW ranks, NEW c, NEW s, NEW m, RowsGrew(ranks, c, s, m), m \in 1..MaxLen PROVE RowsHold(ranks, c, s, m)
BY DEF RowsGrew, RowsHold, HoldsTurn

\* The turn goes on after a chunk or a replayed token.
LEMMA GrewOn ==
  ASSUME ChainInv, mode = "up", NEW s \in Ids, req[s] # None, NEW ranks, NEW m \in 1..MaxLen,
         RowsGrew(ranks, req[s].chain, s, m), IF req[s].gen = 0 THEN m < req[s].prompt ELSE m <= req[s].prompt + req[s].gen - 1,
         rank' = ranks, req' = [req EXCEPT ![s].done = m], UNCHANGED <<active, next, mode, faults>>
  PROVE  ChainState(rank', req', active', next', mode', faults')
<1>1. PICK c, p, g, d, w :
        c = req[s].chain /\ p = req[s].prompt /\ g = req[s].gen /\ d = req[s].done /\ w = req[s].window
  OBVIOUS
<1>2. RequestParts(s, c, p, g, d, w)
  BY <1>1, RequestSplit
<1>3. req \in [Ids -> Request \cup {None}] /\ faults \in 0..MaxFaults /\ 0 \in Ranks
  BY RequestTurn
<1>4. m \in 0..MaxLen /\ m # 0 /\ g \in 0..MaxTokens
  BY <1>2 DEF RequestParts
<1>5. Updated(req, [req EXCEPT ![s].done = m], s, g, m, w)
  <2>1. w \in 0..Window
    BY <1>2 DEF RequestParts
  <2>2. QED BY <1>1, <1>3, <1>4, <2>1, RequestUpdates
<1>6. Updated(req, req', s, g, m, w)
  BY <1>5, Zenon
<1>7. RanksInv(ranks) /\ OthersStay(rank[0], ranks[0], {req[s].chain}) /\ Runs(ranks[0], req[s].chain, s)
  BY <1>3 DEF RowsGrew
<1>8. GoesOn(ranks[0], req[s], s, g, m)
  <2>1. PICK A, q : A = ranks[0] /\ q = req[s]
    OBVIOUS
  <2>2. A.rec[q.chain] # None /\ HoldsDone(A.kv[s], q.chain, m)
    BY <1>3, <1>4, <2>1 DEF RowsGrew, Runs, Chains, HoldsDone
  <2>3. g < MaxTokens
    BY <1>2 DEF RequestParts
  <2>4. QED BY <1>1, <2>1, <2>2, <2>3 DEF GoesOn
<1>9. mode' \in {"up", "raised", "dead"} /\ active' = active /\ next' = next /\ faults' \in 0..MaxFaults
  BY <1>3
<1>10. QED BY <1>6, <1>7, <1>8, <1>9, TurnSteps

\* The windows the driver has promised are a number of slots.
LEMMA WindowsNat == ASSUME ChainInv PROVE Windows \in Nat
<1>1. PICK f : f = [s \in Ids |-> IF req[s] = None THEN 0 ELSE req[s].window]
  OBVIOUS
<1>2. \A s \in Ids : f[s] \in Nat
  <2>1. ASSUME NEW s \in Ids PROVE f[s] \in Nat
    <3>1. CASE req[s] = None
      BY <1>1, <3>1
    <3>2. CASE req[s] # None
      <4>1. req[s] \in Request
        BY <3>2, RequestTurn
      <4>2. req[s].window \in 0..Window /\ Window \in Nat
        BY <4>1, RequestFields, ChainAssumption
      <4>3. QED BY <1>1, <3>2, <4>2
    <3>3. QED BY <3>1, <3>2
  <2>2. QED BY <2>1
<1>3. SumFunctionOnSet(f, Ids) \in Nat
  BY <1>2, IdsFinite, SumNat
<1>4. QED BY <1>1, <1>3 DEF Windows

\* What a step may use is free.
LEMMA StepFreeFacts ==
  ASSUME ChainInv, StepFree(rank[0]) > 0
  PROVE  StepFree(rank[0]) \in Nat /\ StepFree(rank[0]) <= Free(rank[0]) /\ Free(rank[0]) \in Int
<1>1. PICK R, f, a, w : R = rank[0] /\ f = rank[0].kv /\ a = Free(rank[0]) /\ w = Windows
  OBVIOUS
<1>2. RankInv(R, {})
  BY <1>1, ConfFacts DEF ChainInv, ChainState, RanksInv
<1>3. Sized(f)
  BY <1>1, <1>2, RankSizes DEF RankInv
<1>4. a \in Int /\ w \in Nat
  <2>1. Used(f) \in Nat /\ NumSlots \in Nat
    BY <1>3, UsedNat, ChainAssumption
  <2>2. a = NumSlots - Used(f)
    BY <1>1 DEF Free
  <2>3. QED BY <1>1, <2>1, <2>2, WindowsNat
<1>5. StepFree(rank[0]) = IF a - w > 0 THEN a - w ELSE 0
  BY <1>1 DEF StepFree, Positive
<1>6. QED BY <1>1, <1>4, <1>5

\* A chunk is not empty, and no longer than what remains and what is free.
LEMMA ChunkFacts ==
  ASSUME NEW a \in Nat, NEW b \in Nat, NEW m, m = Min({ChunkSize, a, b}), a > 0, b > 0
  PROVE  m \in Nat /\ m > 0 /\ m <= a /\ m <= b
<1>1. PICK S : S = {ChunkSize, a, b}
  OBVIOUS
<1>2. ChunkSize \in Nat /\ ChunkSize > 0
  BY ChainAssumption
<1>3. S \in SUBSET Nat /\ S # {} /\ a \in S /\ b \in S /\ \A x \in S : x > 0
  BY <1>1, <1>2
<1>4. Min(S) \in S /\ \A x \in S : Min(S) <= x
  BY <1>3, MinFacts
<1>5. QED BY <1>1, <1>3, <1>4

\* A chunk of a prompt.
LEMMA RunPrefillKeeps ==
  ASSUME ChainInv, NEW s \in Ids, RunPrefill(s)
  PROVE  ChainState(rank', req', active', next', mode', faults') /\ conf' = conf
<1>1. PICK chunk : chunk = Min({ChunkSize, Remaining(s), StepFree(rank[0])})
  OBVIOUS
<1>2. PICK last : last = (chunk = Remaining(s))
  OBVIOUS
<1>3. PICK ranks : ranks = [r \in Ranks |-> Grown(rank[r], s, chunk, last)]
  OBVIOUS
<1>4. /\ mode = "up" /\ s \in CanPrefill(rank[0]) /\ conf' = conf
      /\ \/ last /\ req[s].gen = 0 /\ Sampled(ranks, s, 0)
         \/ /\ ~(last /\ req[s].gen = 0)
            /\ rank' = ranks /\ req' = [req EXCEPT ![s].done = @ + chunk]
            /\ UNCHANGED <<active, next, mode, faults>>
  BY <1>1, <1>2, <1>3 DEF RunPrefill
<1>5. /\ s \in Waiting /\ StepFree(rank[0]) > 0 /\ (s \in Partial \/ PromptFits(rank[0], s)) /\ last \in BOOLEAN
  BY <1>2, <1>4 DEF CanPrefill
<1>6. req[s] # None /\ req[s].done < req[s].prompt
  BY <1>5 DEF Waiting, Requests
<1>7. PICK c, p, g, d, w :
        c = req[s].chain /\ p = req[s].prompt /\ g = req[s].gen /\ d = req[s].done /\ w = req[s].window
  OBVIOUS
<1>8. RequestParts(s, c, p, g, d, w) /\ HoldsDone(rank[0].kv[s], c, d)
  BY <1>4, <1>6, <1>7, RequestSplit
<1>9. /\ p \in Nat /\ g \in Nat /\ d \in Nat /\ d < p /\ p + MaxTokens <= MaxLen /\ MaxTokens \in Nat /\ MaxLen \in Nat
      /\ g < MaxTokens
  BY <1>6, <1>7, <1>8 DEF RequestParts
<1>10. PICK a, b, e : a = Remaining(s) /\ b = StepFree(rank[0]) /\ e = Free(rank[0])
  OBVIOUS
<1>11. a \in Nat /\ a > 0 /\ a = p - d
  BY <1>7, <1>9, <1>10 DEF Remaining
<1>12. b \in Nat /\ b > 0 /\ b <= e /\ e \in Int
  BY <1>5, <1>10, StepFreeFacts
<1>13. chunk \in Nat /\ chunk > 0 /\ chunk <= a /\ chunk <= b
  BY <1>1, <1>10, <1>11, <1>12, ChunkFacts
<1>14. chunk <= e /\ d + chunk <= p /\ d + chunk <= MaxLen /\ d + chunk \in 1..MaxLen
  BY <1>9, <1>11, <1>12, <1>13
<1>15. MayGrow(rank[0], rank[0].kv[s], req[s].chain, chunk)
  <2>1. PICK R, row : R = rank[0] /\ row = rank[0].kv[s]
    OBVIOUS
  <2>2. CASE d = 0
    <3>1. row = None
      BY <1>8, <2>1, <2>2 DEF HoldsDone
    <3>2. s \notin Partial
      <4>1. ~(req[s].done > 0)
        BY <1>7, <2>2
      <4>2. QED BY <4>1, Zenon DEF Partial
    <3>3. FreeRows(R) > 0
      BY <1>5, <2>1, <3>1, <3>2 DEF PromptFits
    <3>4. 0 + chunk <= MaxLen
      BY <1>13, <1>14, <2>2
    <3>5. MayGrow(R, row, c, chunk)
      BY <1>10, <1>13, <1>14, <2>1, <3>1, <3>3, <3>4 DEF MayGrow
    <3>6. QED BY <1>7, <2>1, <3>5
  <2>3. CASE d # 0
    <3>1. row # None /\ row.chain = c /\ row.toks = d
      BY <1>8, <2>1, <2>3 DEF HoldsDone
    <3>2. MayGrow(R, row, c, chunk)
      BY <1>10, <1>13, <1>14, <2>1, <3>1 DEF MayGrow
    <3>3. QED BY <1>7, <2>1, <3>2
  <2>4. QED BY <2>2, <2>3
<1>16. RowsGrew(ranks, req[s].chain, s, req[s].done + chunk)
  BY <1>3, <1>4, <1>5, <1>6, <1>15, AllGrow
<1>17. PICK m : m = d + chunk
  OBVIOUS
<1>18. RowsGrew(ranks, req[s].chain, s, m) /\ m \in 1..MaxLen
  BY <1>7, <1>14, <1>16, <1>17
<1>19. CASE last /\ req[s].gen = 0 /\ Sampled(ranks, s, 0)
  <2>1. m = p /\ g = 0 /\ m = req[s].prompt + req[s].gen
    <3>1. chunk = a
      BY <1>2, <1>10, <1>19, Zenon
    <3>2. g = 0
      BY <1>7, <1>19
    <3>3. m = p /\ m = p + g
      BY <1>9, <1>11, <1>17, <3>1, <3>2
    <3>4. QED BY <1>7, <3>2, <3>3
  <2>2. RowsHold(ranks, req[s].chain, s, m)
    BY <1>18, GrewWhole
  <2>3. 0 \in 0..Window
    BY ChainAssumption
  <2>4. QED BY <1>4, <1>6, <1>19, <2>1, <2>2, <2>3, SampledKeeps
<1>20. CASE /\ ~(last /\ req[s].gen = 0)
            /\ rank' = ranks /\ req' = [req EXCEPT ![s].done = @ + chunk]
            /\ UNCHANGED <<active, next, mode, faults>>
  <2>1. req' = [req EXCEPT ![s].done = m]
    BY <1>7, <1>17, <1>20, Zenon
  <2>2. IF g = 0 THEN m < p ELSE m <= p + g - 1
    <3>1. CASE g = 0
      <4>1. chunk # a
        BY <1>2, <1>7, <1>10, <1>20, <3>1
      <4>2. QED BY <1>9, <1>11, <1>13, <1>17, <3>1, <4>1
    <3>2. CASE g # 0
      BY <1>9, <1>14, <1>17, <3>2
    <3>3. QED BY <3>1, <3>2
  <2>3. IF req[s].gen = 0 THEN m < req[s].prompt ELSE m <= req[s].prompt + req[s].gen - 1
    BY <1>7, <2>2
  <2>4. ChainState(rank', req', active', next', mode', faults')
    BY <1>4, <1>6, <1>18, <1>20, <2>1, <2>3, GrewOn
  <2>5. QED BY <1>4, <2>4
<1>21. QED BY <1>4, <1>19, <1>20

\* One decoded token.
LEMMA RunDecodeKeeps ==
  ASSUME ChainInv, NEW s \in Ids, RunDecode(s)
  PROVE  ChainState(rank', req', active', next', mode', faults') /\ conf' = conf
<1>1. PICK ranks : ranks = [r \in Ranks |-> Grown(rank[r], s, 1, FALSE)]
  OBVIOUS
<1>2. /\ mode = "up" /\ s \in Decoding /\ NeedsWindow = {} /\ Free(rank[0]) > 0 /\ conf' = conf
      /\ \/ s \notin Replaying /\ Sampled(ranks, s, req[s].window - 1)
         \/ /\ s \in Replaying
            /\ rank' = ranks /\ req' = [req EXCEPT ![s].done = @ + 1]
            /\ UNCHANGED <<active, next, mode, faults>>
  BY <1>1 DEF RunDecode
<1>3. req[s] # None /\ ~(req[s].done < req[s].prompt)
  BY <1>2 DEF Decoding, Waiting, Requests
<1>4. PICK c, p, g, d, w :
        c = req[s].chain /\ p = req[s].prompt /\ g = req[s].gen /\ d = req[s].done /\ w = req[s].window
  OBVIOUS
<1>5. RequestParts(s, c, p, g, d, w) /\ HoldsDone(rank[0].kv[s], c, d)
  BY <1>2, <1>3, <1>4, RequestSplit
<1>6. /\ p \in Nat /\ g \in Nat /\ d \in Nat /\ d >= p /\ p >= 1 /\ p + MaxTokens <= MaxLen /\ MaxTokens \in Nat
      /\ MaxLen \in Nat /\ g < MaxTokens /\ g # 0 /\ d <= p + g - 1 /\ w \in 0..Window
  BY <1>3, <1>4, <1>5 DEF RequestParts
<1>7. PICK m : m = d + 1
  OBVIOUS
<1>8. m \in 1..MaxLen /\ m <= p + g
  BY <1>6, <1>7
<1>9. MayGrow(rank[0], rank[0].kv[s], req[s].chain, 1)
  <2>1. PICK R, row, e : R = rank[0] /\ row = rank[0].kv[s] /\ e = Free(rank[0])
    OBVIOUS
  <2>2. row # None /\ row.chain = c /\ row.toks = d
    BY <1>5, <1>6, <2>1 DEF HoldsDone
  <2>3. e \in Int
    <3>1. PICK f : f = R.kv
      OBVIOUS
    <3>2. RankInv(R, {})
      BY <2>1, ConfFacts DEF ChainInv, ChainState, RanksInv
    <3>3. Sized(f)
      BY <3>1, <3>2, RankSizes DEF RankInv
    <3>4. Used(f) \in Nat /\ NumSlots \in Nat
      BY <3>3, UsedNat, ChainAssumption
    <3>5. e = NumSlots - Used(f)
      BY <2>1, <3>1 DEF Free
    <3>6. QED BY <3>4, <3>5
  <2>4. 1 <= e /\ d + 1 <= MaxLen
    BY <1>2, <1>7, <1>8, <2>1, <2>3
  <2>5. MayGrow(R, row, c, 1)
    BY <2>1, <2>2, <2>4 DEF MayGrow
  <2>6. QED BY <1>4, <2>1, <2>5
<1>10. RowsGrew(ranks, req[s].chain, s, req[s].done + 1)
  BY <1>1, <1>2, <1>3, <1>9, AllGrow
<1>11. RowsGrew(ranks, req[s].chain, s, m)
  BY <1>4, <1>7, <1>10
<1>12. CASE s \notin Replaying /\ Sampled(ranks, s, req[s].window - 1)
  <2>1. m = req[s].prompt + req[s].gen
    <3>1. ~(g > 0 /\ d < p + g - 1)
      BY <1>3, <1>4, <1>12 DEF Replaying, Requests
    <3>2. QED BY <1>4, <1>6, <1>7, <3>1
  <2>2. RowsHold(ranks, req[s].chain, s, m)
    BY <1>8, <1>11, GrewWhole
  <2>3. w # 0
    BY <1>2, <1>4, <1>6, <1>12 DEF NeedsWindow
  <2>4. w - 1 \in 0..Window
    BY <1>6, <2>3, ChainAssumption
  <2>5. PICK v : v = w - 1
    OBVIOUS
  <2>6. Sampled(ranks, s, v) /\ v \in 0..Window
    BY <1>4, <1>12, <2>4, <2>5
  <2>7. QED BY <1>2, <1>3, <2>1, <2>2, <2>6, SampledKeeps
<1>13. CASE /\ s \in Replaying
            /\ rank' = ranks /\ req' = [req EXCEPT ![s].done = @ + 1]
            /\ UNCHANGED <<active, next, mode, faults>>
  <2>1. req' = [req EXCEPT ![s].done = m]
    BY <1>4, <1>7, <1>13, Zenon
  <2>2. d < p + g - 1
    BY <1>4, <1>13 DEF Replaying
  <2>3. IF req[s].gen = 0 THEN m < req[s].prompt ELSE m <= req[s].prompt + req[s].gen - 1
    BY <1>4, <1>6, <1>7, <2>2
  <2>4. ChainState(rank', req', active', next', mode', faults')
    BY <1>2, <1>3, <1>8, <1>11, <1>13, <2>1, <2>3, GrewOn
  <2>5. QED BY <1>2, <2>4
<1>14. QED BY <1>2, <1>12, <1>13

-----------------------------------------------------------------------------
(* Admission *)

\* Rank R can carry out plan p for chain c under sequence s.
MayPlan(R, p, c, s) == RankInv(R, {}) /\ Feasible(R, p, c, s) /\ MayAdmit(R, c, s)

\* Room for the turn, on a rank that can carry the plan out.
LEMMA RoomFor ==
  ASSUME NEW R, NEW p, NEW c, NEW s, MayPlan(R, p, c, s)
  PROVE  /\ RankInv(Room(R, p), {}) /\ MayAdmit(Room(R, p), c, s) /\ PlanOK(Room(R, p), p, c, s)
         /\ Room(R, p).rec[c] = R.rec[c] /\ OthersStay(R, Room(R, p), {})
<1>1. RankInv(R, {}) /\ Feasible(R, p, c, s) /\ MayAdmit(R, c, s)
  BY DEF MayPlan
<1>2. PICK B, V : B = Room(R, p) /\ V = Range(p.demote) \cup Range(p.evict)
  OBVIOUS
<1>3. RankInv(B, {}) /\ Frame(R, B, V)
  BY <1>1, <1>2, RoomKeeps
<1>4. MayAdmit(B, c, s) /\ B.rec[c] = R.rec[c]
  BY <1>1, <1>2, RoomForAdmission
<1>5. PlanOK(B, p, c, s)
  BY <1>1, <1>4 DEF PlanOK, Feasible
<1>6. \A v \in V : IdleHere(R, v)
  BY <1>1, <1>2 DEF Feasible, Victims
<1>7. OthersStay(R, B, {})
  BY <1>1, <1>3, <1>6, FrameStays
<1>8. QED BY <1>2, <1>3, <1>4, <1>5, <1>7

\* What an admission leaves of a rank.
Starts(R, T, p, c, s) ==
  /\ RankInv(T, {}) /\ Admitted(Room(R, p), T, c, s, p) /\ OthersStay(R, T, {c})
  /\ Runs(T, c, s) /\ T.kv[s] = FirstRow(R.rec[c], c)

\* An admission on one rank.
LEMMA RankAdmits ==
  ASSUME NEW R, NEW p, NEW c, NEW s, MayPlan(R, p, c, s), NEW A, A = ApplyAdmission(R, p),
         A.rec[c].resident_rows = 0 => CanRestore(A, s)
  PROVE  Starts(R, PrepareResumed(A, c), p, c, s)
<1>1. PICK B, T : B = Room(R, p) /\ T = PrepareResumed(A, c)
  OBVIOUS
<1>2. /\ RankInv(B, {}) /\ MayAdmit(B, c, s) /\ PlanOK(B, p, c, s)
      /\ B.rec[c] = R.rec[c] /\ OthersStay(R, B, {})
  BY <1>1, RoomFor
<1>3. A = Marked(B, p)
  BY <1>1, ApplyIsMarked
<1>4. PICK x : x = Turn(B.rec[c], p)
  OBVIOUS
<1>5. RankInv(T, {}) /\ Admitted(B, T, c, s, p) /\ x # None /\ x.state = "ACTIVE" /\ x.seq = s
  BY <1>1, <1>2, <1>3, <1>4, PrepareKeeps
<1>6. c \in Ids /\ s \in Ids /\ OnlyOwner(B, c, s)
  BY <1>2 DEF MayAdmit
<1>7. B.rec \in [Ids -> Record \cup {None}] /\ B.kv \in [Ids -> Row \cup {None}]
  BY <1>2, RankParts DEF RankInv
<1>8. /\ T.rec[c] = x /\ T.kv[s] = FirstRow(B.rec[c], c)
      /\ \A d \in Ids \ {c} : T.rec[d] = B.rec[d]
      /\ \A t \in Ids \ {s} : T.kv[t] = B.kv[t]
  BY <1>4, <1>5, <1>6, <1>7 DEF Admitted
<1>9. OthersStay(B, T, {c})
  BY <1>2, <1>6, <1>8, OneChainStays
<1>10. OthersStay(R, T, {c})
  BY <1>2, <1>9, OthersStayTwice
<1>11. Runs(T, c, s)
  BY <1>5, <1>6, <1>8 DEF Runs, Chains
<1>12. QED BY <1>1, <1>2, <1>5, <1>8, <1>10, <1>11 DEF Starts

\* An admission whose restore fails on one rank.
LEMMA RankRefuses ==
  ASSUME NEW R, NEW p, NEW c, NEW s, MayPlan(R, p, c, s), NEW A, A = ApplyAdmission(R, p),
         A.rec[c].resident_rows = 0
  PROVE  RankInv(RestoreFailed(A, c), {}) /\ OthersStay(R, RestoreFailed(A, c), {})
<1>1. PICK B, T : B = Room(R, p) /\ T = RestoreFailed(A, c)
  OBVIOUS
<1>2. /\ RankInv(B, {}) /\ MayAdmit(B, c, s) /\ PlanOK(B, p, c, s) /\ OthersStay(R, B, {})
  BY <1>1, RoomFor
<1>3. A = Marked(B, p)
  BY <1>1, ApplyIsMarked
<1>4. RankInv(T, {}) /\ T.rec = B.rec /\ T.kv = B.kv
  BY <1>1, <1>2, <1>3, RestoreFailedKeeps
<1>5. OthersStay(R, T, {})
  BY <1>2, <1>4 DEF OthersStay
<1>6. QED BY <1>1, <1>4, <1>5

\* The states from which a turn of prompt tokens may be admitted.
AdmitBase(ranks, c, s, prompt, id) ==
  /\ RanksInv(ranks) /\ DriverInv(ranks[0], req, next, mode) /\ mode = "up"
  /\ MayAdmit(ranks[0], c, s) /\ prompt \in 1..MaxLen /\ prompt + MaxTokens <= MaxLen
  /\ ranks[0].rec[c] # None => ranks[0].rec[c].processed < prompt
  /\ id \in 1..(MaxIds + 1) /\ next <= id /\ c < id /\ s < id

\* The plan of the driver can be carried out on every rank.
LEMMA AdmitPlans ==
  ASSUME NEW ranks, RanksInv(ranks), 0 \in Ranks, NEW c, NEW s, MayAdmit(ranks[0], c, s),
         NEW windows, NEW prompt \in 0..MaxLen, NEW p, p = Plan(ranks[0], windows, c, s, prompt)
  PROVE  \A r \in Ranks : MayPlan(ranks[r], p, c, s) /\ Same(Room(ranks[r], p), Room(ranks[0], p))
<1>1. PICK R : R = ranks[0]
  OBVIOUS
<1>2. RankInv(R, {}) /\ MayAdmit(R, c, s) /\ c \in Ids /\ s \in Ids
  BY <1>1 DEF RanksInv, MayAdmit
<1>3. Feasible(R, p, c, s)
  BY <1>1, <1>2, PlanFacts
<1>4. ASSUME NEW r \in Ranks
      PROVE  MayPlan(ranks[r], p, c, s) /\ Same(Room(ranks[r], p), Room(ranks[0], p))
  <2>1. PICK T : T = ranks[r]
    OBVIOUS
  <2>2. RankInv(T, {}) /\ Same(R, T)
    BY <1>1, <2>1, SameEquivalence DEF RanksInv
  <2>3. Feasible(T, p, c, s) /\ Same(Room(R, p), Room(T, p))
    BY <1>2, <1>3, <2>2, RoomSame
  <2>4. MayAdmit(T, c, s)
    BY <1>2, <2>2 DEF MayAdmit, OnlyOwner, Same
  <2>5. MayPlan(T, p, c, s) /\ Same(Room(T, p), Room(R, p))
    BY <2>2, <2>3, <2>4, SameEquivalence DEF MayPlan
  <2>6. QED BY <1>1, <2>1, <2>5
<1>5. QED BY <1>4

\* The sequence of a chain that is idle or unknown has no request.
LEMMA NoRequest ==
  ASSUME NEW R, NEW rq, NEW nx, DriverInv(R, rq, nx, "up"), NEW c, NEW s, MayAdmit(R, c, s)
  PROVE  rq[s] = None
<1>1. SUFFICES ASSUME rq[s] # None PROVE FALSE
  OBVIOUS
<1>2. PICK d : d = rq[s].chain
  OBVIOUS
<1>3. s \in Ids /\ rq[s] \in Request /\ TurnOK(R, s, rq[s], nx, "up") /\ OnlyOwner(R, c, s)
  BY <1>1 DEF DriverInv, MayAdmit
<1>4. d \in Ids /\ R.rec[d] # None /\ R.rec[d].state = "ACTIVE" /\ R.rec[d].seq = s
  BY <1>2, <1>3, RequestFields DEF TurnOK
<1>5. d = c
  BY <1>3, <1>4 DEF OnlyOwner
<1>6. QED BY <1>4, <1>5 DEF MayAdmit

\* The row a turn starts with holds the tokens it reuses.
LEMMA StartsWith ==
  ASSUME NEW R, NEW p, NEW c, NEW s, MayPlan(R, p, c, s)
  PROVE  /\ HoldsDone(FirstRow(R.rec[c], c), c, p.reused) /\ p.reused \in 0..MaxLen
         /\ p.reused = IF R.rec[c] = None THEN 0 ELSE R.rec[c].processed
<1>1. PICK q : q = R.rec[c]
  OBVIOUS
<1>2. RankInv(R, {}) /\ c \in Ids /\ p.reused = Resident(R, c, s).processed /\ MaxLen \in Nat
      /\ (q # None => q.state = "IDLE")
  BY <1>1, ChainAssumption DEF MayPlan, MayAdmit, Feasible
<1>3. CASE q = None
  <2>1. p.reused = 0
    BY <1>1, <1>2, <1>3 DEF Resident, NewRecord
  <2>2. QED BY <1>1, <1>2, <1>3, <2>1 DEF HoldsDone, FirstRow
<1>4. CASE q # None
  <2>1. c \in Chains(R)
    BY <1>1, <1>2, <1>4 DEF Chains
  <2>2. q \in Record
    BY <1>1, <1>2, <2>1, KnownOwner
  <2>3. ChainOK(c, q, R.kv[q.seq], R.snap[q.seq])
    BY <1>1, <1>2, <2>1 DEF RankInv, RecordsInv
  <2>4. q.processed > 0
    BY <1>2, <1>4, <2>3 DEF ChainOK
  <2>5. q.processed \in 0..MaxLen /\ q.physical \in 0..MaxLen
    BY <2>2 DEF Record
  <2>6. p.reused = q.processed
    BY <1>1, <1>2, <1>4 DEF Resident
  <2>7. PICK a, b, x : a = q.processed /\ b = q.physical /\ x = FirstRow(q, c)
    OBVIOUS
  <2>8. x = [chain |-> c, toks |-> a, slots |-> b]
    BY <1>4, <2>7 DEF FirstRow
  <2>9. x \in Row /\ x.chain = c /\ x.toks = a
    BY <1>2, <2>5, <2>7, <2>8 DEF Row
  <2>10. x # None /\ a # 0
    BY <1>2, <2>4, <2>5, <2>7, <2>9, NoneIsNoValue
  <2>11. HoldsDone(x, c, a)
    BY <2>9, <2>10 DEF HoldsDone
  <2>12. QED BY <1>1, <1>4, <2>5, <2>6, <2>7, <2>11
<1>5. QED BY <1>3, <1>4

\* Plan p is applied on every rank, none lacks the room to restore, and the
\* admitted chains are prepared.
AllAdmitted(rk2, ranks, applied, p, c, s) ==
  /\ \A r \in Ranks : applied[r] = ApplyAdmission(ranks[r], p)
  /\ \A r \in Ranks : applied[r].rec[c].resident_rows = 0 => CanRestore(applied[r], s)
  /\ rk2 = [r \in Ranks |-> PrepareResumed(applied[r], c)]

\* The turn is admitted on every rank, and its request enters the scheduler.
LEMMA AdmitSucceeds ==
  ASSUME ChainInv, NEW ranks, NEW c, NEW s, NEW prompt, NEW id, AdmitBase(ranks, c, s, prompt, id),
         NEW p, p = Plan(ranks[0], Windows, c, s, prompt),
         NEW applied, AllAdmitted(rank', ranks, applied, p, c, s),
         req' = [req EXCEPT ![s] = NewRequest(c, prompt, p.reused)], active' = active \cup {s},
         next' = id, mode' = mode, faults' \in 0..MaxFaults
  PROVE  ChainState(rank', req', active', next', mode', faults')
<1>1. PICK rk2, rq, rq2, nx, md : rk2 = rank' /\ rq = req /\ rq2 = req' /\ nx = next /\ md = mode
  OBVIOUS
<1>2. PICK R, T, u : R = ranks[0] /\ T = rk2[0] /\ u = NewRequest(c, prompt, p.reused)
  OBVIOUS
<1>3. /\ RanksInv(ranks) /\ DriverInv(R, rq, nx, md) /\ md = "up" /\ MayAdmit(R, c, s)
      /\ prompt \in 1..MaxLen /\ prompt + MaxTokens <= MaxLen
      /\ (R.rec[c] # None => R.rec[c].processed < prompt)
      /\ id \in 1..(MaxIds + 1) /\ nx <= id /\ c < id /\ s < id
  BY <1>1, <1>2 DEF AdmitBase
<1>4. 0 \in Ranks /\ conf \in Confs /\ active = {t \in Ids : rq[t] # None} /\ MaxLen \in Nat /\ MaxTokens \in Nat \ {0}
  BY <1>1, ConfFacts, ChainAssumption DEF ChainInv, ChainState
<1>5. c \in Ids /\ s \in Ids /\ OnlyOwner(R, c, s) /\ rq \in [Ids -> Request \cup {None}]
  BY <1>3 DEF MayAdmit, DriverInv
<1>6. \A r \in Ranks : MayPlan(ranks[r], p, c, s) /\ Same(Room(ranks[r], p), Room(R, p))
  <2>1. prompt \in 0..MaxLen
    BY <1>3, <1>4
  <2>2. PICK windows : windows = Windows
    OBVIOUS
  <2>3. p = Plan(ranks[0], windows, c, s, prompt) /\ MayAdmit(ranks[0], c, s)
    BY <1>2, <1>3, <2>2
  <2>4. QED BY <1>2, <1>3, <1>4, <2>1, <2>3, AdmitPlans
<1>7. \A r \in Ranks : Starts(ranks[r], rk2[r], p, c, s)
  <2>1. ASSUME NEW r \in Ranks PROVE Starts(ranks[r], rk2[r], p, c, s)
    <3>1. PICK A, B : A = applied[r] /\ B = ranks[r]
      OBVIOUS
    <3>2. MayPlan(B, p, c, s) /\ A = ApplyAdmission(B, p) /\ (A.rec[c].resident_rows = 0 => CanRestore(A, s))
      BY <1>6, <3>1 DEF AllAdmitted
    <3>3. Starts(B, PrepareResumed(A, c), p, c, s)
      BY <3>2, RankAdmits
    <3>4. rk2[r] = PrepareResumed(A, c)
      BY <1>1, <3>1 DEF AllAdmitted
    <3>5. QED BY <3>1, <3>3, <3>4
  <2>2. QED BY <2>1
<1>8. \A r \in Ranks : Same(rk2[r], rk2[0])
  <2>1. ASSUME NEW r \in Ranks PROVE Same(rk2[r], rk2[0])
    <3>1. PICK A, B, C, D : A = Room(ranks[r], p) /\ B = Room(R, p) /\ C = rk2[r] /\ D = rk2[0]
      OBVIOUS
    <3>2. Same(A, B) /\ Admitted(A, C, c, s, p) /\ Admitted(B, D, c, s, p)
      BY <1>2, <1>4, <1>6, <1>7, <3>1 DEF Starts
    <3>3. Same(C, D)
      BY <1>5, <3>2, AdmittedSame
    <3>4. QED BY <3>1, <3>3
  <2>2. QED BY <2>1
<1>9. RanksInv(rk2)
  <2>1. rk2 = [r \in Ranks |-> rk2[r]]
    BY <1>1 DEF AllAdmitted
  <2>2. QED BY <1>7, <1>8, <2>1 DEF RanksInv, Starts
<1>10. MayPlan(R, p, c, s) /\ Starts(R, T, p, c, s)
  BY <1>2, <1>4, <1>6, <1>7
<1>11. OthersStay(R, T, {c}) /\ Runs(T, c, s) /\ T.kv[s] = FirstRow(R.rec[c], c) /\ RankInv(R, {})
  BY <1>10 DEF Starts, MayPlan
<1>12. /\ HoldsDone(T.kv[s], c, p.reused) /\ p.reused \in 0..MaxLen /\ p.reused < prompt
  <2>1. /\ HoldsDone(FirstRow(R.rec[c], c), c, p.reused) /\ p.reused \in 0..MaxLen
        /\ p.reused = IF R.rec[c] = None THEN 0 ELSE R.rec[c].processed
    BY <1>10, StartsWith
  <2>2. p.reused < prompt
    BY <1>3, <1>4, <2>1
  <2>3. QED BY <1>11, <2>1, <2>2
<1>13. /\ u.chain = c /\ u.prompt = prompt /\ u.done = p.reused /\ u.gen = 0 /\ u.window = 0 /\ u \in Request /\ u # None
  <2>1. u = [chain |-> c, prompt |-> prompt, done |-> p.reused, gen |-> 0, window |-> 0]
    BY <1>2 DEF NewRequest
  <2>2. 0 \in 0..MaxTokens /\ 0 \in 0..Window
    BY ChainAssumption
  <2>3. PICK e : e = p.reused
    OBVIOUS
  <2>4. u = [chain |-> c, prompt |-> prompt, done |-> e, gen |-> 0, window |-> 0] /\ e \in 0..MaxLen
    BY <1>12, <2>1, <2>3
  <2>5. u \in Request
    BY <1>3, <1>5, <2>2, <2>4 DEF Request
  <2>6. QED BY <2>3, <2>4, <2>5, NoneIsNoValue
<1>14. rq2[s] = u /\ rq2 \in [Ids -> Request \cup {None}] /\ \A t \in Ids : t # s => rq2[t] = rq[t]
  <2>1. rq2 = [rq EXCEPT ![s] = u]
    BY <1>1, <1>2
  <2>2. QED BY <1>5, <1>13, <2>1
<1>15. T.rec[c] # None /\ T.rec[c].state = "ACTIVE" /\ T.rec[c].seq = s
  BY <1>11 DEF Runs, Chains
<1>16. TurnLeft(T, c, s, rq2, id, md)
  <2>1. TurnOK(T, s, u, id, md)
    BY <1>3, <1>4, <1>12, <1>13, <1>15 DEF TurnOK
  <2>2. KnownTurn(c, T.rec[c], rq2, id)
    BY <1>3, <1>13, <1>14, <1>15 DEF KnownTurn
  <2>3. QED BY <1>14, <1>15, <2>1, <2>2 DEF TurnLeft
<1>17. DriverInv(T, rq2, id, md)
  BY <1>3, <1>5, <1>11, <1>14, <1>16, DriverStep
<1>18. active' = {t \in Ids : rq2[t] # None}
  BY <1>4, <1>5, <1>13, <1>14
<1>19. QED BY <1>1, <1>2, <1>3, <1>4, <1>9, <1>17, <1>18 DEF ChainState

\* The restore fails on the only rank: the chain is idle again.
LEMMA AdmitFails ==
  ASSUME ChainInv, NEW ranks, NEW c, NEW s, NEW prompt, NEW id, AdmitBase(ranks, c, s, prompt, id),
         NEW p, p = Plan(ranks[0], Windows, c, s, prompt), conf.tp = 1,
         NEW A, A = ApplyAdmission(ranks[0], p), A.rec[c].resident_rows = 0,
         rank' = [r \in Ranks |-> rank'[r]], rank'[0] = RestoreFailed(A, c),
         UNCHANGED <<req, active, next, mode>>, faults' \in 0..MaxFaults
  PROVE  ChainState(rank', req', active', next', mode', faults')
<1>1. PICK R, T, windows : R = ranks[0] /\ T = RestoreFailed(A, c) /\ windows = Windows
  OBVIOUS
<1>2. /\ RanksInv(ranks) /\ DriverInv(R, req, next, mode) /\ MayAdmit(ranks[0], c, s) /\ prompt \in 1..MaxLen
  BY <1>1 DEF AdmitBase
<1>3. 0 \in Ranks /\ Ranks = {0} /\ MaxLen \in Nat
  BY ConfFacts, ChainAssumption DEF ChainInv, ChainState
<1>4. MayPlan(R, p, c, s)
  <2>1. prompt \in 0..MaxLen /\ p = Plan(ranks[0], windows, c, s, prompt)
    BY <1>1, <1>2, <1>3
  <2>2. QED BY <1>1, <1>2, <1>3, <2>1, AdmitPlans
<1>5. RankInv(T, {}) /\ OthersStay(R, T, {})
  BY <1>1, <1>4, RankRefuses
<1>6. PICK rk2, rq, nx, md : rk2 = rank' /\ rq = req /\ nx = next /\ md = mode
  OBVIOUS
<1>7. DriverInv(T, rq, nx, md)
  <2>1. DriverInv(R, rq, nx, md)
    BY <1>2, <1>6
  <2>2. QED BY <1>5, <2>1, DriverStay
<1>8. RanksInv(rk2)
  <2>1. rk2 = [r \in Ranks |-> rk2[r]] /\ rk2[0] = T
    BY <1>1, <1>6
  <2>2. Same(T, T)
    BY SameEquivalence
  <2>3. \A r \in Ranks : rk2[r] = T
    BY <1>3, <2>1
  <2>4. QED BY <1>3, <1>5, <2>1, <2>2, <2>3 DEF RanksInv
<1>9. QED BY <1>1, <1>6, <1>7, <1>8 DEF ChainInv, ChainState

\* An admission once the plan is applied.
AdmitApplied(p, applied, c, s, prompt, id) ==
  \E failing \in SUBSET {r \in Ranks : applied[r].rec[c].resident_rows = 0} :
    /\ {r \in Ranks : applied[r].rec[c].resident_rows = 0 /\ ~CanRestore(applied[r], s)} \subseteq failing
    /\ IF failing = {r \in Ranks : applied[r].rec[c].resident_rows = 0 /\ ~CanRestore(applied[r], s)}
       THEN UNCHANGED faults ELSE faults < MaxFaults /\ faults' = faults + 1
    /\ \/ /\ failing = {}
          /\ rank' = [r \in Ranks |-> PrepareResumed(applied[r], c)]
          /\ req' = [req EXCEPT ![s] = NewRequest(c, prompt, p.reused)]
          /\ active' = active \cup {s}
          /\ next' = id /\ UNCHANGED mode
       \/ /\ failing # {} /\ conf.tp = 1
          /\ rank' = [r \in Ranks |-> RestoreFailed(applied[r], c)]
          /\ UNCHANGED <<req, active, next, mode>>
       \/ failing # {} /\ conf.tp > 1 /\ Dies

\* An admission, whichever way it goes.
LEMMA AdmitKeeps ==
  ASSUME ChainInv, NEW ranks, NEW c, NEW s, NEW prompt, NEW id, AdmitBase(ranks, c, s, prompt, id),
         Admit(ranks, c, s, prompt, id)
  PROVE  ChainState(rank', req', active', next', mode', faults')
<1>1. PICK p, applied : p = Plan(ranks[0], Windows, c, s, prompt) /\ applied = [r \in Ranks |-> ApplyAdmission(ranks[r], p)]
  OBVIOUS
<1>2. PICK W, short : W = {r \in Ranks : applied[r].rec[c].resident_rows = 0}
                      /\ short = {r \in Ranks : applied[r].rec[c].resident_rows = 0 /\ ~CanRestore(applied[r], s)}
  OBVIOUS
<1>3. PICK failing \in SUBSET W :
        /\ short \subseteq failing
        /\ IF failing = short THEN UNCHANGED faults
           ELSE faults < MaxFaults /\ faults' = faults + 1
        /\ \/ /\ failing = {}
              /\ rank' = [r \in Ranks |-> PrepareResumed(applied[r], c)]
              /\ req' = [req EXCEPT ![s] = NewRequest(c, prompt, p.reused)]
              /\ active' = active \cup {s}
              /\ next' = id /\ UNCHANGED mode
           \/ /\ failing # {} /\ conf.tp = 1
              /\ rank' = [r \in Ranks |-> RestoreFailed(applied[r], c)]
              /\ UNCHANGED <<req, active, next, mode>>
           \/ failing # {} /\ conf.tp > 1 /\ Dies
  <2>1. AdmitApplied(Plan(ranks[0], Windows, c, s, prompt),
                     [r \in Ranks |-> ApplyAdmission(ranks[r], Plan(ranks[0], Windows, c, s, prompt))],
                     c, s, prompt, id)
    BY Zenon DEF Admit, AdmitApplied
  <2>2. AdmitApplied(p, applied, c, s, prompt, id)
    BY <1>1, <2>1, Zenon
  <2>3. QED BY <1>2, <2>2, Zenon DEF AdmitApplied
<1>4. faults' \in 0..MaxFaults
  <2>1. faults \in 0..MaxFaults
    BY DEF ChainInv, ChainState
  <2>2. CASE failing = short
    BY <1>3, <2>1, <2>2
  <2>3. CASE failing # short
    BY <1>3, <2>3, OneMoreFault
  <2>4. QED BY <2>2, <2>3
<1>5. \A r \in Ranks : applied[r] = ApplyAdmission(ranks[r], p)
  BY <1>1
<1>6. CASE /\ failing = {}
           /\ rank' = [r \in Ranks |-> PrepareResumed(applied[r], c)]
           /\ req' = [req EXCEPT ![s] = NewRequest(c, prompt, p.reused)]
           /\ active' = active \cup {s}
           /\ next' = id /\ UNCHANGED mode
  <2>1. \A r \in Ranks : applied[r].rec[c].resident_rows = 0 => CanRestore(applied[r], s)
    BY <1>2, <1>3, <1>6
  <2>2. AllAdmitted(rank', ranks, applied, p, c, s)
    BY <1>5, <1>6, <2>1 DEF AllAdmitted
  <2>3. QED BY <1>1, <1>4, <1>6, <2>2, AdmitSucceeds
<1>7. CASE /\ failing # {} /\ conf.tp = 1
           /\ rank' = [r \in Ranks |-> RestoreFailed(applied[r], c)]
           /\ UNCHANGED <<req, active, next, mode>>
  <2>1. 0 \in Ranks /\ Ranks = {0}
    BY <1>7, ConfFacts DEF ChainInv, ChainState
  <2>2. PICK A : A = applied[0]
    OBVIOUS
  <2>3. A = ApplyAdmission(ranks[0], p) /\ A.rec[c].resident_rows = 0
    BY <1>2, <1>3, <1>5, <1>7, <2>1, <2>2
  <2>4. rank' = [r \in Ranks |-> rank'[r]] /\ rank'[0] = RestoreFailed(A, c)
    BY <1>7, <2>1, <2>2
  <2>5. QED BY <1>1, <1>4, <1>7, <2>3, <2>4, AdmitFails
<1>8. CASE failing # {} /\ conf.tp > 1 /\ Dies
  BY <1>4, <1>8, DiesKeeps
<1>9. QED BY <1>3, <1>6, <1>7, <1>8

\* Polling first changes nothing that the driver sees.
LEMMA PolledKeeps ==
  ASSUME ChainInv
  PROVE  /\ RanksInv(Polled) /\ DriverInv(Polled[0], req, next, mode) /\ 0 \in Ranks
         /\ Polled[0].rec = rank[0].rec /\ RankInv(Polled[0], {})
<1>1. PICK rk, rk2 : rk = rank /\ rk2 = Polled
  OBVIOUS
<1>2. RanksInv(rk) /\ DriverInv(rk[0], req, next, mode) /\ 0 \in Ranks
  BY <1>1, ConfFacts DEF ChainInv, ChainState
<1>3. rk2 = [r \in Ranks |-> rk2[r]] /\ \A r \in Ranks : rk2[r] = Poll(rk[r])
  BY <1>1 DEF Polled
<1>4. \A r \in Ranks : RankInv(rk2[r], {}) /\ Same(rk[r], rk2[r])
  BY <1>2, <1>3, PollKeeps DEF RanksInv
<1>5. \A r \in Ranks : Same(rk2[r], rk2[0])
  <2>1. ASSUME NEW r \in Ranks PROVE Same(rk2[r], rk2[0])
    <3>1. Same(rk2[r], rk[r]) /\ Same(rk[r], rk[0]) /\ Same(rk[0], rk2[0])
      BY <1>2, <1>4, SameEquivalence DEF RanksInv
    <3>2. QED BY <3>1, SameEquivalence
  <2>2. QED BY <2>1
<1>6. RanksInv(rk2)
  BY <1>3, <1>4, <1>5 DEF RanksInv
<1>7. DriverInv(rk2[0], req, next, mode)
  BY <1>2, <1>4, SameDriver
<1>8. rk2[0].rec = rk[0].rec
  BY <1>2, <1>4 DEF Same
<1>9. QED BY <1>1, <1>2, <1>4, <1>6, <1>7, <1>8

\* The next identifier is new to every rank.
LEMMA NextIsNew ==
  ASSUME NEW R, NEW X, RankInv(R, X), NEW rq, NEW nx, NEW md, DriverInv(R, rq, nx, md), nx <= MaxIds
  PROVE  nx \in Ids /\ R.rec[nx] = None /\ (\A d \in Ids : R.rec[d] # None => R.rec[d].seq # nx)
         /\ nx + 1 \in 1..(MaxIds + 1) /\ nx <= nx + 1 /\ nx < nx + 1 /\ nx \in Nat
<1>1. nx \in 1..(MaxIds + 1) /\ MaxIds \in Nat
  BY ChainAssumption DEF DriverInv
<1>2. nx \in Ids /\ nx \in Nat
  BY <1>1 DEF Ids
<1>3. \A d \in Ids : R.rec[d] # None => d < nx /\ R.rec[d].seq < nx
  BY DEF DriverInv, KnownTurn
<1>4. R.rec[nx] = None
  BY <1>2, <1>3
<1>5. \A d \in Ids : R.rec[d] # None => R.rec[d].seq # nx
  BY <1>2, <1>3
<1>6. QED BY <1>1, <1>2, <1>4, <1>5

\* The prompt of a new chain.
LEMMA PromptFacts ==
  ASSUME NEW prompt \in NewTokens, prompt + MaxTokens <= MaxLen
  PROVE  prompt \in 1..MaxLen
BY ChainAssumption

\* A chain is created.
LEMMA CreateKeeps ==
  ASSUME ChainInv, NEW prompt \in NewTokens, CreateChain(prompt)
  PROVE  ChainState(rank', req', active', next', mode', faults') /\ conf' = conf
<1>1. /\ mode = "up" /\ next <= MaxIds /\ prompt + MaxTokens <= MaxLen
      /\ Admit(Polled, next, next, prompt, next + 1) /\ conf' = conf
  BY DEF CreateChain
<1>2. PICK ranks, nx : ranks = Polled /\ nx = next
  OBVIOUS
<1>3. /\ RanksInv(ranks) /\ DriverInv(ranks[0], req, next, mode) /\ RankInv(ranks[0], {})
  BY <1>2, PolledKeeps
<1>4. PICK R, rq, md : R = ranks[0] /\ rq = req /\ md = mode
  OBVIOUS
<1>5. RankInv(R, {}) /\ DriverInv(R, rq, nx, md) /\ nx <= MaxIds
  BY <1>1, <1>2, <1>3, <1>4
<1>6. /\ nx \in Ids /\ R.rec[nx] = None /\ (\A d \in Ids : R.rec[d] # None => R.rec[d].seq # nx)
      /\ nx + 1 \in 1..(MaxIds + 1) /\ nx <= nx + 1 /\ nx < nx + 1
  BY <1>5, NextIsNew
<1>7. MayAdmit(R, nx, nx)
  BY <1>6 DEF MayAdmit, OnlyOwner
<1>8. prompt \in 1..MaxLen
  BY <1>1, PromptFacts
<1>9. AdmitBase(ranks, nx, nx, prompt, nx + 1)
  BY <1>1, <1>2, <1>3, <1>4, <1>6, <1>7, <1>8 DEF AdmitBase
<1>10. PICK id : id = nx + 1
  OBVIOUS
<1>11. AdmitBase(ranks, nx, nx, prompt, id) /\ Admit(ranks, nx, nx, prompt, id)
  BY <1>1, <1>2, <1>9, <1>10
<1>12. ChainState(rank', req', active', next', mode', faults')
  BY <1>11, AdmitKeeps
<1>13. QED BY <1>1, <1>12

\* An idle chain, as the driver sees it after a poll.
LEMMA IdleChainFacts ==
  ASSUME ChainInv, NEW c \in IdleChains, NEW R, R = Polled[0], NEW q, q = rank[0].rec[c]
  PROVE  /\ c \in Chains(R) /\ R.rec[c] = q /\ q \in Record /\ q # None /\ q.state = "IDLE" /\ q.seq \in Ids
         /\ OnlyOwner(R, c, q.seq) /\ c \in Ids /\ c < next /\ q.seq < next /\ q.processed \in 0..MaxLen
<1>1. /\ RanksInv(Polled) /\ DriverInv(R, req, next, mode) /\ RankInv(R, {}) /\ R.rec = rank[0].rec
  BY PolledKeeps
<1>2. c \in Chains(R) /\ R.rec[c] = q /\ q.state = "IDLE"
  BY <1>1 DEF IdleChains, Chains
<1>3. q \in Record /\ q # None /\ q.seq \in Ids /\ OnlyOwner(R, c, q.seq) /\ c \in Ids
  BY <1>1, <1>2, KnownOwner
<1>4. c < next /\ q.seq < next
  BY <1>1, <1>2, <1>3 DEF DriverInv, KnownTurn
<1>5. q.processed \in 0..MaxLen
  BY <1>3 DEF Record
<1>6. QED BY <1>2, <1>3, <1>4, <1>5

\* A chain is resumed.
LEMMA ResumeKeeps ==
  ASSUME ChainInv, NEW c \in Ids, NEW suffix \in NewTokens, ResumeChain(c, suffix)
  PROVE  ChainState(rank', req', active', next', mode', faults') /\ conf' = conf
<1>1. PICK q, prompt : q = rank[0].rec[c] /\ prompt = q.processed + suffix
  OBVIOUS
<1>2. /\ mode = "up" /\ c \in IdleChains /\ prompt + MaxTokens <= MaxLen
      /\ Admit(Polled, c, q.seq, prompt, next) /\ conf' = conf
  BY <1>1 DEF ResumeChain
<1>3. PICK ranks, R, s, id : ranks = Polled /\ R = Polled[0] /\ s = q.seq /\ id = next
  OBVIOUS
<1>4. /\ RanksInv(ranks) /\ DriverInv(ranks[0], req, next, mode)
  BY <1>3, PolledKeeps
<1>5. /\ R.rec[c] = q /\ q # None /\ q.state = "IDLE" /\ s \in Ids
      /\ OnlyOwner(R, c, s) /\ c < next /\ s < next /\ q.processed \in 0..MaxLen
  BY <1>1, <1>2, <1>3, IdleChainFacts
<1>6. MayAdmit(R, c, s)
  BY <1>5 DEF MayAdmit
<1>7. prompt \in 1..MaxLen /\ q.processed < prompt
  <2>1. suffix \in Nat \ {0} /\ MaxTokens \in Nat /\ MaxLen \in Nat
    BY ChainAssumption
  <2>2. PICK a : a = q.processed
    OBVIOUS
  <2>3. a \in Nat /\ prompt = a + suffix
    BY <1>1, <1>5, <2>1, <2>2
  <2>4. prompt \in 1..MaxLen /\ a < prompt
    BY <1>2, <2>1, <2>3
  <2>5. QED BY <2>2, <2>4
<1>8. next \in 1..(MaxIds + 1) /\ next <= next
  BY <1>4, ChainAssumption DEF DriverInv
<1>9. AdmitBase(ranks, c, s, prompt, id)
  BY <1>2, <1>3, <1>4, <1>5, <1>6, <1>7, <1>8 DEF AdmitBase
<1>10. Admit(ranks, c, s, prompt, id)
  BY <1>2, <1>3
<1>11. ChainState(rank', req', active', next', mode', faults')
  BY <1>9, <1>10, AdmitKeeps
<1>12. QED BY <1>2, <1>11

\* A chain is replaced by a new one under the same sequence.
LEMMA RecreateKeeps ==
  ASSUME ChainInv, NEW c \in Ids, NEW prompt \in NewTokens, RecreateChain(c, prompt)
  PROVE  ChainState(rank', req', active', next', mode', faults') /\ conf' = conf
<1>1. PICK q, s, base : q = rank[0].rec[c] /\ s = rank[0].rec[c].seq /\ base = [r \in Ranks |-> RemoveChain(Polled[r], c)]
  OBVIOUS
<1>2. /\ mode = "up" /\ c \in IdleChains /\ next <= MaxIds /\ prompt + MaxTokens <= MaxLen /\ conf' = conf
      /\ \/ Admit(base, next, s, prompt, next + 1)
         \/ rank' = base /\ UNCHANGED <<req, active, next, mode, faults>>
  BY <1>1 DEF RecreateChain
<1>3. PICK ranks, R, nx, id : ranks = Polled /\ R = Polled[0] /\ nx = next /\ id = next + 1
  OBVIOUS
<1>4. /\ RanksInv(ranks) /\ DriverInv(R, req, next, mode) /\ RankInv(R, {}) /\ 0 \in Ranks /\ R = ranks[0]
  BY <1>3, PolledKeeps
<1>5. /\ c \in Chains(R) /\ R.rec[c] = q /\ q.state = "IDLE" /\ s \in Ids /\ q.seq = s
      /\ OnlyOwner(R, c, s) /\ c < next /\ s < next
  BY <1>1, <1>2, <1>3, IdleChainFacts
<1>6. PICK T : T = base[0]
  OBVIOUS
<1>7. RanksInv(base) /\ OthersStay(R, T, {}) /\ T.rec[c] = None
  <2>1. base = [r \in Ranks |-> RemoveChain(ranks[r], c)] /\ c \in Chains(ranks[0])
    BY <1>1, <1>3, <1>4, <1>5
  <2>2. RanksInv(base) /\ base[0].rec[c] = None /\ (ranks[0].rec[c].state = "IDLE" => OthersStay(ranks[0], base[0], {}))
    BY <1>4, <2>1, RemovedKeeps
  <2>3. QED BY <1>4, <1>5, <1>6, <2>2
<1>8. PICK rq, md : rq = req /\ md = mode
  OBVIOUS
<1>9. DriverInv(T, rq, nx, md) /\ DriverInv(R, rq, nx, md)
  <2>1. DriverInv(R, rq, nx, md)
    BY <1>3, <1>4, <1>8
  <2>2. QED BY <1>7, <2>1, DriverStay
<1>10. /\ nx \in Ids /\ R.rec[nx] = None /\ id \in 1..(MaxIds + 1) /\ nx <= id /\ nx < id /\ nx \in Nat
  <2>1. nx <= MaxIds
    BY <1>2, <1>3
  <2>2. nx \in Ids /\ R.rec[nx] = None /\ nx + 1 \in 1..(MaxIds + 1) /\ nx <= nx + 1 /\ nx < nx + 1 /\ nx \in Nat
    BY <1>4, <1>9, <2>1, NextIsNew
  <2>3. QED BY <1>3, <2>2
<1>11. MayAdmit(T, nx, s) /\ T.rec[nx] = None
  <2>1. T.rec[nx] = None
    BY <1>7, <1>10 DEF OthersStay
  <2>2. \A d \in Ids : T.rec[d] # None => T.rec[d].seq # s
    BY <1>5, <1>7 DEF OthersStay, OnlyOwner
  <2>3. QED BY <1>5, <1>10, <2>1, <2>2 DEF MayAdmit, OnlyOwner
<1>12. s < id
  <2>1. s \in Nat
    BY <1>5, IdsFinite
  <2>2. QED BY <1>3, <1>5, <1>10, <2>1
<1>13. CASE Admit(base, next, s, prompt, next + 1)
  <2>1. prompt \in 1..MaxLen
    BY <1>2, PromptFacts
  <2>2. AdmitBase(base, nx, s, prompt, id)
    BY <1>2, <1>3, <1>6, <1>7, <1>8, <1>9, <1>10, <1>11, <1>12, <2>1 DEF AdmitBase
  <2>3. Admit(base, nx, s, prompt, id)
    BY <1>3, <1>13
  <2>4. ChainState(rank', req', active', next', mode', faults')
    BY <2>2, <2>3, AdmitKeeps
  <2>5. QED BY <1>2, <2>4
<1>14. CASE rank' = base /\ UNCHANGED <<req, active, next, mode, faults>>
  <2>1. DriverInv(base[0], req, next, mode)
    BY <1>3, <1>6, <1>8, <1>9
  <2>2. UNCHANGED <<conf, req, active, next, mode, faults>>
    BY <1>2, <1>14
  <2>3. QED BY <1>2, <1>7, <1>14, <2>1, <2>2, RanksOnly
<1>15. QED BY <1>2, <1>13, <1>14

-----------------------------------------------------------------------------
(* Every step *)

\* Each action keeps the invariant.
LEMMA ChainNext == ASSUME ChainInv, [Next]_vars PROVE ChainInv'
<1>1. CASE UNCHANGED vars
  <2>1. conf' = conf /\ ChainState(rank', req', active', next', mode', faults')
    BY <1>1 DEF vars, ChainInv
  <2>2. QED BY <2>1, NextState
<1>2. ASSUME NEW n \in NewTokens, CreateChain(n) PROVE ChainInv'
  BY <1>2, CreateKeeps, NextState
<1>3. ASSUME NEW c \in Ids, NEW n \in NewTokens, ResumeChain(c, n) PROVE ChainInv'
  BY <1>3, ResumeKeeps, NextState
<1>4. ASSUME NEW c \in Ids, NEW n \in NewTokens, RecreateChain(c, n) PROVE ChainInv'
  BY <1>4, RecreateKeeps, NextState
<1>5. ASSUME NEW s \in Ids, ReserveWindow(s) PROVE ChainInv'
  <2>1. conf' = conf
    BY <1>5 DEF ReserveWindow
  <2>2. QED BY <1>5, <2>1, ReserveWindowKeeps, NextState
<1>6. ASSUME NEW s \in Ids, NoRoomToDecode(s) PROVE ChainInv'
  BY <1>6, NoRoomToDecodeKeeps, NextState
<1>7. ASSUME NEW s \in Ids, NoRoomToPrefill(s) PROVE ChainInv'
  BY <1>7, NoRoomToPrefillKeeps, NextState
<1>8. ASSUME NEW s \in Ids, RunPrefill(s) PROVE ChainInv'
  BY <1>8, RunPrefillKeeps, NextState
<1>9. ASSUME NEW s \in Ids, RunDecode(s) PROVE ChainInv'
  BY <1>9, RunDecodeKeeps, NextState
<1>10. ASSUME NEW s \in Ids, StepFails(s) PROVE ChainInv'
  BY <1>10, StepFailsKeeps, NextState
<1>11. ASSUME NEW s \in Ids, AbortRequest(s) PROVE ChainInv'
  BY <1>11, AbortKeeps, NextState
<1>12. ASSUME NEW c \in Ids, DiscardChain(c) PROVE ChainInv'
  BY <1>12, DiscardKeeps, NextState
<1>13. ASSUME NEW r \in Ranks, CopyDone(r) PROVE ChainInv'
  BY <1>13, CopyDoneKeeps, NextState
<1>14. ASSUME PollDriver PROVE ChainInv'
  BY <1>14, PollDriverKeeps, NextState
<1>15. QED BY <1>1, <1>2, <1>3, <1>4, <1>5, <1>6, <1>7, <1>8, <1>9, <1>10, <1>11, <1>12, <1>13, <1>14 DEF Next

\* The inductive invariant holds in every reachable state: ranks in order, in
\* agreement, and in step with the driver.
THEOREM ChainInvariance == Spec => []ChainInv
<1>1. Init => ChainInv
  BY ChainInit
<1>2. ChainInv /\ [Next]_vars => ChainInv'
  BY ChainNext
<1>3. QED BY <1>1, <1>2, PTL DEF Spec

-----------------------------------------------------------------------------
(* What the invariant says *)

\* Rank r in a state of the invariant.
LEMMA RankHere ==
  ASSUME ChainInv, NEW r \in Ranks
  PROVE  RankInv(rank[r], {}) /\ Same(rank[r], rank[0])
BY DEF ChainInv, ChainState, RanksInv

\* The values of one rank.
LEMMA RankTyped ==
  ASSUME NEW R, RankInv(R, {})
  PROVE  /\ \A i \in Ids : R.rec[i] \in Record \cup {None} /\ R.kv[i] \in Row \cup {None}
                           /\ R.snap[i] \in Snapshot \cup {None}
         /\ IsInjective(R.lru) /\ Range(R.lru) = Chains(R)
         /\ IsInjective(R.copies) /\ Range(R.copies) \subseteq Snaps(R)
<1>1. R \in RankState /\ LruInv(R) /\ CopyInv(R)
  BY DEF RankInv
<1>2. R.rec \in [Ids -> Record \cup {None}] /\ R.kv \in [Ids -> Row \cup {None}]
      /\ R.snap \in [Ids -> Snapshot \cup {None}] /\ R.copies \in Seq(Ids)
  BY <1>1 DEF RankState
<1>3. Range(R.copies) \subseteq Ids
  BY <1>2, RangeFacts
<1>4. \A s \in Range(R.copies) : R.snap[s] # None
  BY <1>1 DEF CopyInv, CopyOK
<1>5. Range(R.copies) \subseteq Snaps(R)
  BY <1>3, <1>4 DEF Snaps
<1>6. QED BY <1>1, <1>2, <1>5 DEF LruInv, CopyInv

\* Every value stays in its range, the order of use of chain_cache.py lists
\* each chain of the index once, and a copy in flight has a snapshot.
THEOREM ChainTyped == Spec => []TypeOK
<1>1. ASSUME ChainInv PROVE TypeOK
  <2>1. conf \in Confs /\ RanksInv(rank) /\ DriverInv(rank[0], req, next, mode)
        /\ active = {s \in Ids : req[s] # None} /\ mode \in {"up", "raised", "dead"} /\ faults \in 0..MaxFaults
    BY <1>1 DEF ChainInv, ChainState
  <2>2. DOMAIN rank = Ranks
    BY <2>1 DEF RanksInv
  <2>3. ASSUME NEW r \in Ranks
        PROVE  /\ \A i \in Ids : /\ rank[r].rec[i] \in Record \cup {None}
                                 /\ rank[r].kv[i] \in Row \cup {None}
                                 /\ rank[r].snap[i] \in Snapshot \cup {None}
               /\ IsInjective(rank[r].lru) /\ Range(rank[r].lru) = Chains(rank[r])
               /\ IsInjective(rank[r].copies) /\ Range(rank[r].copies) \subseteq Snaps(rank[r])
    <3>1. RankInv(rank[r], {})
      BY <1>1, RankHere
    <3>2. QED BY <3>1, RankTyped, Zenon
  <2>4. (\A s \in Ids : req[s] \in Request \cup {None}) /\ next \in 1..(MaxIds + 1)
    BY <2>1 DEF DriverInv
  <2>5. active \subseteq Ids
    BY <2>1
  <2>6. QED BY <2>1, <2>2, <2>3, <2>4, <2>5 DEF TypeOK
<1>2. ChainInv => TypeOK
  BY <1>1
<1>3. QED BY <1>2, ChainInvariance, PTL

\* R and T make the same plan for every turn.
SamePlans(R, T) == \A w, c, s, p : Plan(R, w, c, s, p) = Plan(T, w, c, s, p)

\* A rank agrees with the driver's.
LEMMA RankAgrees ==
  ASSUME ChainInv, NEW r \in Ranks
  PROVE  /\ rank[r].rec = rank[0].rec /\ rank[r].lru = rank[0].lru /\ rank[r].kv = rank[0].kv
         /\ Snaps(rank[r]) = Snaps(rank[0]) /\ SamePlans(Polled[r], Polled[0])
<1>1. Same(rank[r], rank[0])
  BY RankHere
<1>2. Snaps(rank[r]) = Snaps(rank[0])
  BY <1>1 DEF Same, Snaps
<1>3. PICK R, T : R = Polled[r] /\ T = Polled[0]
  OBVIOUS
<1>4. RankInv(R, {}) /\ Same(R, T)
  BY <1>3, PolledKeeps DEF RanksInv
<1>5. SamePlans(R, T)
  BY <1>4, PlanSame DEF SamePlans
<1>6. QED BY <1>1, <1>2, <1>3, <1>5 DEF Same

\* Ranks make the same plans: what validate_admission_plan of chain_cache.py
\* requires of every rank holds whatever copies each of them knows to be over,
\* and their indexes, rows and snapshots are the same.
THEOREM ChainRanksAgree == Spec => []RanksAgree
<1>1. ASSUME ChainInv PROVE RanksAgree
  <2>1. SUFFICES ASSUME NEW r \in Ranks \ {0}
        PROVE  /\ rank[r].rec = rank[0].rec /\ rank[r].lru = rank[0].lru /\ rank[r].kv = rank[0].kv
               /\ Snaps(rank[r]) = Snaps(rank[0])
               /\ \A c \in IdleChains, n \in NewTokens :
                    LET q == rank[0].rec[c]
                    IN  Plan(Polled[r], Windows, c, q.seq, q.processed + n)
                          = Plan(Polled[0], Windows, c, q.seq, q.processed + n)
               /\ \A n \in NewTokens : next <= MaxIds =>
                    Plan(Polled[r], Windows, next, next, n) = Plan(Polled[0], Windows, next, next, n)
    BY Zenon DEF RanksAgree
  <2>2. PICK R, T : R = Polled[r] /\ T = Polled[0]
    OBVIOUS
  <2>3. SamePlans(R, T)
    BY <1>1, <2>1, <2>2, RankAgrees
  <2>4. ASSUME NEW c \in IdleChains, NEW n \in NewTokens, NEW q
        PROVE  Plan(R, Windows, c, q.seq, q.processed + n) = Plan(T, Windows, c, q.seq, q.processed + n)
    BY <2>3 DEF SamePlans
  <2>5. ASSUME NEW n \in NewTokens
        PROVE  Plan(R, Windows, next, next, n) = Plan(T, Windows, next, next, n)
    BY <2>3 DEF SamePlans
  <2>6. /\ rank[r].rec = rank[0].rec /\ rank[r].lru = rank[0].lru /\ rank[r].kv = rank[0].kv
        /\ Snaps(rank[r]) = Snaps(rank[0])
    BY <1>1, <2>1, RankAgrees
  <2>7. QED BY <2>2, <2>4, <2>5, <2>6
<1>2. ChainInv => RanksAgree
  BY <1>1
<1>3. QED BY <1>2, ChainInvariance, PTL

\* An idle chain offers the next turn exactly the turn it finished, on the
\* device or in a complete snapshot: restore of chain_offload.py never brings
\* back an old turn, and finish_digest publishes what the row holds.
THEOREM ChainIdleComplete == Spec => []IdleIsComplete
<1>1. ASSUME ChainInv, NEW r \in Ranks, NEW c \in Chains(rank[r])
      PROVE  ChainOK(c, rank[r].rec[c], rank[r].kv[rank[r].rec[c].seq], rank[r].snap[rank[r].rec[c].seq])
  <2>1. RankInv(rank[r], {})
    BY <1>1, RankHere
  <2>2. QED BY <1>1, <2>1 DEF RankInv, RecordsInv
<1>2. ASSUME ChainInv PROVE IdleIsComplete
  <2>1. SUFFICES ASSUME NEW r \in Ranks, NEW c \in Chains(rank[r]), rank[r].rec[c].state = "IDLE"
        PROVE  LET q == rank[r].rec[c]
                   boundary == [chain |-> c, toks |-> q.processed, slots |-> q.physical]
                   snap == rank[r].snap[q.seq]
               IN  /\ rank[r].kv[q.seq] = IF q.resident_rows = 1 THEN boundary ELSE None
                   /\ q.resident_rows = 0 => snap # None /\ snap.state = "valid"
                   /\ snap # None => /\ snap.state # "stale"
                                     /\ [chain |-> snap.chain, toks |-> snap.toks,
                                         slots |-> snap.slots] = boundary
                   /\ q.reserved_slots = 0 /\ q.reserved_rows = 0
    BY Zenon DEF IdleIsComplete
  <2>2. PICK q : q = rank[r].rec[c]
    OBVIOUS
  <2>3. PICK row, snap : row = rank[r].kv[q.seq] /\ snap = rank[r].snap[q.seq]
    OBVIOUS
  <2>4. ChainOK(c, q, row, snap) /\ q.state = "IDLE"
    BY <1>1, <1>2, <2>1, <2>2, <2>3
  <2>5. /\ row = IF q.resident_rows = 1 THEN [chain |-> c, toks |-> q.processed, slots |-> q.physical] ELSE None
        /\ q.resident_rows = 0 => snap # None /\ snap.state = "valid"
        /\ q.reserved_slots = 0 /\ q.reserved_rows = 0
    BY <2>4, Zenon DEF ChainOK
  <2>6. snap # None => /\ snap.state # "stale"
                       /\ [chain |-> snap.chain, toks |-> snap.toks, slots |-> snap.slots]
                            = [chain |-> c, toks |-> q.processed, slots |-> q.physical]
    BY <2>4, Zenon DEF ChainOK, Content
  <2>7. QED BY <2>2, <2>3, <2>5, <2>6, Zenon
<1>3. ChainInv => IdleIsComplete
  BY <1>2
<1>4. QED BY <1>3, ChainInvariance, PTL

\* The rows and snapshots of one rank have one owner and fit.
LEMMA OwnedAndFits ==
  ASSUME NEW R, RankInv(R, {}), conf \in Confs
  PROVE  /\ \A s \in Rows(R) \cup Snaps(R) : Cardinality({c \in Chains(R) : R.rec[c].seq = s}) = 1
         /\ Free(R) >= 0 /\ FreeRows(R) >= 0 /\ HostUsed(R) <= conf.host
<1>1. R \in RankState /\ OwnerInv(R) /\ RoomInv(R)
  BY DEF RankInv
<1>2. ASSUME NEW s \in Rows(R) \cup Snaps(R) PROVE Cardinality({c \in Chains(R) : R.rec[c].seq = s}) = 1
  <2>1. s \in Ids /\ (R.kv[s] # None \/ R.snap[s] # None)
    BY <1>2 DEF Rows, Snaps
  <2>2. PICK c \in Chains(R) : R.rec[c].seq = s
    BY <1>1, <2>1 DEF OwnerInv
  <2>3. {d \in Chains(R) : R.rec[d].seq = s} = {c}
    BY <1>1, <2>2 DEF OwnerInv
  <2>4. Cardinality({c}) = 1
    BY FS_Singleton
  <2>5. QED BY <2>3, <2>4
<1>3. Used(R.kv) \in Nat
  BY <1>1, RankSizes, UsedNat
<1>4. Cardinality(Rows(R)) \in Nat
  <2>1. Rows(R) \subseteq Ids
    BY DEF Rows
  <2>2. IsFiniteSet(Rows(R))
    BY <2>1, IdsFinite, FS_Subset
  <2>3. QED BY <2>2, FS_CardinalityType
<1>5. NumSlots \in Nat /\ NumRows \in Nat
  BY ChainAssumption
<1>6. Used(R.kv) <= NumSlots /\ Cardinality(Rows(R)) <= NumRows /\ Used(R.snap) <= conf.host
  BY <1>1 DEF RoomInv
<1>7. Free(R) >= 0 /\ FreeRows(R) >= 0
  BY <1>3, <1>4, <1>5, <1>6 DEF Free, FreeRows
<1>8. HostUsed(R) <= conf.host
  BY <1>6 DEF HostUsed
<1>9. QED BY <1>2, <1>7, <1>8

\* Nothing is left behind: rows and snapshots have exactly one chain, device
\* and host are never overdrawn, and an active chain has a request that
\* abort_request of llm_engine.py still finds.
THEOREM ChainNothingOrphaned == Spec => []NothingOrphaned
<1>1. ASSUME ChainInv, NEW r \in Ranks
      PROVE  /\ \A s \in Rows(rank[r]) \cup Snaps(rank[r]) :
                  Cardinality({c \in Chains(rank[r]) : rank[r].rec[c].seq = s}) = 1
             /\ Free(rank[r]) >= 0 /\ FreeRows(rank[r]) >= 0 /\ HostUsed(rank[r]) <= conf.host
  <2>1. RankInv(rank[r], {}) /\ conf \in Confs
    BY <1>1, RankHere DEF ChainInv, ChainState
  <2>2. PICK R : R = rank[r]
    OBVIOUS
  <2>3. QED BY <2>1, <2>2, OwnedAndFits, Zenon
<1>2. ASSUME ChainInv, NEW r \in Ranks, NEW c \in Chains(rank[r]), rank[r].rec[c].state = "ACTIVE"
      PROVE  \E s \in active : s = rank[r].rec[c].seq /\ req[s] # None /\ req[s].chain = c
  <2>1. RankInv(rank[r], {}) /\ rank[r].rec = rank[0].rec
    BY <1>2, RankHere DEF Same
  <2>2. rank[r].rec[c].seq \in Ids /\ c \in Ids /\ rank[r].rec[c] # None
    BY <1>2, <2>1, KnownOwner
  <2>3. DriverInv(rank[0], req, next, mode) /\ active = {s \in Ids : req[s] # None}
    BY <1>2 DEF ChainInv, ChainState
  <2>4. KnownTurn(c, rank[r].rec[c], req, next)
    BY <2>1, <2>2, <2>3 DEF DriverInv
  <2>5. PICK s : s = rank[r].rec[c].seq
    OBVIOUS
  <2>6. req[s] # None /\ req[s].chain = c
    BY <1>2, <2>4, <2>5 DEF KnownTurn
  <2>7. s \in active
    BY <2>2, <2>3, <2>5, <2>6
  <2>8. QED BY <2>5, <2>6, <2>7
<1>3. ChainInv => NothingOrphaned
  BY <1>1, <1>2, Zenon DEF NothingOrphaned
<1>4. QED BY <1>3, ChainInvariance, PTL

\* Pressure never touches a running turn: reclaiming, demoting and restoring
\* other chains leaves the writer of a request and the tokens that
\* num_prefilled_tokens and the decodes count.
THEOREM ChainTurnIntact == Spec => []RunningTurnIntact
<1>1. ASSUME ChainInv, mode = "up", NEW r \in Ranks, NEW s \in Requests
      PROVE  /\ s \in active /\ req[s].chain \in Chains(rank[r])
             /\ rank[r].rec[req[s].chain].state = "ACTIVE" /\ rank[r].rec[req[s].chain].seq = s
             /\ HoldsDone(rank[r].kv[s], req[s].chain, req[s].done)
  <2>1. /\ conf \in Confs /\ RanksInv(rank) /\ DriverInv(rank[0], req, next, mode)
        /\ active = {t \in Ids : req[t] # None}
    BY <1>1 DEF ChainInv, ChainState
  <2>2. s \in Ids /\ req[s] # None
    BY <1>1 DEF Requests
  <2>3. s \in active
    BY <2>1, <2>2
  <2>4. PICK rk, rq, nx, md : rk = rank /\ rq = req /\ nx = next /\ md = mode
    OBVIOUS
  <2>5. RanksInv(rk) /\ DriverInv(rk[0], rq, nx, md) /\ 0 \in Ranks /\ rq[s] # None /\ md = "up"
    BY <1>1, <2>1, <2>2, <2>4, ConfFacts
  <2>6. Runs(rk[r], rq[s].chain, s)
    BY <2>2, <2>5, RequestRuns
  <2>7. TurnOK(rk[0], s, rq[s], nx, md)
    BY <2>2, <2>5 DEF DriverInv
  <2>8. HoldsDone(rk[0].kv[s], rq[s].chain, rq[s].done)
    BY <2>5, <2>7 DEF TurnOK
  <2>9. rk[r].kv = rk[0].kv
    BY <2>5 DEF RanksInv, Same
  <2>10. QED BY <2>3, <2>4, <2>6, <2>8, <2>9, Zenon DEF Runs
<1>2. ChainInv => RunningTurnIntact
  BY <1>1, ZenonT(60) DEF RunningTurnIntact, HoldsDone
<1>3. QED BY <1>2, ChainInvariance, PTL

\* No copy to the host reads a slot that was freed or written again: until the
\* device ends it, its row is the one that save of chain_offload.py was given.
THEOREM ChainCopiesStable == Spec => []CopySourceStable
<1>1. ASSUME ChainInv, NEW r \in Ranks, NEW s \in Range(rank[r].copies)
      PROVE  CopyOK(rank[r].kv[s], rank[r].snap[s])
  <2>1. RankInv(rank[r], {})
    BY <1>1, RankHere
  <2>2. QED BY <1>1, <2>1 DEF RankInv, CopyInv
<1>2. ChainInv => CopySourceStable
  BY <1>1, Zenon DEF CopySourceStable, CopyOK, Content
<1>3. QED BY <1>2, ChainInvariance, PTL
=============================================================================
