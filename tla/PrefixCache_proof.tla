-------------------------- MODULE PrefixCache_proof --------------------------
(***************************************************************************)
(* Safety of the prefix cache, for every tree of blocks, every set of      *)
(* requests and every device and host size.                                *)
(*                                                                         *)
(* PrefixInv is inductive.  Sound says of the cache alone that its         *)
(* incrementally kept views are what a scan would find (Sharp), that       *)
(* resident paths have no hole (Resident) and that the copies in flight    *)
(* are the marked blocks (Queued).  Core adds the requests: what each      *)
(* holds is in the tree (Anchored), its position agrees with its forwards  *)
(* (Fit), the step under way fits the batch (Steady), and slots, host      *)
(* blocks and reference counts add up (Ledger).  Backed is what write-     *)
(* through promises of idle blocks.  The index operations come first, each *)
(* with what it does to a Sound cache, then one lemma per action.          *)
(***************************************************************************)
EXTENDS PrefixCache, SequenceFacts
-----------------------------------------------------------------------------
(* The tree *)

\* How long a block is.
Levels(level) ==
  /\ level \in [Blocks -> 1..Cardinality(Blocks)]
  /\ \A b \in Blocks : Parent[b] # Root => level[Parent[b]] < level[b]

\* Blocks have lengths.
LEMMA LevelsExist == \E level : Levels(level)
BY PrefixAssumption DEF Levels

\* Induction along the tree, from a block to those that extend it.
LEMMA TreeInduction ==
  ASSUME NEW G \in SUBSET Blocks,
         \A b \in Blocks : (Parent[b] # Root => Parent[b] \in G) => b \in G
  PROVE  G = Blocks
<1>1. PICK level : Levels(level)
  BY LevelsExist
<1>2. PICK N : N = {n \in Nat : \E b \in Blocks \ G : level[b] = n}
  OBVIOUS
<1>3. SUFFICES ASSUME NEW x \in Blocks \ G PROVE FALSE
  OBVIOUS
<1>4. Cardinality(Blocks) \in Nat
  BY PrefixAssumption, FS_CardinalityType
<1>5. \A b \in Blocks : level[b] \in Nat /\ level[b] >= 1 /\ level[b] <= Cardinality(Blocks)
  BY <1>1, <1>4 DEF Levels
<1>6. N \in SUBSET Nat /\ N # {}
  BY <1>2, <1>3, <1>5
<1>7. PICK n \in N : \A m \in N : n <= m
  BY <1>6, LeastNat
<1>8. PICK b \in Blocks \ G : level[b] = n
  BY <1>2, <1>7
<1>9. Parent[b] # Root /\ Parent[b] \notin G
  BY <1>8
<1>10. Parent[b] \in Blocks /\ level[Parent[b]] < level[b]
  BY <1>1, <1>8, <1>9, PrefixAssumption DEF Levels
<1>11. level[Parent[b]] \in N
  BY <1>2, <1>5, <1>9, <1>10
<1>12. QED BY <1>5, <1>7, <1>8, <1>10, <1>11

\* Induction along the tree, from the blocks that extend a block to that block.
LEMMA LeafInduction ==
  ASSUME NEW G \in SUBSET Blocks,
         \A b \in Blocks : (\A x \in Blocks : Parent[x] = b => x \in G) => b \in G
  PROVE  G = Blocks
<1>1. PICK level : Levels(level)
  BY LevelsExist
<1>2. PICK M : M = Cardinality(Blocks)
  OBVIOUS
<1>3. PICK N : N = {n \in Nat : \E b \in Blocks \ G : M - level[b] = n}
  OBVIOUS
<1>4. SUFFICES ASSUME NEW x \in Blocks \ G PROVE FALSE
  OBVIOUS
<1>5. M \in Nat
  BY <1>2, PrefixAssumption, FS_CardinalityType
<1>6. \A b \in Blocks : level[b] \in Nat /\ M - level[b] \in Nat
  BY <1>1, <1>2, <1>5 DEF Levels
<1>7. N \in SUBSET Nat /\ N # {}
  BY <1>3, <1>4, <1>6
<1>8. PICK n \in N : \A m \in N : n <= m
  BY <1>7, LeastNat
<1>9. PICK b \in Blocks \ G : M - level[b] = n
  BY <1>3, <1>8
<1>10. PICK y \in Blocks : Parent[y] = b /\ y \notin G
  BY <1>9
<1>11. level[b] < level[y]
  <2>1. Parent[y] # Root
    BY <1>9, <1>10, PrefixAssumption
  <2>2. QED BY <1>1, <1>10, <2>1 DEF Levels
<1>12. M - level[y] \in N
  BY <1>3, <1>6, <1>10
<1>13. n <= M - level[y]
  BY <1>8, <1>12
<1>14. QED BY <1>5, <1>6, <1>9, <1>10, <1>11, <1>13

\* The recursion that defines Up.
Climbs(u, B) == u = [b \in B |-> <<b>> \o (IF Parent[b] = Root THEN <<>> ELSE u[Parent[b]])]

\* It has a solution: one for the blocks up to each length.
LEMMA UpExists == \E u : Climbs(u, Blocks)
<1>1. PICK level : Levels(level)
  BY LevelsExist
<1>2. PICK M : M = Cardinality(Blocks)
  OBVIOUS
<1>3. M \in Nat
  BY <1>2, PrefixAssumption, FS_CardinalityType
<1> DEFINE Short(n) == {b \in Blocks : level[b] <= n}
           T == {n \in Nat : ~ \E u : Climbs(u, Short(n))}
<1>4. \A b \in Blocks : level[b] \in Nat /\ level[b] >= 1 /\ level[b] <= M
  BY <1>1, <1>2, <1>3 DEF Levels
<1>5. T = {}
  <2>1. SUFFICES ASSUME T # {} PROVE FALSE
    OBVIOUS
  <2>2. PICK n \in T : \A m \in T : n <= m
    BY <2>1, LeastNat
  <2>3. n # 0
    <3>1. Short(0) = {}
      BY <1>4
    <3>2. PICK u : u = [b \in {} |-> <<>>]
      OBVIOUS
    <3>3. Climbs(u, Short(0))
      BY <3>1, <3>2 DEF Climbs
    <3>4. QED BY <2>2, <3>3
  <2>4. n - 1 \in Nat /\ ~(n <= n - 1)
    BY <2>3
  <2>5. PICK u : Climbs(u, Short(n - 1))
    BY <2>2, <2>4
  <2>6. PICK w : w = [b \in Short(n) |-> <<b>> \o (IF Parent[b] = Root THEN <<>> ELSE u[Parent[b]])]
    OBVIOUS
  <2>7. ASSUME NEW b \in Short(n), Parent[b] # Root PROVE Parent[b] \in Short(n - 1) /\ Parent[b] \in Short(n)
    <3>1. Parent[b] \in Blocks /\ level[Parent[b]] < level[b] /\ level[b] <= n
      BY <1>1, <2>7, PrefixAssumption DEF Levels
    <3>2. QED BY <1>4, <2>2, <3>1
  <2>8. \A b \in Short(n - 1) : b \in Short(n)
    BY <1>4, <2>2
  <2>9. \A b \in Short(n - 1) : w[b] = u[b]
    <3>1. \A b \in Short(n - 1) : u[b] = <<b>> \o (IF Parent[b] = Root THEN <<>> ELSE u[Parent[b]])
      BY <2>5 DEF Climbs
    <3>2. QED BY <2>6, <2>8, <3>1
  <2>10. \A b \in Short(n) : (IF Parent[b] = Root THEN <<>> ELSE u[Parent[b]])
                               = (IF Parent[b] = Root THEN <<>> ELSE w[Parent[b]])
    BY <2>7, <2>9
  <2>11. Climbs(w, Short(n))
    BY <2>6, <2>10 DEF Climbs
  <2>12. QED BY <2>2, <2>11
<1>6. Short(M) = Blocks
  BY <1>4
<1>7. QED BY <1>3, <1>5, <1>6

\* A block comes before the path of the block it extends.
LEMMA UpDef ==
  /\ DOMAIN Up = Blocks
  /\ \A b \in Blocks : Up[b] = <<b>> \o (IF Parent[b] = Root THEN <<>> ELSE Up[Parent[b]])
<1>1. Up = CHOOSE u : Climbs(u, Blocks)
  BY DEF Up, Climbs
<1>2. Climbs(Up, Blocks)
  BY <1>1, UpExists
<1>3. QED BY <1>2 DEF Climbs

\* A path leads from a block to a first block, parent by parent.
UpOK(b) ==
  /\ Up[b] \in Seq(Blocks) /\ Len(Up[b]) >= 1 /\ Up[b][1] = b
  /\ \A i \in 1..Len(Up[b]) :
       IF i = Len(Up[b]) THEN Parent[Up[b][i]] = Root
       ELSE Parent[Up[b][i]] # Root /\ Parent[Up[b][i]] = Up[b][i + 1]

\* For every block.
LEMMA UpFacts == \A b \in Blocks : UpOK(b)
<1>1. PICK G : G = {b \in Blocks : UpOK(b)}
  OBVIOUS
<1>2. ASSUME NEW b \in Blocks, Parent[b] # Root => Parent[b] \in G PROVE b \in G
  <2>1. CASE Parent[b] = Root
    <3>1. Up[b] = <<b>> \o <<>>
      BY <2>1, UpDef
    <3>2. Up[b] = <<b>>
      BY <3>1
    <3>3. UpOK(b)
      BY <2>1, <3>2 DEF UpOK
    <3>4. QED BY <1>1, <3>3
  <2>2. CASE Parent[b] # Root
    <3>1. PICK p, u : p = Parent[b] /\ u = Up[p]
      OBVIOUS
    <3>2. p \in Blocks /\ UpOK(p) /\ Up[b] = <<b>> \o u
      BY <1>1, <1>2, <2>2, <3>1, UpDef
    <3>3. u \in Seq(Blocks) /\ Len(u) \in Nat /\ Len(u) >= 1 /\ u[1] = p
      BY <3>1, <3>2 DEF UpOK
    <3>4. PICK w : w = <<b>> \o u
      OBVIOUS
    <3>5. w \in Seq(Blocks) /\ Len(w) = Len(u) + 1 /\ w[1] = b /\ \A i \in 1..Len(u) : w[i + 1] = u[i]
      BY <3>3, <3>4
    <3>6. ASSUME NEW i \in 1..Len(w)
          PROVE  IF i = Len(w) THEN Parent[w[i]] = Root ELSE Parent[w[i]] # Root /\ Parent[w[i]] = w[i + 1]
      <4>1. CASE i = 1
        BY <2>2, <3>1, <3>3, <3>5, <4>1
      <4>2. CASE i # 1
        <5>1. i - 1 \in 1..Len(u) /\ w[i] = u[i - 1] /\ (i = Len(w) <=> i - 1 = Len(u))
          <6>1. i - 1 \in 1..Len(u) /\ (i - 1) + 1 = i
            BY <3>3, <3>5, <4>2
          <6>2. w[(i - 1) + 1] = u[i - 1]
            BY <3>5, <6>1
          <6>3. QED BY <3>3, <3>5, <6>1, <6>2
        <5>2. IF i - 1 = Len(u) THEN Parent[u[i - 1]] = Root
              ELSE Parent[u[i - 1]] # Root /\ Parent[u[i - 1]] = u[(i - 1) + 1]
          BY <3>1, <3>2, <5>1 DEF UpOK
        <5>3. i - 1 # Len(u) => w[i + 1] = u[(i - 1) + 1]
          <6>1. SUFFICES ASSUME i - 1 # Len(u) PROVE w[i + 1] = u[i]
            BY <3>3, <3>5
          <6>2. i \in 1..Len(u)
            BY <3>3, <5>1, <6>1
          <6>3. QED BY <3>5, <6>2
        <5>4. QED BY <5>1, <5>2, <5>3
      <4>3. QED BY <4>1, <4>2
    <3>7. UpOK(b)
      BY <3>2, <3>3, <3>4, <3>5, <3>6 DEF UpOK
    <3>8. QED BY <1>1, <3>7
  <2>3. QED BY <2>1, <2>2
<1>3. G = Blocks
  BY <1>1, <1>2, TreeInduction
<1>4. QED BY <1>1, <1>3

\* A path is its block and the path of the block it extends.
LEMMA UpRange ==
  ASSUME NEW x \in Blocks
  PROVE  Range(Up[x]) = {x} \cup (IF Parent[x] = Root THEN {} ELSE Range(Up[Parent[x]]))
<1>1. CASE Parent[x] = Root
  <2>1. Up[x] = <<x>> \o <<>>
    BY <1>1, UpDef
  <2>2. Up[x] = <<x>>
    BY <2>1
  <2>3. QED BY <1>1, <2>2, SingletonFacts
<1>2. CASE Parent[x] # Root
  <2>1. Parent[x] \in Blocks /\ Up[x] = <<x>> \o Up[Parent[x]]
    BY <1>2, UpDef, PrefixAssumption
  <2>2. Up[Parent[x]] \in Seq(Blocks) /\ <<x>> \in Seq(Blocks)
    BY <2>1, UpFacts DEF UpOK
  <2>3. PICK h, u : h = <<x>> /\ u = Up[Parent[x]]
    OBVIOUS
  <2>4. h \in Seq(Blocks) /\ u \in Seq(Blocks) /\ Up[x] = h \o u
    BY <2>1, <2>2, <2>3
  <2>5. Range(Up[x]) = Range(h) \cup Range(u)
    BY <2>4, ConcatFacts
  <2>6. QED BY <1>2, <2>3, <2>5, SingletonFacts
<1>3. QED BY <1>1, <1>2

\* What is below a block: the block, and what extends something below it.
LEMMA DescFacts ==
  /\ Desc \in [Blocks -> SUBSET Blocks]
  /\ \A b \in Blocks : b \in Desc[b]
  /\ \A b, x \in Blocks : x # b => (x \in Desc[b] <=> Parent[x] # Root /\ Parent[x] \in Desc[b])
<1>1. Desc \in [Blocks -> SUBSET Blocks] /\ \A b, x \in Blocks : x \in Desc[b] <=> b \in Range(Up[x])
  BY DEF Desc
<1>2. \A x \in Blocks : Range(Up[x]) = {x} \cup (IF Parent[x] = Root THEN {} ELSE Range(Up[Parent[x]]))
  BY UpRange
<1>3. \A b \in Blocks : b \in Desc[b]
  BY <1>1, <1>2
<1>4. ASSUME NEW b \in Blocks, NEW x \in Blocks, x # b
      PROVE  x \in Desc[b] <=> Parent[x] # Root /\ Parent[x] \in Desc[b]
  <2>1. Parent[x] # Root => Parent[x] \in Blocks
    BY PrefixAssumption
  <2>2. QED BY <1>1, <1>2, <1>4, <2>1
<1>5. QED BY <1>1, <1>3, <1>4

\* What is below a block that extends another is below that one.
LEMMA DescBelow ==
  ASSUME NEW b \in Blocks, NEW x \in Blocks, Parent[x] = b
  PROVE  Desc[x] \subseteq Desc[b] /\ x \in Desc[b]
<1>1. b # Root
  BY PrefixAssumption
<1>2. x \in Desc[b]
  BY <1>1, DescFacts
<1>3. PICK G : G = {y \in Blocks : y \in Desc[x] => y \in Desc[b]}
  OBVIOUS
<1>4. ASSUME NEW y \in Blocks, Parent[y] # Root => Parent[y] \in G PROVE y \in G
  <2>1. CASE y = x
    BY <1>2, <1>3, <2>1
  <2>2. CASE y = b
    BY <1>3, <2>2, DescFacts
  <2>3. CASE y # x /\ y # b
    BY <1>3, <1>4, <2>3, DescFacts
  <2>4. QED BY <2>1, <2>2, <2>3
<1>5. G = Blocks
  BY <1>3, <1>4, TreeInduction
<1>6. QED BY <1>2, <1>3, <1>5, DescFacts

\* In a whole tree, what is below a block and not that block is below one of
\* the blocks that extend it.
LEMMA DescChild ==
  ASSUME NEW I \in SUBSET Blocks, \A y \in I : Parent[y] = Root \/ Parent[y] \in I, NEW b \in Blocks
  PROVE  \A y \in I : y \in Desc[b] /\ y # b => \E x \in I : Parent[x] = b /\ y \in Desc[x]
<1>1. PICK G : G = {y \in Blocks : y \in I /\ y \in Desc[b] /\ y # b => \E x \in I : Parent[x] = b /\ y \in Desc[x]}
  OBVIOUS
<1>2. ASSUME NEW y \in Blocks, Parent[y] # Root => Parent[y] \in G PROVE y \in G
  <2>1. SUFFICES ASSUME y \in I, y \in Desc[b], y # b PROVE \E x \in I : Parent[x] = b /\ y \in Desc[x]
    BY <1>1
  <2>2. Parent[y] # Root /\ Parent[y] \in Desc[b] /\ Parent[y] \in I /\ Parent[y] \in G
    BY <1>2, <2>1, DescFacts
  <2>3. CASE Parent[y] = b
    BY <2>1, <2>3, DescFacts
  <2>4. CASE Parent[y] # b
    <3>1. PICK x \in I : Parent[x] = b /\ Parent[y] \in Desc[x]
      BY <1>1, <2>2, <2>4
    <3>2. y # x /\ x \in Blocks
      BY <2>4, <3>1
    <3>3. y \in Desc[x]
      BY <2>2, <3>1, <3>2, DescFacts
    <3>4. QED BY <3>1, <3>3
  <2>5. QED BY <2>3, <2>4
<1>3. G = Blocks
  BY <1>1, <1>2, TreeInduction
<1>4. QED BY <1>1, <1>3
-----------------------------------------------------------------------------
(* The cache and the blocks that can be freed *)

Errors == {"none", "slots", "chain", "gap", "order", "missing", "parent", "host", "room"}

\* Reference and child counts are of any sign until they are shown exact.
CacheType ==
  [index : SUBSET Blocks, dev : SUBSET Blocks, host : SUBSET Blocks, pinned : SUBSET Blocks,
   out : SUBSET Blocks, in : SUBSET Blocks, wt : SUBSET Blocks, free : SUBSET Blocks,
   ref : [Blocks -> Int], kids : [Blocks -> Int], slots : Int, pool : Int,
   down : Seq(SUBSET Blocks), up : Seq(SUBSET Blocks), built : BOOLEAN,
   view : [Kinds -> {Stale} \cup SUBSET Blocks], err : Errors]

\* The tree is whole: what an indexed block extends is indexed.
Whole(C) == C.index \subseteq Blocks /\ \A b \in C.index : Parent[b] = Root \/ Parent[b] \in C.index

\* A block is freeable if it is not blocked and all that extend it are.
LEMMA FreeableStep ==
  ASSUME NEW C, Whole(C), NEW b \in C.index
  PROVE  b \in FreeableIn(C) <=> ~Blocked(C, b) /\ Children(C, b) \subseteq FreeableIn(C)
<1>1. b \in Blocks /\ C.index \subseteq Blocks
  BY DEF Whole
<1>2. ASSUME b \in FreeableIn(C) PROVE ~Blocked(C, b) /\ Children(C, b) \subseteq FreeableIn(C)
  <2>1. \A x \in Desc[b] \cap C.index : ~Blocked(C, x)
    BY <1>2 DEF FreeableIn
  <2>2. ASSUME NEW x \in Children(C, b) PROVE x \in FreeableIn(C)
    <3>1. x \in C.index /\ Parent[x] = b /\ x \in Blocks
      BY <1>1 DEF Children
    <3>2. Desc[x] \subseteq Desc[b]
      BY <1>1, <3>1, DescBelow
    <3>3. QED BY <2>1, <3>1, <3>2 DEF FreeableIn
  <2>3. b \in Desc[b]
    BY <1>1, DescFacts
  <2>4. QED BY <2>1, <2>2, <2>3
<1>3. ASSUME ~Blocked(C, b), Children(C, b) \subseteq FreeableIn(C) PROVE b \in FreeableIn(C)
  <2>1. ASSUME NEW y \in Desc[b] \cap C.index PROVE ~Blocked(C, y)
    <3>1. CASE y = b
      BY <1>3, <3>1
    <3>2. CASE y # b
      <4>1. PICK x \in C.index : Parent[x] = b /\ y \in Desc[x]
        BY <1>1, <2>1, <3>2, DescChild DEF Whole
      <4>2. x \in FreeableIn(C)
        BY <1>3, <4>1 DEF Children
      <4>3. QED BY <2>1, <4>1, <4>2 DEF FreeableIn
    <3>3. QED BY <3>1, <3>2
  <2>2. QED BY <2>1 DEF FreeableIn
<1>4. QED BY <1>2, <1>3

\* And no other set has that property.
LEMMA FreeableOnly ==
  ASSUME NEW C, Whole(C), NEW F, F \subseteq C.index,
         \A b \in C.index : b \in F <=> ~Blocked(C, b) /\ Children(C, b) \subseteq F
  PROVE  F = FreeableIn(C)
<1>1. C.index \subseteq Blocks
  BY DEF Whole
<1>2. PICK G : G = {b \in Blocks : b \in F <=> b \in FreeableIn(C)}
  OBVIOUS
<1>3. ASSUME NEW b \in Blocks, \A x \in Blocks : Parent[x] = b => x \in G PROVE b \in G
  <2>1. CASE b \notin C.index
    BY <1>2, <2>1 DEF FreeableIn
  <2>2. CASE b \in C.index
    <3>1. b \in FreeableIn(C) <=> ~Blocked(C, b) /\ Children(C, b) \subseteq FreeableIn(C)
      BY <2>2, FreeableStep
    <3>2. Children(C, b) \subseteq FreeableIn(C) <=> Children(C, b) \subseteq F
      BY <1>1, <1>2, <1>3 DEF Children
    <3>3. QED BY <1>2, <2>2, <3>1, <3>2
  <2>3. QED BY <2>1, <2>2
<1>4. G = Blocks
  BY <1>2, <1>3, LeafInduction
<1>5. FreeableIn(C) \subseteq C.index
  BY DEF FreeableIn
<1>6. QED BY <1>1, <1>2, <1>4, <1>5
-----------------------------------------------------------------------------
(* Keeping the freeable set up to date *)

\* What a climb carries: the set, the counts of children outside it, and
\* whether it goes on.
ClimbType == [free : SUBSET Blocks, kids : [Blocks -> Int], go : BOOLEAN]

Counted(C, S) == \A x \in Blocks : S.kids[x] = Cardinality(Children(C, x) \ S.free)
Fits(C, S, x) == x \in S.free <=> x \in C.index /\ S.kids[x] = 0 /\ ~Blocked(C, x)

\* Counts are of finite sets, so a block has none iff its children are free.
LEMMA CountFacts ==
  ASSUME NEW C, C.index \subseteq Blocks, NEW F, NEW x
  PROVE  /\ IsFiniteSet(Children(C, x) \ F) /\ Cardinality(Children(C, x) \ F) \in Nat
         /\ Cardinality(Children(C, x) \ F) = 0 <=> Children(C, x) \subseteq F
<1>1. IsFiniteSet(Children(C, x) \ F)
  <2>1. Children(C, x) \ F \subseteq Blocks
    BY DEF Children
  <2>2. QED BY <2>1, FS_Subset, PrefixAssumption
<1>2. Cardinality(Children(C, x) \ F) = 0 <=> Children(C, x) \ F = {}
  BY <1>1, FS_EmptySet
<1>3. QED BY <1>1, <1>2, FS_CardinalityType

\* A climb that leaves no block behind has the freeable set.
LEMMA AllFit ==
  ASSUME NEW C, Whole(C), NEW S \in ClimbType, Counted(C, S), \A x \in Blocks : Fits(C, S, x)
  PROVE  S.free = FreeableIn(C)
<1>1. PICK F : F = S.free
  OBVIOUS
<1>2. F \subseteq C.index /\ C.index \subseteq Blocks
  BY <1>1 DEF Fits, ClimbType, Whole
<1>3. ASSUME NEW b \in C.index PROVE b \in F <=> ~Blocked(C, b) /\ Children(C, b) \subseteq F
  <2>1. b \in Blocks
    BY <1>2
  <2>2. S.kids[b] = 0 <=> Children(C, b) \subseteq F
    BY <1>1, <1>2, <2>1, CountFacts DEF Counted
  <2>3. QED BY <1>1, <2>1, <2>2 DEF Fits
<1>4. QED BY <1>1, <1>2, <1>3, FreeableOnly

\* One block of a climb: it stays, or it joins or leaves the set.
Stays(C, S, T) == T = [S EXCEPT !.go = FALSE]
Joins(C, S, T, b) ==
  /\ S.go /\ T.go /\ b \notin S.free /\ S.kids[b] = 0 /\ ~Blocked(C, b)
  /\ T.free = S.free \cup {b}
  /\ T.kids = IF Parent[b] = Root THEN S.kids ELSE [S.kids EXCEPT ![Parent[b]] = S.kids[Parent[b]] - 1]
Leaves(C, S, T, b) ==
  /\ S.go /\ T.go /\ b \in S.free /\ ~(S.kids[b] = 0 /\ ~Blocked(C, b))
  /\ T.free = S.free \ {b}
  /\ T.kids = IF Parent[b] = Root THEN S.kids ELSE [S.kids EXCEPT ![Parent[b]] = S.kids[Parent[b]] + 1]

\* What a step of a climb does.
LEMMA ClimbCases ==
  ASSUME NEW C, NEW S \in ClimbType, NEW b \in Blocks, NEW T, T = Climb(C, S, b)
  PROVE  /\ T \in ClimbType
         /\ \/ Stays(C, S, T) /\ (S.go => ((b \in S.free) <=> S.kids[b] = 0 /\ ~Blocked(C, b)))
            \/ Joins(C, S, T, b)
            \/ Leaves(C, S, T, b)
<1> DEFINE now == S.kids[b] = 0 /\ ~Blocked(C, b)
<1>1. /\ S.free \in SUBSET Blocks /\ S.kids \in [Blocks -> Int] /\ S.go \in BOOLEAN
      /\ Parent[b] # Root => Parent[b] \in Blocks
  BY PrefixAssumption DEF ClimbType
<1>2. now \in BOOLEAN /\ (b \in S.free) \in BOOLEAN
  OBVIOUS
<1>3. CASE ~S.go \/ now = (b \in S.free)
  <2>1. T = [S EXCEPT !.go = FALSE]
    BY <1>3 DEF Climb
  <2>2. T \in ClimbType
    BY <2>1 DEF ClimbType
  <2>3. S.go => ((b \in S.free) <=> now)
    BY <1>2, <1>3
  <2>4. QED BY <2>1, <2>2, <2>3 DEF Stays
<1>4. CASE ~(~S.go \/ now = (b \in S.free))
  <2>1. S.go /\ ~((b \in S.free) <=> now)
    BY <1>1, <1>2, <1>4
  <2>2. T = [free |-> IF now THEN S.free \cup {b} ELSE S.free \ {b},
             kids |-> IF Parent[b] = Root THEN S.kids
                      ELSE [S.kids EXCEPT ![Parent[b]] = IF now THEN S.kids[Parent[b]] - 1 ELSE S.kids[Parent[b]] + 1],
             go   |-> TRUE]
    BY <1>4 DEF Climb
  <2>3. CASE now
    <3>1. T = [free |-> S.free \cup {b}, go |-> TRUE,
               kids |-> IF Parent[b] = Root THEN S.kids ELSE [S.kids EXCEPT ![Parent[b]] = S.kids[Parent[b]] - 1]]
      BY <2>2, <2>3
    <3>2. Joins(C, S, T, b)
      BY <2>1, <2>3, <3>1 DEF Joins
    <3>3. T \in ClimbType
      BY <1>1, <3>1 DEF ClimbType
    <3>4. QED BY <3>2, <3>3
  <2>4. CASE ~now
    <3>1. T = [free |-> S.free \ {b}, go |-> TRUE,
               kids |-> IF Parent[b] = Root THEN S.kids ELSE [S.kids EXCEPT ![Parent[b]] = S.kids[Parent[b]] + 1]]
      BY <2>2, <2>4
    <3>2. Leaves(C, S, T, b)
      BY <2>1, <2>4, <3>1 DEF Leaves
    <3>3. T \in ClimbType
      BY <1>1, <3>1 DEF ClimbType
    <3>4. QED BY <3>2, <3>3
  <2>5. QED BY <2>3, <2>4
<1>5. QED BY <1>3, <1>4

\* A block does not extend itself.
LEMMA NotItself == \A b \in Blocks : Parent[b] # b
<1>1. PICK level : Levels(level)
  BY LevelsExist
<1>2. SUFFICES ASSUME NEW b \in Blocks, Parent[b] = b PROVE FALSE
  OBVIOUS
<1>3. Parent[b] # Root /\ level[b] < level[b]
  BY <1>1, <1>2, PrefixAssumption DEF Levels
<1>4. level[b] \in Int
  BY <1>1, PrefixAssumption, FS_CardinalityType DEF Levels
<1>5. QED BY <1>3, <1>4

\* When a block joins or leaves the set, only its parent's count changes.
LEMMA CountMoves ==
  ASSUME NEW C, C.index \subseteq Blocks, NEW b \in C.index, NEW F, NEW G,
         b \notin F, G = F \cup {b}
  PROVE  /\ \A y : y # Parent[b] => Children(C, y) \ G = Children(C, y) \ F
         /\ Cardinality(Children(C, Parent[b]) \ G) = Cardinality(Children(C, Parent[b]) \ F) - 1
<1>1. \A y : y # Parent[b] => Children(C, y) \ G = Children(C, y) \ F
  BY DEF Children
<1>2. PICK p, R, S : p = Parent[b] /\ R = Children(C, p) \ F /\ S = Children(C, p) \ G
  OBVIOUS
<1>3. b \in R /\ S = R \ {b}
  BY <1>2 DEF Children
<1>4. IsFiniteSet(R) /\ Cardinality(R) \in Nat
  BY <1>2, CountFacts
<1>5. Cardinality(S) = Cardinality(R) - 1
  BY <1>3, <1>4, FS_RemoveElement
<1>6. QED BY <1>1, <1>2, <1>5

\* A climb has one block that need not fit, and moves it up.
ClimbInv(C, S, u, i) ==
  /\ S \in ClimbType /\ Counted(C, S)
  /\ \A x \in Blocks : Fits(C, S, x) \/ (S.go /\ i < Len(u) /\ x = u[i + 1])

\* One step of it.
LEMMA ClimbStep ==
  ASSUME NEW C, Whole(C), NEW u \in Seq(Blocks), NEW i \in 1..Len(u), NEW S, NEW T,
         ClimbInv(C, S, u, i - 1), u[i] \in C.index, T = Climb(C, S, u[i]),
         IF i = Len(u) THEN Parent[u[i]] = Root ELSE Parent[u[i]] # Root /\ Parent[u[i]] = u[i + 1]
  PROVE  ClimbInv(C, T, u, i)
<1>1. PICK b : b = u[i]
  OBVIOUS
<1>2. b \in Blocks /\ b \in C.index /\ C.index \subseteq Blocks /\ (i - 1) + 1 = i /\ Len(u) \in Nat /\ Parent[b] # b
  BY <1>1, NotItself DEF Whole
<1>3. /\ S \in ClimbType /\ Counted(C, S)
      /\ \A x \in Blocks : Fits(C, S, x) \/ (S.go /\ x = b)
  BY <1>1, <1>2 DEF ClimbInv
<1>4. /\ T \in ClimbType
      /\ \/ Stays(C, S, T) /\ (S.go => ((b \in S.free) <=> S.kids[b] = 0 /\ ~Blocked(C, b)))
         \/ Joins(C, S, T, b)
         \/ Leaves(C, S, T, b)
  BY <1>1, <1>2, <1>3, ClimbCases
<1>5. S.free \in SUBSET Blocks /\ S.kids \in [Blocks -> Int] /\ T.free \in SUBSET Blocks /\ T.kids \in [Blocks -> Int]
  BY <1>3, <1>4 DEF ClimbType
<1>6. CASE Stays(C, S, T) /\ (S.go => ((b \in S.free) <=> S.kids[b] = 0 /\ ~Blocked(C, b)))
  <2>1. T.free = S.free /\ T.kids = S.kids
    BY <1>3, <1>6 DEF Stays, ClimbType
  <2>2. Counted(C, T)
    BY <1>3, <2>1 DEF Counted
  <2>3. \A x \in Blocks : Fits(C, T, x)
    BY <1>2, <1>3, <1>6, <2>1 DEF Fits
  <2>4. QED BY <1>4, <2>2, <2>3 DEF ClimbInv
<1>7. CASE Joins(C, S, T, b) \/ Leaves(C, S, T, b)
  <2>1. /\ T.go /\ S.go /\ (T.free = S.free \cup {b} \/ T.free = S.free \ {b})
        /\ \A x \in Blocks : x # Parent[b] => T.kids[x] = S.kids[x]
    BY <1>5, <1>7, SMTT(30) DEF Joins, Leaves
  <2>2. ASSUME NEW x \in Blocks PROVE T.kids[x] = Cardinality(Children(C, x) \ T.free)
    <3>1. S.kids[x] = Cardinality(Children(C, x) \ S.free)
      BY <1>3 DEF Counted
    <3>2. CASE x # Parent[b]
      <4>1. Children(C, x) \ T.free = Children(C, x) \ S.free
        BY <2>1, <3>2 DEF Children
      <4>2. QED BY <2>1, <3>1, <3>2, <4>1
    <3>3. CASE x = Parent[b] /\ Joins(C, S, T, b)
      <4>1. Parent[b] # Root /\ b \notin S.free /\ T.free = S.free \cup {b} /\ T.kids[x] = S.kids[x] - 1
        BY <1>5, <3>3, PrefixAssumption DEF Joins
      <4>2. PICK F, G : F = S.free /\ G = T.free
        OBVIOUS
      <4>3. b \notin F /\ G = F \cup {b}
        BY <4>1, <4>2
      <4>4. Cardinality(Children(C, x) \ G) = Cardinality(Children(C, x) \ F) - 1
        BY <1>2, <3>3, <4>3, CountMoves
      <4>5. QED BY <3>1, <4>1, <4>2, <4>4
    <3>4. CASE x = Parent[b] /\ Leaves(C, S, T, b)
      <4>1. Parent[b] # Root /\ b \in S.free /\ T.free = S.free \ {b} /\ T.kids[x] = S.kids[x] + 1
        BY <1>5, <3>4, PrefixAssumption DEF Leaves
      <4>2. PICK F, G : F = T.free /\ G = S.free
        OBVIOUS
      <4>3. b \notin F /\ G = F \cup {b}
        BY <4>1, <4>2
      <4>4. Cardinality(Children(C, x) \ G) = Cardinality(Children(C, x) \ F) - 1
        BY <1>2, <3>4, <4>3, CountMoves
      <4>5. Cardinality(Children(C, x) \ F) \in Nat
        BY <1>2, CountFacts
      <4>6. QED BY <3>1, <4>1, <4>2, <4>4, <4>5
    <3>5. QED BY <1>7, <3>2, <3>3, <3>4
  <2>3. Fits(C, T, b)
    <3>1. T.kids[b] = S.kids[b]
      BY <1>2, <2>1
    <3>2. QED BY <1>2, <1>7, <3>1 DEF Fits, Joins, Leaves
  <2>4. ASSUME NEW x \in Blocks, x # b, x # Parent[b] PROVE Fits(C, T, x)
    <3>1. Fits(C, S, x) /\ T.kids[x] = S.kids[x] /\ (x \in T.free <=> x \in S.free)
      BY <1>3, <2>1, <2>4
    <3>2. QED BY <3>1 DEF Fits
  <2>5. ASSUME NEW x \in Blocks, x = Parent[b] PROVE i < Len(u) /\ x = u[i + 1]
    <3>1. x # Root
      BY PrefixAssumption
    <3>2. QED BY <1>1, <2>5, <3>1
  <2>6. QED BY <1>4, <2>1, <2>2, <2>3, <2>4, <2>5 DEF ClimbInv, Counted
<1>8. QED BY <1>4, <1>6, <1>7

\* The path of an indexed block is indexed.
LEMMA UpIndexed ==
  ASSUME NEW C, Whole(C), NEW b \in C.index
  PROVE  \A i \in 1..Len(Up[b]) : Up[b][i] \in C.index
<1>1. b \in Blocks /\ UpOK(b)
  BY UpFacts DEF Whole
<1>2. PICK u, T : u = Up[b] /\ T = {i \in Nat : i \in 1..Len(u) /\ u[i] \notin C.index}
  OBVIOUS
<1>3. SUFFICES ASSUME T # {} PROVE FALSE
  BY <1>2
<1>4. PICK n \in T : \A m \in T : n <= m
  BY <1>2, <1>3, LeastNat
<1>5. u[1] = b /\ Len(u) \in Nat /\ n \in 1..Len(u) /\ u[n] \notin C.index
  BY <1>1, <1>2, <1>4 DEF UpOK
<1>6. n - 1 \in 1..Len(u) /\ n - 1 # Len(u) /\ ~(n <= n - 1) /\ n - 1 \in Nat /\ (n - 1) + 1 = n
  BY <1>5
<1>7. u[n - 1] \in C.index
  BY <1>2, <1>4, <1>6
<1>8. Parent[u[n - 1]] # Root /\ Parent[u[n - 1]] = u[(n - 1) + 1]
  BY <1>1, <1>2, <1>6 DEF UpOK
<1>9. QED BY <1>5, <1>6, <1>7, <1>8 DEF Whole

Climbed(C, X, u) == Along(LAMBDA S, x : Climb(C, S, x), X, u)
OnClimb(at, C, X, u) ==
  /\ Climbed(C, X, u) = at[Len(u)]
  /\ at[0] = X
  /\ \A i \in 0..Len(u) : at[i] \in ClimbType
  /\ \A i \in 1..Len(u) : at[i] = Climb(C, at[i - 1], u[i])

\* The climb along a path, step by step.
LEMMA ClimbRun ==
  ASSUME NEW C, NEW X \in ClimbType, NEW u \in Seq(Blocks)
  PROVE  \E at : OnClimb(at, C, X, u)
<1>1. PICK n : n = Len(u) /\ n \in Nat /\ \A i \in 1..n : u[i] \in Blocks
  OBVIOUS
<1>2. PICK h : h = [p \in (1..n) \X ClimbType |-> Climb(C, p[2], u[p[1]])]
  OBVIOUS
<1>3. \A i \in 1..n : \A y \in ClimbType : h[<<i, y>>] = Climb(C, y, u[i])
  BY <1>2
<1>4. \A i \in 1..n : \A y \in ClimbType : h[<<i, y>>] \in ClimbType
  BY <1>1, <1>3, ClimbCases, ZenonT(30)
<1> DEFINE Runs(f) == f = [i \in 0..n |-> IF i = 0 THEN X ELSE Climb(C, f[i - 1], u[i])]
<1>5. \E f : Runs(f) /\ \A i \in 0..n : f[i] \in ClimbType
  <2>1. PICK f : RunsTo(f, n, X, h) /\ \A i \in 0..n : f[i] \in ClimbType
    BY <1>1, <1>4, RunExists
  <2>2. \A i \in 0..n : i # 0 => i \in 1..n /\ i - 1 \in 0..n
    BY <1>1
  <2>3. \A i \in 0..n : (IF i = 0 THEN X ELSE h[<<i, f[i - 1]>>]) = (IF i = 0 THEN X ELSE Climb(C, f[i - 1], u[i]))
    BY <1>3, <2>1, <2>2
  <2>4. Runs(f)
    BY <2>1, <2>3 DEF RunsTo
  <2>5. QED BY <2>1, <2>4
<1>6. PICK at : at = CHOOSE f : Runs(f)
  OBVIOUS
<1>7. Climbed(C, X, u) = at[n]
  BY <1>1, <1>6 DEF Along, Climbed
<1>8. Runs(at)
  BY <1>5, <1>6
<1>9. \A i \in 1..n : i \in 0..n /\ i # 0 /\ i - 1 \in 0..n
  BY <1>1
<1>10. at[0] = X /\ \A i \in 1..n : at[i] = Climb(C, at[i - 1], u[i])
  BY <1>1, <1>8, <1>9
<1>11. \A i \in 0..n : at[i] \in ClimbType
  <2>1. PICK T : T = {i \in Nat : i \in 0..n /\ at[i] \notin ClimbType}
    OBVIOUS
  <2>2. SUFFICES ASSUME T # {} PROVE FALSE
    BY <1>1, <2>1
  <2>3. PICK k \in T : \A m \in T : k <= m
    BY <2>1, <2>2, LeastNat
  <2>4. k # 0 /\ k \in 1..n /\ k - 1 \in 0..n /\ ~(k <= k - 1) /\ k - 1 \in Nat
    BY <1>1, <1>10, <2>1, <2>3
  <2>5. at[k - 1] \in ClimbType
    BY <2>1, <2>3, <2>4
  <2>6. QED BY <1>1, <1>10, <2>1, <2>3, <2>4, <2>5, ClimbCases
<1>12. OnClimb(at, C, X, u)
  BY <1>1, <1>7, <1>10, <1>11 DEF OnClimb
<1>13. QED BY <1>12

\* Two caches that differ at most in what is kept about capacity.
Twin(C, D) ==
  /\ D.index = C.index /\ D.dev = C.dev /\ D.host = C.host /\ D.pinned = C.pinned
  /\ D.out = C.out /\ D.in = C.in /\ D.wt = C.wt /\ D.ref = C.ref
  /\ D.slots = C.slots /\ D.pool = C.pool /\ D.down = C.down /\ D.up = C.up /\ D.err = C.err

\* They have the same capacity.
LEMMA TwinScans ==
  ASSUME NEW C, NEW D, Twin(C, D)
  PROVE  /\ \A x : Blocked(D, x) <=> Blocked(C, x)
         /\ \A x : Children(D, x) = Children(C, x)
         /\ FreeableIn(D) = FreeableIn(C)
         /\ \A k : Scan(D, k) = Scan(C, k)
<1>1. /\ D.index = C.index /\ D.dev = C.dev /\ D.host = C.host /\ D.pinned = C.pinned
      /\ D.out = C.out /\ D.in = C.in /\ D.ref = C.ref
  BY DEF Twin
<1>2. (\A x : Blocked(D, x) <=> Blocked(C, x)) /\ \A x : Children(D, x) = Children(C, x)
  BY <1>1 DEF Blocked, Moving, Children
<1>3. FreeableIn(D) = FreeableIn(C) /\ EvictableIn(D) = EvictableIn(C)
  BY <1>1, <1>2 DEF FreeableIn, EvictableIn
<1>4. \A pending : ReclaimableIn(D, pending) = ReclaimableIn(C, pending)
  BY <1>1 DEF ReclaimableIn, Moving
<1>5. QED BY <1>2, <1>3, <1>4 DEF Scan

\* Before the freeable set is built there is none.
Dormant(C) == ~C.built => C.free = {} /\ \A x \in Blocks : C.kids[x] = 0

\* What is kept about capacity is right, but for the cached views.
Kept(C) == C \in CacheType /\ Whole(C) /\ Dormant(C) /\ FreeExact(C)

\* And for these too.
Sharp(C) == Kept(C) /\ ViewsCurrent(C)

\* In an exact set every block fits.
LEMMA ExactFits ==
  ASSUME NEW C, Kept(C), C.built
  PROVE  Counted(C, C) /\ \A x \in Blocks : Fits(C, C, x)
<1>1. /\ C.free = FreeableIn(C) /\ Whole(C) /\ C.index \subseteq Blocks
      /\ \A b \in Blocks : C.kids[b] = Cardinality(Children(C, b) \ C.free)
  BY DEF Kept, FreeExact, Whole
<1>2. ASSUME NEW x \in Blocks PROVE Fits(C, C, x)
  <2>1. C.kids[x] = 0 <=> Children(C, x) \subseteq C.free
    BY <1>1, CountFacts
  <2>2. CASE x \in C.index
    BY <1>1, <2>1, <2>2, FreeableStep DEF Fits
  <2>3. CASE x \notin C.index
    BY <1>1, <2>3 DEF Fits, FreeableIn
  <2>4. QED BY <2>2, <2>3
<1>3. QED BY <1>1, <1>2 DEF Counted

\* _refresh_freeable_path repairs the set when at most one block does not fit.
LEMMA RefreshRepairs ==
  ASSUME NEW C \in CacheType, Whole(C), NEW b \in C.index, C.built, Counted(C, C),
         \A x \in Blocks : x # b => Fits(C, C, x), NEW E, E = Refresh(C, b)
  PROVE  Kept(E) /\ Twin(C, E) /\ E.built /\ E.view = C.view
<1>1. b \in Blocks /\ b # Root /\ UpOK(b) /\ Up[b] \in Seq(Blocks)
  BY UpFacts, PrefixAssumption DEF Whole, UpOK
<1>2. PICK X, u : X = [free |-> C.free, kids |-> C.kids, go |-> TRUE] /\ u = Up[b]
  OBVIOUS
<1>3. X \in ClimbType /\ X.free = C.free /\ X.kids = C.kids /\ X.go
  BY <1>2 DEF CacheType, ClimbType
<1>4. PICK at : /\ Climbed(C, X, u) = at[Len(u)]
                /\ at[0] = X
                /\ \A i \in 0..Len(u) : at[i] \in ClimbType
                /\ \A i \in 1..Len(u) : at[i] = Climb(C, at[i - 1], u[i])
  <2>1. X \in ClimbType /\ u \in Seq(Blocks)
    BY <1>1, <1>2, <1>3
  <2>2. PICK f : OnClimb(f, C, X, u)
    BY <2>1, ClimbRun
  <2>3. QED BY <2>2 DEF OnClimb
<1>5. Len(u) \in Nat /\ u \in Seq(Blocks) /\ Len(u) >= 1 /\ u[1] = b
  BY <1>1, <1>2 DEF UpOK
<1>6. ClimbInv(C, at[0], u, 0)
  <2>1. Counted(C, X) /\ \A x \in Blocks : x # b => Fits(C, X, x)
    BY <1>3 DEF Counted, Fits
  <2>2. 0 < Len(u) /\ u[0 + 1] = b
    BY <1>5
  <2>3. QED BY <1>3, <1>4, <2>1, <2>2 DEF ClimbInv
<1>7. ClimbInv(C, at[Len(u)], u, Len(u))
  <2>1. PICK T : T = {i \in Nat : i \in 0..Len(u) /\ ~ClimbInv(C, at[i], u, i)}
    OBVIOUS
  <2>2. SUFFICES ASSUME T # {} PROVE FALSE
    BY <1>5, <2>1
  <2>3. PICK k \in T : \A m \in T : k <= m
    BY <2>1, <2>2, LeastNat
  <2>4. k \in 1..Len(u) /\ k - 1 \in 0..Len(u) /\ ~(k <= k - 1) /\ k - 1 \in Nat
    BY <1>5, <1>6, <2>1, <2>3
  <2>5. ClimbInv(C, at[k - 1], u, k - 1)
    BY <2>1, <2>3, <2>4
  <2>6. u[k] \in C.index /\ at[k] = Climb(C, at[k - 1], u[k])
    BY <1>2, <1>4, <2>4, UpIndexed
  <2>7. IF k = Len(u) THEN Parent[u[k]] = Root ELSE Parent[u[k]] # Root /\ Parent[u[k]] = u[k + 1]
    BY <1>1, <1>2, <2>4 DEF UpOK
  <2>8. ClimbInv(C, at[k], u, k)
    BY <1>5, <2>4, <2>5, <2>6, <2>7, ClimbStep
  <2>9. QED BY <2>1, <2>3, <2>8
<1>8. PICK S : S = at[Len(u)]
  OBVIOUS
<1>9. S \in ClimbType /\ Counted(C, S) /\ \A x \in Blocks : Fits(C, S, x)
  BY <1>5, <1>7, <1>8 DEF ClimbInv
<1>10. S.free = FreeableIn(C) /\ S.free \in SUBSET Blocks /\ S.kids \in [Blocks -> Int]
  BY <1>9, AllFit DEF ClimbType
<1>11. E = [C EXCEPT !.free = S.free, !.kids = S.kids]
  BY <1>1, <1>2, <1>4, <1>8 DEF Refresh, Climbed
<1>12. E \in CacheType /\ Twin(C, E) /\ E.built /\ E.view = C.view /\ E.free = S.free /\ E.kids = S.kids
  BY <1>10, <1>11, ZenonT(30) DEF CacheType, Twin
<1>13. FreeExact(E)
  BY <1>9, <1>10, <1>12, TwinScans DEF FreeExact, Counted
<1>14. Whole(E)
  BY <1>12 DEF Whole, Twin
<1>15. QED BY <1>12, <1>13, <1>14 DEF Kept, Dormant

\* The fields of a cache have their types.
LEMMA CacheFields ==
  ASSUME NEW C \in CacheType
  PROVE  /\ C.index \subseteq Blocks /\ C.dev \subseteq Blocks /\ C.host \subseteq Blocks /\ C.pinned \subseteq Blocks
         /\ C.out \subseteq Blocks /\ C.in \subseteq Blocks /\ C.wt \subseteq Blocks /\ C.free \subseteq Blocks
         /\ C.ref \in [Blocks -> Int] /\ C.kids \in [Blocks -> Int] /\ C.slots \in Int /\ C.pool \in Int
         /\ C.down \in Seq(SUBSET Blocks) /\ C.up \in Seq(SUBSET Blocks) /\ C.built \in BOOLEAN
         /\ C.view \in [Kinds -> {Stale} \cup SUBSET Blocks] /\ C.err \in Errors
BY DEF CacheType

\* A block that starts or stops being blocked is what _refresh_freeable_path is for.
LEMMA RefreshKeeps ==
  ASSUME NEW C, Kept(C), NEW D \in CacheType, D.index = C.index, D.built = C.built, D.free = C.free, D.kids = C.kids,
         NEW b \in C.index, \A x \in Blocks : x # b => (Blocked(D, x) <=> Blocked(C, x)),
         NEW E, E = Refresh(D, b)
  PROVE  Kept(E) /\ Twin(D, E) /\ E.built = C.built /\ E.view = D.view
<1>1. Whole(D)
  BY DEF Kept, Whole
<1>2. CASE C.built
  <2>1. Counted(C, C) /\ \A x \in Blocks : Fits(C, C, x)
    BY <1>2, ExactFits
  <2>2. \A x : Children(D, x) = Children(C, x)
    BY DEF Children
  <2>3. Counted(D, D)
    BY <2>1, <2>2 DEF Counted
  <2>4. \A x \in Blocks : x # b => Fits(D, D, x)
    BY <2>1 DEF Fits
  <2>5. b \in D.index /\ D.built
    BY <1>2
  <2>6. Kept(E) /\ Twin(D, E) /\ E.built /\ E.view = D.view
    BY <1>1, <2>3, <2>4, <2>5, RefreshRepairs
  <2>7. E.built \in BOOLEAN /\ C.built \in BOOLEAN
    BY <2>6, CacheFields DEF Kept
  <2>8. QED BY <1>2, <2>6, <2>7
<1>3. CASE ~C.built
  <2>1. E = D
    BY <1>3 DEF Refresh
  <2>2. Dormant(D) /\ FreeExact(D)
    BY <1>3 DEF Kept, Dormant, FreeExact
  <2>3. QED BY <1>1, <2>1, <2>2 DEF Kept, Twin
<1>4. QED BY <1>2, <1>3

\* _mark_capacity_mutated leaves no view to be wrong.
LEMMA MutatedSharp ==
  ASSUME NEW C, Kept(C), NEW E, E = Mutated(C)
  PROVE  Sharp(E) /\ Twin(C, E) /\ E.built = C.built /\ \A k \in Kinds : E.view[k] = Stale
<1>0. PICK v : v = [k \in Kinds |-> Stale]
  OBVIOUS
<1>1. C \in CacheType /\ E = [C EXCEPT !.view = v] /\ v \in [Kinds -> {Stale} \cup SUBSET Blocks]
  BY <1>0 DEF Kept, Mutated
<1>2. /\ E \in CacheType /\ Twin(C, E) /\ E.built = C.built /\ E.free = C.free /\ E.kids = C.kids
      /\ E.view = v
  BY <1>1, ZenonT(30) DEF CacheType, Twin
<1>3. Whole(E) /\ Dormant(E)
  BY <1>2 DEF Kept, Whole, Dormant, Twin
<1>4. FreeExact(E)
  BY <1>2, TwinScans DEF Kept, FreeExact
<1>5. ViewsCurrent(E)
  BY <1>0, <1>2 DEF ViewsCurrent
<1>6. \A k \in Kinds : E.view[k] = Stale
  BY <1>0, <1>2
<1>7. QED BY <1>2, <1>3, <1>4, <1>5, <1>6 DEF Sharp, Kept

\* Both together, and with the cache in between.
LEMMA ToggleSharp ==
  ASSUME NEW C, Kept(C), NEW D \in CacheType, D.index = C.index, D.built = C.built, D.free = C.free, D.kids = C.kids,
         NEW b \in C.index, \A x \in Blocks : x # b => (Blocked(D, x) <=> Blocked(C, x)),
         NEW E, E = Mutated(Refresh(D, b))
  PROVE  Sharp(E) /\ Twin(D, E)
<1>1. PICK R : R = Refresh(D, b)
  OBVIOUS
<1>2. Kept(R) /\ Twin(D, R)
  BY <1>1, RefreshKeeps
<1>3. Sharp(E) /\ Twin(R, E)
  BY <1>1, <1>2, MutatedSharp
<1>4. QED BY <1>2, <1>3 DEF Twin

\* set_block_ref_count.
LEMMA SetRefSharp ==
  ASSUME NEW C, Sharp(C), NEW b \in C.index, NEW n \in Int, NEW E, E = SetRef(C, b, n)
  PROVE  /\ Sharp(E)
         /\ E.index = C.index /\ E.dev = C.dev /\ E.host = C.host /\ E.pinned = C.pinned
         /\ E.out = C.out /\ E.in = C.in /\ E.wt = C.wt /\ E.ref = [C.ref EXCEPT ![b] = n]
         /\ E.slots = C.slots /\ E.pool = C.pool /\ E.down = C.down /\ E.up = C.up /\ E.err = C.err
<1>1. C \in CacheType /\ b \in Blocks /\ Kept(C) /\ Whole(C)
  BY DEF Sharp, Kept, Whole
<1>2. PICK D : D = [C EXCEPT !.ref[b] = n]
  OBVIOUS
<1>3. /\ D \in CacheType /\ D.ref = [C.ref EXCEPT ![b] = n]
      /\ D.index = C.index /\ D.dev = C.dev /\ D.host = C.host /\ D.pinned = C.pinned
      /\ D.out = C.out /\ D.in = C.in /\ D.wt = C.wt /\ D.built = C.built /\ D.free = C.free /\ D.kids = C.kids
      /\ D.slots = C.slots /\ D.pool = C.pool /\ D.down = C.down /\ D.up = C.up /\ D.err = C.err /\ D.view = C.view
  BY <1>1, <1>2 DEF CacheType
<1>4. C.ref \in [Blocks -> Int] /\ D.ref[b] = n /\ \A x \in Blocks : x # b => D.ref[x] = C.ref[x]
  BY <1>1, <1>3, CacheFields
<1>5. CASE (C.ref[b] = 0) = (n = 0)
  <2>1. E = D
    BY <1>2, <1>5 DEF SetRef
  <2>2. \A x \in Blocks : D.ref[x] = 0 <=> C.ref[x] = 0
    BY <1>4, <1>5
  <2>3. \A x \in Blocks : Blocked(D, x) <=> Blocked(C, x)
    BY <1>3, <2>2 DEF Blocked, Moving
  <2>4. \A x : Children(D, x) = Children(C, x)
    BY <1>3 DEF Children
  <2>5. /\ C.index \subseteq Blocks /\ C.dev \subseteq Blocks
    BY <1>1, CacheFields
  <2>6. FreeableIn(D) = FreeableIn(C)
    BY <1>3, <2>3, <2>5 DEF FreeableIn
  <2>7. EvictableIn(D) = EvictableIn(C)
    BY <1>3, <2>3, <2>4, <2>5 DEF EvictableIn
  <2>8. \A pending : ReclaimableIn(D, pending) = ReclaimableIn(C, pending)
    BY <1>3, <2>2, <2>5 DEF ReclaimableIn, Moving
  <2>9. \A k : Scan(D, k) = Scan(C, k)
    BY <2>6, <2>7, <2>8 DEF Scan
  <2>10. Whole(D) /\ Dormant(D)
    BY <1>1, <1>3 DEF Kept, Whole, Dormant
  <2>11. FreeExact(D) /\ ViewsCurrent(D)
    BY <1>3, <2>4, <2>6, <2>9 DEF Sharp, Kept, FreeExact, ViewsCurrent
  <2>12. QED BY <1>3, <2>1, <2>10, <2>11 DEF Sharp, Kept
<1>6. CASE ~((C.ref[b] = 0) = (n = 0))
  <2>1. E = Mutated(Refresh(D, b))
    BY <1>2, <1>6 DEF SetRef
  <2>2. \A x \in Blocks : x # b => (Blocked(D, x) <=> Blocked(C, x))
    BY <1>3, <1>4 DEF Blocked, Moving
  <2>3. Sharp(E) /\ Twin(D, E)
    BY <1>1, <1>3, <2>1, <2>2, ToggleSharp
  <2>4. QED BY <1>3, <2>3 DEF Twin
<1>7. QED BY <1>5, <1>6

\* A refresh of a block that already fits changes nothing that matters.
LEMMA RefreshSharp ==
  ASSUME NEW C, Sharp(C), NEW b, b = Root \/ b \in C.index, NEW E, E = Refresh(C, b)
  PROVE  Sharp(E) /\ Twin(C, E)
<1>1. CASE b = Root
  BY <1>1 DEF Refresh, Twin
<1>2. CASE b \in C.index
  <2>1. C \in CacheType /\ Kept(C)
    BY DEF Sharp, Kept
  <2>2. Kept(E) /\ Twin(C, E) /\ E.view = C.view
    BY <1>2, <2>1, RefreshKeeps
  <2>3. ViewsCurrent(E)
    BY <2>2, TwinScans DEF Sharp, ViewsCurrent
  <2>4. QED BY <2>2, <2>3 DEF Sharp
<1>3. QED BY <1>1, <1>2

\* get_or_build: the set is built by a scan, and a view is taken from it.
LEMMA QuerySharp ==
  ASSUME NEW C, Sharp(C), NEW k \in Kinds, NEW E, E = Query(C, k)
  PROVE  Sharp(E) /\ Twin(C, E) /\ E.view[k] \subseteq Blocks
<1>1. C \in CacheType /\ Kept(C) /\ ViewsCurrent(C) /\ Whole(C)
  BY DEF Sharp, Kept
<1>2. C.view \in [Kinds -> {Stale} \cup SUBSET Blocks] /\ C.index \subseteq Blocks /\ C.dev \subseteq Blocks
  BY <1>1, CacheFields
<1>3. CASE C.view[k] # Stale
  BY <1>2, <1>3 DEF Query, Twin
<1>4. ASSUME NEW B, Sharp(B), Twin(C, B), NEW F, F = Scan(B, k), NEW D, D = [B EXCEPT !.view[k] = F]
      PROVE  Sharp(D) /\ Twin(C, D) /\ D.view[k] \subseteq Blocks
  <2>1. B \in CacheType /\ B.view \in [Kinds -> {Stale} \cup SUBSET Blocks] /\ B.index = C.index /\ B.dev = C.dev
    BY <1>4, CacheFields DEF Sharp, Kept, Twin
  <2>2. F \subseteq Blocks
    BY <1>2, <1>4, <2>1 DEF Scan, Kinds, FreeableIn, EvictableIn, ReclaimableIn
  <2>3. PICK v : v = [B.view EXCEPT ![k] = F]
    OBVIOUS
  <2>4. v \in [Kinds -> {Stale} \cup SUBSET Blocks] /\ v[k] = F /\ \A l \in Kinds : l # k => v[l] = B.view[l]
    BY <2>1, <2>2, <2>3
  <2>5. D = [B EXCEPT !.view = v]
    BY <1>4, <2>3
  <2>6. /\ D \in CacheType /\ Twin(B, D) /\ D.view = v
        /\ D.built = B.built /\ D.free = B.free /\ D.kids = B.kids
    BY <2>1, <2>4, <2>5 DEF CacheType, Twin
  <2>7. Whole(D) /\ Dormant(D)
    BY <1>4, <2>6 DEF Sharp, Kept, Whole, Dormant, Twin
  <2>8. FreeExact(D)
    BY <1>4, <2>6, TwinScans DEF Sharp, Kept, FreeExact
  <2>9. ViewsCurrent(D)
    BY <1>4, <2>4, <2>6, TwinScans DEF Sharp, ViewsCurrent
  <2>10. Twin(C, D)
    BY <1>4, <2>6 DEF Twin
  <2>11. QED BY <2>2, <2>4, <2>6, <2>7, <2>8, <2>9, <2>10 DEF Sharp, Kept
<1>5. CASE C.view[k] = Stale /\ k # "freeable"
  <2>1. E = [C EXCEPT !.view[k] = Scan(C, k)]
    BY <1>5 DEF Query
  <2>2. Twin(C, C)
    BY DEF Twin
  <2>3. QED BY <1>4, <2>1, <2>2
<1>6. CASE C.view[k] = Stale /\ k = "freeable"
  <2>1. PICK B : B = Built(C)
    OBVIOUS
  <2>2. Sharp(B) /\ Twin(C, B) /\ B.free = FreeableIn(B)
    <3>1. CASE C.built
      BY <1>1, <2>1, <3>1 DEF Built, Twin, Kept, FreeExact
    <3>2. CASE ~C.built
      <4>1. PICK F, d : F = FreeableIn(C) /\ d = [b \in Blocks |-> Cardinality(Children(C, b) \ F)]
        OBVIOUS
      <4>2. F \subseteq Blocks /\ d \in [Blocks -> Int] /\ \A b \in Blocks : d[b] = Cardinality(Children(C, b) \ F)
        <5>1. ASSUME NEW b \in Blocks PROVE Cardinality(Children(C, b) \ F) \in Int
          <6>1. Cardinality(Children(C, b) \ F) \in Nat
            BY <1>2, CountFacts
          <6>2. QED BY <6>1
        <5>2. QED BY <1>2, <4>1, <5>1 DEF FreeableIn
      <4>3. B = [C EXCEPT !.built = TRUE, !.free = F, !.kids = d]
        BY <2>1, <3>2, <4>1 DEF Built
      <4>4. B \in CacheType /\ Twin(C, B) /\ B.built /\ B.free = F /\ B.kids = d /\ B.view = C.view
        BY <1>1, <4>2, <4>3 DEF CacheType, Twin
      <4>5. Whole(B) /\ Dormant(B)
        BY <1>1, <4>4 DEF Whole, Dormant, Twin
      <4>6. FreeExact(B) /\ B.free = FreeableIn(B)
        BY <4>1, <4>2, <4>4, TwinScans DEF FreeExact
      <4>7. ViewsCurrent(B)
        BY <1>1, <4>4, TwinScans DEF ViewsCurrent
      <4>8. QED BY <4>4, <4>5, <4>6, <4>7 DEF Sharp, Kept
    <3>3. QED BY <3>1, <3>2
  <2>3. E = [B EXCEPT !.view[k] = B.free] /\ B.free = Scan(B, k)
    BY <1>6, <2>1, <2>2 DEF Query, Scan
  <2>4. QED BY <1>4, <2>2, <2>3
<1>7. QED BY <1>3, <1>5, <1>6

\* insert_block: a block that a held parent on the device is extended by.
Placeable(C, b) ==
  /\ b \in Blocks \ (C.index \cup C.dev)
  /\ Parent[b] = Root \/ (Parent[b] \in C.index \cap C.dev /\ C.ref[Parent[b]] # 0)

\* The new block takes no capacity: no view changes.
LEMMA InsertScans ==
  ASSUME NEW C, Sharp(C), NEW b, Placeable(C, b), NEW D \in CacheType,
         D.index = C.index \cup {b}, D.dev = C.dev \cup {b}, D.ref = [C.ref EXCEPT ![b] = 1],
         D.host = C.host, D.pinned = C.pinned, D.out = C.out, D.in = C.in
  PROVE  /\ Whole(D) /\ FreeableIn(D) = FreeableIn(C) /\ \A k : Scan(D, k) = Scan(C, k)
         /\ b \notin FreeableIn(C)
<1>1. /\ C \in CacheType /\ Whole(C) /\ C.index \subseteq Blocks /\ C.dev \subseteq Blocks
      /\ C.ref \in [Blocks -> Int] /\ b \in Blocks /\ b \notin C.index /\ b \notin C.dev
  BY CacheFields DEF Sharp, Kept, Placeable
<1>2. D.ref[b] = 1 /\ \A x \in Blocks : x # b => D.ref[x] = C.ref[x]
  BY <1>1
<1>3. Blocked(D, b) /\ \A x \in Blocks : x # b => (Blocked(D, x) <=> Blocked(C, x))
  BY <1>2 DEF Blocked, Moving
<1>4. \A x \in Blocks : x # b /\ b \in Desc[x] =>
        Parent[b] \in Desc[x] /\ Parent[b] \in C.index /\ Parent[b] \in C.dev /\ C.ref[Parent[b]] # 0 /\ Parent[b] # b
  BY <1>1, DescFacts, NotItself DEF Placeable
<1>5. Whole(D)
  BY <1>1 DEF Whole, Placeable
<1>6. b \in Desc[b]
  BY <1>1, DescFacts
<1>7. FreeableIn(D) = FreeableIn(C)
  <2>1. ASSUME NEW x \in C.index PROVE x \in FreeableIn(D) <=> x \in FreeableIn(C)
    <3>1. x \in Blocks /\ x # b /\ x \in D.index
      BY <1>1
    <3>2. CASE b \in Desc[x]
      <4>1. Parent[b] \in Desc[x] \cap C.index /\ Parent[b] \in Desc[x] \cap D.index
        BY <1>4, <3>1, <3>2
      <4>2. Blocked(C, Parent[b]) /\ Blocked(D, Parent[b])
        BY <1>1, <1>3, <1>4, <3>1, <3>2 DEF Blocked
      <4>3. QED BY <4>1, <4>2 DEF FreeableIn
    <3>3. CASE b \notin Desc[x]
      <4>1. Desc[x] \cap D.index = Desc[x] \cap C.index
        BY <3>3
      <4>2. \A y \in Desc[x] \cap C.index : Blocked(D, y) <=> Blocked(C, y)
        BY <1>1, <1>3
      <4>3. QED BY <3>1, <4>1, <4>2 DEF FreeableIn
    <3>4. QED BY <3>2, <3>3
  <2>2. b \notin FreeableIn(D)
    BY <1>3, <1>6 DEF FreeableIn
  <2>3. FreeableIn(D) \subseteq C.index \cup {b} /\ FreeableIn(C) \subseteq C.index
    BY DEF FreeableIn
  <2>4. QED BY <2>1, <2>2, <2>3
<1>8. EvictableIn(D) = EvictableIn(C)
  <2>1. ASSUME NEW x \in C.index PROVE x \in EvictableIn(D) <=> x \in EvictableIn(C)
    <3>1. x \in Blocks /\ x # b /\ x \in D.index /\ (Blocked(D, x) <=> Blocked(C, x))
      BY <1>1, <1>3
    <3>2. CASE x = Parent[b]
      <4>1. Blocked(C, x)
        BY <1>1, <3>1, <3>2, PrefixAssumption DEF Blocked, Placeable
      <4>2. QED BY <3>1, <4>1 DEF EvictableIn
    <3>3. CASE x # Parent[b]
      <4>1. Children(D, x) = Children(C, x)
        BY <3>3 DEF Children
      <4>2. QED BY <3>1, <4>1 DEF EvictableIn
    <3>4. QED BY <3>2, <3>3
  <2>2. b \notin EvictableIn(D)
    BY <1>3 DEF EvictableIn
  <2>3. EvictableIn(D) \subseteq C.index \cup {b} /\ EvictableIn(C) \subseteq C.index
    BY DEF EvictableIn
  <2>4. QED BY <2>1, <2>2, <2>3
<1>9. ASSUME NEW pending PROVE ReclaimableIn(D, pending) = ReclaimableIn(C, pending)
  <2>1. ASSUME NEW x \in C.dev PROVE x \in ReclaimableIn(D, pending) <=> x \in ReclaimableIn(C, pending)
    <3>1. x \in Blocks /\ x # b /\ x \in D.dev
      BY <1>1
    <3>2. CASE b \in Desc[x]
      <4>1. Parent[b] \in Desc[x] \cap C.dev /\ Parent[b] \in Desc[x] \cap D.dev /\ C.ref[Parent[b]] # 0
        BY <1>4, <3>1, <3>2
      <4>2. D.ref[Parent[b]] # 0
        BY <1>1, <1>2, <1>4, <3>1, <3>2
      <4>3. QED BY <4>1, <4>2 DEF ReclaimableIn
    <3>3. CASE b \notin Desc[x]
      <4>1. Desc[x] \cap D.dev = Desc[x] \cap C.dev
        BY <3>3
      <4>2. \A y \in Desc[x] \cap C.dev : D.ref[y] = C.ref[y]
        BY <1>1, <1>2
      <4>3. D.out = C.out /\ D.host \ Moving(D) = C.host \ Moving(C)
        BY DEF Moving
      <4>4. QED BY <3>1, <4>1, <4>2, <4>3 DEF ReclaimableIn
    <3>4. QED BY <3>2, <3>3
  <2>2. b \notin ReclaimableIn(D, pending)
    BY <1>2, <1>6 DEF ReclaimableIn
  <2>3. ReclaimableIn(D, pending) \subseteq C.dev \cup {b} /\ ReclaimableIn(C, pending) \subseteq C.dev
    BY DEF ReclaimableIn
  <2>4. QED BY <2>1, <2>2, <2>3
<1>10. b \notin FreeableIn(C)
  BY <1>1 DEF FreeableIn
<1>11. QED BY <1>5, <1>7, <1>8, <1>9, <1>10 DEF Scan

\* Nor does the freeable set.
LEMMA InsertSharp ==
  ASSUME NEW C, Sharp(C), NEW b, Placeable(C, b), NEW E, E = Insert(C, b)
  PROVE  /\ Sharp(E)
         /\ E.index = C.index \cup {b} /\ E.dev = C.dev \cup {b} /\ E.ref = [C.ref EXCEPT ![b] = 1]
         /\ E.host = C.host /\ E.pinned = C.pinned /\ E.out = C.out /\ E.in = C.in /\ E.wt = C.wt
         /\ E.slots = C.slots /\ E.pool = C.pool /\ E.down = C.down /\ E.up = C.up /\ E.err = C.err
<1>1. PICK p : p = Parent[b]
  OBVIOUS
<1>2. /\ C \in CacheType /\ C.index \subseteq Blocks /\ C.kids \in [Blocks -> Int] /\ C.ref \in [Blocks -> Int]
      /\ C.built \in BOOLEAN /\ b \in Blocks /\ b \notin C.index /\ (p = Root \/ p \in C.index)
      /\ C.dev \subseteq Blocks /\ Dormant(C) /\ FreeExact(C) /\ ViewsCurrent(C)
  BY <1>1, CacheFields DEF Sharp, Kept, Placeable
<1>3. PICK d : d = IF C.built /\ p # Root THEN [C.kids EXCEPT ![p] = C.kids[p] + 1] ELSE C.kids
  OBVIOUS
<1>4. d \in [Blocks -> Int]
  BY <1>2, <1>3
<1>5. PICK i, v, f : i = C.index \cup {b} /\ v = C.dev \cup {b} /\ f = [C.ref EXCEPT ![b] = 1]
  OBVIOUS
<1>a. PICK D : D = [C EXCEPT !.index = i, !.dev = v, !.ref = f, !.kids = d]
  OBVIOUS
<1>6. /\ D \in CacheType
      /\ D.index = C.index \cup {b} /\ D.dev = C.dev \cup {b} /\ D.ref = [C.ref EXCEPT ![b] = 1] /\ D.kids = d
      /\ D.host = C.host /\ D.pinned = C.pinned /\ D.out = C.out /\ D.in = C.in /\ D.wt = C.wt
      /\ D.slots = C.slots /\ D.pool = C.pool /\ D.down = C.down /\ D.up = C.up /\ D.err = C.err
      /\ D.built = C.built /\ D.free = C.free /\ D.view = C.view
  <2>1. i \in SUBSET Blocks /\ v \in SUBSET Blocks /\ f \in [Blocks -> Int]
    BY <1>2, <1>5
  <2>2. QED BY <1>2, <1>4, <1>5, <1>a, <2>1, ZenonT(30) DEF CacheType
<1>7. /\ Whole(D) /\ FreeableIn(D) = FreeableIn(C) /\ \A k : Scan(D, k) = Scan(C, k)
      /\ b \notin FreeableIn(C)
  BY <1>6, InsertScans
<1>8. Dormant(D)
  BY <1>2, <1>3, <1>6 DEF Dormant
<1>9. FreeExact(D)
  <2>1. SUFFICES ASSUME C.built PROVE D.free = FreeableIn(D) /\ \A x \in Blocks : d[x] = Cardinality(Children(D, x) \ D.free)
    BY <1>6 DEF FreeExact
  <2>2. C.free = FreeableIn(C) /\ \A x \in Blocks : C.kids[x] = Cardinality(Children(C, x) \ C.free)
    BY <1>2, <2>1 DEF FreeExact
  <2>3. ASSUME NEW x \in Blocks PROVE d[x] = Cardinality(Children(D, x) \ D.free)
    <3>1. CASE x # p
      <4>1. Children(D, x) = Children(C, x)
        BY <1>1, <1>6, <3>1 DEF Children
      <4>2. d[x] = C.kids[x]
        BY <1>2, <1>3, <3>1
      <4>3. QED BY <1>6, <2>2, <4>1, <4>2
    <3>2. CASE x = p
      <4>1. PICK R : R = Children(C, x) \ C.free
        OBVIOUS
      <4>2. IsFiniteSet(R) /\ Cardinality(R) \in Nat /\ b \notin R
        <5>1. b \notin R
          BY <1>2, <4>1 DEF Children
        <5>2. QED BY <1>2, <4>1, <5>1, CountFacts
      <4>3. Children(D, x) \ D.free = R \cup {b}
        BY <1>1, <1>6, <1>7, <2>2, <3>2, <4>1 DEF Children
      <4>4. Cardinality(R \cup {b}) = Cardinality(R) + 1
        BY <4>2, FS_AddElement
      <4>5. d[x] = C.kids[x] + 1
        BY <1>2, <1>3, <2>1, <3>2, PrefixAssumption
      <4>6. QED BY <2>2, <4>1, <4>3, <4>4, <4>5
    <3>3. QED BY <3>1, <3>2
  <2>4. QED BY <1>6, <1>7, <2>2, <2>3
<1>10. ViewsCurrent(D)
  BY <1>2, <1>6, <1>7 DEF ViewsCurrent
<1>11. Sharp(D)
  BY <1>6, <1>7, <1>8, <1>9, <1>10 DEF Sharp, Kept
<1>12. PICK R, S : R = Refresh(D, b) /\ S = Refresh(R, p)
  OBVIOUS
<1>13. Sharp(R) /\ Twin(D, R)
  BY <1>6, <1>11, <1>12, RefreshSharp
<1>14. p = Root \/ p \in R.index
  BY <1>2, <1>6, <1>13 DEF Twin
<1>15. Sharp(S) /\ Twin(R, S)
  BY <1>12, <1>13, <1>14, RefreshSharp
<1>16. E = S \/ E = Mutated(S)
  <2>1. D = [C EXCEPT !.index = @ \cup {b}, !.dev = @ \cup {b}, !.ref[b] = 1,
                      !.kids = IF C.built /\ p # Root THEN [C.kids EXCEPT ![p] = @ + 1] ELSE @]
    <3>1. i = C.index \cup {b} /\ v = C.dev \cup {b} /\ f = [C.ref EXCEPT ![b] = 1]
      BY <1>5
    <3>2. CASE C.built /\ p # Root
      <4>1. d = [C.kids EXCEPT ![p] = C.kids[p] + 1]
        BY <1>3, <3>2
      <4>2. QED BY <1>a, <3>1, <3>2, <4>1
    <3>3. CASE ~(C.built /\ p # Root)
      <4>1. d = C.kids
        BY <1>3, <3>3
      <4>2. QED BY <1>a, <3>1, <3>3, <4>1
    <3>4. QED BY <3>2, <3>3
  <2>2. QED BY <1>1, <1>12, <2>1 DEF Insert
<1>17. Sharp(E) /\ Twin(S, E)
  <2>1. Twin(S, S) /\ Kept(S)
    BY <1>15 DEF Twin, Sharp
  <2>2. QED BY <1>15, <1>16, <2>1, MutatedSharp
<1>18. Twin(D, E)
  BY <1>13, <1>15, <1>17 DEF Twin
<1>19. QED BY <1>6, <1>17, <1>18 DEF Twin

\* remove_leaf: a freeable block that nothing extends leaves the tree.
LEMMA RemoveSharp ==
  ASSUME NEW C, Sharp(C), NEW b \in FreeableIn(C), Children(C, b) = {}, NEW E, E = RemoveBlock(C, b)
  PROVE  /\ Sharp(E) /\ \A k \in Kinds : E.view[k] = Stale
         /\ E.index = C.index \ {b} /\ E.wt = C.wt \ {b}
         /\ E.dev = C.dev /\ E.host = C.host /\ E.pinned = C.pinned /\ E.out = C.out /\ E.in = C.in /\ E.ref = C.ref
         /\ E.slots = C.slots /\ E.pool = C.pool /\ E.down = C.down /\ E.up = C.up /\ E.err = C.err
<1>1. /\ C \in CacheType /\ C.index \subseteq Blocks /\ C.kids \in [Blocks -> Int] /\ C.free \subseteq Blocks
      /\ C.wt \subseteq Blocks /\ C.built \in BOOLEAN /\ Dormant(C) /\ FreeExact(C) /\ Whole(C)
  BY CacheFields DEF Sharp, Kept
<1>2. b \in C.index /\ b \in Blocks /\ ~Blocked(C, b)
  BY <1>1, FreeableStep DEF FreeableIn
<1>3. C.built => b \in C.free
  BY <1>1 DEF FreeExact
<1>4. PICK d : d = [x \in Blocks |-> IF x = b THEN 0 ELSE C.kids[x]]
  OBVIOUS
<1>5. d \in [Blocks -> Int] /\ d[b] = 0 /\ \A x \in Blocks : x # b => d[x] = C.kids[x]
  BY <1>1, <1>2, <1>4
<1>6. PICK i, f, w : i = C.index \ {b} /\ f = C.free \ {b} /\ w = C.wt \ {b}
  OBVIOUS
<1>7. i \in SUBSET Blocks /\ f \in SUBSET Blocks /\ w \in SUBSET Blocks
  BY <1>1, <1>6
<1>8. PICK D : D = [C EXCEPT !.index = i, !.free = f, !.wt = w, !.kids = d]
  OBVIOUS
<1>9. /\ D \in CacheType
      /\ D.index = C.index \ {b} /\ D.wt = C.wt \ {b} /\ D.free = C.free \ {b} /\ D.kids = d
      /\ D.dev = C.dev /\ D.host = C.host /\ D.pinned = C.pinned /\ D.out = C.out /\ D.in = C.in /\ D.ref = C.ref
      /\ D.slots = C.slots /\ D.pool = C.pool /\ D.down = C.down /\ D.up = C.up /\ D.err = C.err
      /\ D.built = C.built
  BY <1>1, <1>5, <1>6, <1>7, <1>8, ZenonT(30) DEF CacheType
<1>10. E = Mutated(D)
  <2>1. [x \in Blocks |-> CASE x = b -> 0
                            [] x = Parent[b] /\ (C.built /\ b \notin C.free /\ Parent[b] # Root) -> C.kids[x] - 1
                            [] OTHER -> C.kids[x]] = d
    BY <1>3, <1>4
  <2>2. D = [C EXCEPT !.index = @ \ {b}, !.free = @ \ {b}, !.wt = @ \ {b}, !.kids = d]
    BY <1>6, <1>8
  <2>3. ~(C.built /\ b \notin C.free /\ Parent[b] # Root)
    BY <1>3
  <2>4. QED BY <2>1, <2>2, <2>3 DEF RemoveBlock
<1>11. Whole(D)
  <2>1. \A x \in D.index : Parent[x] # b
    BY <1>9 DEF Children
  <2>2. QED BY <1>1, <1>9, <2>1 DEF Whole
<1>12. \A x : Blocked(D, x) <=> Blocked(C, x)
  BY <1>9 DEF Blocked, Moving
<1>13. FreeableIn(D) = FreeableIn(C) \ {b}
  BY <1>2, <1>9, <1>12 DEF FreeableIn
<1>14. Dormant(D)
  BY <1>1, <1>5, <1>9 DEF Dormant
<1>15. FreeExact(D)
  <2>1. SUFFICES ASSUME C.built PROVE D.free = FreeableIn(D) /\ \A x \in Blocks : d[x] = Cardinality(Children(D, x) \ D.free)
    BY <1>9 DEF FreeExact
  <2>2. C.free = FreeableIn(C) /\ \A x \in Blocks : C.kids[x] = Cardinality(Children(C, x) \ C.free)
    BY <1>1, <2>1 DEF FreeExact
  <2>3. \A x : Children(D, x) \ D.free = Children(C, x) \ C.free
    BY <1>9, <2>2 DEF Children
  <2>4. C.kids[b] = 0
    <3>1. Children(C, b) \ C.free = {}
      OBVIOUS
    <3>2. QED BY <1>2, <2>2, <3>1, FS_EmptySet
  <2>5. \A x \in Blocks : d[x] = C.kids[x]
    BY <1>5, <2>4
  <2>6. QED BY <1>9, <1>13, <2>2, <2>3, <2>5
<1>16. Kept(D)
  BY <1>9, <1>11, <1>14, <1>15 DEF Kept
<1>17. Sharp(E) /\ Twin(D, E) /\ \A k \in Kinds : E.view[k] = Stale
  BY <1>10, <1>16, MutatedSharp
<1>18. QED BY <1>9, <1>17 DEF Twin

\* _begin_d2h: the copy of a block to the host starts.
LEMMA BeginD2HSharp ==
  ASSUME NEW C, Sharp(C), NEW b \in C.index, Parent[b] = Root \/ Parent[b] \in C.host \cup C.out, NEW E, E = BeginD2H(C, b)
  PROVE  /\ Sharp(E) /\ E.out = C.out \cup {b}
         /\ E.index = C.index /\ E.dev = C.dev /\ E.host = C.host /\ E.pinned = C.pinned /\ E.in = C.in /\ E.wt = C.wt /\ E.ref = C.ref /\ E.slots = C.slots /\ E.pool = C.pool /\ E.down = C.down /\ E.up = C.up /\ E.err = C.err
<1>1. C \in CacheType /\ Kept(C) /\ b \in Blocks
  BY DEF Sharp, Kept, Whole
<1>2. PICK u : u = C.out \cup {b}
  OBVIOUS
<1>3. u \in SUBSET Blocks
  BY <1>1, <1>2, CacheFields
<1>4. PICK D : D = [C EXCEPT !.out = u]
  OBVIOUS
<1>5. /\ D \in CacheType /\ D.out = C.out \cup {b}
      /\ D.index = C.index /\ D.dev = C.dev /\ D.host = C.host /\ D.pinned = C.pinned /\ D.in = C.in /\ D.wt = C.wt /\ D.ref = C.ref /\ D.slots = C.slots /\ D.pool = C.pool /\ D.down = C.down /\ D.up = C.up /\ D.err = C.err
      /\ D.built = C.built /\ D.free = C.free /\ D.kids = C.kids
  BY <1>1, <1>2, <1>3, <1>4 DEF CacheType
<1>6. E = Mutated(Refresh(D, b))
  <2>1. D = [C EXCEPT !.out = @ \cup {b}]
    BY <1>2, <1>4
  <2>2. QED BY <2>1 DEF BeginD2H
<1>7. \A x \in Blocks : x # b => (Blocked(D, x) <=> Blocked(C, x))
  BY <1>5 DEF Blocked, Moving
<1>8. Sharp(E) /\ Twin(D, E)
  BY <1>1, <1>5, <1>6, <1>7, ToggleSharp
<1>9. QED BY <1>5, <1>8 DEF Twin

\* It ends: the block is on the host too.
LEMMA EndD2HSharp ==
  ASSUME NEW C, Sharp(C), NEW b \in C.index, Parent[b] = Root \/ Parent[b] \in C.host, NEW E, E = EndD2H(C, b)
  PROVE  /\ Sharp(E) /\ E.host = C.host \cup {b} /\ E.out = C.out \ {b}
         /\ E.index = C.index /\ E.dev = C.dev /\ E.pinned = C.pinned /\ E.in = C.in /\ E.wt = C.wt /\ E.ref = C.ref /\ E.slots = C.slots /\ E.pool = C.pool /\ E.down = C.down /\ E.up = C.up /\ E.err = C.err
<1>1. C \in CacheType /\ Kept(C) /\ b \in Blocks
  BY DEF Sharp, Kept, Whole
<1>2. PICK u, v : u = C.host \cup {b} /\ v = C.out \ {b}
  OBVIOUS
<1>3. u \in SUBSET Blocks /\ v \in SUBSET Blocks
  BY <1>1, <1>2, CacheFields
<1>4. PICK D : D = [C EXCEPT !.host = u, !.out = v]
  OBVIOUS
<1>5. /\ D \in CacheType /\ D.host = C.host \cup {b} /\ D.out = C.out \ {b}
      /\ D.index = C.index /\ D.dev = C.dev /\ D.pinned = C.pinned /\ D.in = C.in /\ D.wt = C.wt /\ D.ref = C.ref /\ D.slots = C.slots /\ D.pool = C.pool /\ D.down = C.down /\ D.up = C.up /\ D.err = C.err
      /\ D.built = C.built /\ D.free = C.free /\ D.kids = C.kids
  BY <1>1, <1>2, <1>3, <1>4 DEF CacheType
<1>6. E = Mutated(Refresh(D, b))
  <2>1. D = [C EXCEPT !.host = @ \cup {b}, !.out = @ \ {b}]
    BY <1>2, <1>4
  <2>2. QED BY <2>1 DEF EndD2H
<1>7. \A x \in Blocks : x # b => (Blocked(D, x) <=> Blocked(C, x))
  BY <1>5 DEF Blocked, Moving
<1>8. Sharp(E) /\ Twin(D, E)
  BY <1>1, <1>5, <1>6, <1>7, ToggleSharp
<1>9. QED BY <1>5, <1>8 DEF Twin

\* The copy of a block to the device starts.
LEMMA BeginH2DSharp ==
  ASSUME NEW C, Sharp(C), NEW b \in C.index, Parent[b] = Root \/ Parent[b] \in C.dev, NEW E, E = BeginH2D(C, b)
  PROVE  /\ Sharp(E) /\ E.dev = C.dev \cup {b} /\ E.in = C.in \cup {b}
         /\ E.index = C.index /\ E.host = C.host /\ E.pinned = C.pinned /\ E.out = C.out /\ E.wt = C.wt /\ E.ref = C.ref /\ E.slots = C.slots /\ E.pool = C.pool /\ E.down = C.down /\ E.up = C.up /\ E.err = C.err
<1>1. C \in CacheType /\ Kept(C) /\ b \in Blocks
  BY DEF Sharp, Kept, Whole
<1>2. PICK u, v : u = C.dev \cup {b} /\ v = C.in \cup {b}
  OBVIOUS
<1>3. u \in SUBSET Blocks /\ v \in SUBSET Blocks
  BY <1>1, <1>2, CacheFields
<1>4. PICK D : D = [C EXCEPT !.dev = u, !.in = v]
  OBVIOUS
<1>5. /\ D \in CacheType /\ D.dev = C.dev \cup {b} /\ D.in = C.in \cup {b}
      /\ D.index = C.index /\ D.host = C.host /\ D.pinned = C.pinned /\ D.out = C.out /\ D.wt = C.wt /\ D.ref = C.ref /\ D.slots = C.slots /\ D.pool = C.pool /\ D.down = C.down /\ D.up = C.up /\ D.err = C.err
      /\ D.built = C.built /\ D.free = C.free /\ D.kids = C.kids
  BY <1>1, <1>2, <1>3, <1>4 DEF CacheType
<1>6. E = Mutated(Refresh(D, b))
  <2>1. D = [C EXCEPT !.dev = @ \cup {b}, !.in = @ \cup {b}]
    BY <1>2, <1>4
  <2>2. QED BY <2>1 DEF BeginH2D
<1>7. \A x \in Blocks : x # b => (Blocked(D, x) <=> Blocked(C, x))
  BY <1>5 DEF Blocked, Moving
<1>8. Sharp(E) /\ Twin(D, E)
  BY <1>1, <1>5, <1>6, <1>7, ToggleSharp
<1>9. QED BY <1>5, <1>8 DEF Twin

\* It ends.
LEMMA EndH2DSharp ==
  ASSUME NEW C, Sharp(C), NEW b \in C.index, NEW E, E = EndH2D(C, b)
  PROVE  /\ Sharp(E) /\ E.in = C.in \ {b}
         /\ E.index = C.index /\ E.dev = C.dev /\ E.host = C.host /\ E.pinned = C.pinned /\ E.out = C.out /\ E.wt = C.wt /\ E.ref = C.ref /\ E.slots = C.slots /\ E.pool = C.pool /\ E.down = C.down /\ E.up = C.up /\ E.err = C.err
<1>1. C \in CacheType /\ Kept(C) /\ b \in Blocks
  BY DEF Sharp, Kept, Whole
<1>2. PICK u : u = C.in \ {b}
  OBVIOUS
<1>3. u \in SUBSET Blocks
  BY <1>1, <1>2, CacheFields
<1>4. PICK D : D = [C EXCEPT !.in = u]
  OBVIOUS
<1>5. /\ D \in CacheType /\ D.in = C.in \ {b}
      /\ D.index = C.index /\ D.dev = C.dev /\ D.host = C.host /\ D.pinned = C.pinned /\ D.out = C.out /\ D.wt = C.wt /\ D.ref = C.ref /\ D.slots = C.slots /\ D.pool = C.pool /\ D.down = C.down /\ D.up = C.up /\ D.err = C.err
      /\ D.built = C.built /\ D.free = C.free /\ D.kids = C.kids
  BY <1>1, <1>2, <1>3, <1>4 DEF CacheType
<1>6. E = Mutated(Refresh(D, b))
  <2>1. D = [C EXCEPT !.in = @ \ {b}]
    BY <1>2, <1>4
  <2>2. QED BY <2>1 DEF EndH2D
<1>7. \A x \in Blocks : x # b => (Blocked(D, x) <=> Blocked(C, x))
  BY <1>5 DEF Blocked, Moving
<1>8. Sharp(E) /\ Twin(D, E)
  BY <1>1, <1>5, <1>6, <1>7, ToggleSharp
<1>9. QED BY <1>5, <1>8 DEF Twin
-----------------------------------------------------------------------------
(* The orders in which the tree is walked *)

Closed(S) == \A x \in S : Parent[x] = Root \/ Parent[x] \in S
Extends == {p \in Blocks \X Blocks : Parent[p[2]] = p[1]}
Extended == {p \in Blocks \X Blocks : Parent[p[1]] = p[2]}
Walk(q, T) == q \in Seq(Blocks) /\ Len(q) = Cardinality(T) /\ Range(q) = T /\ IsInjective(q) /\ Ordered(q, Extends)

\* The blocks of a whole tree can be walked from the root.
LEMMA WalkExists == \E q : Walk(q, Blocks)
<1>1. PICK level : Levels(level)
  BY LevelsExist
<1>2. PICK M : M = Cardinality(Blocks) /\ M \in Nat
  BY PrefixAssumption, FS_CardinalityType
<1>3. \A b \in Blocks : level[b] \in Nat /\ M - level[b] \in Nat
  BY <1>1, <1>2 DEF Levels
<1>4. PICK P : P = {T \in SUBSET Blocks : Closed(T) => \E q : Walk(q, T)}
  OBVIOUS
<1>5. ASSUME NEW T \in SUBSET Blocks, \A R \in SUBSET T : R # T => R \in P PROVE T \in P
  <2>1. SUFFICES ASSUME Closed(T) PROVE \E q : Walk(q, T)
    BY <1>4
  <2>2. CASE T = {}
    <3>1. Walk(<<>>, {})
      BY EmptyFacts, FS_EmptySet DEF Walk, Ordered
    <3>2. QED BY <2>2, <3>1
  <2>3. CASE T # {}
    <3>1. PICK N : N = {n \in Nat : \E b \in T : M - level[b] = n}
      OBVIOUS
    <3>2. N \in SUBSET Nat /\ N # {}
      BY <1>3, <2>3, <3>1
    <3>3. PICK n \in N : \A m \in N : n <= m
      BY <3>2, LeastNat
    <3>4. PICK x \in T : M - level[x] = n
      BY <3>1, <3>3
    <3>5. \A y \in T : Parent[y] # x
      <4>1. SUFFICES ASSUME NEW y \in T, Parent[y] = x PROVE FALSE
        OBVIOUS
      <4>2. level[x] < level[y]
        <5>1. Parent[y] # Root
          BY <4>1, PrefixAssumption
        <5>2. QED BY <1>1, <4>1, <5>1 DEF Levels
      <4>3. n <= M - level[y]
        <5>1. M - level[y] \in N
          BY <1>3, <3>1
        <5>2. QED BY <3>3, <5>1
      <4>4. QED BY <1>2, <1>3, <3>4, <4>2, <4>3
    <3>a. PICK R : R = T \ {x}
      OBVIOUS
    <3>6. R = T \ {x} /\ R \in SUBSET T /\ R # T
      BY <3>4, <3>a
    <3>7. Closed(R)
      BY <2>1, <3>5, <3>6 DEF Closed
    <3>8. PICK q : Walk(q, R)
      BY <1>4, <1>5, <3>6, <3>7
    <3>9. PICK h : h = Append(q, x)
      OBVIOUS
    <3>10. q \in Seq(Blocks) /\ Len(q) \in Nat /\ x \in Blocks /\ x \notin Range(q) /\ IsInjective(q) /\ Range(q) = R
      BY <3>6, <3>8 DEF Walk
    <3>11. h \in Seq(Blocks) /\ Len(h) = Len(q) + 1 /\ Range(h) = T /\ IsInjective(h)
      <4>1. h \in Seq(Blocks) /\ Len(h) = Len(q) + 1 /\ Range(h) = R \cup {x} /\ IsInjective(h)
        BY <3>9, <3>10, AppendFacts
      <4>2. QED BY <3>6, <4>1
    <3>12. Len(h) = Cardinality(T)
      <4>1. IsFiniteSet(T)
        BY PrefixAssumption, FS_Subset
      <4>2. Cardinality(R) = Cardinality(T) - 1 /\ Cardinality(T) \in Nat
        BY <3>6, <4>1, FS_RemoveElement, FS_CardinalityType
      <4>3. QED BY <3>8, <3>11, <4>2 DEF Walk
    <3>13. h[Len(q) + 1] = x /\ \A i \in 1..Len(q) : h[i] = q[i] /\ q[i] \in T
      <4>1. \A i \in 1..Len(q) : q[i] \in Range(q)
        BY <3>10 DEF Range
      <4>2. QED BY <3>6, <3>9, <3>10, <4>1
    <3>14. ASSUME NEW i \in 1..Len(h), NEW j \in 1..Len(h), <<h[i], h[j]>> \in Extends PROVE i < j
      <4>1. Parent[h[j]] = h[i] /\ h[j] \in Blocks
        BY <3>14 DEF Extends
      <4>2. CASE i \in 1..Len(q) /\ j \in 1..Len(q)
        BY <3>8, <3>13, <3>14, <4>2 DEF Walk, Ordered
      <4>3. CASE i \in 1..Len(q) /\ j = Len(q) + 1
        BY <3>10, <4>3
      <4>4. CASE i = Len(q) + 1 /\ j \in 1..Len(q)
        BY <3>5, <3>13, <4>1, <4>4
      <4>5. CASE i = Len(q) + 1 /\ j = Len(q) + 1
        BY <4>1, <4>5, NotItself
      <4>6. QED BY <3>10, <3>11, <4>2, <4>3, <4>4, <4>5
    <3>15. Walk(h, T)
      BY <3>11, <3>12, <3>14 DEF Walk, Ordered
    <3>16. QED BY <3>15
  <2>4. QED BY <2>2, <2>3
<1>6. Blocks \in P
  BY <1>5, PrefixAssumption, SubsetInduction
<1>7. Closed(Blocks)
  BY PrefixAssumption DEF Closed
<1>8. QED BY <1>4, <1>6, <1>7

\* RootFirst is such a walk, and LeafFirst its reverse.
LEMMA Walks ==
  /\ RootFirst \in Seq(Blocks) /\ Range(RootFirst) = Blocks /\ IsInjective(RootFirst) /\ Ordered(RootFirst, Extends)
  /\ LeafFirst \in Seq(Blocks) /\ Range(LeafFirst) = Blocks /\ IsInjective(LeafFirst) /\ Ordered(LeafFirst, Extended)
<1>1. PICK n : n = Cardinality(Blocks) /\ n \in Nat
  BY PrefixAssumption, FS_CardinalityType
<1>2. PICK w : Walk(w, Blocks)
  BY WalkExists
<1>3. w \in [1..n -> Blocks] /\ Len(w) = n
  BY <1>1, <1>2 DEF Walk
<1>4. w \in Bijection(1..n, Blocks)
  <2>1. \A x \in Blocks : \E i \in 1..n : w[i] = x
    BY <1>2, <1>3 DEF Walk, Range
  <2>2. QED BY <1>2, <1>3, <2>1 DEF Walk, Bijection, Injection, Surjection, IsInjective
<1>5. \A i, j \in DOMAIN w : Parent[w[j]] = w[i] => i < j
  BY <1>2, <1>3 DEF Walk, Ordered, Extends
<1>6. PICK q : q = RootFirst
  OBVIOUS
<1>7. q \in Bijection(1..n, Blocks) /\ \A i, j \in DOMAIN q : Parent[q[j]] = q[i] => i < j
  BY <1>1, <1>4, <1>5, <1>6 DEF RootFirst
<1>8. /\ q \in [1..n -> Blocks] /\ (\A x \in Blocks : \E i \in 1..n : q[i] = x)
      /\ \A i, j \in 1..n : q[i] = q[j] => i = j
  BY <1>7 DEF Bijection, Injection, Surjection, IsInjective
<1>9. q \in Seq(Blocks) /\ Len(q) = n /\ DOMAIN q = 1..n
  BY <1>1, <1>8
<1>10. Range(q) = Blocks /\ IsInjective(q)
  BY <1>8, <1>9 DEF Range, IsInjective
<1>11. Ordered(q, Extends)
  BY <1>7, <1>9 DEF Ordered, Extends
<1>12. PICK z : z = LeafFirst
  OBVIOUS
<1>13. z = [i \in 1..n |-> q[n + 1 - i]]
  BY <1>6, <1>9, <1>12 DEF LeafFirst
<1>14. \A i \in 1..n : n + 1 - i \in 1..n /\ z[i] = q[n + 1 - i] /\ n + 1 - (n + 1 - i) = i
  BY <1>1, <1>13
<1>15. z \in Seq(Blocks) /\ Len(z) = n /\ DOMAIN z = 1..n
  <2>1. z \in [1..n -> Blocks]
    BY <1>8, <1>13, <1>14
  <2>2. QED BY <1>1, <2>1
<1>16. \A x \in Blocks : \E i \in 1..n : z[i] = x
  BY <1>8, <1>14
<1>17. Range(z) = Blocks
  <2>1. \A i \in 1..n : z[i] \in Blocks
    BY <1>8, <1>14
  <2>2. QED BY <1>15, <1>16, <2>1 DEF Range
<1>18. \A i, j \in 1..n : z[i] = z[j] => i = j
  <2>1. SUFFICES ASSUME NEW i \in 1..n, NEW j \in 1..n, z[i] = z[j] PROVE i = j
    OBVIOUS
  <2>2. n + 1 - i = n + 1 - j
    BY <1>8, <1>14, <2>1
  <2>3. QED BY <1>1, <2>2
<1>19. Ordered(z, Extended)
  <2>1. SUFFICES ASSUME NEW i \in 1..n, NEW j \in 1..n, Parent[z[i]] = z[j] PROVE i < j
    BY <1>15 DEF Ordered, Extended
  <2>a. PICK k, l : k = n + 1 - i /\ l = n + 1 - j
    OBVIOUS
  <2>b. k \in DOMAIN q /\ l \in DOMAIN q /\ Parent[q[k]] = q[l]
    BY <1>9, <1>14, <2>1, <2>a
  <2>2. n + 1 - j < n + 1 - i
    BY <1>7, <2>a, <2>b
  <2>3. QED BY <1>1, <2>2
<1>20. QED BY <1>6, <1>9, <1>10, <1>11, <1>12, <1>15, <1>17, <1>18, <1>19 DEF IsInjective
-----------------------------------------------------------------------------
(* Walks: an operation on each block of a sequence *)

\* Every operation on a block takes a cache to a cache.
LEMMA RefreshType ==
  ASSUME NEW C \in CacheType, NEW b \in Blocks \cup {Root}
  PROVE  Refresh(C, b) \in CacheType
<1>1. CASE ~C.built \/ b = Root
  BY <1>1 DEF Refresh
<1>2. CASE ~(~C.built \/ b = Root)
  <2>1. PICK X, u : X = [free |-> C.free, kids |-> C.kids, go |-> TRUE] /\ u = Up[b]
    OBVIOUS
  <2>2. X \in ClimbType /\ u \in Seq(Blocks)
    BY <1>2, <2>1, UpFacts DEF CacheType, ClimbType, UpOK
  <2>3. PICK S : S = Climbed(C, X, u)
    OBVIOUS
  <2>4. S \in ClimbType
    <3>1. PICK at : OnClimb(at, C, X, u)
      BY <2>2, ClimbRun
    <3>2. Len(u) \in 0..Len(u)
      BY <2>2
    <3>3. QED BY <2>3, <3>1, <3>2 DEF OnClimb
  <2>5. Refresh(C, b) = [C EXCEPT !.free = S.free, !.kids = S.kids]
    BY <1>2, <2>1, <2>3 DEF Refresh, Climbed
  <2>6. S.free \in SUBSET Blocks /\ S.kids \in [Blocks -> Int]
    BY <2>4 DEF ClimbType
  <2>7. QED BY <2>5, <2>6, ZenonT(30) DEF CacheType
<1>3. QED BY <1>1, <1>2

\* _mark_capacity_mutated.
LEMMA MutatedType == ASSUME NEW C \in CacheType PROVE Mutated(C) \in CacheType
<1>1. PICK v : v = [k \in Kinds |-> Stale]
  OBVIOUS
<1>2. v \in [Kinds -> {Stale} \cup SUBSET Blocks]
  BY <1>1
<1>3. Mutated(C) = [C EXCEPT !.view = v]
  BY <1>1 DEF Mutated
<1>4. QED BY <1>2, <1>3, ZenonT(30) DEF CacheType

\* The operations on a block.
LEMMA BlockTypes ==
  ASSUME NEW C \in CacheType, NEW b \in Blocks
  PROVE  /\ Acquire(C, b) \in CacheType /\ Release(C, b) \in CacheType
         /\ RemoveBlock(C, b) \in CacheType
         /\ BeginD2H(C, b) \in CacheType /\ EndD2H(C, b) \in CacheType
         /\ BeginH2D(C, b) \in CacheType /\ EndH2D(C, b) \in CacheType
<1>1. /\ C.index \subseteq Blocks /\ C.dev \subseteq Blocks /\ C.host \subseteq Blocks
      /\ C.out \subseteq Blocks /\ C.in \subseteq Blocks /\ C.wt \subseteq Blocks /\ C.free \subseteq Blocks
      /\ C.ref \in [Blocks -> Int] /\ C.kids \in [Blocks -> Int]
  BY CacheFields
<1>2. ASSUME NEW D \in CacheType PROVE Mutated(Refresh(D, b)) \in CacheType
  BY RefreshType, MutatedType
<1>3. ASSUME NEW n \in Int PROVE SetRef(C, b, n) \in CacheType
  <2>1. [C EXCEPT !.ref[b] = n] \in CacheType
    BY <1>1 DEF CacheType
  <2>2. QED BY <1>2, <2>1 DEF SetRef
<1>4. Acquire(C, b) \in CacheType /\ Release(C, b) \in CacheType
  <2>1. C.ref[b] + 1 \in Int /\ C.ref[b] - 1 \in Int
    BY <1>1
  <2>2. QED BY <1>3, <2>1 DEF Acquire, Release
<1>5. Fail(C, "order") \in CacheType /\ Fail(C, "gap") \in CacheType
  <2>1. ASSUME NEW e \in Errors PROVE Fail(C, e) \in CacheType
    BY DEF Fail, CacheType
  <2>2. "order" \in Errors /\ "gap" \in Errors
    BY DEF Errors
  <2>3. QED BY <2>1, <2>2
<1>6. BeginD2H(C, b) \in CacheType
  <2>1. PICK u : u = C.out \cup {b}
    OBVIOUS
  <2>2. [C EXCEPT !.out = u] \in CacheType
    <3>1. u \in SUBSET Blocks
      BY <1>1, <2>1
    <3>2. QED BY <3>1 DEF CacheType
  <2>3. [C EXCEPT !.out = @ \cup {b}] = [C EXCEPT !.out = u]
    BY <2>1
  <2>4. QED BY <1>2, <1>5, <2>2, <2>3 DEF BeginD2H
<1>7. EndD2H(C, b) \in CacheType
  <2>1. PICK u, v : u = C.host \cup {b} /\ v = C.out \ {b}
    OBVIOUS
  <2>2. [C EXCEPT !.host = u, !.out = v] \in CacheType
    <3>1. u \in SUBSET Blocks /\ v \in SUBSET Blocks
      BY <1>1, <2>1
    <3>2. QED BY <3>1 DEF CacheType
  <2>3. [C EXCEPT !.host = @ \cup {b}, !.out = @ \ {b}] = [C EXCEPT !.host = u, !.out = v]
    BY <2>1
  <2>4. QED BY <1>2, <1>5, <2>2, <2>3 DEF EndD2H
<1>8. BeginH2D(C, b) \in CacheType
  <2>1. PICK u, v : u = C.dev \cup {b} /\ v = C.in \cup {b}
    OBVIOUS
  <2>2. [C EXCEPT !.dev = u, !.in = v] \in CacheType
    <3>1. u \in SUBSET Blocks /\ v \in SUBSET Blocks
      BY <1>1, <2>1
    <3>2. QED BY <3>1 DEF CacheType
  <2>3. [C EXCEPT !.dev = @ \cup {b}, !.in = @ \cup {b}] = [C EXCEPT !.dev = u, !.in = v]
    BY <2>1
  <2>4. QED BY <1>2, <1>5, <2>2, <2>3 DEF BeginH2D
<1>9. EndH2D(C, b) \in CacheType
  <2>1. PICK u : u = C.in \ {b}
    OBVIOUS
  <2>2. [C EXCEPT !.in = u] \in CacheType
    <3>1. u \in SUBSET Blocks
      BY <1>1, <2>1
    <3>2. QED BY <3>1 DEF CacheType
  <2>3. [C EXCEPT !.in = @ \ {b}] = [C EXCEPT !.in = u]
    BY <2>1
  <2>4. QED BY <1>2, <2>2, <2>3 DEF EndH2D
<1>10. RemoveBlock(C, b) \in CacheType
  <2> DEFINE p == Parent[b]
             told == C.built /\ b \notin C.free /\ p # Root
  <2>2. PICK i, f, w : i = C.index \ {b} /\ f = C.free \ {b} /\ w = C.wt \ {b}
    OBVIOUS
  <2>3. PICK d : d = [x \in Blocks |-> CASE x = b -> 0 [] x = p /\ told -> C.kids[x] - 1 [] OTHER -> C.kids[x]]
    OBVIOUS
  <2>4. PICK D : D = [C EXCEPT !.index = i, !.free = f, !.wt = w, !.kids = d]
    OBVIOUS
  <2>5. D \in CacheType
    <3>1. i \in SUBSET Blocks /\ f \in SUBSET Blocks /\ w \in SUBSET Blocks
      BY <1>1, <2>2
    <3>2. d \in [Blocks -> Int]
      <4>1. \A x \in Blocks : C.kids[x] \in Int /\ C.kids[x] - 1 \in Int
        BY <1>1
      <4>2. QED BY <2>3, <4>1
    <3>3. QED BY <2>4, <3>1, <3>2 DEF CacheType
  <2>6. D = [C EXCEPT !.index = @ \ {b}, !.free = @ \ {b}, !.wt = @ \ {b}, !.kids = d]
    BY <2>2, <2>4
  <2>7. RemoveBlock(C, b) = Mutated(IF told THEN Refresh(D, p) ELSE D)
    BY <2>3, <2>6 DEF RemoveBlock
  <2>8. p \in Blocks \cup {Root}
    BY PrefixAssumption
  <2>9. QED BY <2>5, <2>7, <2>8, RefreshType, MutatedType
<1>11. QED BY <1>4, <1>6, <1>7, <1>8, <1>9, <1>10

\* AcquireAll, block by block.
LEMMA AcquireRun ==
  ASSUME NEW C \in CacheType, NEW s \in Seq(Blocks)
  PROVE  \E at : AcquireAll(C, s) = at[Len(s)] /\ at[0] = C /\ \A i \in 1..Len(s) : at[i] = Acquire(at[i - 1], s[i])
<1>1. PICK n : n = Len(s) /\ n \in Nat /\ \A i \in 1..n : s[i] \in Blocks
  OBVIOUS
<1>2. PICK h : h = [p \in (1..n) \X CacheType |-> Acquire(p[2], s[p[1]])]
  OBVIOUS
<1>3. \A i \in 1..n : \A y \in CacheType : h[<<i, y>>] = Acquire(y, s[i])
  BY <1>2
<1>4. \A i \in 1..n : \A y \in CacheType : h[<<i, y>>] \in CacheType
  BY <1>1, <1>3, BlockTypes, ZenonT(30)
<1> DEFINE Runs(f) == f = [i \in 0..n |-> IF i = 0 THEN C ELSE Acquire(f[i - 1], s[i])]
<1>5. \E f : Runs(f)
  <2>1. PICK f : RunsTo(f, n, C, h) /\ \A i \in 0..n : f[i] \in CacheType
    BY <1>1, <1>4, RunExists
  <2>2. \A i \in 0..n : i # 0 => i \in 1..n /\ i - 1 \in 0..n
    BY <1>1
  <2>3. \A i \in 0..n : (IF i = 0 THEN C ELSE h[<<i, f[i - 1]>>]) = (IF i = 0 THEN C ELSE Acquire(f[i - 1], s[i]))
    BY <1>3, <2>1, <2>2
  <2>4. Runs(f)
    BY <2>1, <2>3 DEF RunsTo
  <2>5. QED BY <2>4
<1>6. PICK at : at = CHOOSE f : Runs(f)
  OBVIOUS
<1>7. AcquireAll(C, s) = at[n]
  BY <1>1, <1>6 DEF Along, AcquireAll
<1>8. Runs(at)
  BY <1>5, <1>6
<1>9. \A i \in 1..n : i \in 0..n /\ i # 0
  BY <1>1
<1>10. at[0] = C /\ \A i \in 1..n : at[i] = Acquire(at[i - 1], s[i])
  BY <1>1, <1>8, <1>9
<1>11. QED BY <1>1, <1>7, <1>10

\* ReleaseAll, block by block.
LEMMA ReleaseRun ==
  ASSUME NEW C \in CacheType, NEW s \in Seq(Blocks)
  PROVE  \E at : ReleaseAll(C, s) = at[Len(s)] /\ at[0] = C /\ \A i \in 1..Len(s) : at[i] = Release(at[i - 1], s[i])
<1>1. PICK n : n = Len(s) /\ n \in Nat /\ \A i \in 1..n : s[i] \in Blocks
  OBVIOUS
<1>2. PICK h : h = [p \in (1..n) \X CacheType |-> Release(p[2], s[p[1]])]
  OBVIOUS
<1>3. \A i \in 1..n : \A y \in CacheType : h[<<i, y>>] = Release(y, s[i])
  BY <1>2
<1>4. \A i \in 1..n : \A y \in CacheType : h[<<i, y>>] \in CacheType
  BY <1>1, <1>3, BlockTypes, ZenonT(30)
<1> DEFINE Runs(f) == f = [i \in 0..n |-> IF i = 0 THEN C ELSE Release(f[i - 1], s[i])]
<1>5. \E f : Runs(f)
  <2>1. PICK f : RunsTo(f, n, C, h) /\ \A i \in 0..n : f[i] \in CacheType
    BY <1>1, <1>4, RunExists
  <2>2. \A i \in 0..n : i # 0 => i \in 1..n /\ i - 1 \in 0..n
    BY <1>1
  <2>3. \A i \in 0..n : (IF i = 0 THEN C ELSE h[<<i, f[i - 1]>>]) = (IF i = 0 THEN C ELSE Release(f[i - 1], s[i]))
    BY <1>3, <2>1, <2>2
  <2>4. Runs(f)
    BY <2>1, <2>3 DEF RunsTo
  <2>5. QED BY <2>4
<1>6. PICK at : at = CHOOSE f : Runs(f)
  OBVIOUS
<1>7. ReleaseAll(C, s) = at[n]
  BY <1>1, <1>6 DEF Along, ReleaseAll
<1>8. Runs(at)
  BY <1>5, <1>6
<1>9. \A i \in 1..n : i \in 0..n /\ i # 0
  BY <1>1
<1>10. at[0] = C /\ \A i \in 1..n : at[i] = Release(at[i - 1], s[i])
  BY <1>1, <1>8, <1>9
<1>11. QED BY <1>1, <1>7, <1>10

RemoveBlocks(C, s) == Along(RemoveBlock, C, s)

\* RemoveBlocks, block by block.
LEMMA RemoveBlockRun ==
  ASSUME NEW C \in CacheType, NEW s \in Seq(Blocks)
  PROVE  \E at : RemoveBlocks(C, s) = at[Len(s)] /\ at[0] = C /\ \A i \in 1..Len(s) : at[i] = RemoveBlock(at[i - 1], s[i])
<1>1. PICK n : n = Len(s) /\ n \in Nat /\ \A i \in 1..n : s[i] \in Blocks
  OBVIOUS
<1>2. PICK h : h = [p \in (1..n) \X CacheType |-> RemoveBlock(p[2], s[p[1]])]
  OBVIOUS
<1>3. \A i \in 1..n : \A y \in CacheType : h[<<i, y>>] = RemoveBlock(y, s[i])
  BY <1>2
<1>4. \A i \in 1..n : \A y \in CacheType : h[<<i, y>>] \in CacheType
  BY <1>1, <1>3, BlockTypes, ZenonT(30)
<1> DEFINE Runs(f) == f = [i \in 0..n |-> IF i = 0 THEN C ELSE RemoveBlock(f[i - 1], s[i])]
<1>5. \E f : Runs(f)
  <2>1. PICK f : RunsTo(f, n, C, h) /\ \A i \in 0..n : f[i] \in CacheType
    BY <1>1, <1>4, RunExists
  <2>2. \A i \in 0..n : i # 0 => i \in 1..n /\ i - 1 \in 0..n
    BY <1>1
  <2>3. \A i \in 0..n : (IF i = 0 THEN C ELSE h[<<i, f[i - 1]>>]) = (IF i = 0 THEN C ELSE RemoveBlock(f[i - 1], s[i]))
    BY <1>3, <2>1, <2>2
  <2>4. Runs(f)
    BY <2>1, <2>3 DEF RunsTo
  <2>5. QED BY <2>4
<1>6. PICK at : at = CHOOSE f : Runs(f)
  OBVIOUS
<1>7. RemoveBlocks(C, s) = at[n]
  BY <1>1, <1>6 DEF Along, RemoveBlocks
<1>8. Runs(at)
  BY <1>5, <1>6
<1>9. \A i \in 1..n : i \in 0..n /\ i # 0
  BY <1>1
<1>10. at[0] = C /\ \A i \in 1..n : at[i] = RemoveBlock(at[i - 1], s[i])
  BY <1>1, <1>8, <1>9
<1>11. QED BY <1>1, <1>7, <1>10

BeginD2Hs(C, s) == Along(BeginD2H, C, s)

\* BeginD2Hs, block by block.
LEMMA BeginD2HRun ==
  ASSUME NEW C \in CacheType, NEW s \in Seq(Blocks)
  PROVE  \E at : BeginD2Hs(C, s) = at[Len(s)] /\ at[0] = C /\ \A i \in 1..Len(s) : at[i] = BeginD2H(at[i - 1], s[i])
<1>1. PICK n : n = Len(s) /\ n \in Nat /\ \A i \in 1..n : s[i] \in Blocks
  OBVIOUS
<1>2. PICK h : h = [p \in (1..n) \X CacheType |-> BeginD2H(p[2], s[p[1]])]
  OBVIOUS
<1>3. \A i \in 1..n : \A y \in CacheType : h[<<i, y>>] = BeginD2H(y, s[i])
  BY <1>2
<1>4. \A i \in 1..n : \A y \in CacheType : h[<<i, y>>] \in CacheType
  BY <1>1, <1>3, BlockTypes, ZenonT(30)
<1> DEFINE Runs(f) == f = [i \in 0..n |-> IF i = 0 THEN C ELSE BeginD2H(f[i - 1], s[i])]
<1>5. \E f : Runs(f)
  <2>1. PICK f : RunsTo(f, n, C, h) /\ \A i \in 0..n : f[i] \in CacheType
    BY <1>1, <1>4, RunExists
  <2>2. \A i \in 0..n : i # 0 => i \in 1..n /\ i - 1 \in 0..n
    BY <1>1
  <2>3. \A i \in 0..n : (IF i = 0 THEN C ELSE h[<<i, f[i - 1]>>]) = (IF i = 0 THEN C ELSE BeginD2H(f[i - 1], s[i]))
    BY <1>3, <2>1, <2>2
  <2>4. Runs(f)
    BY <2>1, <2>3 DEF RunsTo
  <2>5. QED BY <2>4
<1>6. PICK at : at = CHOOSE f : Runs(f)
  OBVIOUS
<1>7. BeginD2Hs(C, s) = at[n]
  BY <1>1, <1>6 DEF Along, BeginD2Hs
<1>8. Runs(at)
  BY <1>5, <1>6
<1>9. \A i \in 1..n : i \in 0..n /\ i # 0
  BY <1>1
<1>10. at[0] = C /\ \A i \in 1..n : at[i] = BeginD2H(at[i - 1], s[i])
  BY <1>1, <1>8, <1>9
<1>11. QED BY <1>1, <1>7, <1>10

EndD2Hs(C, s) == Along(EndD2H, C, s)

\* EndD2Hs, block by block.
LEMMA EndD2HRun ==
  ASSUME NEW C \in CacheType, NEW s \in Seq(Blocks)
  PROVE  \E at : EndD2Hs(C, s) = at[Len(s)] /\ at[0] = C /\ \A i \in 1..Len(s) : at[i] = EndD2H(at[i - 1], s[i])
<1>1. PICK n : n = Len(s) /\ n \in Nat /\ \A i \in 1..n : s[i] \in Blocks
  OBVIOUS
<1>2. PICK h : h = [p \in (1..n) \X CacheType |-> EndD2H(p[2], s[p[1]])]
  OBVIOUS
<1>3. \A i \in 1..n : \A y \in CacheType : h[<<i, y>>] = EndD2H(y, s[i])
  BY <1>2
<1>4. \A i \in 1..n : \A y \in CacheType : h[<<i, y>>] \in CacheType
  BY <1>1, <1>3, BlockTypes, ZenonT(30)
<1> DEFINE Runs(f) == f = [i \in 0..n |-> IF i = 0 THEN C ELSE EndD2H(f[i - 1], s[i])]
<1>5. \E f : Runs(f)
  <2>1. PICK f : RunsTo(f, n, C, h) /\ \A i \in 0..n : f[i] \in CacheType
    BY <1>1, <1>4, RunExists
  <2>2. \A i \in 0..n : i # 0 => i \in 1..n /\ i - 1 \in 0..n
    BY <1>1
  <2>3. \A i \in 0..n : (IF i = 0 THEN C ELSE h[<<i, f[i - 1]>>]) = (IF i = 0 THEN C ELSE EndD2H(f[i - 1], s[i]))
    BY <1>3, <2>1, <2>2
  <2>4. Runs(f)
    BY <2>1, <2>3 DEF RunsTo
  <2>5. QED BY <2>4
<1>6. PICK at : at = CHOOSE f : Runs(f)
  OBVIOUS
<1>7. EndD2Hs(C, s) = at[n]
  BY <1>1, <1>6 DEF Along, EndD2Hs
<1>8. Runs(at)
  BY <1>5, <1>6
<1>9. \A i \in 1..n : i \in 0..n /\ i # 0
  BY <1>1
<1>10. at[0] = C /\ \A i \in 1..n : at[i] = EndD2H(at[i - 1], s[i])
  BY <1>1, <1>8, <1>9
<1>11. QED BY <1>1, <1>7, <1>10

BeginH2Ds(C, s) == Along(BeginH2D, C, s)

\* BeginH2Ds, block by block.
LEMMA BeginH2DRun ==
  ASSUME NEW C \in CacheType, NEW s \in Seq(Blocks)
  PROVE  \E at : BeginH2Ds(C, s) = at[Len(s)] /\ at[0] = C /\ \A i \in 1..Len(s) : at[i] = BeginH2D(at[i - 1], s[i])
<1>1. PICK n : n = Len(s) /\ n \in Nat /\ \A i \in 1..n : s[i] \in Blocks
  OBVIOUS
<1>2. PICK h : h = [p \in (1..n) \X CacheType |-> BeginH2D(p[2], s[p[1]])]
  OBVIOUS
<1>3. \A i \in 1..n : \A y \in CacheType : h[<<i, y>>] = BeginH2D(y, s[i])
  BY <1>2
<1>4. \A i \in 1..n : \A y \in CacheType : h[<<i, y>>] \in CacheType
  BY <1>1, <1>3, BlockTypes, ZenonT(30)
<1> DEFINE Runs(f) == f = [i \in 0..n |-> IF i = 0 THEN C ELSE BeginH2D(f[i - 1], s[i])]
<1>5. \E f : Runs(f)
  <2>1. PICK f : RunsTo(f, n, C, h) /\ \A i \in 0..n : f[i] \in CacheType
    BY <1>1, <1>4, RunExists
  <2>2. \A i \in 0..n : i # 0 => i \in 1..n /\ i - 1 \in 0..n
    BY <1>1
  <2>3. \A i \in 0..n : (IF i = 0 THEN C ELSE h[<<i, f[i - 1]>>]) = (IF i = 0 THEN C ELSE BeginH2D(f[i - 1], s[i]))
    BY <1>3, <2>1, <2>2
  <2>4. Runs(f)
    BY <2>1, <2>3 DEF RunsTo
  <2>5. QED BY <2>4
<1>6. PICK at : at = CHOOSE f : Runs(f)
  OBVIOUS
<1>7. BeginH2Ds(C, s) = at[n]
  BY <1>1, <1>6 DEF Along, BeginH2Ds
<1>8. Runs(at)
  BY <1>5, <1>6
<1>9. \A i \in 1..n : i \in 0..n /\ i # 0
  BY <1>1
<1>10. at[0] = C /\ \A i \in 1..n : at[i] = BeginH2D(at[i - 1], s[i])
  BY <1>1, <1>8, <1>9
<1>11. QED BY <1>1, <1>7, <1>10

EndH2Ds(C, s) == Along(EndH2D, C, s)

\* EndH2Ds, block by block.
LEMMA EndH2DRun ==
  ASSUME NEW C \in CacheType, NEW s \in Seq(Blocks)
  PROVE  \E at : EndH2Ds(C, s) = at[Len(s)] /\ at[0] = C /\ \A i \in 1..Len(s) : at[i] = EndH2D(at[i - 1], s[i])
<1>1. PICK n : n = Len(s) /\ n \in Nat /\ \A i \in 1..n : s[i] \in Blocks
  OBVIOUS
<1>2. PICK h : h = [p \in (1..n) \X CacheType |-> EndH2D(p[2], s[p[1]])]
  OBVIOUS
<1>3. \A i \in 1..n : \A y \in CacheType : h[<<i, y>>] = EndH2D(y, s[i])
  BY <1>2
<1>4. \A i \in 1..n : \A y \in CacheType : h[<<i, y>>] \in CacheType
  BY <1>1, <1>3, BlockTypes, ZenonT(30)
<1> DEFINE Runs(f) == f = [i \in 0..n |-> IF i = 0 THEN C ELSE EndH2D(f[i - 1], s[i])]
<1>5. \E f : Runs(f)
  <2>1. PICK f : RunsTo(f, n, C, h) /\ \A i \in 0..n : f[i] \in CacheType
    BY <1>1, <1>4, RunExists
  <2>2. \A i \in 0..n : i # 0 => i \in 1..n /\ i - 1 \in 0..n
    BY <1>1
  <2>3. \A i \in 0..n : (IF i = 0 THEN C ELSE h[<<i, f[i - 1]>>]) = (IF i = 0 THEN C ELSE EndH2D(f[i - 1], s[i]))
    BY <1>3, <2>1, <2>2
  <2>4. Runs(f)
    BY <2>1, <2>3 DEF RunsTo
  <2>5. QED BY <2>4
<1>6. PICK at : at = CHOOSE f : Runs(f)
  OBVIOUS
<1>7. EndH2Ds(C, s) = at[n]
  BY <1>1, <1>6 DEF Along, EndH2Ds
<1>8. Runs(at)
  BY <1>5, <1>6
<1>9. \A i \in 1..n : i \in 0..n /\ i # 0
  BY <1>1
<1>10. at[0] = C /\ \A i \in 1..n : at[i] = EndH2D(at[i - 1], s[i])
  BY <1>1, <1>8, <1>9
<1>11. QED BY <1>1, <1>7, <1>10

\* Two caches that differ at most in reference counts and in what is kept about capacity.
RefTwin(C, D) ==
  /\ D.index = C.index /\ D.dev = C.dev /\ D.host = C.host /\ D.pinned = C.pinned
  /\ D.out = C.out /\ D.in = C.in /\ D.wt = C.wt
  /\ D.slots = C.slots /\ D.pool = C.pool /\ D.down = C.down /\ D.up = C.up /\ D.err = C.err

\* AcquireAll changes the reference counts of its blocks.
LEMMA AcquireAllSharp ==
  ASSUME NEW C, Sharp(C), NEW s \in Seq(Blocks), IsInjective(s), Range(s) \subseteq C.index, NEW E, E = AcquireAll(C, s)
  PROVE  /\ Sharp(E) /\ RefTwin(C, E)
         /\ \A x \in Blocks : E.ref[x] = IF x \in Range(s) THEN C.ref[x] + 1 ELSE C.ref[x]
<1>1. C \in CacheType /\ C.index \subseteq Blocks /\ C.ref \in [Blocks -> Int]
  BY CacheFields DEF Sharp, Kept
<1>2. PICK at : AcquireAll(C, s) = at[Len(s)] /\ at[0] = C /\ \A i \in 1..Len(s) : at[i] = Acquire(at[i - 1], s[i])
  BY <1>1, AcquireRun
<1> DEFINE Fine(k) == /\ Sharp(at[k]) /\ RefTwin(C, at[k])
                      /\ \A x \in Blocks : at[k].ref[x] = IF x \in First(s, k) THEN C.ref[x] + 1 ELSE C.ref[x]
<1>3. PICK n : n = Len(s) /\ n \in Nat
  OBVIOUS
<1>4. Fine(0)
  BY <1>1, <1>2, FirstFacts DEF RefTwin
<1>5. ASSUME NEW k \in 1..n, Fine(k - 1) PROVE Fine(k)
  <2>1. PICK D, b, F : D = at[k - 1] /\ b = s[k] /\ F = at[k]
    OBVIOUS
  <2>2. /\ b \in Blocks /\ b \in Range(s) /\ First(s, k) = First(s, k - 1) \cup {b} /\ b \notin First(s, k - 1)
        /\ F = Acquire(D, b)
    BY <1>2, <1>3, <2>1, FirstFacts
  <2>3. Sharp(D) /\ RefTwin(C, D) /\ b \in D.index /\ D.ref[b] = C.ref[b] /\ D.ref \in [Blocks -> Int]
    BY <1>1, <1>5, <2>1, <2>2, CacheFields DEF Sharp, Kept, RefTwin
  <2>4. D.ref[b] + 1 \in Int /\ F = SetRef(D, b, D.ref[b] + 1)
    BY <1>1, <2>2, <2>3 DEF Acquire
  <2>5. /\ Sharp(F)
        /\ F.index = D.index /\ F.dev = D.dev /\ F.host = D.host /\ F.pinned = D.pinned
        /\ F.out = D.out /\ F.in = D.in /\ F.wt = D.wt /\ F.ref = [D.ref EXCEPT ![b] = D.ref[b] + 1]
        /\ F.slots = D.slots /\ F.pool = D.pool /\ F.down = D.down /\ F.up = D.up /\ F.err = D.err
    BY <2>3, <2>4, SetRefSharp
  <2>6. RefTwin(C, F)
    BY <2>3, <2>5 DEF RefTwin
  <2>7. \A x \in Blocks : F.ref[x] = IF x \in First(s, k) THEN C.ref[x] + 1 ELSE C.ref[x]
    BY <1>5, <2>1, <2>2, <2>3, <2>5
  <2>8. QED BY <2>1, <2>5, <2>6, <2>7
<1>6. Fine(n)
  <2> HIDE DEF Fine
  <2>a. PICK G : G = {k \in 0..n : Fine(k)}
    OBVIOUS
  <2>1. 0 \in G /\ \A k \in 1..n : k - 1 \in G => k \in G
    <3>1. \A k \in 1..n : k \in 0..n
      BY <1>3
    <3>2. QED BY <1>3, <1>4, <1>5, <2>a, <3>1
  <2>2. n \in G
    <3>1. \A k \in 0..n : k \in G
      BY <1>3, <2>1, StepInduction
    <3>2. QED BY <1>3, <3>1
  <2>3. QED BY <2>a, <2>2
<1>7. First(s, n) = Range(s)
  BY <1>3, FirstFacts
<1>8. QED BY <1>2, <1>3, <1>6, <1>7

\* ReleaseAll changes the reference counts of its blocks.
LEMMA ReleaseAllSharp ==
  ASSUME NEW C, Sharp(C), NEW s \in Seq(Blocks), IsInjective(s), Range(s) \subseteq C.index, NEW E, E = ReleaseAll(C, s)
  PROVE  /\ Sharp(E) /\ RefTwin(C, E)
         /\ \A x \in Blocks : E.ref[x] = IF x \in Range(s) THEN C.ref[x] - 1 ELSE C.ref[x]
<1>1. C \in CacheType /\ C.index \subseteq Blocks /\ C.ref \in [Blocks -> Int]
  BY CacheFields DEF Sharp, Kept
<1>2. PICK at : ReleaseAll(C, s) = at[Len(s)] /\ at[0] = C /\ \A i \in 1..Len(s) : at[i] = Release(at[i - 1], s[i])
  BY <1>1, ReleaseRun
<1> DEFINE Fine(k) == /\ Sharp(at[k]) /\ RefTwin(C, at[k])
                      /\ \A x \in Blocks : at[k].ref[x] = IF x \in First(s, k) THEN C.ref[x] - 1 ELSE C.ref[x]
<1>3. PICK n : n = Len(s) /\ n \in Nat
  OBVIOUS
<1>4. Fine(0)
  BY <1>1, <1>2, FirstFacts DEF RefTwin
<1>5. ASSUME NEW k \in 1..n, Fine(k - 1) PROVE Fine(k)
  <2>1. PICK D, b, F : D = at[k - 1] /\ b = s[k] /\ F = at[k]
    OBVIOUS
  <2>2. /\ b \in Blocks /\ b \in Range(s) /\ First(s, k) = First(s, k - 1) \cup {b} /\ b \notin First(s, k - 1)
        /\ F = Release(D, b)
    BY <1>2, <1>3, <2>1, FirstFacts
  <2>3. Sharp(D) /\ RefTwin(C, D) /\ b \in D.index /\ D.ref[b] = C.ref[b] /\ D.ref \in [Blocks -> Int]
    BY <1>1, <1>5, <2>1, <2>2, CacheFields DEF Sharp, Kept, RefTwin
  <2>4. D.ref[b] - 1 \in Int /\ F = SetRef(D, b, D.ref[b] - 1)
    BY <1>1, <2>2, <2>3 DEF Release
  <2>5. /\ Sharp(F)
        /\ F.index = D.index /\ F.dev = D.dev /\ F.host = D.host /\ F.pinned = D.pinned
        /\ F.out = D.out /\ F.in = D.in /\ F.wt = D.wt /\ F.ref = [D.ref EXCEPT ![b] = D.ref[b] - 1]
        /\ F.slots = D.slots /\ F.pool = D.pool /\ F.down = D.down /\ F.up = D.up /\ F.err = D.err
    BY <2>3, <2>4, SetRefSharp
  <2>6. RefTwin(C, F)
    BY <2>3, <2>5 DEF RefTwin
  <2>7. \A x \in Blocks : F.ref[x] = IF x \in First(s, k) THEN C.ref[x] - 1 ELSE C.ref[x]
    BY <1>5, <2>1, <2>2, <2>3, <2>5
  <2>8. QED BY <2>1, <2>5, <2>6, <2>7
<1>6. Fine(n)
  <2> HIDE DEF Fine
  <2>a. PICK G : G = {k \in 0..n : Fine(k)}
    OBVIOUS
  <2>1. 0 \in G /\ \A k \in 1..n : k - 1 \in G => k \in G
    <3>1. \A k \in 1..n : k \in 0..n
      BY <1>3
    <3>2. QED BY <1>3, <1>4, <1>5, <2>a, <3>1
  <2>2. n \in G
    <3>1. \A k \in 0..n : k \in G
      BY <1>3, <2>1, StepInduction
    <3>2. QED BY <1>3, <3>1
  <2>3. QED BY <2>a, <2>2
<1>7. First(s, n) = Range(s)
  BY <1>3, FirstFacts
<1>8. QED BY <1>2, <1>3, <1>6, <1>7

\* A set of freeable blocks that holds all that extends them.
Cut(C, V) == V \subseteq FreeableIn(C) /\ \A b \in V : Desc[b] \cap C.index \subseteq V

\* Two caches with the same payloads, references and copies.
Payloads(C, D) ==
  /\ D.dev = C.dev /\ D.host = C.host /\ D.pinned = C.pinned /\ D.out = C.out /\ D.in = C.in /\ D.ref = C.ref
  /\ D.slots = C.slots /\ D.pool = C.pool /\ D.down = C.down /\ D.up = C.up /\ D.err = C.err

\* Blocks removed leaf by leaf.
LEMMA RemoveAllSharp ==
  ASSUME NEW C, Sharp(C), NEW V, Cut(C, V), NEW E, E = RemoveAll(C, V)
  PROVE  /\ Sharp(E) /\ Payloads(C, E) /\ E.index = C.index \ V /\ E.wt = C.wt \ V
         /\ V # {} => \A k \in Kinds : E.view[k] = Stale
<1>1. C \in CacheType /\ C.index \subseteq Blocks /\ FreeableIn(C) \subseteq C.index
  BY CacheFields DEF Sharp, Kept, FreeableIn
<1>2. V \subseteq Blocks /\ V \subseteq C.index
  BY <1>1 DEF Cut
<1>3. PICK s : s = Keep(LeafFirst, V)
  OBVIOUS
<1>4. s \in Seq(Blocks) /\ Range(s) = V /\ IsInjective(s) /\ Ordered(s, Extended)
  <2>1. s \in Seq(Blocks) /\ Range(s) = Blocks \cap V /\ IsInjective(s)
    BY <1>3, Walks, KeepFacts
  <2>2. Ordered(s, Extended)
    BY <1>3, Walks, KeepOrder
  <2>3. QED BY <1>2, <2>1, <2>2
<1>5. PICK n : n = Len(s) /\ n \in Nat
  BY <1>4
<1>6. PICK at : RemoveBlocks(C, s) = at[Len(s)] /\ at[0] = C /\ \A i \in 1..Len(s) : at[i] = RemoveBlock(at[i - 1], s[i])
  BY <1>1, <1>4, RemoveBlockRun
<1> DEFINE Fine(k) == /\ Sharp(at[k]) /\ Payloads(C, at[k])
                      /\ at[k].index = C.index \ First(s, k) /\ at[k].wt = C.wt \ First(s, k)
                      /\ k # 0 => \A l \in Kinds : at[k].view[l] = Stale
<1>7. Fine(0)
  BY <1>4, <1>6, FirstFacts DEF Payloads
<1>8. ASSUME NEW k \in 1..n, Fine(k - 1) PROVE Fine(k)
  <2>1. PICK D, b, F : D = at[k - 1] /\ b = s[k] /\ F = at[k]
    OBVIOUS
  <2>2. /\ b \in V /\ First(s, k) = First(s, k - 1) \cup {b} /\ b \notin First(s, k - 1)
        /\ F = RemoveBlock(D, b)
    BY <1>4, <1>5, <1>6, <2>1, FirstFacts
  <2>3. Sharp(D) /\ Payloads(C, D) /\ D.index = C.index \ First(s, k - 1) /\ D.wt = C.wt \ First(s, k - 1)
    BY <1>8, <2>1
  <2>4. b \in FreeableIn(D)
    <3>1. \A x \in Desc[b] \cap C.index : ~Blocked(C, x)
      BY <2>2 DEF Cut, FreeableIn
    <3>2. \A x : Blocked(D, x) <=> Blocked(C, x)
      BY <2>3 DEF Payloads, Blocked, Moving
    <3>3. QED BY <1>2, <2>2, <2>3, <3>1, <3>2 DEF FreeableIn
  <2>5. Children(D, b) = {}
    <3>1. SUFFICES ASSUME NEW x \in C.index, x \notin First(s, k - 1), Parent[x] = b PROVE FALSE
      BY <2>3 DEF Children
    <3>2. b \in Blocks /\ x \in Blocks
      BY <1>1, <1>2, <2>2
    <3>3. x \in V
      BY <2>2, <3>1, <3>2, DescBelow DEF Cut
    <3>4. PICK j \in 1..n : s[j] = x
      BY <1>4, <1>5, <3>3 DEF Range
    <3>5. <<s[j], s[k]>> \in Extended
      BY <2>1, <3>1, <3>2, <3>4 DEF Extended
    <3>6. j < k
      BY <1>4, <1>5, <3>5 DEF Ordered
    <3>7. j \in 1..(k - 1)
      BY <1>5, <3>6
    <3>8. QED BY <3>1, <3>4, <3>7 DEF First
  <2>6. /\ Sharp(F) /\ (\A l \in Kinds : F.view[l] = Stale)
        /\ F.index = D.index \ {b} /\ F.wt = D.wt \ {b}
        /\ F.dev = D.dev /\ F.host = D.host /\ F.pinned = D.pinned /\ F.out = D.out /\ F.in = D.in /\ F.ref = D.ref
        /\ F.slots = D.slots /\ F.pool = D.pool /\ F.down = D.down /\ F.up = D.up /\ F.err = D.err
    BY <2>2, <2>3, <2>4, <2>5, RemoveSharp
  <2>7. Payloads(C, F)
    BY <2>3, <2>6 DEF Payloads
  <2>8. F.index = C.index \ First(s, k) /\ F.wt = C.wt \ First(s, k)
    BY <2>2, <2>3, <2>6
  <2>9. QED BY <2>1, <2>6, <2>7, <2>8
<1>9. Fine(n)
  <2> HIDE DEF Fine
  <2>a. PICK G : G = {k \in 0..n : Fine(k)}
    OBVIOUS
  <2>1. 0 \in G /\ \A k \in 1..n : k - 1 \in G => k \in G
    <3>1. \A k \in 1..n : k \in 0..n
      BY <1>5
    <3>2. QED BY <1>5, <1>7, <1>8, <2>a, <3>1
  <2>2. n \in G
    <3>1. \A k \in 0..n : k \in G
      BY <1>5, <2>1, StepInduction
    <3>2. QED BY <1>5, <3>1
  <2>3. QED BY <2>a, <2>2
<1>10. First(s, n) = V
  BY <1>4, <1>5, FirstFacts
<1>11. E = at[n]
  BY <1>3, <1>5, <1>6 DEF RemoveAll, RemoveBlocks
<1>12. V # {} => n # 0
  BY <1>4, <1>5, FirstFacts
<1>13. QED BY <1>9, <1>10, <1>11, <1>12

\* A cache whose views are all stale has none that is wrong.
LEMMA StaleSharp ==
  ASSUME NEW C, Kept(C), NEW D \in CacheType, D.index = C.index, D.pinned = C.pinned, D.out = C.out, D.in = C.in,
         D.ref = C.ref, D.built = C.built, D.free = C.free, D.kids = C.kids, \A k \in Kinds : D.view[k] = Stale
  PROVE  Sharp(D)
<1>1. \A x : (Blocked(D, x) <=> Blocked(C, x)) /\ Children(D, x) = Children(C, x)
  BY DEF Blocked, Moving, Children
<1>2. FreeableIn(D) = FreeableIn(C)
  BY <1>1 DEF FreeableIn
<1>3. FreeExact(D) /\ Dormant(D) /\ Whole(D) /\ ViewsCurrent(D)
  BY <1>1, <1>2 DEF Kept, FreeExact, Dormant, Whole, ViewsCurrent
<1>4. QED BY <1>3 DEF Sharp, Kept

\* What an eviction changes.
Evicted(C, E, V) ==
  /\ E.index = C.index \ V /\ E.wt = C.wt \ V /\ E.dev = C.dev \ V /\ E.host = C.host \ V
  /\ E.slots = C.slots + Cardinality(V \cap C.dev) /\ E.pool = C.pool + Cardinality(V \cap C.host)
  /\ E.pinned = C.pinned /\ E.out = C.out /\ E.in = C.in /\ E.ref = C.ref
  /\ E.down = C.down /\ E.up = C.up /\ E.err = C.err

\* Evicted blocks leave the tree and give their payloads back.
LEMMA EvictSharp ==
  ASSUME NEW C, Sharp(C), NEW V, Cut(C, V), NEW E, E = Evict(C, V)
  PROVE  Sharp(E) /\ Evicted(C, E, V)
<1>1. PICK D : D = RemoveAll(C, V)
  OBVIOUS
<1>2. /\ Sharp(D) /\ Payloads(C, D) /\ D.index = C.index \ V /\ D.wt = C.wt \ V
      /\ V # {} => \A k \in Kinds : D.view[k] = Stale
  BY <1>1, RemoveAllSharp
<1>3. D \in CacheType /\ D.dev \subseteq Blocks /\ D.host \subseteq Blocks /\ D.slots \in Int /\ D.pool \in Int
  BY <1>2, CacheFields DEF Sharp, Kept
<1>4. PICK v, h, n, m : /\ v = D.dev \ V /\ h = D.host \ V
                        /\ n = D.slots + Cardinality(V \cap D.dev) /\ m = D.pool + Cardinality(V \cap D.host)
  OBVIOUS
<1>5. v \in SUBSET Blocks /\ h \in SUBSET Blocks /\ n \in Int /\ m \in Int
  <2>1. IsFiniteSet(V \cap D.dev) /\ IsFiniteSet(V \cap D.host)
    BY <1>3, PrefixAssumption, FS_Subset
  <2>2. Cardinality(V \cap D.dev) \in Nat /\ Cardinality(V \cap D.host) \in Nat
    BY <2>1, FS_CardinalityType
  <2>3. QED BY <1>3, <1>4, <2>2
<1>6. E = [D EXCEPT !.slots = n, !.dev = v, !.pool = m, !.host = h]
  BY <1>1, <1>4 DEF Evict, FreePayloads
<1>7. /\ E \in CacheType /\ E.index = D.index /\ E.wt = D.wt /\ E.dev = v /\ E.host = h /\ E.slots = n /\ E.pool = m
      /\ E.pinned = D.pinned /\ E.out = D.out /\ E.in = D.in /\ E.ref = D.ref /\ E.view = D.view
      /\ E.down = D.down /\ E.up = D.up /\ E.err = D.err /\ E.built = D.built /\ E.free = D.free /\ E.kids = D.kids
  BY <1>3, <1>5, <1>6, ZenonT(30) DEF CacheType
<1>8. Sharp(E)
  <2>1. CASE V = {}
    <3>1. v = D.dev /\ h = D.host /\ n = D.slots /\ m = D.pool
      <4>1. V \cap D.dev = {} /\ V \cap D.host = {}
        BY <2>1
      <4>2. QED BY <1>3, <1>4, <2>1, <4>1, FS_EmptySet
    <3>2. E = D
      BY <1>3, <1>6, <3>1 DEF CacheType
    <3>3. QED BY <1>2, <3>2
  <2>2. CASE V # {}
    <3>1. \A k \in Kinds : E.view[k] = Stale
      BY <1>2, <1>7, <2>2
    <3>2. QED BY <1>2, <1>7, <3>1, StaleSharp DEF Sharp
  <2>3. QED BY <2>1, <2>2
<1>9. QED BY <1>2, <1>4, <1>7, <1>8 DEF Payloads, Evicted

\* Demoted blocks keep their place in the tree.
LEMMA DemoteSharp ==
  ASSUME NEW C, Sharp(C), NEW V \in SUBSET C.dev, NEW E, E = Demote(C, V)
  PROVE  /\ Sharp(E) /\ E.dev = C.dev \ V /\ E.slots = C.slots + Cardinality(V)
         /\ E.index = C.index /\ E.host = C.host /\ E.pinned = C.pinned /\ E.out = C.out /\ E.in = C.in
         /\ E.wt = C.wt /\ E.ref = C.ref /\ E.pool = C.pool /\ E.down = C.down /\ E.up = C.up /\ E.err = C.err
<1>1. C \in CacheType /\ C.dev \subseteq Blocks /\ C.slots \in Int /\ Kept(C)
  BY CacheFields DEF Sharp, Kept
<1>2. CASE V = {}
  <2>1. Cardinality(V) = 0
    BY <1>2, FS_EmptySet
  <2>2. QED BY <1>1, <1>2, <2>1 DEF Demote
<1>3. CASE V # {}
  <2>1. PICK v, n : v = C.dev \ V /\ n = C.slots + Cardinality(V)
    OBVIOUS
  <2>2. v \in SUBSET Blocks /\ n \in Int
    <3>1. IsFiniteSet(V)
      <4>1. V \subseteq Blocks
        BY <1>1
      <4>2. QED BY <4>1, PrefixAssumption, FS_Subset
    <3>2. Cardinality(V) \in Nat
      BY <3>1, FS_CardinalityType
    <3>3. QED BY <1>1, <2>1, <3>2
  <2>3. PICK D : D = [C EXCEPT !.dev = v, !.slots = n]
    OBVIOUS
  <2>4. /\ D \in CacheType /\ D.dev = v /\ D.slots = n
        /\ D.index = C.index /\ D.host = C.host /\ D.pinned = C.pinned /\ D.out = C.out /\ D.in = C.in
        /\ D.wt = C.wt /\ D.ref = C.ref /\ D.pool = C.pool /\ D.down = C.down /\ D.up = C.up /\ D.err = C.err
        /\ D.built = C.built /\ D.free = C.free /\ D.kids = C.kids
    BY <1>1, <2>2, <2>3 DEF CacheType
  <2>5. E = Mutated(D)
    BY <1>3, <2>1, <2>3 DEF Demote
  <2>6. Kept(D)
    <3>1. \A x : (Blocked(D, x) <=> Blocked(C, x)) /\ Children(D, x) = Children(C, x)
      BY <2>4 DEF Blocked, Moving, Children
    <3>2. FreeableIn(D) = FreeableIn(C)
      BY <2>4, <3>1 DEF FreeableIn
    <3>3. FreeExact(D) /\ Dormant(D) /\ Whole(D)
      BY <1>1, <2>4, <3>1, <3>2 DEF Kept, FreeExact, Dormant, Whole
    <3>4. QED BY <2>4, <3>3 DEF Kept
  <2>7. Sharp(E) /\ Twin(D, E)
    BY <2>5, <2>6, MutatedSharp
  <2>8. QED BY <2>1, <2>4, <2>7 DEF Twin
<1>4. QED BY <1>2, <1>3

\* Slots and queues do not matter for capacity.
LEMMA SameShelf ==
  ASSUME NEW C, Kept(C), ViewsCurrent(C), NEW D \in CacheType, D.index = C.index, D.dev = C.dev, D.host = C.host,
         D.pinned = C.pinned, D.out = C.out, D.in = C.in, D.ref = C.ref,
         D.built = C.built, D.free = C.free, D.kids = C.kids, D.view = C.view
  PROVE  Sharp(D)
<1>1. \A x : (Blocked(D, x) <=> Blocked(C, x)) /\ Children(D, x) = Children(C, x)
  BY DEF Blocked, Moving, Children
<1>2. FreeableIn(D) = FreeableIn(C) /\ EvictableIn(D) = EvictableIn(C)
  BY <1>1 DEF FreeableIn, EvictableIn
<1>3. \A pending : ReclaimableIn(D, pending) = ReclaimableIn(C, pending)
  BY DEF ReclaimableIn, Moving
<1>4. \A k : Scan(D, k) = Scan(C, k)
  BY <1>2, <1>3 DEF Scan
<1>5. FreeExact(D) /\ Dormant(D) /\ Whole(D) /\ ViewsCurrent(D)
  BY <1>1, <1>2, <1>4 DEF Kept, FreeExact, Dormant, Whole, ViewsCurrent
<1>6. QED BY <1>5 DEF Sharp, Kept

\* Copies to the host start, parents first.
LEMMA SubmitD2HSharp ==
  ASSUME NEW C, Sharp(C), NEW S \in SUBSET C.index,
         \A b \in S : Parent[b] = Root \/ Parent[b] \in C.host \cup C.out \cup S, NEW E, E = SubmitD2H(C, S)
  PROVE  /\ Sharp(E) /\ E.out = C.out \cup S /\ E.pool = C.pool - Cardinality(S) /\ E.down = Append(C.down, S)
         /\ E.index = C.index /\ E.dev = C.dev /\ E.host = C.host /\ E.pinned = C.pinned /\ E.in = C.in /\ E.wt = C.wt /\ E.ref = C.ref /\ E.slots = C.slots /\ E.up = C.up /\ E.err = C.err
<1>1. /\ C \in CacheType /\ C.index \subseteq Blocks /\ C.pool \in Int /\ C.slots \in Int
      /\ C.down \in Seq(SUBSET Blocks) /\ C.up \in Seq(SUBSET Blocks) /\ Kept(C) /\ ViewsCurrent(C)
  BY CacheFields DEF Sharp, Kept
<1>3. S \subseteq Blocks /\ S \subseteq C.index
  BY <1>1
<1>4. PICK u, v : u = C.pool - Cardinality(S) /\ v = Append(C.down, S)
  OBVIOUS
<1>5. u \in Int /\ v \in Seq(SUBSET Blocks)
  <2>1. IsFiniteSet(S)
    BY <1>3, PrefixAssumption, FS_Subset
  <2>2. Cardinality(S) \in Nat
    BY <2>1, FS_CardinalityType
  <2>3. S \in SUBSET Blocks
    BY <1>3
  <2>4. QED BY <1>1, <1>4, <2>2, <2>3, AppendFacts
<1>6. PICK Z : Z = [C EXCEPT !.pool = u, !.down = v]
  OBVIOUS
<1>7. /\ Z \in CacheType /\ Z.pool = u /\ Z.down = v
      /\ Z.index = C.index /\ Z.dev = C.dev /\ Z.host = C.host /\ Z.pinned = C.pinned /\ Z.out = C.out /\ Z.in = C.in /\ Z.wt = C.wt /\ Z.ref = C.ref /\ Z.slots = C.slots /\ Z.up = C.up /\ Z.err = C.err
      /\ Z.built = C.built /\ Z.free = C.free /\ Z.kids = C.kids /\ Z.view = C.view
  BY <1>1, <1>5, <1>6 DEF CacheType
<1>8. Sharp(Z)
  BY <1>1, <1>7, SameShelf
<1>9. PICK s : s = Keep(RootFirst, S)
  OBVIOUS
<1>10. s \in Seq(Blocks) /\ Range(s) = S /\ IsInjective(s) /\ Ordered(s, Extends)
  <2>1. s \in Seq(Blocks) /\ Range(s) = Blocks \cap S /\ IsInjective(s)
    BY <1>9, Walks, KeepFacts
  <2>2. Ordered(s, Extends)
    BY <1>9, Walks, KeepOrder
  <2>3. QED BY <1>3, <2>1, <2>2
<1>11. PICK n : n = Len(s) /\ n \in Nat
  BY <1>10
<1>12. PICK at : BeginD2Hs(Z, s) = at[Len(s)] /\ at[0] = Z /\ \A i \in 1..Len(s) : at[i] = BeginD2H(at[i - 1], s[i])
  BY <1>7, <1>10, BeginD2HRun
<1> DEFINE Fine(k) == /\ Sharp(at[k]) /\ at[k].out = C.out \cup First(s, k)
                      /\ at[k].index = Z.index /\ at[k].dev = Z.dev /\ at[k].host = Z.host /\ at[k].pinned = Z.pinned /\ at[k].in = Z.in /\ at[k].wt = Z.wt /\ at[k].ref = Z.ref /\ at[k].slots = Z.slots /\ at[k].pool = Z.pool /\ at[k].down = Z.down /\ at[k].up = Z.up /\ at[k].err = Z.err
<1>13. Fine(0)
  BY <1>7, <1>8, <1>10, <1>12, FirstFacts
<1>14. ASSUME NEW k \in 1..n, Fine(k - 1) PROVE Fine(k)
  <2>1. PICK D, b, F : D = at[k - 1] /\ b = s[k] /\ F = at[k]
    OBVIOUS
  <2>2. b \in S /\ First(s, k) = First(s, k - 1) \cup {b} /\ F = BeginD2H(D, b)
    BY <1>10, <1>11, <1>12, <2>1, FirstFacts
  <2>3. /\ Sharp(D) /\ D.out = C.out \cup First(s, k - 1)
        /\ D.index = Z.index /\ D.dev = Z.dev /\ D.host = Z.host /\ D.pinned = Z.pinned /\ D.in = Z.in /\ D.wt = Z.wt /\ D.ref = Z.ref /\ D.slots = Z.slots /\ D.pool = Z.pool /\ D.down = Z.down /\ D.up = Z.up /\ D.err = Z.err
    BY <1>14, <2>1
  <2>4. b \in D.index
    BY <1>3, <1>7, <2>2, <2>3
  <2>5. Parent[b] = Root \/ Parent[b] \in D.host \cup D.out
    <3>1. SUFFICES ASSUME Parent[b] # Root, Parent[b] \notin C.host \cup C.out PROVE Parent[b] \in First(s, k - 1)
      BY <1>7, <2>3
    <3>2. Parent[b] \in S
      BY <2>2, <3>1
    <3>3. PICK j \in 1..n : s[j] = Parent[b]
      BY <1>10, <1>11, <3>2 DEF Range
    <3>4. <<s[j], s[k]>> \in Extends
      BY <1>3, <2>1, <2>2, <3>2, <3>3 DEF Extends
    <3>5. j < k
      BY <1>10, <1>11, <3>4 DEF Ordered
    <3>6. j \in 1..(k - 1)
      BY <1>11, <3>5
    <3>7. QED BY <3>3, <3>6 DEF First
  <2>6. /\ Sharp(F) /\ F.out = D.out \cup {b}
        /\ F.index = D.index /\ F.dev = D.dev /\ F.host = D.host /\ F.pinned = D.pinned /\ F.in = D.in /\ F.wt = D.wt /\ F.ref = D.ref /\ F.slots = D.slots /\ F.pool = D.pool /\ F.down = D.down /\ F.up = D.up /\ F.err = D.err
    BY <2>2, <2>3, <2>4, <2>5, BeginD2HSharp
  <2>7. QED BY <2>1, <2>2, <2>3, <2>6
<1>15. Fine(n)
  <2> HIDE DEF Fine
  <2>a. PICK G : G = {k \in 0..n : Fine(k)}
    OBVIOUS
  <2>1. 0 \in G /\ \A k \in 1..n : k - 1 \in G => k \in G
    <3>1. \A k \in 1..n : k \in 0..n
      BY <1>11
    <3>2. QED BY <1>11, <1>13, <1>14, <2>a, <3>1
  <2>2. n \in G
    <3>1. \A k \in 0..n : k \in G
      BY <1>11, <2>1, StepInduction
    <3>2. QED BY <1>11, <3>1
  <2>3. QED BY <2>a, <2>2
<1>16. First(s, n) = S
  BY <1>10, <1>11, FirstFacts
<1>17. E = at[n]
  BY <1>4, <1>6, <1>9, <1>11, <1>12 DEF SubmitD2H, BeginD2Hs
<1>18. QED BY <1>4, <1>7, <1>15, <1>16, <1>17

\* The oldest copies to the host end, parents first.
LEMMA FinishD2HSharp ==
  ASSUME NEW C, Sharp(C), C.down # <<>>, Head(C.down) \subseteq C.index,
         \A b \in Head(C.down) : Parent[b] = Root \/ Parent[b] \in C.host \cup Head(C.down), NEW E, E = FinishD2H(C)
  PROVE  /\ Sharp(E) /\ E.host = C.host \cup Head(C.down) /\ E.out = C.out \ Head(C.down) /\ E.down = Tail(C.down)
         /\ E.index = C.index /\ E.dev = C.dev /\ E.pinned = C.pinned /\ E.in = C.in /\ E.wt = C.wt /\ E.ref = C.ref /\ E.slots = C.slots /\ E.pool = C.pool /\ E.up = C.up /\ E.err = C.err
<1>1. /\ C \in CacheType /\ C.index \subseteq Blocks /\ C.pool \in Int /\ C.slots \in Int
      /\ C.down \in Seq(SUBSET Blocks) /\ C.up \in Seq(SUBSET Blocks) /\ Kept(C) /\ ViewsCurrent(C)
  BY CacheFields DEF Sharp, Kept
<1>2. PICK S : S = Head(C.down)
  OBVIOUS
<1>3. S \subseteq Blocks /\ S \subseteq C.index
  BY <1>1, <1>2
<1>4. PICK u : u = Tail(C.down)
  OBVIOUS
<1>5. u \in Seq(SUBSET Blocks)
  BY <1>1, <1>4, HeadTailFacts
<1>6. PICK Z : Z = [C EXCEPT !.down = u]
  OBVIOUS
<1>7. /\ Z \in CacheType /\ Z.down = u
      /\ Z.index = C.index /\ Z.dev = C.dev /\ Z.host = C.host /\ Z.pinned = C.pinned /\ Z.out = C.out /\ Z.in = C.in /\ Z.wt = C.wt /\ Z.ref = C.ref /\ Z.slots = C.slots /\ Z.pool = C.pool /\ Z.up = C.up /\ Z.err = C.err
      /\ Z.built = C.built /\ Z.free = C.free /\ Z.kids = C.kids /\ Z.view = C.view
  BY <1>1, <1>5, <1>6 DEF CacheType
<1>8. Sharp(Z)
  BY <1>1, <1>7, SameShelf
<1>9. PICK s : s = Keep(RootFirst, S)
  OBVIOUS
<1>10. s \in Seq(Blocks) /\ Range(s) = S /\ IsInjective(s) /\ Ordered(s, Extends)
  <2>1. s \in Seq(Blocks) /\ Range(s) = Blocks \cap S /\ IsInjective(s)
    BY <1>9, Walks, KeepFacts
  <2>2. Ordered(s, Extends)
    BY <1>9, Walks, KeepOrder
  <2>3. QED BY <1>3, <2>1, <2>2
<1>11. PICK n : n = Len(s) /\ n \in Nat
  BY <1>10
<1>12. PICK at : EndD2Hs(Z, s) = at[Len(s)] /\ at[0] = Z /\ \A i \in 1..Len(s) : at[i] = EndD2H(at[i - 1], s[i])
  BY <1>7, <1>10, EndD2HRun
<1> DEFINE Fine(k) == /\ Sharp(at[k]) /\ at[k].host = C.host \cup First(s, k) /\ at[k].out = C.out \ First(s, k)
                      /\ at[k].index = Z.index /\ at[k].dev = Z.dev /\ at[k].pinned = Z.pinned /\ at[k].in = Z.in /\ at[k].wt = Z.wt /\ at[k].ref = Z.ref /\ at[k].slots = Z.slots /\ at[k].pool = Z.pool /\ at[k].down = Z.down /\ at[k].up = Z.up /\ at[k].err = Z.err
<1>13. Fine(0)
  BY <1>7, <1>8, <1>10, <1>12, FirstFacts
<1>14. ASSUME NEW k \in 1..n, Fine(k - 1) PROVE Fine(k)
  <2>1. PICK D, b, F : D = at[k - 1] /\ b = s[k] /\ F = at[k]
    OBVIOUS
  <2>2. b \in S /\ First(s, k) = First(s, k - 1) \cup {b} /\ F = EndD2H(D, b)
    BY <1>10, <1>11, <1>12, <2>1, FirstFacts
  <2>3. /\ Sharp(D) /\ D.host = C.host \cup First(s, k - 1) /\ D.out = C.out \ First(s, k - 1)
        /\ D.index = Z.index /\ D.dev = Z.dev /\ D.pinned = Z.pinned /\ D.in = Z.in /\ D.wt = Z.wt /\ D.ref = Z.ref /\ D.slots = Z.slots /\ D.pool = Z.pool /\ D.down = Z.down /\ D.up = Z.up /\ D.err = Z.err
    BY <1>14, <2>1
  <2>4. b \in D.index
    BY <1>3, <1>7, <2>2, <2>3
  <2>5. Parent[b] = Root \/ Parent[b] \in D.host
    <3>1. SUFFICES ASSUME Parent[b] # Root, Parent[b] \notin C.host PROVE Parent[b] \in First(s, k - 1)
      BY <1>7, <2>3
    <3>2. Parent[b] \in S
      BY <1>2, <2>2, <3>1
    <3>3. PICK j \in 1..n : s[j] = Parent[b]
      BY <1>10, <1>11, <3>2 DEF Range
    <3>4. <<s[j], s[k]>> \in Extends
      BY <1>3, <2>1, <2>2, <3>2, <3>3 DEF Extends
    <3>5. j < k
      BY <1>10, <1>11, <3>4 DEF Ordered
    <3>6. j \in 1..(k - 1)
      BY <1>11, <3>5
    <3>7. QED BY <3>3, <3>6 DEF First
  <2>6. /\ Sharp(F) /\ F.host = D.host \cup {b} /\ F.out = D.out \ {b}
        /\ F.index = D.index /\ F.dev = D.dev /\ F.pinned = D.pinned /\ F.in = D.in /\ F.wt = D.wt /\ F.ref = D.ref /\ F.slots = D.slots /\ F.pool = D.pool /\ F.down = D.down /\ F.up = D.up /\ F.err = D.err
    BY <2>2, <2>3, <2>4, <2>5, EndD2HSharp
  <2>7. QED BY <2>1, <2>2, <2>3, <2>6
<1>15. Fine(n)
  <2> HIDE DEF Fine
  <2>a. PICK G : G = {k \in 0..n : Fine(k)}
    OBVIOUS
  <2>1. 0 \in G /\ \A k \in 1..n : k - 1 \in G => k \in G
    <3>1. \A k \in 1..n : k \in 0..n
      BY <1>11
    <3>2. QED BY <1>11, <1>13, <1>14, <2>a, <3>1
  <2>2. n \in G
    <3>1. \A k \in 0..n : k \in G
      BY <1>11, <2>1, StepInduction
    <3>2. QED BY <1>11, <3>1
  <2>3. QED BY <2>a, <2>2
<1>16. First(s, n) = S
  BY <1>10, <1>11, FirstFacts
<1>17. E = at[n]
  BY <1>2, <1>4, <1>6, <1>9, <1>11, <1>12 DEF FinishD2H, EndD2Hs
<1>18. QED BY <1>2, <1>4, <1>7, <1>15, <1>16, <1>17

\* Copies to the device start, parents first.
LEMMA SubmitH2DSharp ==
  ASSUME NEW C, Sharp(C), NEW S \in SUBSET C.index,
         \A b \in S : Parent[b] = Root \/ Parent[b] \in C.dev \cup S, NEW E, E = SubmitH2D(C, S)
  PROVE  /\ Sharp(E) /\ E.dev = C.dev \cup S /\ E.in = C.in \cup S /\ E.slots = C.slots - Cardinality(S) /\ E.up = Append(C.up, S)
         /\ E.index = C.index /\ E.host = C.host /\ E.pinned = C.pinned /\ E.out = C.out /\ E.wt = C.wt /\ E.ref = C.ref /\ E.pool = C.pool /\ E.down = C.down /\ E.err = C.err
<1>1. /\ C \in CacheType /\ C.index \subseteq Blocks /\ C.pool \in Int /\ C.slots \in Int
      /\ C.down \in Seq(SUBSET Blocks) /\ C.up \in Seq(SUBSET Blocks) /\ Kept(C) /\ ViewsCurrent(C)
  BY CacheFields DEF Sharp, Kept
<1>3. S \subseteq Blocks /\ S \subseteq C.index
  BY <1>1
<1>4. PICK u, v : u = C.slots - Cardinality(S) /\ v = Append(C.up, S)
  OBVIOUS
<1>5. u \in Int /\ v \in Seq(SUBSET Blocks)
  <2>1. IsFiniteSet(S)
    BY <1>3, PrefixAssumption, FS_Subset
  <2>2. Cardinality(S) \in Nat
    BY <2>1, FS_CardinalityType
  <2>3. S \in SUBSET Blocks
    BY <1>3
  <2>4. QED BY <1>1, <1>4, <2>2, <2>3, AppendFacts
<1>6. PICK Z : Z = [C EXCEPT !.slots = u, !.up = v]
  OBVIOUS
<1>7. /\ Z \in CacheType /\ Z.slots = u /\ Z.up = v
      /\ Z.index = C.index /\ Z.dev = C.dev /\ Z.host = C.host /\ Z.pinned = C.pinned /\ Z.out = C.out /\ Z.in = C.in /\ Z.wt = C.wt /\ Z.ref = C.ref /\ Z.pool = C.pool /\ Z.down = C.down /\ Z.err = C.err
      /\ Z.built = C.built /\ Z.free = C.free /\ Z.kids = C.kids /\ Z.view = C.view
  BY <1>1, <1>5, <1>6 DEF CacheType
<1>8. Sharp(Z)
  BY <1>1, <1>7, SameShelf
<1>9. PICK s : s = Keep(RootFirst, S)
  OBVIOUS
<1>10. s \in Seq(Blocks) /\ Range(s) = S /\ IsInjective(s) /\ Ordered(s, Extends)
  <2>1. s \in Seq(Blocks) /\ Range(s) = Blocks \cap S /\ IsInjective(s)
    BY <1>9, Walks, KeepFacts
  <2>2. Ordered(s, Extends)
    BY <1>9, Walks, KeepOrder
  <2>3. QED BY <1>3, <2>1, <2>2
<1>11. PICK n : n = Len(s) /\ n \in Nat
  BY <1>10
<1>12. PICK at : BeginH2Ds(Z, s) = at[Len(s)] /\ at[0] = Z /\ \A i \in 1..Len(s) : at[i] = BeginH2D(at[i - 1], s[i])
  BY <1>7, <1>10, BeginH2DRun
<1> DEFINE Fine(k) == /\ Sharp(at[k]) /\ at[k].dev = C.dev \cup First(s, k) /\ at[k].in = C.in \cup First(s, k)
                      /\ at[k].index = Z.index /\ at[k].host = Z.host /\ at[k].pinned = Z.pinned /\ at[k].out = Z.out /\ at[k].wt = Z.wt /\ at[k].ref = Z.ref /\ at[k].slots = Z.slots /\ at[k].pool = Z.pool /\ at[k].down = Z.down /\ at[k].up = Z.up /\ at[k].err = Z.err
<1>13. Fine(0)
  BY <1>7, <1>8, <1>10, <1>12, FirstFacts
<1>14. ASSUME NEW k \in 1..n, Fine(k - 1) PROVE Fine(k)
  <2>1. PICK D, b, F : D = at[k - 1] /\ b = s[k] /\ F = at[k]
    OBVIOUS
  <2>2. b \in S /\ First(s, k) = First(s, k - 1) \cup {b} /\ F = BeginH2D(D, b)
    BY <1>10, <1>11, <1>12, <2>1, FirstFacts
  <2>3. /\ Sharp(D) /\ D.dev = C.dev \cup First(s, k - 1) /\ D.in = C.in \cup First(s, k - 1)
        /\ D.index = Z.index /\ D.host = Z.host /\ D.pinned = Z.pinned /\ D.out = Z.out /\ D.wt = Z.wt /\ D.ref = Z.ref /\ D.slots = Z.slots /\ D.pool = Z.pool /\ D.down = Z.down /\ D.up = Z.up /\ D.err = Z.err
    BY <1>14, <2>1
  <2>4. b \in D.index
    BY <1>3, <1>7, <2>2, <2>3
  <2>5. Parent[b] = Root \/ Parent[b] \in D.dev
    <3>1. SUFFICES ASSUME Parent[b] # Root, Parent[b] \notin C.dev PROVE Parent[b] \in First(s, k - 1)
      BY <1>7, <2>3
    <3>2. Parent[b] \in S
      BY <2>2, <3>1
    <3>3. PICK j \in 1..n : s[j] = Parent[b]
      BY <1>10, <1>11, <3>2 DEF Range
    <3>4. <<s[j], s[k]>> \in Extends
      BY <1>3, <2>1, <2>2, <3>2, <3>3 DEF Extends
    <3>5. j < k
      BY <1>10, <1>11, <3>4 DEF Ordered
    <3>6. j \in 1..(k - 1)
      BY <1>11, <3>5
    <3>7. QED BY <3>3, <3>6 DEF First
  <2>6. /\ Sharp(F) /\ F.dev = D.dev \cup {b} /\ F.in = D.in \cup {b}
        /\ F.index = D.index /\ F.host = D.host /\ F.pinned = D.pinned /\ F.out = D.out /\ F.wt = D.wt /\ F.ref = D.ref /\ F.slots = D.slots /\ F.pool = D.pool /\ F.down = D.down /\ F.up = D.up /\ F.err = D.err
    BY <2>2, <2>3, <2>4, <2>5, BeginH2DSharp
  <2>7. QED BY <2>1, <2>2, <2>3, <2>6
<1>15. Fine(n)
  <2> HIDE DEF Fine
  <2>a. PICK G : G = {k \in 0..n : Fine(k)}
    OBVIOUS
  <2>1. 0 \in G /\ \A k \in 1..n : k - 1 \in G => k \in G
    <3>1. \A k \in 1..n : k \in 0..n
      BY <1>11
    <3>2. QED BY <1>11, <1>13, <1>14, <2>a, <3>1
  <2>2. n \in G
    <3>1. \A k \in 0..n : k \in G
      BY <1>11, <2>1, StepInduction
    <3>2. QED BY <1>11, <3>1
  <2>3. QED BY <2>a, <2>2
<1>16. First(s, n) = S
  BY <1>10, <1>11, FirstFacts
<1>17. E = at[n]
  BY <1>4, <1>6, <1>9, <1>11, <1>12 DEF SubmitH2D, BeginH2Ds
<1>18. QED BY <1>4, <1>7, <1>15, <1>16, <1>17

\* The oldest copies to the device end.
LEMMA FinishH2DSharp ==
  ASSUME NEW C, Sharp(C), C.up # <<>>, Head(C.up) \subseteq C.index, NEW E, E = FinishH2D(C)
  PROVE  /\ Sharp(E) /\ E.in = C.in \ Head(C.up) /\ E.up = Tail(C.up)
         /\ E.index = C.index /\ E.dev = C.dev /\ E.host = C.host /\ E.pinned = C.pinned /\ E.out = C.out /\ E.wt = C.wt /\ E.ref = C.ref /\ E.slots = C.slots /\ E.pool = C.pool /\ E.down = C.down /\ E.err = C.err
<1>1. /\ C \in CacheType /\ C.index \subseteq Blocks /\ C.pool \in Int /\ C.slots \in Int
      /\ C.down \in Seq(SUBSET Blocks) /\ C.up \in Seq(SUBSET Blocks) /\ Kept(C) /\ ViewsCurrent(C)
  BY CacheFields DEF Sharp, Kept
<1>2. PICK S : S = Head(C.up)
  OBVIOUS
<1>3. S \subseteq Blocks /\ S \subseteq C.index
  BY <1>1, <1>2
<1>4. PICK u : u = Tail(C.up)
  OBVIOUS
<1>5. u \in Seq(SUBSET Blocks)
  BY <1>1, <1>4, HeadTailFacts
<1>6. PICK Z : Z = [C EXCEPT !.up = u]
  OBVIOUS
<1>7. /\ Z \in CacheType /\ Z.up = u
      /\ Z.index = C.index /\ Z.dev = C.dev /\ Z.host = C.host /\ Z.pinned = C.pinned /\ Z.out = C.out /\ Z.in = C.in /\ Z.wt = C.wt /\ Z.ref = C.ref /\ Z.slots = C.slots /\ Z.pool = C.pool /\ Z.down = C.down /\ Z.err = C.err
      /\ Z.built = C.built /\ Z.free = C.free /\ Z.kids = C.kids /\ Z.view = C.view
  BY <1>1, <1>5, <1>6 DEF CacheType
<1>8. Sharp(Z)
  BY <1>1, <1>7, SameShelf
<1>9. PICK s : s = Keep(RootFirst, S)
  OBVIOUS
<1>10. s \in Seq(Blocks) /\ Range(s) = S /\ IsInjective(s) /\ Ordered(s, Extends)
  <2>1. s \in Seq(Blocks) /\ Range(s) = Blocks \cap S /\ IsInjective(s)
    BY <1>9, Walks, KeepFacts
  <2>2. Ordered(s, Extends)
    BY <1>9, Walks, KeepOrder
  <2>3. QED BY <1>3, <2>1, <2>2
<1>11. PICK n : n = Len(s) /\ n \in Nat
  BY <1>10
<1>12. PICK at : EndH2Ds(Z, s) = at[Len(s)] /\ at[0] = Z /\ \A i \in 1..Len(s) : at[i] = EndH2D(at[i - 1], s[i])
  BY <1>7, <1>10, EndH2DRun
<1> DEFINE Fine(k) == /\ Sharp(at[k]) /\ at[k].in = C.in \ First(s, k)
                      /\ at[k].index = Z.index /\ at[k].dev = Z.dev /\ at[k].host = Z.host /\ at[k].pinned = Z.pinned /\ at[k].out = Z.out /\ at[k].wt = Z.wt /\ at[k].ref = Z.ref /\ at[k].slots = Z.slots /\ at[k].pool = Z.pool /\ at[k].down = Z.down /\ at[k].up = Z.up /\ at[k].err = Z.err
<1>13. Fine(0)
  BY <1>7, <1>8, <1>10, <1>12, FirstFacts
<1>14. ASSUME NEW k \in 1..n, Fine(k - 1) PROVE Fine(k)
  <2>1. PICK D, b, F : D = at[k - 1] /\ b = s[k] /\ F = at[k]
    OBVIOUS
  <2>2. b \in S /\ First(s, k) = First(s, k - 1) \cup {b} /\ F = EndH2D(D, b)
    BY <1>10, <1>11, <1>12, <2>1, FirstFacts
  <2>3. /\ Sharp(D) /\ D.in = C.in \ First(s, k - 1)
        /\ D.index = Z.index /\ D.dev = Z.dev /\ D.host = Z.host /\ D.pinned = Z.pinned /\ D.out = Z.out /\ D.wt = Z.wt /\ D.ref = Z.ref /\ D.slots = Z.slots /\ D.pool = Z.pool /\ D.down = Z.down /\ D.up = Z.up /\ D.err = Z.err
    BY <1>14, <2>1
  <2>4. b \in D.index
    BY <1>3, <1>7, <2>2, <2>3
  <2>6. /\ Sharp(F) /\ F.in = D.in \ {b}
        /\ F.index = D.index /\ F.dev = D.dev /\ F.host = D.host /\ F.pinned = D.pinned /\ F.out = D.out /\ F.wt = D.wt /\ F.ref = D.ref /\ F.slots = D.slots /\ F.pool = D.pool /\ F.down = D.down /\ F.up = D.up /\ F.err = D.err
    BY <2>2, <2>3, <2>4, EndH2DSharp
  <2>7. QED BY <2>1, <2>2, <2>3, <2>6
<1>15. Fine(n)
  <2> HIDE DEF Fine
  <2>a. PICK G : G = {k \in 0..n : Fine(k)}
    OBVIOUS
  <2>1. 0 \in G /\ \A k \in 1..n : k - 1 \in G => k \in G
    <3>1. \A k \in 1..n : k \in 0..n
      BY <1>11
    <3>2. QED BY <1>11, <1>13, <1>14, <2>a, <3>1
  <2>2. n \in G
    <3>1. \A k \in 0..n : k \in G
      BY <1>11, <2>1, StepInduction
    <3>2. QED BY <1>11, <3>1
  <2>3. QED BY <2>a, <2>2
<1>16. First(s, n) = S
  BY <1>10, <1>11, FirstFacts
<1>17. E = at[n]
  BY <1>2, <1>4, <1>6, <1>9, <1>11, <1>12 DEF FinishH2D, EndH2Ds
<1>18. QED BY <1>2, <1>4, <1>7, <1>15, <1>16, <1>17
-----------------------------------------------------------------------------
(* Residency and copies *)

\* Payloads: paths are whole on the device and on the host, and a block that
\* is being copied has a payload where it is copied from.
Resident(C) ==
  /\ Closed(C.dev) /\ Closed(C.host)
  /\ C.index \subseteq C.dev \cup C.host
  /\ C.err # "room" => C.dev \cup C.host \subseteq C.index
  /\ C.out \subseteq C.dev \cap C.index /\ C.out \cap C.host = {}
  /\ C.in \subseteq C.dev \cap C.host \cap C.index

Disjoint(q) == \A i, j \in DOMAIN q : i # j => q[i] \cap q[j] = {}

\* Copies: every block that is being copied is in one batch of its queue, and
\* a batch to the host comes after those of the blocks it extends.
Queued(C) ==
  /\ C.out = UNION Range(C.down) /\ Disjoint(C.down)
  /\ C.in = UNION Range(C.up) /\ Disjoint(C.up)
  /\ \A k \in DOMAIN C.down : \A x \in C.down[k] :
       Parent[x] = Root \/ Parent[x] \in C.host \cup UNION First(C.down, k)

Sound(C) == Sharp(C) /\ Resident(C) /\ Queued(C)

\* The oldest batch leaves.
LEMMA BatchLeaves ==
  ASSUME NEW A, NEW q \in Seq(SUBSET A), q # <<>>, Disjoint(q)
  PROVE  UNION Range(Tail(q)) = (UNION Range(q)) \ Head(q) /\ Disjoint(Tail(q)) /\ Head(q) \subseteq UNION Range(q)
<1>1. PICK t : t = Tail(q)
  OBVIOUS
<1>2. /\ t \in Seq(SUBSET A) /\ 1 \in DOMAIN q /\ Head(q) = q[1]
      /\ \A i \in DOMAIN t : i \in Nat \ {0} /\ i + 1 \in DOMAIN q /\ t[i] = q[i + 1]
  BY <1>1, TailPositions
<1>3. Disjoint(t)
  BY <1>2, SMTT(30) DEF Disjoint
<1>4. \A i \in DOMAIN t : t[i] \cap Head(q) = {}
  BY <1>2, SMTT(30) DEF Disjoint
<1>5. Range(q) = Range(t) \cup {Head(q)}
  BY <1>1, HeadTailFacts
<1>6. \A X \in Range(t) : X \cap Head(q) = {}
  BY <1>4 DEF Range
<1>7. QED BY <1>1, <1>3, <1>5, <1>6

\* A batch joins.
LEMMA BatchJoins ==
  ASSUME NEW A, NEW q \in Seq(SUBSET A), NEW S \in SUBSET A, Disjoint(q), S \cap UNION Range(q) = {}
  PROVE  UNION Range(Append(q, S)) = (UNION Range(q)) \cup S /\ Disjoint(Append(q, S))
<1>1. PICK t : t = Append(q, S)
  OBVIOUS
<1>2. /\ DOMAIN t = DOMAIN q \cup {Len(q) + 1} /\ Len(q) + 1 \notin DOMAIN q
      /\ \A i \in DOMAIN q : t[i] = q[i]
      /\ t[Len(q) + 1] = S
  BY <1>1, AppendPositions
<1>3. \A i \in DOMAIN q : q[i] \cap S = {}
  BY DEF Range
<1>4. Disjoint(t)
  BY <1>2, <1>3 DEF Disjoint
<1>5. Range(t) = Range(q) \cup {S}
  BY <1>1, AppendFacts
<1>6. QED BY <1>1, <1>4, <1>5

\* What polling may change.
Polled(C, P) ==
  /\ P.index = C.index /\ P.dev = C.dev /\ P.pinned = C.pinned /\ P.wt = C.wt /\ P.ref = C.ref
  /\ P.slots = C.slots /\ P.pool = C.pool /\ P.err = C.err
  /\ C.host \subseteq P.host /\ P.out \subseteq C.out /\ P.in \subseteq C.in
  /\ P.host \cup P.out = C.host \cup C.out

\* poll_d2h: a finished batch is on the host.
LEMMA FinishD2HSound ==
  ASSUME NEW C, Sound(C), C.down # <<>>, NEW E, E = FinishD2H(C)
  PROVE  Sound(E) /\ Polled(C, E) /\ E.down = Tail(C.down) /\ E.up = C.up
<1>1. Sharp(C) /\ Resident(C) /\ Queued(C) /\ C.down \in Seq(SUBSET Blocks) /\ C.index \subseteq Blocks
  BY CacheFields DEF Sound, Sharp, Kept
<1>2. PICK S, q : S = Head(C.down) /\ q = Tail(C.down)
  OBVIOUS
<1>3. /\ q \in Seq(SUBSET Blocks) /\ 1 \in DOMAIN C.down /\ S = C.down[1]
      /\ \A i \in DOMAIN q : i \in Nat \ {0} /\ i + 1 \in DOMAIN C.down /\ q[i] = C.down[i + 1]
  BY <1>1, <1>2, TailPositions
<1>4. UNION Range(q) = C.out \ S /\ Disjoint(q) /\ S \subseteq C.out
  BY <1>1, <1>2, BatchLeaves DEF Queued
<1>5. S \subseteq C.index /\ S \subseteq C.dev
  BY <1>1, <1>4 DEF Resident
<1>6. \A b \in S : Parent[b] = Root \/ Parent[b] \in C.host \cup S
  <2>1. First(C.down, 1) = {S}
    BY <1>3 DEF First
  <2>2. QED BY <1>1, <1>3, <2>1 DEF Queued
<1>7. /\ Sharp(E) /\ E.host = C.host \cup S /\ E.out = C.out \ S /\ E.down = q
      /\ E.index = C.index /\ E.dev = C.dev /\ E.pinned = C.pinned /\ E.in = C.in /\ E.wt = C.wt /\ E.ref = C.ref
      /\ E.slots = C.slots /\ E.pool = C.pool /\ E.up = C.up /\ E.err = C.err
  BY <1>1, <1>2, <1>5, <1>6, FinishD2HSharp
<1>8. Resident(E)
  <2>1. Closed(E.dev) /\ Closed(E.host)
    BY <1>1, <1>6, <1>7 DEF Resident, Closed
  <2>2. /\ E.index \subseteq E.dev \cup E.host
        /\ E.err # "room" => E.dev \cup E.host \subseteq E.index
        /\ E.out \subseteq E.dev \cap E.index /\ E.out \cap E.host = {}
        /\ E.in \subseteq E.dev \cap E.host \cap E.index
    BY <1>1, <1>5, <1>7 DEF Resident
  <2>3. QED BY <2>1, <2>2 DEF Resident
<1>9. Queued(E)
  <2>1. ASSUME NEW k \in DOMAIN q, NEW x \in q[k], Parent[x] # Root PROVE Parent[x] \in E.host \cup UNION First(q, k)
    <3>1. k + 1 \in DOMAIN C.down /\ x \in C.down[k + 1] /\ k \in Nat \ {0}
      BY <1>3, <2>1
    <3>2. Parent[x] \in C.host \cup UNION First(C.down, k + 1)
      BY <1>1, <2>1, <3>1 DEF Queued
    <3>3. CASE Parent[x] \in C.host
      BY <1>7, <3>3
    <3>4. CASE Parent[x] \in UNION First(C.down, k + 1)
      <4>1. PICK j \in 1..(k + 1) : Parent[x] \in C.down[j]
        BY <3>4 DEF First
      <4>2. CASE j = 1
        BY <1>3, <1>7, <4>1, <4>2
      <4>3. CASE j # 1
        <5>1. j - 1 \in 1..k /\ (j - 1) + 1 = j
          BY <3>1, <4>3
        <5>2. j - 1 \in DOMAIN q
          BY <1>3, <3>1, <5>1
        <5>3. q[j - 1] = C.down[j]
          BY <1>3, <5>1, <5>2
        <5>4. QED BY <4>1, <5>1, <5>3 DEF First
      <4>4. QED BY <4>2, <4>3
    <3>5. QED BY <3>2, <3>3, <3>4
  <2>2. QED BY <1>1, <1>4, <1>7, <2>1 DEF Queued
<1>10. Polled(C, E)
  BY <1>4, <1>7 DEF Polled
<1>11. QED BY <1>2, <1>7, <1>8, <1>9, <1>10 DEF Sound

\* poll_h2d: a finished batch is on the device.
LEMMA FinishH2DSound ==
  ASSUME NEW C, Sound(C), C.up # <<>>, NEW E, E = FinishH2D(C)
  PROVE  Sound(E) /\ Polled(C, E) /\ E.up = Tail(C.up) /\ E.down = C.down
<1>1. Sharp(C) /\ Resident(C) /\ Queued(C) /\ C.up \in Seq(SUBSET Blocks) /\ C.index \subseteq Blocks
  BY CacheFields DEF Sound, Sharp, Kept
<1>2. PICK S, q : S = Head(C.up) /\ q = Tail(C.up)
  OBVIOUS
<1>4. UNION Range(q) = C.in \ S /\ Disjoint(q) /\ S \subseteq C.in
  BY <1>1, <1>2, BatchLeaves DEF Queued
<1>5. S \subseteq C.index
  BY <1>1, <1>4 DEF Resident
<1>7. /\ Sharp(E) /\ E.in = C.in \ S /\ E.up = q
      /\ E.index = C.index /\ E.dev = C.dev /\ E.host = C.host /\ E.pinned = C.pinned /\ E.out = C.out
      /\ E.wt = C.wt /\ E.ref = C.ref
      /\ E.slots = C.slots /\ E.pool = C.pool /\ E.down = C.down /\ E.err = C.err
  BY <1>1, <1>2, <1>5, FinishH2DSharp
<1>8. Resident(E)
  BY <1>1, <1>7 DEF Resident
<1>9. Queued(E)
  BY <1>1, <1>4, <1>7 DEF Queued
<1>10. Polled(C, E)
  BY <1>4, <1>7 DEF Polled
<1>11. QED BY <1>2, <1>7, <1>8, <1>9, <1>10 DEF Sound

DownDone(C, i) == Along(LAMBDA X, k : FinishD2H(X), C, [k \in 1..i |-> k])

\* The oldest copies to the host are done.
LEMMA DownDoneSound ==
  ASSUME NEW C, Sound(C), NEW i \in 0..Len(C.down), NEW E, E = DownDone(C, i)
  PROVE  Sound(E) /\ Polled(C, E) /\ E.up = C.up
<1>1. C \in CacheType /\ C.down \in Seq(SUBSET Blocks) /\ Len(C.down) \in Nat /\ i \in Nat /\ i <= Len(C.down)
  BY CacheFields DEF Sound, Sharp, Kept
<1>2. PICK Z, h : Z = {D \in CacheType : Sound(D)} /\ h = [p \in (1..i) \X Z |-> IF p[2].down # <<>> THEN FinishD2H(p[2]) ELSE p[2]]
  OBVIOUS
<1>3. \A k \in 1..i : \A y \in Z : h[<<k, y>>] = IF y.down # <<>> THEN FinishD2H(y) ELSE y
  BY <1>2
<1>4. \A k \in 1..i : \A y \in Z : h[<<k, y>>] \in Z
  <2>1. \A D : Sound(D) => D \in CacheType
    BY DEF Sound, Sharp, Kept
  <2>2. \A y \in Z : y.down # <<>> => FinishD2H(y) \in Z
    BY <1>2, <2>1, FinishD2HSound
  <2>3. QED BY <1>3, <2>2
<1>5. PICK f : RunsTo(f, i, C, h) /\ \A k \in 0..i : f[k] \in Z
  <2>1. C \in Z
    BY <1>1, <1>2
  <2>2. QED BY <1>1, <1>4, <2>1, RunExists
<1>6. f = [k \in 0..i |-> IF k = 0 THEN C ELSE h[<<k, f[k - 1]>>]]
  BY <1>5 DEF RunsTo
<1>7. f[0] = C /\ \A k \in 1..i : k - 1 \in 0..i /\ f[k] = h[<<k, f[k - 1]>>]
  BY <1>1, <1>6
<1> DEFINE Fine(g, k) == /\ Sound(g[k]) /\ Polled(C, g[k]) /\ g[k].up = C.up
                         /\ Len(g[k].down) = Len(C.down) - k
<1>8. ASSUME NEW g, NEW k \in 1..i, Fine(g, k - 1) PROVE g[k - 1].down # <<>> /\ (g[k] = FinishD2H(g[k - 1]) => Fine(g, k))
  <2>1. PICK D : D = g[k - 1]
    OBVIOUS
  <2>2. Sound(D) /\ Polled(C, D) /\ D.up = C.up /\ Len(D.down) = Len(C.down) - (k - 1) /\ D.down \in Seq(SUBSET Blocks)
    BY <1>8, <2>1, CacheFields DEF Sound, Sharp, Kept
  <2>3. Len(D.down) > 0
    BY <1>1, <2>2
  <2>4. D.down # <<>>
    BY <2>3
  <2>5. ASSUME g[k] = FinishD2H(D) PROVE Fine(g, k)
    <3>1. Sound(g[k]) /\ Polled(D, g[k]) /\ g[k].down = Tail(D.down) /\ g[k].up = D.up
      BY <2>2, <2>4, <2>5, FinishD2HSound
    <3>2. Len(Tail(D.down)) = Len(D.down) - 1
      BY <2>2, <2>4, HeadTailFacts
    <3>3. Len(g[k].down) = Len(C.down) - k
      BY <1>1, <2>2, <3>1, <3>2
    <3>4. Polled(C, g[k])
      BY <2>2, <3>1 DEF Polled
    <3>5. QED BY <2>2, <3>1, <3>3, <3>4
  <2>6. QED BY <2>1, <2>4, <2>5
<1>9. ASSUME NEW g, g[0] = C PROVE Fine(g, 0)
  BY <1>1, <1>9 DEF Polled
<1> HIDE DEF Fine
<1>10. \A k \in 0..i : Fine(f, k)
  <2>1. PICK G : G = {k \in 0..i : Fine(f, k)}
    OBVIOUS
  <2>2. 0 \in G
    BY <1>1, <1>7, <1>9, <2>1
  <2>3. ASSUME NEW k \in 1..i, k - 1 \in G PROVE k \in G
    <3>1. Fine(f, k - 1) /\ k - 1 \in 0..i /\ k \in 0..i
      BY <1>1, <2>1, <2>3
    <3>2. f[k - 1].down # <<>>
      BY <1>8, <3>1
    <3>3. f[k] = FinishD2H(f[k - 1])
      BY <1>3, <1>5, <1>7, <3>1, <3>2
    <3>4. QED BY <1>8, <2>1, <3>1, <3>3
  <2>4. \A k \in 0..i : k \in G
    BY <1>1, <2>2, <2>3, StepInduction
  <2>5. QED BY <2>1, <2>4
<1> DEFINE Runs(g) == g = [k \in 0..i |-> IF k = 0 THEN C ELSE FinishD2H(g[k - 1])]
<1>11. \E g : Runs(g)
  <2>1. \A k \in 0..i : k # 0 => k \in 1..i /\ k - 1 \in 0..i
    BY <1>1
  <2>2. ASSUME NEW k \in 0..i, k # 0 PROVE h[<<k, f[k - 1]>>] = FinishD2H(f[k - 1])
    <3>1. k \in 1..i /\ k - 1 \in 0..i
      BY <2>1, <2>2
    <3>2. f[k - 1].down # <<>>
      BY <1>8, <1>10, <3>1
    <3>3. QED BY <1>3, <1>5, <3>1, <3>2
  <2>3. \A k \in 0..i : (IF k = 0 THEN C ELSE h[<<k, f[k - 1]>>]) = (IF k = 0 THEN C ELSE FinishD2H(f[k - 1]))
    BY <2>2
  <2>4. Runs(f)
    BY <1>6, <2>3
  <2>5. QED BY <2>4
<1>12. PICK at : at = CHOOSE g : Runs(g)
  OBVIOUS
<1>13. DownDone(C, i) = at[i]
  <2>1. PICK s : s = [k \in 1..i |-> k]
    OBVIOUS
  <2>2. Len(s) = i
    BY <1>1, <2>1
  <2>3. DownDone(C, i) = Along(LAMBDA X, k : FinishD2H(X), C, s)
    BY <2>1 DEF DownDone
  <2>4. QED BY <1>12, <2>2, <2>3 DEF Along
<1>14. Runs(at)
  BY <1>11, <1>12
<1>15. at[0] = C /\ \A k \in 1..i : at[k] = FinishD2H(at[k - 1])
  <2>1. \A k \in 1..i : k \in 0..i /\ k # 0
    BY <1>1
  <2>2. 0 \in 0..i
    BY <1>1
  <2>3. QED BY <1>14, <2>1, <2>2
<1>16. Fine(at, i)
  <2>1. PICK G : G = {k \in 0..i : Fine(at, k)}
    OBVIOUS
  <2>2. 0 \in G
    BY <1>1, <1>9, <1>15, <2>1
  <2>3. ASSUME NEW k \in 1..i, k - 1 \in G PROVE k \in G
    <3>1. Fine(at, k - 1) /\ k \in 0..i
      BY <1>1, <2>1, <2>3
    <3>2. QED BY <1>8, <1>15, <2>1, <3>1
  <2>4. \A k \in 0..i : k \in G
    BY <1>1, <2>2, <2>3, StepInduction
  <2>5. QED BY <1>1, <2>1, <2>4
<1>17. QED BY <1>13, <1>16 DEF Fine

UpDone(C, i) == Along(LAMBDA X, k : FinishH2D(X), C, [k \in 1..i |-> k])

\* The oldest copies to the device are done.
LEMMA UpDoneSound ==
  ASSUME NEW C, Sound(C), NEW i \in 0..Len(C.up), NEW E, E = UpDone(C, i)
  PROVE  Sound(E) /\ Polled(C, E) /\ E.down = C.down
<1>1. C \in CacheType /\ C.up \in Seq(SUBSET Blocks) /\ Len(C.up) \in Nat /\ i \in Nat /\ i <= Len(C.up)
  BY CacheFields DEF Sound, Sharp, Kept
<1>2. PICK Z, h : Z = {D \in CacheType : Sound(D)} /\ h = [p \in (1..i) \X Z |-> IF p[2].up # <<>> THEN FinishH2D(p[2]) ELSE p[2]]
  OBVIOUS
<1>3. \A k \in 1..i : \A y \in Z : h[<<k, y>>] = IF y.up # <<>> THEN FinishH2D(y) ELSE y
  BY <1>2
<1>4. \A k \in 1..i : \A y \in Z : h[<<k, y>>] \in Z
  <2>1. \A D : Sound(D) => D \in CacheType
    BY DEF Sound, Sharp, Kept
  <2>2. \A y \in Z : y.up # <<>> => FinishH2D(y) \in Z
    BY <1>2, <2>1, FinishH2DSound
  <2>3. QED BY <1>3, <2>2
<1>5. PICK f : RunsTo(f, i, C, h) /\ \A k \in 0..i : f[k] \in Z
  <2>1. C \in Z
    BY <1>1, <1>2
  <2>2. QED BY <1>1, <1>4, <2>1, RunExists
<1>6. f = [k \in 0..i |-> IF k = 0 THEN C ELSE h[<<k, f[k - 1]>>]]
  BY <1>5 DEF RunsTo
<1>7. f[0] = C /\ \A k \in 1..i : k - 1 \in 0..i /\ f[k] = h[<<k, f[k - 1]>>]
  BY <1>1, <1>6
<1> DEFINE Fine(g, k) == /\ Sound(g[k]) /\ Polled(C, g[k]) /\ g[k].down = C.down
                         /\ Len(g[k].up) = Len(C.up) - k
<1>8. ASSUME NEW g, NEW k \in 1..i, Fine(g, k - 1) PROVE g[k - 1].up # <<>> /\ (g[k] = FinishH2D(g[k - 1]) => Fine(g, k))
  <2>1. PICK D : D = g[k - 1]
    OBVIOUS
  <2>2. Sound(D) /\ Polled(C, D) /\ D.down = C.down /\ Len(D.up) = Len(C.up) - (k - 1) /\ D.up \in Seq(SUBSET Blocks)
    BY <1>8, <2>1, CacheFields DEF Sound, Sharp, Kept
  <2>3. Len(D.up) > 0
    BY <1>1, <2>2
  <2>4. D.up # <<>>
    BY <2>3
  <2>5. ASSUME g[k] = FinishH2D(D) PROVE Fine(g, k)
    <3>1. Sound(g[k]) /\ Polled(D, g[k]) /\ g[k].up = Tail(D.up) /\ g[k].down = D.down
      BY <2>2, <2>4, <2>5, FinishH2DSound
    <3>2. Len(Tail(D.up)) = Len(D.up) - 1
      BY <2>2, <2>4, HeadTailFacts
    <3>3. Len(g[k].up) = Len(C.up) - k
      BY <1>1, <2>2, <3>1, <3>2
    <3>4. Polled(C, g[k])
      BY <2>2, <3>1 DEF Polled
    <3>5. QED BY <2>2, <3>1, <3>3, <3>4
  <2>6. QED BY <2>1, <2>4, <2>5
<1>9. ASSUME NEW g, g[0] = C PROVE Fine(g, 0)
  BY <1>1, <1>9 DEF Polled
<1> HIDE DEF Fine
<1>10. \A k \in 0..i : Fine(f, k)
  <2>1. PICK G : G = {k \in 0..i : Fine(f, k)}
    OBVIOUS
  <2>2. 0 \in G
    BY <1>1, <1>7, <1>9, <2>1
  <2>3. ASSUME NEW k \in 1..i, k - 1 \in G PROVE k \in G
    <3>1. Fine(f, k - 1) /\ k - 1 \in 0..i /\ k \in 0..i
      BY <1>1, <2>1, <2>3
    <3>2. f[k - 1].up # <<>>
      BY <1>8, <3>1
    <3>3. f[k] = FinishH2D(f[k - 1])
      BY <1>3, <1>5, <1>7, <3>1, <3>2
    <3>4. QED BY <1>8, <2>1, <3>1, <3>3
  <2>4. \A k \in 0..i : k \in G
    BY <1>1, <2>2, <2>3, StepInduction
  <2>5. QED BY <2>1, <2>4
<1> DEFINE Runs(g) == g = [k \in 0..i |-> IF k = 0 THEN C ELSE FinishH2D(g[k - 1])]
<1>11. \E g : Runs(g)
  <2>1. \A k \in 0..i : k # 0 => k \in 1..i /\ k - 1 \in 0..i
    BY <1>1
  <2>2. ASSUME NEW k \in 0..i, k # 0 PROVE h[<<k, f[k - 1]>>] = FinishH2D(f[k - 1])
    <3>1. k \in 1..i /\ k - 1 \in 0..i
      BY <2>1, <2>2
    <3>2. f[k - 1].up # <<>>
      BY <1>8, <1>10, <3>1
    <3>3. QED BY <1>3, <1>5, <3>1, <3>2
  <2>3. \A k \in 0..i : (IF k = 0 THEN C ELSE h[<<k, f[k - 1]>>]) = (IF k = 0 THEN C ELSE FinishH2D(f[k - 1]))
    BY <2>2
  <2>4. Runs(f)
    BY <1>6, <2>3
  <2>5. QED BY <2>4
<1>12. PICK at : at = CHOOSE g : Runs(g)
  OBVIOUS
<1>13. UpDone(C, i) = at[i]
  <2>1. PICK s : s = [k \in 1..i |-> k]
    OBVIOUS
  <2>2. Len(s) = i
    BY <1>1, <2>1
  <2>3. UpDone(C, i) = Along(LAMBDA X, k : FinishH2D(X), C, s)
    BY <2>1 DEF UpDone
  <2>4. QED BY <1>12, <2>2, <2>3 DEF Along
<1>14. Runs(at)
  BY <1>11, <1>12
<1>15. at[0] = C /\ \A k \in 1..i : at[k] = FinishH2D(at[k - 1])
  <2>1. \A k \in 1..i : k \in 0..i /\ k # 0
    BY <1>1
  <2>2. 0 \in 0..i
    BY <1>1
  <2>3. QED BY <1>14, <2>1, <2>2
<1>16. Fine(at, i)
  <2>1. PICK G : G = {k \in 0..i : Fine(at, k)}
    OBVIOUS
  <2>2. 0 \in G
    BY <1>1, <1>9, <1>15, <2>1
  <2>3. ASSUME NEW k \in 1..i, k - 1 \in G PROVE k \in G
    <3>1. Fine(at, k - 1) /\ k \in 0..i
      BY <1>1, <2>1, <2>3
    <3>2. QED BY <1>8, <1>15, <2>1, <3>1
  <2>4. \A k \in 0..i : k \in G
    BY <1>1, <2>2, <2>3, StepInduction
  <2>5. QED BY <1>1, <2>1, <2>4
<1>17. QED BY <1>13, <1>16 DEF Fine

\* Retire, poll and synchronize.
LEMMA RetireSound ==
  ASSUME NEW C, Sound(C), NEW i \in 0..Len(C.down), NEW j \in 0..Len(C.up), NEW E, E = Retire(C, i, j)
  PROVE  Sound(E) /\ Polled(C, E)
<1>1. PICK D : D = DownDone(C, i)
  OBVIOUS
<1>2. Sound(D) /\ Polled(C, D) /\ D.up = C.up
  BY <1>1, DownDoneSound
<1>3. E = UpDone(D, j)
  BY <1>1 DEF Retire, DownDone, UpDone
<1>4. j \in 0..Len(D.up)
  BY <1>2
<1>5. Sound(E) /\ Polled(D, E)
  BY <1>2, <1>3, <1>4, UpDoneSound
<1>6. Polled(C, E)
  BY <1>2, <1>5 DEF Polled
<1>7. QED BY <1>5, <1>6

\* What a poll may find.
LEMMA PollSound ==
  ASSUME NEW C, Sound(C), NEW P \in Poll(C)
  PROVE  Sound(P) /\ Polled(C, P)
<1>1. PICK i \in 0..Len(C.down), j \in 0..Len(C.up) : P = Retire(C, i, j)
  BY DEF Poll
<1>2. QED BY <1>1, RetireSound

\* Waiting for all copies.
LEMMA SynchronizeSound ==
  ASSUME NEW C, Sound(C), NEW P, P = SynchronizeAll(C)
  PROVE  Sound(P) /\ Polled(C, P)
<1>1. C.down \in Seq(SUBSET Blocks) /\ C.up \in Seq(SUBSET Blocks)
  BY CacheFields DEF Sound, Sharp, Kept
<1>2. Len(C.down) \in 0..Len(C.down) /\ Len(C.up) \in 0..Len(C.up)
  BY <1>1
<1>3. QED BY <1>2, RetireSound DEF SynchronizeAll

\* References and views do not matter for residency.
LEMMA RefTwinSound ==
  ASSUME NEW C, Sound(C), NEW E, Sharp(E), RefTwin(C, E)
  PROVE  Sound(E)
<1>1. /\ E.index = C.index /\ E.dev = C.dev /\ E.host = C.host /\ E.out = C.out /\ E.in = C.in
      /\ E.down = C.down /\ E.up = C.up /\ E.err = C.err
  BY DEF RefTwin
<1>2. Resident(E) /\ Queued(E)
  BY <1>1 DEF Sound, Resident, Queued
<1>3. QED BY <1>2 DEF Sound

\* A cut holds no block that is referenced or copied.
LEMMA CutFacts ==
  ASSUME NEW C, Sharp(C), NEW V, Cut(C, V)
  PROVE  /\ V \subseteq C.index /\ V \cap C.out = {} /\ V \cap C.in = {} /\ \A b \in V : C.ref[b] = 0
         /\ \A x \in C.index : Parent[x] \in V => x \in V
<1>1. C.index \subseteq Blocks /\ Whole(C)
  BY DEF Sharp, Kept, Whole
<1>2. V \subseteq C.index
  BY DEF Cut, FreeableIn
<1>3. \A b \in V : ~Blocked(C, b)
  BY <1>1, <1>2, FreeableStep DEF Cut
<1>4. ASSUME NEW x \in C.index, Parent[x] \in V PROVE x \in V
  <2>1. Parent[x] \in Blocks /\ x \in Blocks
    BY <1>1, <1>2, <1>4
  <2>2. x \in Desc[Parent[x]]
    BY <2>1, DescBelow
  <2>3. QED BY <1>4, <2>2 DEF Cut
<1>5. QED BY <1>2, <1>3, <1>4 DEF Blocked, Moving

\* Eviction.
LEMMA EvictSound ==
  ASSUME NEW C, Sound(C), C.err # "room", NEW V, Cut(C, V), NEW E, E = Evict(C, V)
  PROVE  Sound(E) /\ Evicted(C, E, V)
<1>1. Sharp(C) /\ Resident(C) /\ Queued(C)
  BY DEF Sound
<1>2. /\ V \subseteq C.index /\ V \cap C.out = {} /\ V \cap C.in = {}
      /\ \A x \in C.index : Parent[x] \in V => x \in V
  BY <1>1, CutFacts
<1>10. Sharp(E) /\ Evicted(C, E, V)
  BY <1>1, EvictSharp
<1>3. /\ Sharp(E)
      /\ E.index = C.index \ V /\ E.dev = C.dev \ V /\ E.host = C.host \ V
      /\ E.out = C.out /\ E.in = C.in /\ E.down = C.down /\ E.up = C.up /\ E.err = C.err
  BY <1>10 DEF Evicted
<1>4. C.dev \subseteq C.index /\ C.host \subseteq C.index
  BY <1>1 DEF Resident
<1>5. Closed(E.dev) /\ Closed(E.host)
  BY <1>1, <1>2, <1>3, <1>4 DEF Resident, Closed
<1>6. /\ E.index \subseteq E.dev \cup E.host
      /\ E.err # "room" => E.dev \cup E.host \subseteq E.index
      /\ E.out \subseteq E.dev \cap E.index /\ E.out \cap E.host = {}
      /\ E.in \subseteq E.dev \cap E.host \cap E.index
  BY <1>1, <1>2, <1>3 DEF Resident
<1>7. ASSUME NEW k \in DOMAIN C.down, NEW x \in C.down[k], Parent[x] # Root
      PROVE  Parent[x] \in E.host \cup UNION First(C.down, k)
  <2>1. x \in C.out
    BY <1>1, <1>7 DEF Queued, Range
  <2>2. x \in C.index /\ x \notin V
    BY <1>1, <1>2, <2>1 DEF Resident
  <2>3. Parent[x] \notin V
    BY <1>2, <2>2
  <2>4. Parent[x] \in C.host \cup UNION First(C.down, k)
    BY <1>1, <1>7 DEF Queued
  <2>5. QED BY <1>3, <2>3, <2>4
<1>8. Queued(E)
  BY <1>1, <1>3, <1>7 DEF Queued
<1>11. QED BY <1>3, <1>5, <1>6, <1>8, <1>10 DEF Sound, Resident

\* Eviction that finds too little room leaves payloads behind.
LEMMA RoomFailSound ==
  ASSUME NEW C, Sound(C), NEW V, Cut(C, V), NEW E, E = Fail(RemoveAll(C, V), "room")
  PROVE  /\ Sound(E) /\ E.err = "room" /\ E.index = C.index \ V /\ E.dev = C.dev /\ E.host = C.host
         /\ E.ref = C.ref /\ E.slots = C.slots /\ E.pool = C.pool /\ E.out = C.out /\ E.in = C.in
<1>1. Sharp(C) /\ Resident(C) /\ Queued(C)
  BY DEF Sound
<1>2. /\ V \subseteq C.index /\ V \cap C.out = {} /\ V \cap C.in = {}
      /\ \A x \in C.index : Parent[x] \in V => x \in V
  BY <1>1, CutFacts
<1>3. PICK D : D = RemoveAll(C, V)
  OBVIOUS
<1>4. Sharp(D) /\ Payloads(C, D) /\ D.index = C.index \ V
  BY <1>1, <1>3, RemoveAllSharp
<1>5. D \in CacheType /\ Kept(D) /\ ViewsCurrent(D) /\ E = [D EXCEPT !.err = "room"]
  BY <1>3, <1>4 DEF Sharp, Kept, Fail
<1>6. /\ E \in CacheType /\ E.err = "room"
      /\ E.index = D.index /\ E.dev = D.dev /\ E.host = D.host /\ E.pinned = D.pinned /\ E.out = D.out /\ E.in = D.in
      /\ E.ref = D.ref /\ E.slots = D.slots /\ E.pool = D.pool /\ E.down = D.down /\ E.up = D.up
      /\ E.built = D.built /\ E.free = D.free /\ E.kids = D.kids /\ E.view = D.view
  <2>1. "room" \in Errors
    BY DEF Errors
  <2>2. QED BY <1>5, <2>1 DEF CacheType
<1>7. Sharp(E)
  BY <1>5, <1>6, SameShelf
<1>8. Resident(E) /\ Queued(E)
  BY <1>1, <1>2, <1>4, <1>6 DEF Payloads, Resident, Queued
<1>9. QED BY <1>4, <1>6, <1>7, <1>8 DEF Sound, Payloads

\* What demotion may take: idle blocks with a copy on the host.
Idle(C, V) ==
  /\ V \subseteq C.dev /\ \A b \in V : Desc[b] \cap C.dev \subseteq V
  /\ \A b \in V : C.ref[b] = 0 /\ b \in C.host \ Moving(C)

\* What a demotion changes.
Demoted(C, E, V) ==
  /\ E.dev = C.dev \ V /\ E.slots = C.slots + Cardinality(V)
  /\ E.index = C.index /\ E.host = C.host /\ E.pinned = C.pinned /\ E.out = C.out /\ E.in = C.in
  /\ E.wt = C.wt /\ E.ref = C.ref /\ E.pool = C.pool /\ E.down = C.down /\ E.up = C.up /\ E.err = C.err

\* Demotion.
LEMMA DemoteSound ==
  ASSUME NEW C, Sound(C), NEW V, Idle(C, V), NEW E, E = Demote(C, V)
  PROVE  Sound(E) /\ Demoted(C, E, V)
<1>1. Sharp(C) /\ Resident(C) /\ Queued(C) /\ C.dev \subseteq Blocks /\ V \in SUBSET C.dev
  BY CacheFields DEF Sound, Sharp, Kept, Idle
<1>8. /\ Sharp(E) /\ E.dev = C.dev \ V /\ E.slots = C.slots + Cardinality(V)
      /\ E.index = C.index /\ E.host = C.host /\ E.pinned = C.pinned /\ E.out = C.out /\ E.in = C.in
      /\ E.wt = C.wt /\ E.ref = C.ref /\ E.pool = C.pool /\ E.down = C.down /\ E.up = C.up /\ E.err = C.err
  BY <1>1, DemoteSharp
<1>9. Demoted(C, E, V)
  BY <1>8 DEF Demoted
<1>2. /\ Sharp(E) /\ E.dev = C.dev \ V
      /\ E.index = C.index /\ E.host = C.host /\ E.out = C.out /\ E.in = C.in
      /\ E.down = C.down /\ E.up = C.up /\ E.err = C.err
  BY <1>8
<1>3. Closed(E.dev)
  <2>1. SUFFICES ASSUME NEW x \in C.dev, x \notin V, Parent[x] # Root, Parent[x] \in V PROVE FALSE
    BY <1>1, <1>2 DEF Resident, Closed
  <2>2. x \in Desc[Parent[x]]
    BY <1>1, <2>1, DescBelow
  <2>3. QED BY <2>1, <2>2 DEF Idle
<1>4. V \subseteq C.host /\ V \cap C.out = {} /\ V \cap C.in = {}
  BY DEF Idle, Moving
<1>5. Resident(E)
  BY <1>1, <1>2, <1>3, <1>4 DEF Resident
<1>6. Queued(E)
  BY <1>1, <1>2 DEF Queued
<1>7. QED BY <1>2, <1>5, <1>6, <1>9 DEF Sound

\* What the start of copies to the host changes.
Descending(C, E, S) ==
  /\ E.out = C.out \cup S /\ E.pool = C.pool - Cardinality(S) /\ E.down = Append(C.down, S)
  /\ E.index = C.index /\ E.dev = C.dev /\ E.host = C.host /\ E.pinned = C.pinned /\ E.in = C.in /\ E.wt = C.wt
  /\ E.ref = C.ref /\ E.slots = C.slots /\ E.up = C.up /\ E.err = C.err

\* Copies to the host start.
LEMMA SubmitD2HSound ==
  ASSUME NEW C, Sound(C), NEW S \in SUBSET C.index, S \subseteq C.dev, S \cap (C.host \cup Moving(C)) = {},
         \A b \in S : Parent[b] = Root \/ Parent[b] \in C.host \cup C.out \cup S,
         NEW E, E = SubmitD2H(C, S)
  PROVE  Sound(E) /\ Descending(C, E, S)
<1>1. /\ Sharp(C) /\ Resident(C) /\ Queued(C) /\ C.down \in Seq(SUBSET Blocks) /\ C.index \subseteq Blocks
      /\ S \cap C.out = {} /\ S \cap C.in = {} /\ S \in SUBSET Blocks
  BY CacheFields DEF Sound, Sharp, Kept, Moving
<1>10. /\ Sharp(E) /\ E.out = C.out \cup S /\ E.pool = C.pool - Cardinality(S) /\ E.down = Append(C.down, S)
       /\ E.index = C.index /\ E.dev = C.dev /\ E.host = C.host /\ E.pinned = C.pinned /\ E.in = C.in /\ E.wt = C.wt /\ E.ref = C.ref /\ E.slots = C.slots /\ E.up = C.up /\ E.err = C.err
  BY <1>1, SubmitD2HSharp
<1>11. Descending(C, E, S)
  BY <1>10 DEF Descending
<1>2. /\ Sharp(E) /\ E.out = C.out \cup S /\ E.down = Append(C.down, S)
      /\ E.index = C.index /\ E.dev = C.dev /\ E.host = C.host /\ E.in = C.in /\ E.up = C.up /\ E.err = C.err
  BY <1>10
<1>3. Resident(E)
  BY <1>1, <1>2 DEF Resident
<1>4. E.out = UNION Range(E.down) /\ Disjoint(E.down)
  <2>1. PICK w : w = C.down
    OBVIOUS
  <2>2. w \in Seq(SUBSET Blocks) /\ Disjoint(w) /\ C.out = UNION Range(w) /\ S \cap UNION Range(w) = {}
    BY <1>1, <2>1 DEF Queued
  <2>3. UNION Range(Append(w, S)) = (UNION Range(w)) \cup S /\ Disjoint(Append(w, S))
    BY <1>1, <2>2, BatchJoins
  <2>4. QED BY <1>2, <2>1, <2>2, <2>3
<1>5. PICK q, n : q = E.down /\ n = Len(C.down) /\ n \in Nat
  BY <1>1
<1>6. /\ DOMAIN q = DOMAIN C.down \cup {n + 1} /\ n + 1 \notin DOMAIN C.down /\ DOMAIN C.down = 1..n
      /\ \A i \in DOMAIN C.down : q[i] = C.down[i]
      /\ q[n + 1] = S /\ q \in Seq(SUBSET Blocks) /\ Len(q) = n + 1
  BY <1>1, <1>2, <1>5, AppendPositions, AppendFacts
<1>7. ASSUME NEW k \in DOMAIN q, NEW x \in q[k], Parent[x] # Root PROVE Parent[x] \in E.host \cup UNION First(q, k)
  <2>1. CASE k \in DOMAIN C.down
    <3>1. \A j \in 1..k : q[j] = C.down[j]
      BY <1>5, <1>6, <2>1
    <3>2. First(q, k) = First(C.down, k)
      BY <3>1 DEF First
    <3>3. x \in C.down[k]
      BY <1>6, <1>7, <2>1
    <3>4. QED BY <1>1, <1>2, <1>7, <2>1, <3>2, <3>3 DEF Queued
  <2>2. CASE k = n + 1
    <3>1. First(q, k) = Range(q)
      BY <1>6, <2>2, FirstFacts
    <3>2. QED BY <1>2, <1>4, <1>5, <1>6, <1>7, <2>2, <3>1
  <2>3. QED BY <1>6, <2>1, <2>2
<1>8. Queued(E)
  BY <1>1, <1>2, <1>4, <1>5, <1>7 DEF Queued
<1>9. QED BY <1>2, <1>3, <1>8, <1>11 DEF Sound

\* What the start of copies to the device changes.
Ascending(C, E, S) ==
  /\ E.dev = C.dev \cup S /\ E.in = C.in \cup S /\ E.slots = C.slots - Cardinality(S) /\ E.up = Append(C.up, S)
  /\ E.index = C.index /\ E.host = C.host /\ E.pinned = C.pinned /\ E.out = C.out /\ E.wt = C.wt
  /\ E.ref = C.ref /\ E.pool = C.pool /\ E.down = C.down /\ E.err = C.err

\* Copies to the device start.
LEMMA SubmitH2DSound ==
  ASSUME NEW C, Sound(C), NEW S \in SUBSET C.index, S \subseteq C.host, S \cap C.dev = {},
         \A b \in S : Parent[b] = Root \/ Parent[b] \in C.dev \cup S,
         NEW E, E = SubmitH2D(C, S)
  PROVE  Sound(E) /\ Ascending(C, E, S)
<1>1. /\ Sharp(C) /\ Resident(C) /\ Queued(C) /\ C.up \in Seq(SUBSET Blocks) /\ C.index \subseteq Blocks
      /\ S \cap C.in = {} /\ S \in SUBSET Blocks
  BY CacheFields DEF Sound, Sharp, Kept, Resident
<1>10. /\ Sharp(E) /\ E.dev = C.dev \cup S /\ E.in = C.in \cup S /\ E.slots = C.slots - Cardinality(S) /\ E.up = Append(C.up, S)
       /\ E.index = C.index /\ E.host = C.host /\ E.pinned = C.pinned /\ E.out = C.out /\ E.wt = C.wt /\ E.ref = C.ref /\ E.pool = C.pool /\ E.down = C.down /\ E.err = C.err
  BY <1>1, SubmitH2DSharp
<1>11. Ascending(C, E, S)
  BY <1>10 DEF Ascending
<1>2. /\ Sharp(E) /\ E.dev = C.dev \cup S /\ E.in = C.in \cup S /\ E.up = Append(C.up, S)
      /\ E.index = C.index /\ E.host = C.host /\ E.out = C.out /\ E.down = C.down /\ E.err = C.err
  BY <1>10
<1>3. Closed(E.dev)
  BY <1>1, <1>2 DEF Resident, Closed
<1>4. Resident(E)
  BY <1>1, <1>2, <1>3 DEF Resident
<1>5. E.in = UNION Range(E.up) /\ Disjoint(E.up)
  <2>1. PICK w : w = C.up
    OBVIOUS
  <2>2. w \in Seq(SUBSET Blocks) /\ Disjoint(w) /\ C.in = UNION Range(w) /\ S \cap UNION Range(w) = {}
    BY <1>1, <2>1 DEF Queued
  <2>3. UNION Range(Append(w, S)) = (UNION Range(w)) \cup S /\ Disjoint(Append(w, S))
    BY <1>1, <2>2, BatchJoins
  <2>4. QED BY <1>2, <2>1, <2>2, <2>3
<1>6. Queued(E)
  BY <1>1, <1>2, <1>5 DEF Queued
<1>7. QED BY <1>2, <1>4, <1>6, <1>11 DEF Sound

\* What an insertion changes.
Inserted(C, E, b) ==
  /\ E.index = C.index \cup {b} /\ E.dev = C.dev \cup {b} /\ E.ref = [C.ref EXCEPT ![b] = 1]
  /\ E.host = C.host /\ E.pinned = C.pinned /\ E.out = C.out /\ E.in = C.in /\ E.wt = C.wt
  /\ E.slots = C.slots /\ E.pool = C.pool /\ E.down = C.down /\ E.up = C.up /\ E.err = C.err

\* A published block enters the tree.
LEMMA InsertSound ==
  ASSUME NEW C, Sound(C), NEW b, Placeable(C, b), NEW E, E = Insert(C, b)
  PROVE  Sound(E) /\ Inserted(C, E, b)
<1>1. Sharp(C) /\ Resident(C) /\ Queued(C)
  BY DEF Sound
<1>2. /\ Sharp(E)
      /\ E.index = C.index \cup {b} /\ E.dev = C.dev \cup {b} /\ E.ref = [C.ref EXCEPT ![b] = 1]
      /\ E.host = C.host /\ E.pinned = C.pinned /\ E.out = C.out /\ E.in = C.in /\ E.wt = C.wt
      /\ E.slots = C.slots /\ E.pool = C.pool /\ E.down = C.down /\ E.up = C.up /\ E.err = C.err
  BY <1>1, InsertSharp
<1>6. Inserted(C, E, b)
  BY <1>2 DEF Inserted
<1>3. Resident(E)
  BY <1>1, <1>2 DEF Resident, Closed, Placeable
<1>4. Queued(E)
  BY <1>1, <1>2 DEF Queued
<1>5. QED BY <1>2, <1>3, <1>4, <1>6 DEF Sound
-----------------------------------------------------------------------------
(* What may be taken *)

\* What is below a block below another one is below that one.
LEMMA DescTransitive ==
  ASSUME NEW b \in Blocks, NEW x \in Desc[b]
  PROVE  x \in Blocks /\ Desc[x] \subseteq Desc[b]
<1>0. Desc[b] \subseteq Blocks /\ x \in Blocks
  BY DescFacts
<1>1. PICK G : G = {y \in Blocks : y \in Desc[x] => y \in Desc[b]}
  OBVIOUS
<1>2. ASSUME NEW y \in Blocks, Parent[y] # Root => Parent[y] \in G PROVE y \in G
  <2>1. CASE y = x
    BY <1>1, <2>1
  <2>2. CASE y = b
    BY <1>1, <2>2, DescFacts
  <2>3. CASE y # x /\ y # b
    BY <1>0, <1>1, <1>2, <2>3, DescFacts
  <2>4. QED BY <2>1, <2>2, <2>3
<1>3. G = Blocks
  BY <1>1, <1>2, TreeInduction
<1>4. QED BY <1>0, <1>1, <1>3, DescFacts

\* evict: what the heap of leaves yields.
LEMMA VictimsCut ==
  ASSUME NEW C, NEW n, NEW V \in Victims(FreeableIn(C), C.index, n)
  PROVE  Cut(C, V)
BY DEF Victims, Cut

\* evict_host_only: such blocks have no device payload.
LEMMA HostVictimsCut ==
  ASSUME NEW C, Sharp(C), NEW n, NEW V \in Victims(HostOnlyIn(C), C.index, n)
  PROVE  Cut(C, V) /\ V \cap C.dev = {}
<1>1. V \subseteq HostOnlyIn(C) /\ \A b \in V : Desc[b] \cap C.index \subseteq V
  BY DEF Victims
<1>2. C.index \subseteq Blocks
  BY DEF Sharp, Kept, Whole
<1>3. \A b \in V : b \in FreeableIn(C) /\ b \in Blocks /\ Desc[b] \cap C.dev = {}
  BY <1>1, <1>2 DEF HostOnlyIn, FreeableIn
<1>4. \A b \in V : b \notin C.dev
  BY <1>3, DescFacts
<1>5. QED BY <1>1, <1>3, <1>4 DEF Cut

\* demote: what the heap of device leaves yields.
LEMMA DemoteVictims ==
  ASSUME NEW C, Sharp(C), NEW n, NEW V \in Victims(ReclaimableIn(C, FALSE), C.dev, n)
  PROVE  Idle(C, V)
<1>1. V \subseteq ReclaimableIn(C, FALSE) /\ \A b \in V : Desc[b] \cap C.dev \subseteq V
  BY DEF Victims
<1>2. C.dev \subseteq Blocks
  BY CacheFields DEF Sharp, Kept
<1>3. ASSUME NEW b \in V PROVE b \in C.dev /\ C.ref[b] = 0 /\ b \in C.host \ Moving(C)
  <2>1. b \in C.dev /\ \A x \in Desc[b] \cap C.dev : C.ref[x] = 0 /\ x \in C.host \ Moving(C)
    BY <1>1, <1>3 DEF ReclaimableIn
  <2>2. b \in Desc[b]
    BY <1>2, <2>1, DescFacts
  <2>3. QED BY <2>1, <2>2
<1>4. QED BY <1>1, <1>3 DEF Idle

\* delete_subtree: all that is freeable below a block.
LEMMA SubtreeCut ==
  ASSUME NEW C, Sharp(C), NEW b \in Blocks
  PROVE  Cut(C, FreeableIn(C) \cap Desc[b])
<1>1. C.index \subseteq Blocks
  BY DEF Sharp, Kept, Whole
<1>2. ASSUME NEW x \in FreeableIn(C) \cap Desc[b], NEW y \in Desc[x] \cap C.index
      PROVE  y \in FreeableIn(C) \cap Desc[b]
  <2>1. x \in C.index /\ \A z \in Desc[x] \cap C.index : ~Blocked(C, z)
    BY <1>2 DEF FreeableIn
  <2>2. Desc[y] \subseteq Desc[x] /\ y \in Desc[b]
    BY <1>1, <1>2, <2>1, DescTransitive
  <2>3. y \in FreeableIn(C)
    BY <1>2, <2>1, <2>2 DEF FreeableIn
  <2>4. QED BY <2>2, <2>3
<1>3. QED BY <1>2 DEF Cut
-----------------------------------------------------------------------------
(* Pins *)

Pins(C, s, pin) == Along(LAMBDA X, x : SetPin(X, x, pin), C, s)

\* Pins do not matter for payloads and references.
PinTwin(C, D) ==
  /\ D.index = C.index /\ D.dev = C.dev /\ D.host = C.host
  /\ D.out = C.out /\ D.in = C.in /\ D.wt = C.wt /\ D.ref = C.ref
  /\ D.slots = C.slots /\ D.pool = C.pool /\ D.down = C.down /\ D.up = C.up /\ D.err = C.err

\* One block is pinned or unpinned.
LEMMA SetPinKept ==
  ASSUME NEW C, Kept(C), NEW b \in C.index, NEW pin \in BOOLEAN, NEW E, E = SetPin(C, b, pin)
  PROVE  Kept(E) /\ PinTwin(C, E)
<1>1. C \in CacheType /\ C.pinned \subseteq Blocks /\ C.index \subseteq Blocks
  BY CacheFields DEF Kept
<1>2. PICK v : v = IF pin THEN C.pinned \cup {b} ELSE C.pinned \ {b}
  OBVIOUS
<1>3. PICK D : D = [C EXCEPT !.pinned = v]
  OBVIOUS
<1>4. v \in SUBSET Blocks
  BY <1>1, <1>2
<1>5. /\ D \in CacheType /\ D.pinned = v /\ D.built = C.built /\ D.free = C.free /\ D.kids = C.kids
      /\ PinTwin(C, D)
  BY <1>1, <1>3, <1>4 DEF CacheType, PinTwin
<1>6. E = Refresh(D, b)
  BY <1>2, <1>3 DEF SetPin
<1>7. \A x \in Blocks : x # b => (Blocked(D, x) <=> Blocked(C, x))
  BY <1>2, <1>5 DEF Blocked, Moving, PinTwin
<1>8. D.index = C.index
  BY <1>5 DEF PinTwin
<1>9. Kept(E) /\ Twin(D, E)
  BY <1>5, <1>6, <1>7, <1>8, RefreshKeeps
<1>10. QED BY <1>5, <1>9 DEF Twin, PinTwin

\* The type alone.
LEMMA SetPinType ==
  ASSUME NEW C \in CacheType, NEW b \in Blocks, NEW pin \in BOOLEAN
  PROVE  SetPin(C, b, pin) \in CacheType
<1>1. C.pinned \subseteq Blocks
  BY CacheFields
<1>2. PICK v : v = IF pin THEN C.pinned \cup {b} ELSE C.pinned \ {b}
  OBVIOUS
<1>3. PICK D : D = [C EXCEPT !.pinned = v]
  OBVIOUS
<1>4. v \in SUBSET Blocks
  BY <1>1, <1>2
<1>5. D \in CacheType
  BY <1>3, <1>4 DEF CacheType
<1>6. SetPin(C, b, pin) = Refresh(D, b)
  BY <1>2, <1>3 DEF SetPin
<1>7. QED BY <1>5, <1>6, RefreshType

\* Pins, block by block.
LEMMA PinRun ==
  ASSUME NEW C \in CacheType, NEW s \in Seq(Blocks), NEW pin \in BOOLEAN
  PROVE  \E at : Pins(C, s, pin) = at[Len(s)] /\ at[0] = C /\ \A i \in 1..Len(s) : at[i] = SetPin(at[i - 1], s[i], pin)
<1>1. PICK n : n = Len(s) /\ n \in Nat /\ \A i \in 1..n : s[i] \in Blocks
  OBVIOUS
<1>2. PICK h : h = [p \in (1..n) \X CacheType |-> SetPin(p[2], s[p[1]], pin)]
  OBVIOUS
<1>3. \A i \in 1..n : \A y \in CacheType : h[<<i, y>>] = SetPin(y, s[i], pin)
  BY <1>2
<1>4. \A i \in 1..n : \A y \in CacheType : h[<<i, y>>] \in CacheType
  <2>1. \A i \in 1..n : \A y \in CacheType : SetPin(y, s[i], pin) \in CacheType
    <3>1. SUFFICES ASSUME NEW i \in 1..n, NEW y \in CacheType PROVE SetPin(y, s[i], pin) \in CacheType
      OBVIOUS
    <3>2. s[i] \in Blocks
      BY <1>1
    <3>3. QED BY <3>2, SetPinType
  <2>2. QED BY <1>3, <2>1
<1> DEFINE Runs(f) == f = [i \in 0..n |-> IF i = 0 THEN C ELSE SetPin(f[i - 1], s[i], pin)]
<1>5. \E f : Runs(f)
  <2>1. PICK f : RunsTo(f, n, C, h) /\ \A i \in 0..n : f[i] \in CacheType
    BY <1>1, <1>4, RunExists
  <2>2. \A i \in 0..n : i # 0 => i \in 1..n /\ i - 1 \in 0..n
    BY <1>1
  <2>3. \A i \in 0..n : (IF i = 0 THEN C ELSE h[<<i, f[i - 1]>>]) = (IF i = 0 THEN C ELSE SetPin(f[i - 1], s[i], pin))
    BY <1>3, <2>1, <2>2
  <2>4. Runs(f)
    BY <2>1, <2>3 DEF RunsTo
  <2>5. QED BY <2>4
<1>6. PICK at : at = CHOOSE f : Runs(f)
  OBVIOUS
<1>7. Pins(C, s, pin) = at[n]
  BY <1>1, <1>6 DEF Along, Pins
<1>8. Runs(at)
  BY <1>5, <1>6
<1>9. \A i \in 1..n : i \in 0..n /\ i # 0
  BY <1>1
<1>10. at[0] = C /\ \A i \in 1..n : at[i] = SetPin(at[i - 1], s[i], pin)
  BY <1>1, <1>8, <1>9
<1>11. QED BY <1>1, <1>7, <1>10

\* set_subtree_eviction_priority keeps the freeable set, and no view survives it.
LEMMA PinsKept ==
  ASSUME NEW C, Kept(C), NEW s \in Seq(Blocks), Range(s) \subseteq C.index, NEW pin \in BOOLEAN, NEW E, E = Pins(C, s, pin)
  PROVE  Kept(E) /\ PinTwin(C, E) /\ (s = <<>> => E = C)
<1>1. C \in CacheType
  BY DEF Kept
<1>2. PICK at : Pins(C, s, pin) = at[Len(s)] /\ at[0] = C /\ \A i \in 1..Len(s) : at[i] = SetPin(at[i - 1], s[i], pin)
  BY <1>1, PinRun
<1>3. PICK n : n = Len(s) /\ n \in Nat
  OBVIOUS
<1> DEFINE Fine(k) == Kept(at[k]) /\ PinTwin(C, at[k])
<1>4. Fine(0)
  BY <1>2 DEF PinTwin
<1>5. ASSUME NEW k \in 1..n, Fine(k - 1) PROVE Fine(k)
  <2>1. PICK D, b : D = at[k - 1] /\ b = s[k]
    OBVIOUS
  <2>2. b \in Range(s) /\ at[k] = SetPin(D, b, pin)
    BY <1>2, <1>3, <2>1, FirstFacts
  <2>3. Kept(D) /\ PinTwin(C, D) /\ b \in D.index
    BY <1>5, <2>1, <2>2 DEF PinTwin
  <2>4. Kept(at[k]) /\ PinTwin(D, at[k])
    BY <2>2, <2>3, SetPinKept
  <2>5. QED BY <2>3, <2>4 DEF PinTwin
<1>6. Fine(n)
  <2> HIDE DEF Fine
  <2>a. PICK G : G = {k \in 0..n : Fine(k)}
    OBVIOUS
  <2>1. 0 \in G /\ \A k \in 1..n : k - 1 \in G => k \in G
    <3>1. \A k \in 1..n : k \in 0..n
      BY <1>3
    <3>2. QED BY <1>3, <1>4, <1>5, <2>a, <3>1
  <2>2. n \in G
    <3>1. \A k \in 0..n : k \in G
      BY <1>3, <2>1, StepInduction
    <3>2. QED BY <1>3, <3>1
  <2>3. QED BY <2>a, <2>2
<1>7. s = <<>> => E = C
  BY <1>2
<1>8. QED BY <1>2, <1>3, <1>6, <1>7
-----------------------------------------------------------------------------
(* Copies to the host after a request ended *)

\* The recursion that selects candidates, parents first.
Selects(u, B, H, cand) ==
  u = [b \in B |-> /\ b \in cand
                   /\ \/ Parent[b] = Root
                      \/ Parent[b] \in H
                      \/ u[Parent[b]]]

\* It has a solution: one for the blocks up to each length.
LEMMA SelectExists == ASSUME NEW H, NEW cand PROVE \E u : Selects(u, Blocks, H, cand)
<1>1. PICK level : Levels(level)
  BY LevelsExist
<1>2. PICK M : M = Cardinality(Blocks)
  OBVIOUS
<1>3. M \in Nat
  BY <1>2, PrefixAssumption, FS_CardinalityType
<1> DEFINE Short(n) == {b \in Blocks : level[b] <= n}
           T == {n \in Nat : ~ \E u : Selects(u, Short(n), H, cand)}
<1>4. \A b \in Blocks : level[b] \in Nat /\ level[b] >= 1 /\ level[b] <= M
  BY <1>1, <1>2, <1>3 DEF Levels
<1>5. T = {}
  <2>1. SUFFICES ASSUME T # {} PROVE FALSE
    OBVIOUS
  <2>2. PICK n \in T : \A m \in T : n <= m
    BY <2>1, LeastNat
  <2>3. n # 0
    <3>1. Short(0) = {}
      BY <1>4
    <3>2. PICK u : u = [b \in {} |-> TRUE]
      OBVIOUS
    <3>3. Selects(u, Short(0), H, cand)
      BY <3>1, <3>2 DEF Selects
    <3>4. QED BY <2>2, <3>3
  <2>4. n - 1 \in Nat /\ ~(n <= n - 1)
    BY <2>3
  <2>5. PICK u : Selects(u, Short(n - 1), H, cand)
    BY <2>2, <2>4
  <2>6. PICK w : w = [b \in Short(n) |-> b \in cand /\ (Parent[b] = Root \/ Parent[b] \in H \/ u[Parent[b]])]
    OBVIOUS
  <2>7. ASSUME NEW b \in Short(n), Parent[b] # Root PROVE Parent[b] \in Short(n - 1) /\ Parent[b] \in Short(n)
    <3>1. Parent[b] \in Blocks /\ level[Parent[b]] < level[b] /\ level[b] <= n
      BY <1>1, <2>7, PrefixAssumption DEF Levels
    <3>2. QED BY <1>4, <2>2, <3>1
  <2>8. \A b \in Short(n - 1) : b \in Short(n)
    BY <1>4, <2>2
  <2>9. \A b \in Short(n - 1) : w[b] = u[b]
    <3>1. \A b \in Short(n - 1) : u[b] = (b \in cand /\ (Parent[b] = Root \/ Parent[b] \in H \/ u[Parent[b]]))
      BY <2>5 DEF Selects
    <3>2. QED BY <2>6, <2>8, <3>1
  <2>10. \A b \in Short(n) : (b \in cand /\ (Parent[b] = Root \/ Parent[b] \in H \/ u[Parent[b]]))
                               = (b \in cand /\ (Parent[b] = Root \/ Parent[b] \in H \/ w[Parent[b]]))
    <3>1. ASSUME NEW b \in Short(n)
          PROVE (b \in cand /\ (Parent[b] = Root \/ Parent[b] \in H \/ u[Parent[b]]))
                               = (b \in cand /\ (Parent[b] = Root \/ Parent[b] \in H \/ w[Parent[b]]))
      <4>1. CASE Parent[b] = Root
        BY <4>1
      <4>2. CASE Parent[b] # Root
        <5>1. w[Parent[b]] = u[Parent[b]]
          BY <2>7, <2>9, <3>1, <4>2
        <5>2. QED BY <5>1
      <4>3. QED BY <4>1, <4>2
    <3>2. QED BY <3>1
  <2>11. Selects(w, Short(n), H, cand)
    BY <2>6, <2>10 DEF Selects
  <2>12. QED BY <2>2, <2>11
<1>6. Short(M) = Blocks
  BY <1>4
<1>7. QED BY <1>3, <1>5, <1>6

\* What is selected: candidates whose parent is, or is about to be, on the host.
LEMMA SelectedFacts ==
  ASSUME NEW C, NEW cand \in SUBSET Blocks, NEW S, S = Selected(C, cand)
  PROVE  \A b \in Blocks : b \in S <=> b \in cand /\ (Parent[b] = Root \/ Parent[b] \in C.host \cup C.out \/ Parent[b] \in S)
<1>1. PICK H : H = C.host \cup C.out
  OBVIOUS
<1>2. PICK u : u = CHOOSE v : Selects(v, Blocks, C.host \cup C.out, cand)
  OBVIOUS
<1>3. Selects(u, Blocks, H, cand)
  BY <1>1, <1>2, SelectExists
<1>4. S = {b \in Blocks : u[b]}
  BY <1>2 DEF Selected, Selects
<1>5. \A b \in Blocks : u[b] = (b \in cand /\ (Parent[b] = Root \/ Parent[b] \in H \/ u[Parent[b]]))
  BY <1>3 DEF Selects
<1>6. \A b \in Blocks : Parent[b] # Root => Parent[b] \in Blocks
  BY PrefixAssumption
<1>7. ASSUME NEW b \in Blocks
      PROVE  b \in S <=> b \in cand /\ (Parent[b] = Root \/ Parent[b] \in H \/ Parent[b] \in S)
  <2>1. CASE Parent[b] = Root
    BY <1>4, <1>5, <2>1
  <2>2. CASE Parent[b] # Root
    <3>1. Parent[b] \in S <=> u[Parent[b]]
      BY <1>4, <1>6, <2>2
    <3>2. b \in S <=> u[b]
      BY <1>4
    <3>3. u[b] = (b \in cand /\ (Parent[b] = Root \/ Parent[b] \in H \/ u[Parent[b]]))
      BY <1>5
    <3>4. QED BY <2>2, <3>1, <3>2, <3>3
  <2>3. QED BY <2>1, <2>2
<1>8. QED BY <1>1, <1>7
\* What is neither capacity nor a copy does not matter.
LEMMA ShelfSound ==
  ASSUME NEW C, Sound(C), NEW D \in CacheType, D.index = C.index, D.dev = C.dev, D.host = C.host,
         D.pinned = C.pinned, D.out = C.out, D.in = C.in, D.ref = C.ref,
         D.built = C.built, D.free = C.free, D.kids = C.kids, D.view = C.view,
         D.down = C.down, D.up = C.up, C.err = "room" => D.err = "room"
  PROVE  Sound(D)
<1>1. Kept(C) /\ ViewsCurrent(C) /\ Resident(C) /\ Queued(C)
  BY DEF Sound, Sharp
<1>2. Sharp(D)
  BY <1>1, SameShelf
<1>3. Resident(D) /\ Queued(D)
  BY <1>1 DEF Resident, Queued
<1>4. QED BY <1>2, <1>3 DEF Sound

\* The same cache but for the candidates.
WtTwin(C, D) ==
  /\ D.index = C.index /\ D.dev = C.dev /\ D.host = C.host /\ D.pinned = C.pinned
  /\ D.out = C.out /\ D.in = C.in /\ D.ref = C.ref
  /\ D.slots = C.slots /\ D.pool = C.pool /\ D.down = C.down /\ D.up = C.up /\ D.err = C.err

\* Candidates are neither.
LEMMA WtSound ==
  ASSUME NEW C, Sound(C), NEW w \in SUBSET Blocks, NEW D, D = [C EXCEPT !.wt = w]
  PROVE  Sound(D) /\ WtTwin(C, D) /\ D.wt = w
<1>1. C \in CacheType
  BY DEF Sound, Sharp, Kept
<1>2. /\ D \in CacheType /\ D.wt = w /\ WtTwin(C, D)
      /\ D.built = C.built /\ D.free = C.free /\ D.kids = C.kids /\ D.view = C.view
  BY <1>1 DEF CacheType, WtTwin
<1>3. Sound(D)
  BY <1>2, ShelfSound DEF WtTwin
<1>4. QED BY <1>2, <1>3

\* The same cache but for the error.
ErrTwin(C, D) ==
  /\ D.index = C.index /\ D.dev = C.dev /\ D.host = C.host /\ D.pinned = C.pinned
  /\ D.out = C.out /\ D.in = C.in /\ D.ref = C.ref /\ D.wt = C.wt
  /\ D.slots = C.slots /\ D.pool = C.pool /\ D.down = C.down /\ D.up = C.up

\* Nor is an error.
LEMMA FailSound ==
  ASSUME NEW C, Sound(C), C.err # "room", NEW e \in Errors, NEW D, D = Fail(C, e)
  PROVE  Sound(D) /\ ErrTwin(C, D) /\ D.err = e
<1>1. C \in CacheType
  BY DEF Sound, Sharp, Kept
<1>2. /\ D \in CacheType /\ D.err = e /\ ErrTwin(C, D)
      /\ D.built = C.built /\ D.free = C.free /\ D.kids = C.kids /\ D.view = C.view
  BY <1>1 DEF CacheType, ErrTwin, Fail
<1>3. Sound(D)
  BY <1>2, ShelfSound DEF ErrTwin
<1>4. QED BY <1>2, <1>3

\* Host memory is conserved.
HostSum(C) == C.pool + Cardinality(C.host \cup C.out)

\* By an eviction.
LEMMA EvictHostSum ==
  ASSUME NEW C, Sound(C), NEW V, Cut(C, V), NEW E, Evicted(C, E, V)
  PROVE  HostSum(E) = HostSum(C) /\ E.pool >= C.pool
<1>1. C.host \subseteq Blocks /\ C.out \subseteq Blocks /\ C.pool \in Int
  BY CacheFields DEF Sound, Sharp, Kept
<1>2. V \cap C.out = {}
  BY CutFacts DEF Sound
<1>3. PICK X, Y, Z : X = C.host \cup C.out /\ Y = V \cap C.host /\ Z = E.host \cup E.out
  OBVIOUS
<1>4. X = Y \cup Z /\ Y \cap Z = {}
  BY <1>2, <1>3 DEF Evicted
<1>5. IsFiniteSet(Y) /\ IsFiniteSet(Z)
  <2>1. Y \subseteq Blocks /\ Z \subseteq Blocks
    BY <1>1, <1>3, <1>4
  <2>2. QED BY <2>1, PrefixAssumption, FS_Subset
<1>6. Cardinality(X) = Cardinality(Y) + Cardinality(Z) /\ Cardinality(Y) \in Nat /\ Cardinality(Z) \in Nat
  <2>1. Cardinality(Y) \in Nat /\ Cardinality(Z) \in Nat
    BY <1>5, FS_CardinalityType
  <2>2. Cardinality(Y \cup Z) = Cardinality(Y) + Cardinality(Z) - Cardinality(Y \cap Z)
    BY <1>5, FS_Union
  <2>3. Cardinality(Y \cap Z) = 0
    BY <1>4, FS_EmptySet
  <2>4. QED BY <1>4, <2>1, <2>2, <2>3
<1>7. E.pool = C.pool + Cardinality(Y)
  BY <1>3 DEF Evicted
<1>8. QED BY <1>1, <1>3, <1>6, <1>7 DEF HostSum

\* By the start of copies.
LEMMA DescendHostSum ==
  ASSUME NEW C, Sound(C), NEW S \in SUBSET Blocks, S \cap (C.host \cup C.out) = {}, NEW E, Descending(C, E, S)
  PROVE  HostSum(E) = HostSum(C)
<1>1. C.host \subseteq Blocks /\ C.out \subseteq Blocks /\ C.pool \in Int
  BY CacheFields DEF Sound, Sharp, Kept
<1>3. PICK X, Z : X = C.host \cup C.out /\ Z = E.host \cup E.out
  OBVIOUS
<1>4. Z = X \cup S /\ X \cap S = {}
  BY <1>3 DEF Descending
<1>5. IsFiniteSet(X) /\ IsFiniteSet(S)
  <2>1. X \subseteq Blocks /\ S \subseteq Blocks
    BY <1>1, <1>3
  <2>2. QED BY <2>1, PrefixAssumption, FS_Subset
<1>6. Cardinality(Z) = Cardinality(X) + Cardinality(S) /\ Cardinality(X) \in Nat /\ Cardinality(S) \in Nat
  <2>1. Cardinality(X) \in Nat /\ Cardinality(S) \in Nat
    BY <1>5, FS_CardinalityType
  <2>2. Cardinality(X \cup S) = Cardinality(X) + Cardinality(S) - Cardinality(X \cap S)
    BY <1>5, FS_Union
  <2>3. Cardinality(X \cap S) = 0
    BY <1>4, FS_EmptySet
  <2>4. QED BY <1>4, <2>1, <2>2, <2>3
<1>7. E.pool = C.pool - Cardinality(S)
  BY DEF Descending
<1>8. QED BY <1>1, <1>3, <1>6, <1>7 DEF HostSum
\* Idle device blocks without a copy are in T.
Owed(C, T) == \A x \in C.dev \ (C.host \cup C.out) : C.ref[x] = 0 => x \in T

\* Idle device blocks without a copy are candidates that wait for their parent.
Settled(C) ==
  \A x \in C.dev \ (C.host \cup C.out) :
    C.ref[x] = 0 => x \in C.wt /\ Parent[x] # Root /\ Parent[x] \notin C.host \cup C.out

\* What making copies may change.
BackedUp(C, E) ==
  /\ E.dev = C.dev /\ E.slots = C.slots /\ E.ref = C.ref
  /\ E.index \subseteq C.index /\ \A x \in C.index \ E.index : C.ref[x] = 0
  /\ HostSum(E) = HostSum(C) /\ E.pool >= 0
  /\ E.err = C.err \/ E.err = "host"

\* _schedule_write_through_prefix_blocks.
LEMMA WriteThroughSound ==
  ASSUME NEW C, Sound(C), C.err # "room", C.pool >= 0, NEW released \in SUBSET Blocks, NEW E \in WriteThrough(C, released)
  PROVE  Sound(E) /\ BackedUp(C, E) /\ (Owed(C, C.wt \cup released) /\ E.err # "host" => Settled(E))
<1>1. /\ C \in CacheType /\ C.wt \subseteq Blocks /\ C.dev \subseteq Blocks /\ C.index \subseteq Blocks /\ C.pool \in Int
      /\ C.host \subseteq Blocks /\ C.out \subseteq Blocks
      /\ Resident(C) /\ C.slots \in Int
  BY CacheFields DEF Sound, Sharp, Kept
<1>2. PICK cand : cand = Candidates(C, released)
  OBVIOUS
<1>3. \A b : b \in cand <=> b \in C.wt \cup released /\ b \in C.dev \ (C.host \cup Moving(C)) /\ C.ref[b] = 0
  BY <1>2 DEF Candidates
<1>4. cand \in SUBSET Blocks
  BY <1>1, <1>3
<1>5. PICK S : S = Selected(C, cand)
  OBVIOUS
<1>6. S \in SUBSET Blocks
  BY <1>5 DEF Selected
<1>7. \A b \in Blocks : b \in S <=> b \in cand /\ (Parent[b] = Root \/ Parent[b] \in C.host \cup C.out \/ Parent[b] \in S)
  BY <1>4, <1>5, SelectedFacts
<1>8. PICK D : D = [C EXCEPT !.wt = cand]
  OBVIOUS
<1>9. Sound(D) /\ WtTwin(C, D) /\ D.wt = cand
  BY <1>4, <1>8, WtSound
<1>10. PICK n : n = Cardinality(S) /\ n \in Nat
  <2>1. IsFiniteSet(S)
    BY <1>6, PrefixAssumption, FS_Subset
  <2>2. QED BY <2>1, FS_CardinalityType
<1>11. PICK R : R = IF C.pool >= n THEN {D} ELSE {Evict(D, V) : V \in Victims(HostOnlyIn(D), D.index, n - C.pool)}
  OBVIOUS
<1>12. E \in {IF S = {} THEN F ELSE IF F.pool < n THEN Fail(F, "host")
              ELSE SubmitD2H([F EXCEPT !.wt = F.wt \ S], S) : F \in R}
  BY <1>2, <1>5, <1>8, <1>10, <1>11 DEF WriteThrough
<1>13. PICK F \in R : E = IF S = {} THEN F ELSE IF F.pool < n THEN Fail(F, "host")
                          ELSE SubmitD2H([F EXCEPT !.wt = F.wt \ S], S)
  BY <1>12
<1>14. \E V : Cut(D, V) /\ V \cap D.dev = {} /\ Sound(F) /\ Evicted(D, F, V)
  <2>1. CASE C.pool >= n
    <3>1. F = D
      BY <1>11, <2>1
    <3>2. Cut(D, {})
      BY DEF Cut
    <3>3. D.slots \in Int /\ D.pool \in Int
      BY <1>1, <1>9 DEF WtTwin
    <3>4. Evicted(D, D, {})
      <4>1. {} \cap D.dev = {} /\ {} \cap D.host = {} /\ Cardinality({}) = 0
        BY FS_EmptySet
      <4>2. QED BY <3>3, <4>1 DEF Evicted
    <3>5. QED BY <1>9, <3>1, <3>2, <3>4
  <2>2. CASE ~(C.pool >= n)
    <3>1. PICK V \in Victims(HostOnlyIn(D), D.index, n - C.pool) : F = Evict(D, V)
      BY <1>11, <2>2
    <3>2. Cut(D, V) /\ V \cap D.dev = {}
      BY <1>9, <3>1, HostVictimsCut DEF Sound
    <3>3. Sound(F) /\ Evicted(D, F, V)
      BY <1>9, <3>1, <3>2, EvictSound DEF WtTwin
    <3>4. QED BY <3>2, <3>3
  <2>3. QED BY <2>1, <2>2
<1>15. PICK V : Cut(D, V) /\ V \cap D.dev = {} /\ Sound(F) /\ Evicted(D, F, V)
  BY <1>14
<1>16. /\ V \subseteq D.index /\ V \cap D.out = {} /\ \A b \in V : D.ref[b] = 0
       /\ \A x \in D.index : Parent[x] \in V => x \in V
  BY <1>9, <1>15, CutFacts DEF Sound
<1>17. HostSum(F) = HostSum(D) /\ F.pool >= D.pool
  BY <1>9, <1>15, EvictHostSum
<1>18. /\ F.dev = C.dev /\ F.slots = C.slots /\ F.ref = C.ref /\ F.index = C.index \ V
       /\ F.host = C.host \ V /\ F.out = C.out /\ F.in = C.in /\ F.wt = cand \ V /\ F.err = C.err
       /\ HostSum(F) = HostSum(C) /\ F.pool \in Int /\ F.pool >= 0
  <2>1. V \cap D.dev = {} /\ Cardinality(V \cap D.dev) = 0
    BY <1>15, FS_EmptySet
  <2>2. F.slots = C.slots
    BY <1>1, <1>9, <1>15, <2>1 DEF Evicted, WtTwin
  <2>3. HostSum(D) = HostSum(C) /\ D.pool = C.pool
    BY <1>9 DEF HostSum, WtTwin
  <2>4. F.pool \in Int
    BY <1>15, CacheFields DEF Sound, Sharp, Kept
  <2>5. F.dev = C.dev
    BY <1>9, <1>15, <2>1 DEF Evicted, WtTwin
  <2>6. QED BY <1>1, <1>9, <1>15, <1>17, <2>2, <2>3, <2>4, <2>5 DEF Evicted, WtTwin
<1>19. /\ V \subseteq C.index /\ \A b \in V : C.ref[b] = 0
       /\ \A x \in C.index : Parent[x] \in V => x \in V
       /\ V \cap C.dev = {}
  BY <1>9, <1>15, <1>16 DEF WtTwin
<1>20. BackedUp(C, F)
  BY <1>18, <1>19 DEF BackedUp
<1>21. ASSUME Owed(C, C.wt \cup released), NEW x \in C.dev, x \notin F.host \cup F.out \cup S, F.ref[x] = 0
       PROVE  x \in F.wt \ S /\ Parent[x] # Root /\ Parent[x] \notin F.host \cup F.out \cup S
  <2>1. x \notin V /\ x \notin C.host /\ x \notin C.out /\ x \in Blocks
    BY <1>1, <1>18, <1>19, <1>21
  <2>2. x \notin C.in
    BY <1>1, <2>1 DEF Resident
  <2>3. x \in cand
    BY <1>3, <1>18, <1>21, <2>1, <2>2 DEF Owed, Moving
  <2>4. ~(Parent[x] = Root \/ Parent[x] \in C.host \cup C.out \/ Parent[x] \in S)
    BY <1>7, <1>21, <2>1, <2>3
  <2>5. QED BY <1>18, <1>21, <2>1, <2>3, <2>4
<1>22. CASE S = {}
  <2>1. E = F
    BY <1>13, <1>22
  <2>2. ASSUME Owed(C, C.wt \cup released) PROVE Settled(E)
    BY <1>18, <1>21, <1>22, <2>1, <2>2 DEF Settled
  <2>3. QED BY <1>15, <1>20, <2>1, <2>2
<1>23. CASE S # {} /\ F.pool < n
  <2>1. E = Fail(F, "host")
    BY <1>13, <1>23
  <2>2. "host" \in Errors /\ F.err # "room"
    BY <1>18 DEF Errors
  <2>3. Sound(E) /\ ErrTwin(F, E) /\ E.err = "host"
    BY <1>15, <2>1, <2>2, FailSound
  <2>4. BackedUp(C, E)
    BY <1>20, <2>3 DEF BackedUp, ErrTwin, HostSum
  <2>5. QED BY <2>3, <2>4
<1>24. CASE S # {} /\ ~(F.pool < n)
  <2>1. PICK w : w = F.wt \ S
    OBVIOUS
  <2>2. PICK H : H = [F EXCEPT !.wt = w]
    OBVIOUS
  <2>3. w \in SUBSET Blocks
    BY <1>4, <1>18, <2>1
  <2>4. Sound(H) /\ WtTwin(F, H) /\ H.wt = w
    BY <1>15, <2>2, <2>3, WtSound
  <2>5. E = SubmitD2H(H, S)
    BY <1>13, <1>24, <2>1, <2>2
  <2>6. /\ H.index = C.index \ V /\ H.dev = C.dev /\ H.host = C.host \ V /\ H.out = C.out /\ H.in = C.in
        /\ H.slots = C.slots /\ H.pool = F.pool /\ H.ref = C.ref /\ H.err = C.err /\ HostSum(H) = HostSum(C)
    BY <1>18, <2>4 DEF WtTwin, HostSum
  <2>7. \A b \in S : b \in cand /\ b \in Blocks /\ b \in C.dev /\ b \notin C.host /\ b \notin C.out /\ b \notin C.in /\ b \notin V /\ b \in C.index
    <3>1. \A b \in S : b \in cand /\ b \in Blocks
      BY <1>6, <1>7
    <3>2. C.dev \subseteq C.index
      BY <1>1 DEF Resident
    <3>3. QED BY <1>3, <1>19, <3>1, <3>2 DEF Moving
  <2>8. S \in SUBSET H.index /\ S \subseteq H.dev /\ S \cap (H.host \cup Moving(H)) = {} /\ S \cap (H.host \cup H.out) = {}
    BY <2>6, <2>7 DEF Moving
  <2>9. \A b \in S : Parent[b] = Root \/ Parent[b] \in H.host \cup H.out \cup S
    <3>1. \A b \in S : Parent[b] \notin V
      BY <1>19, <2>7
    <3>2. QED BY <1>7, <2>6, <2>7, <3>1
  <2>10. Sound(E) /\ Descending(H, E, S)
    BY <2>4, <2>5, <2>8, <2>9, SubmitD2HSound
  <2>11. HostSum(E) = HostSum(C)
    BY <1>6, <2>4, <2>6, <2>8, <2>10, DescendHostSum
  <2>12. E.pool >= 0
    <3>1. E.pool = F.pool - n
      BY <1>10, <2>6, <2>10 DEF Descending
    <3>2. QED BY <1>10, <1>18, <1>24, <3>1
  <2>13. BackedUp(C, E)
    BY <1>19, <2>6, <2>10, <2>11, <2>12 DEF BackedUp, Descending
  <2>14. ASSUME Owed(C, C.wt \cup released) PROVE Settled(E)
    <3>1. E.dev = C.dev /\ E.host = F.host /\ E.out = F.out \cup S /\ E.ref = F.ref /\ E.wt = F.wt \ S
      BY <1>18, <2>1, <2>4, <2>6, <2>10 DEF Descending
    <3>2. QED BY <1>21, <2>14, <3>1 DEF Settled
  <2>15. QED BY <2>10, <2>13, <2>14
<1>25. QED BY <1>22, <1>23, <1>24
-----------------------------------------------------------------------------
(* Device slots *)

\* Slots that are free or hold an indexed block.
DevSum(C) == C.slots + Cardinality(C.dev)

\* A set that splits in two.
LEMMA SplitCount ==
  ASSUME NEW X, NEW Y \in SUBSET Blocks, NEW Z \in SUBSET Blocks, X = Y \cup Z, Y \cap Z = {}
  PROVE  Cardinality(X) = Cardinality(Y) + Cardinality(Z) /\ Cardinality(Y) \in Nat /\ Cardinality(Z) \in Nat
<1>1. IsFiniteSet(Y) /\ IsFiniteSet(Z)
  BY PrefixAssumption, FS_Subset
<1>2. Cardinality(Y) \in Nat /\ Cardinality(Z) \in Nat
  BY <1>1, FS_CardinalityType
<1>3. Cardinality(Y \cup Z) = Cardinality(Y) + Cardinality(Z) - Cardinality(Y \cap Z)
  BY <1>1, FS_Union
<1>4. Cardinality(Y \cap Z) = 0
  BY FS_EmptySet
<1>5. QED BY <1>2, <1>3, <1>4

\* An eviction conserves them.
LEMMA EvictDevSum ==
  ASSUME NEW C, Sound(C), NEW V, NEW E, Evicted(C, E, V)
  PROVE  DevSum(E) = DevSum(C) /\ E.slots >= C.slots
<1>1. C.dev \subseteq Blocks /\ C.slots \in Int
  BY CacheFields DEF Sound, Sharp, Kept
<1>2. PICK Y, Z : Y = V \cap C.dev /\ Z = E.dev
  OBVIOUS
<1>3. Y \in SUBSET Blocks /\ Z \in SUBSET Blocks /\ C.dev = Y \cup Z /\ Y \cap Z = {}
  BY <1>1, <1>2 DEF Evicted
<1>4. Cardinality(C.dev) = Cardinality(Y) + Cardinality(Z) /\ Cardinality(Y) \in Nat /\ Cardinality(Z) \in Nat
  BY <1>3, SplitCount
<1>5. E.slots = C.slots + Cardinality(Y)
  BY <1>2 DEF Evicted
<1>6. QED BY <1>1, <1>2, <1>4, <1>5 DEF DevSum

\* So does a demotion.
LEMMA DemoteDevSum ==
  ASSUME NEW C, Sound(C), NEW V, V \subseteq C.dev, NEW E, Demoted(C, E, V)
  PROVE  DevSum(E) = DevSum(C) /\ E.slots >= C.slots
<1>1. C.dev \subseteq Blocks /\ C.slots \in Int
  BY CacheFields DEF Sound, Sharp, Kept
<1>2. PICK Z : Z = E.dev
  OBVIOUS
<1>3. V \in SUBSET Blocks /\ Z \in SUBSET Blocks /\ C.dev = V \cup Z /\ V \cap Z = {}
  BY <1>1, <1>2 DEF Demoted
<1>4. Cardinality(C.dev) = Cardinality(V) + Cardinality(Z) /\ Cardinality(V) \in Nat /\ Cardinality(Z) \in Nat
  BY <1>3, SplitCount
<1>5. E.slots = C.slots + Cardinality(V)
  BY DEF Demoted
<1>6. QED BY <1>1, <1>2, <1>4, <1>5 DEF DevSum

\* So does the start of copies to the device.
LEMMA AscendDevSum ==
  ASSUME NEW C, Sound(C), NEW S \in SUBSET Blocks, S \cap C.dev = {}, NEW E, Ascending(C, E, S)
  PROVE  DevSum(E) = DevSum(C) /\ E.slots = C.slots - Cardinality(S) /\ Cardinality(S) \in Nat
<1>1. C.dev \subseteq Blocks /\ C.slots \in Int
  BY CacheFields DEF Sound, Sharp, Kept
<1>2. PICK Z : Z = C.dev
  OBVIOUS
<1>3. Z \in SUBSET Blocks /\ E.dev = Z \cup S /\ Z \cap S = {}
  BY <1>1, <1>2 DEF Ascending
<1>4. Cardinality(E.dev) = Cardinality(Z) + Cardinality(S) /\ Cardinality(S) \in Nat /\ Cardinality(Z) \in Nat
  BY <1>3, SplitCount
<1>5. E.slots = C.slots - Cardinality(S)
  BY DEF Ascending
<1>6. QED BY <1>1, <1>2, <1>4, <1>5 DEF DevSum

\* An inserted block takes over a slot that was private.
LEMMA InsertDevSum ==
  ASSUME NEW C, Sound(C), NEW b \in Blocks, b \notin C.dev, NEW E, Inserted(C, E, b)
  PROVE  DevSum(E) = DevSum(C) + 1
<1>1. C.dev \subseteq Blocks /\ C.slots \in Int
  BY CacheFields DEF Sound, Sharp, Kept
<1>2. PICK Z, B : Z = C.dev /\ B = {b}
  OBVIOUS
<1>3. Z \in SUBSET Blocks /\ B \in SUBSET Blocks /\ E.dev = Z \cup B /\ Z \cap B = {} /\ E.slots = C.slots
  BY <1>1, <1>2 DEF Inserted
<1>4. Cardinality(E.dev) = Cardinality(Z) + Cardinality(B) /\ Cardinality(B) \in Nat /\ Cardinality(Z) \in Nat
  <2>1. PICK X : X = E.dev
    OBVIOUS
  <2>2. Z \in SUBSET Blocks /\ B \in SUBSET Blocks /\ X = Z \cup B /\ Z \cap B = {}
    BY <1>3, <2>1
  <2>3. Cardinality(X) = Cardinality(Z) + Cardinality(B) /\ Cardinality(Z) \in Nat /\ Cardinality(B) \in Nat
    BY <2>2, SplitCount, ZenonT(30)
  <2>4. QED BY <2>1, <2>3
<1>5. Cardinality(B) = 1
  BY <1>2, FS_Singleton
<1>6. QED BY <1>1, <1>2, <1>3, <1>4, <1>5 DEF DevSum

\* What making room in the index may change.
MadeRoom(C, E) ==
  /\ E.ref = C.ref
  /\ E.index \subseteq C.index /\ \A x \in C.index \ E.index : C.ref[x] = 0
  /\ E.dev \subseteq C.dev /\ \A x \in C.dev \ E.dev : C.ref[x] = 0
  /\ DevSum(E) = DevSum(C) /\ E.slots >= C.slots
  /\ HostSum(E) = HostSum(C) /\ E.pool >= C.pool
  /\ conf.max = 0 => E = C
  /\ E.err = C.err \/ (E.err = "room" /\ conf.max # 0)

\* ensure_insert_capacity.
LEMMA RoomForSound ==
  ASSUME NEW C, Sound(C), C.err # "room", NEW n, NEW E \in RoomFor(C, n)
  PROVE  Sound(E) /\ MadeRoom(C, E)
<1>1. C.slots \in Int /\ C.pool \in Int
  BY CacheFields DEF Sound, Sharp, Kept
<1>2. PICK over : over = IF conf.max = 0 THEN 0 ELSE Cardinality(C.index) + n - conf.max
  OBVIOUS
<1>3. E \in IF over <= 0 THEN {C}
            ELSE {IF Cardinality(V) = over THEN Evict(C, V) ELSE Fail(RemoveAll(C, V), "room") :
                    V \in Victims(FreeableIn(C), C.index, over)}
  BY <1>2 DEF RoomFor
<1>4. CASE over <= 0
  BY <1>1, <1>3, <1>4 DEF MadeRoom
<1>5. CASE ~(over <= 0)
  <2>1. PICK V \in Victims(FreeableIn(C), C.index, over) :
          E = IF Cardinality(V) = over THEN Evict(C, V) ELSE Fail(RemoveAll(C, V), "room")
    BY <1>3, <1>5
  <2>2. Cut(C, V)
    BY <2>1, VictimsCut
  <2>3. conf.max # 0
    BY <1>2, <1>5
  <2>4. V \subseteq C.index /\ \A b \in V : C.ref[b] = 0
    BY <2>2, CutFacts DEF Sound
  <2>5. CASE Cardinality(V) = over
    <3>1. Sound(E) /\ Evicted(C, E, V)
      BY <2>1, <2>2, <2>5, EvictSound
    <3>2. DevSum(E) = DevSum(C) /\ E.slots >= C.slots
      BY <3>1, EvictDevSum
    <3>3. HostSum(E) = HostSum(C) /\ E.pool >= C.pool
      BY <2>2, <3>1, EvictHostSum
    <3>4. QED BY <2>3, <2>4, <3>1, <3>2, <3>3 DEF MadeRoom, Evicted
  <2>6. CASE Cardinality(V) # over
    <3>1. /\ Sound(E) /\ E.err = "room" /\ E.index = C.index \ V /\ E.dev = C.dev /\ E.host = C.host
          /\ E.ref = C.ref /\ E.slots = C.slots /\ E.pool = C.pool /\ E.out = C.out /\ E.in = C.in
      BY <2>1, <2>2, <2>6, RoomFailSound
    <3>2. DevSum(E) = DevSum(C) /\ HostSum(E) = HostSum(C)
      BY <3>1 DEF DevSum, HostSum
    <3>3. QED BY <1>1, <2>3, <2>4, <3>1, <3>2 DEF MadeRoom
  <2>7. QED BY <2>5, <2>6
<1>6. QED BY <1>4, <1>5
-----------------------------------------------------------------------------
(* Sums along a queue *)

Flying(f) == Along(LAMBDA a, n : a + n, 0, f)

\* The sum, element by element.
LEMMA FlyingRun ==
  ASSUME NEW f \in Seq(Nat)
  PROVE  \E at : /\ Flying(f) = at[Len(f)] /\ at[0] = 0
                 /\ \A i \in 1..Len(f) : at[i] = at[i - 1] + f[i]
                 /\ \A i \in 0..Len(f) : at[i] \in Nat
<1>1. PICK n : n = Len(f) /\ n \in Nat /\ \A i \in 1..n : f[i] \in Nat
  OBVIOUS
<1>2. PICK h : h = [p \in (1..n) \X Nat |-> p[2] + f[p[1]]]
  OBVIOUS
<1>3. \A i \in 1..n : \A y \in Nat : h[<<i, y>>] = y + f[i]
  BY <1>2
<1>4. ASSUME NEW i \in 1..n, NEW y \in Nat PROVE h[<<i, y>>] \in Nat
  <2>1. h[<<i, y>>] = y + f[i] /\ f[i] \in Nat
    BY <1>1, <1>3
  <2>2. QED BY <2>1
<1> DEFINE Runs(g) == g = [i \in 0..n |-> IF i = 0 THEN 0 ELSE g[i - 1] + f[i]]
<1>5. \E g : Runs(g)
  <2>1. PICK g : RunsTo(g, n, 0, h) /\ \A i \in 0..n : g[i] \in Nat
    BY <1>1, <1>4, RunExists
  <2>2. \A i \in 0..n : i # 0 => i \in 1..n /\ i - 1 \in 0..n
    BY <1>1
  <2>3. \A i \in 0..n : (IF i = 0 THEN 0 ELSE h[<<i, g[i - 1]>>]) = (IF i = 0 THEN 0 ELSE g[i - 1] + f[i])
    BY <1>3, <2>1, <2>2
  <2>4. Runs(g)
    BY <2>1, <2>3 DEF RunsTo
  <2>5. QED BY <2>4
<1>6. PICK at : at = CHOOSE g : Runs(g)
  OBVIOUS
<1>7. Flying(f) = at[n]
  BY <1>1, <1>6 DEF Along, Flying
<1>8. Runs(at)
  BY <1>5, <1>6
<1>9. \A i \in 1..n : i \in 0..n /\ i # 0
  BY <1>1
<1>10. at[0] = 0 /\ \A i \in 1..n : at[i] = at[i - 1] + f[i]
  BY <1>1, <1>8, <1>9, SMTT(30)
<1>11. \A i \in 0..n : at[i] \in Nat
  <2>1. PICK G : G = {i \in 0..n : at[i] \in Nat}
    OBVIOUS
  <2>2. 0 \in G /\ \A k \in 1..n : k - 1 \in G => k \in G
    <3>1. ASSUME NEW k \in 1..n, k - 1 \in G PROVE k \in G
      <4>1. at[k - 1] \in Nat /\ f[k] \in Nat /\ at[k] = at[k - 1] + f[k] /\ k \in 0..n
        BY <1>1, <1>9, <1>10, <2>1, <3>1
      <4>2. QED BY <2>1, <4>1
    <3>2. QED BY <1>1, <1>10, <2>1, <3>1
  <2>3. \A k \in 0..n : k \in G
    BY <1>1, <2>2, StepInduction
  <2>4. QED BY <2>1, <2>3
<1>12. QED BY <1>1, <1>7, <1>10, <1>11

\* What a queue of forwards adds up to as forwards join and leave.
LEMMA FlyingFacts ==
  /\ Flying(<<>>) = 0
  /\ \A f \in Seq(Nat) : Flying(f) \in Nat
  /\ \A f \in Seq(Nat) : \A n \in Nat : Flying(Append(f, n)) = Flying(f) + n
  /\ \A f \in Seq(Nat) : f # <<>> => Flying(f) = Flying(Tail(f)) + Head(f)
<1>1. Flying(<<>>) = 0
  <2>0. <<>> \in Seq(Nat) /\ Len(<<>>) = 0
    OBVIOUS
  <2>1. PICK e : e = <<>> /\ e \in Seq(Nat) /\ Len(e) = 0
    BY <2>0
  <2>2. PICK at : Flying(e) = at[Len(e)] /\ at[0] = 0
    BY <2>1, FlyingRun
  <2>3. QED BY <2>1, <2>2
<1>2. ASSUME NEW f \in Seq(Nat) PROVE Flying(f) \in Nat
  <2>1. PICK at : Flying(f) = at[Len(f)] /\ \A i \in 0..Len(f) : at[i] \in Nat
    BY FlyingRun
  <2>2. Len(f) \in 0..Len(f)
    OBVIOUS
  <2>3. QED BY <2>1, <2>2
<1>3. ASSUME NEW f \in Seq(Nat), NEW n \in Nat PROVE Flying(Append(f, n)) = Flying(f) + n
  <2>1. PICK g : g = Append(f, n)
    OBVIOUS
  <2>2. PICK m : m = Len(f) /\ m \in Nat
    OBVIOUS
  <2>3. g \in Seq(Nat) /\ Len(g) = m + 1 /\ g[m + 1] = n /\ \A i \in 1..m : g[i] = f[i]
    BY <2>1, <2>2
  <2>4. PICK at : /\ Flying(f) = at[m] /\ at[0] = 0 /\ \A i \in 1..m : at[i] = at[i - 1] + f[i]
    BY <2>2, FlyingRun
  <2>5. PICK bt : /\ Flying(g) = bt[m + 1] /\ bt[0] = 0 /\ \A i \in 1..(m + 1) : bt[i] = bt[i - 1] + g[i]
    <3>1. \E bt : Flying(g) = bt[Len(g)] /\ bt[0] = 0 /\ \A i \in 1..Len(g) : bt[i] = bt[i - 1] + g[i]
      BY <2>3, FlyingRun, ZenonT(30)
    <3>2. QED BY <2>3, <3>1
  <2>6. PICK G : G = {i \in 0..m : bt[i] = at[i]}
    OBVIOUS
  <2>7. 0 \in G /\ \A k \in 1..m : k - 1 \in G => k \in G
    <3>1. ASSUME NEW k \in 1..m, k - 1 \in G PROVE k \in G
      <4>1. k \in 1..(m + 1) /\ k \in 0..m
        BY <2>2
      <4>2. bt[k] = bt[k - 1] + f[k] /\ at[k] = at[k - 1] + f[k] /\ bt[k - 1] = at[k - 1]
        BY <2>3, <2>4, <2>5, <2>6, <3>1, <4>1
      <4>3. QED BY <2>6, <4>1, <4>2
    <3>2. QED BY <2>2, <2>4, <2>5, <2>6, <3>1
  <2>8. \A k \in 0..m : k \in G
    BY <2>2, <2>7, StepInduction
  <2>9. bt[m] = at[m]
    BY <2>2, <2>6, <2>8
  <2>10. m + 1 \in 1..(m + 1) /\ (m + 1) - 1 = m
    BY <2>2
  <2>11. bt[m + 1] = bt[m] + n
    BY <2>3, <2>5, <2>10
  <2>12. QED BY <2>1, <2>4, <2>5, <2>9, <2>11
<1>4. ASSUME NEW f \in Seq(Nat), f # <<>> PROVE Flying(f) = Flying(Tail(f)) + Head(f)
  <2>1. PICK t, m, x : t = Tail(f) /\ m = Len(f) - 1 /\ x = Head(f)
    OBVIOUS
  <2>2. /\ m \in Nat /\ t \in Seq(Nat) /\ Len(t) = m /\ Len(f) = m + 1 /\ x = f[1] /\ x \in Nat
        /\ \A i \in 1..m : t[i] = f[i + 1] /\ t[i] \in Nat
    BY <1>4, <2>1
  <2>4. PICK at : /\ Flying(f) = at[m + 1] /\ at[0] = 0 /\ \A i \in 1..(m + 1) : at[i] = at[i - 1] + f[i]
    <3>1. \E at : Flying(f) = at[Len(f)] /\ at[0] = 0 /\ \A i \in 1..Len(f) : at[i] = at[i - 1] + f[i]
      BY FlyingRun
    <3>2. QED BY <2>2, <3>1
  <2>5. PICK bt : /\ Flying(t) = bt[m] /\ bt[0] = 0 /\ \A i \in 1..m : bt[i] = bt[i - 1] + t[i]
                  /\ \A i \in 0..m : bt[i] \in Nat
    BY <2>2, FlyingRun
  <2>6. PICK G : G = {i \in 0..m : at[i + 1] = bt[i] + x}
    OBVIOUS
  <2>7. 0 \in G
    <3>1. 1 \in 1..(m + 1) /\ 0 \in 0..m
      BY <2>2
    <3>2. at[1] = at[0] + f[1]
      BY <2>4, <3>1
    <3>3. QED BY <2>2, <2>4, <2>5, <2>6, <3>1, <3>2
  <2>8. ASSUME NEW k \in 1..m, k - 1 \in G PROVE k \in G
    <3>1. k + 1 \in 1..(m + 1) /\ k \in 0..m /\ (k + 1) - 1 = k /\ (k - 1) + 1 = k /\ k - 1 \in 0..m
      BY <2>2
    <3>2. at[k + 1] = at[k] + f[k + 1]
      BY <2>4, <3>1
    <3>3. at[k] = bt[k - 1] + x
      BY <2>6, <2>8, <3>1
    <3>4. bt[k] = bt[k - 1] + f[k + 1] /\ f[k + 1] \in Nat /\ bt[k - 1] \in Nat
      BY <2>2, <2>5, <3>1
    <3>5. at[k + 1] = bt[k] + x
      BY <2>2, <3>2, <3>3, <3>4, SMTT(30)
    <3>6. QED BY <2>6, <3>1, <3>5
  <2>9. \A k \in 0..m : k \in G
    BY <2>2, <2>7, <2>8, StepInduction
  <2>10. at[m + 1] = bt[m] + x
    BY <2>2, <2>6, <2>9
  <2>11. QED BY <2>1, <2>4, <2>5, <2>10
<1>5. QED BY <1>1, <1>2, <1>3, <1>4

Weight(q) == Along(LAMBDA a, S : a + Cardinality(S), 0, q)

\* Batches that share no block hold as many as they have together.
LEMMA WeightFacts ==
  ASSUME NEW q \in Seq(SUBSET Blocks), Disjoint(q)
  PROVE  Weight(q) = Cardinality(UNION Range(q))
<1>1. PICK n : n = Len(q) /\ n \in Nat /\ \A i \in 1..n : q[i] \in SUBSET Blocks
  OBVIOUS
<1>2. PICK h : h = [p \in (1..n) \X Nat |-> p[2] + Cardinality(q[p[1]])]
  OBVIOUS
<1>3. \A i \in 1..n : \A y \in Nat : h[<<i, y>>] = y + Cardinality(q[i])
  BY <1>2
<1>4. \A i \in 1..n : Cardinality(q[i]) \in Nat
  BY <1>1, PrefixAssumption, FS_Subset, FS_CardinalityType
<1>a. ASSUME NEW i \in 1..n, NEW y \in Nat PROVE h[<<i, y>>] \in Nat
  <2>1. h[<<i, y>>] = y + Cardinality(q[i]) /\ Cardinality(q[i]) \in Nat
    BY <1>3, <1>4
  <2>2. QED BY <2>1
<1> DEFINE Runs(g) == g = [i \in 0..n |-> IF i = 0 THEN 0 ELSE g[i - 1] + Cardinality(q[i])]
<1>5. \E g : Runs(g)
  <2>1. PICK g : RunsTo(g, n, 0, h) /\ \A i \in 0..n : g[i] \in Nat
    BY <1>1, <1>a, RunExists
  <2>2. \A i \in 0..n : i # 0 => i \in 1..n /\ i - 1 \in 0..n
    BY <1>1
  <2>3. \A i \in 0..n : (IF i = 0 THEN 0 ELSE h[<<i, g[i - 1]>>]) = (IF i = 0 THEN 0 ELSE g[i - 1] + Cardinality(q[i]))
    BY <1>3, <2>1, <2>2
  <2>4. Runs(g)
    BY <2>1, <2>3 DEF RunsTo
  <2>5. QED BY <2>4
<1>6. PICK at : at = CHOOSE g : Runs(g)
  OBVIOUS
<1>7. Weight(q) = at[n]
  BY <1>1, <1>6 DEF Along, Weight
<1>8. Runs(at)
  BY <1>5, <1>6
<1>9. \A i \in 1..n : i \in 0..n /\ i # 0
  BY <1>1
<1>10. at[0] = 0 /\ \A i \in 1..n : at[i] = at[i - 1] + Cardinality(q[i])
  BY <1>1, <1>8, <1>9
<1>11. PICK G : G = {i \in 0..n : at[i] = Cardinality(UNION First(q, i))}
  OBVIOUS
<1>12. 0 \in G
  <2>1. First(q, 0) = {}
    BY <1>1, FirstFacts
  <2>2. UNION First(q, 0) = {}
    BY <2>1
  <2>a. Cardinality({}) = 0
    BY FS_EmptySet
  <2>3. Cardinality(UNION First(q, 0)) = 0
    BY <2>2, <2>a, Zenon
  <2>b. 0 \in 0..n
    BY <1>1
  <2>4. QED BY <1>10, <1>11, <2>3, <2>b
<1>13. ASSUME NEW k \in 1..n, k - 1 \in G PROVE k \in G
  <2>1. First(q, k) = First(q, k - 1) \cup {q[k]}
    BY <1>1, FirstFacts
  <2>2. PICK X, Y, Z : X = UNION First(q, k) /\ Y = UNION First(q, k - 1) /\ Z = q[k]
    OBVIOUS
  <2>3. \A j \in 1..(k - 1) : j \in 1..n /\ j # k
    BY <1>1
  <2>4. Y \in SUBSET Blocks /\ Z \in SUBSET Blocks
    BY <1>1, <2>2, <2>3 DEF First
  <2>5. Y \cap Z = {}
    <3>1. \A j \in 1..(k - 1) : q[j] \cap q[k] = {}
      BY <1>1, <2>3 DEF Disjoint
    <3>2. QED BY <2>2, <3>1 DEF First
  <2>6. X = Y \cup Z
    BY <2>1, <2>2
  <2>7. Cardinality(X) = Cardinality(Y) + Cardinality(Z)
    BY <2>4, <2>5, <2>6, SplitCount
  <2>8. at[k] = at[k - 1] + Cardinality(Z) /\ at[k - 1] = Cardinality(Y) /\ k \in 0..n
    BY <1>9, <1>10, <1>11, <1>13, <2>2
  <2>9. QED BY <1>11, <2>2, <2>7, <2>8
<1>14. \A k \in 0..n : k \in G
  BY <1>1, <1>12, <1>13, StepInduction
<1>15. First(q, n) = Range(q)
  BY <1>1, FirstFacts
<1>16. QED BY <1>1, <1>7, <1>11, <1>14, <1>15
-----------------------------------------------------------------------------
(* Paths of requests *)

Between(r, i, j) == {Path[r][k] : k \in i..j}

\* A request's path goes down the tree and meets no block twice.
LEMMA PathFacts ==
  ASSUME NEW r \in Requests
  PROVE  /\ Path[r] \in Seq(Blocks) /\ Len(Path[r]) \in Nat /\ Prompt[r] \in 1..Len(Path[r])
         /\ \A i \in 1..Len(Path[r]) :
              Path[r][i] \in Blocks /\ Parent[Path[r][i]] = (IF i = 1 THEN Root ELSE Path[r][i - 1])
         /\ \A i, j \in 1..Len(Path[r]) : Path[r][i] = Path[r][j] => i = j
<1>1. PICK p, n : p = Path[r] /\ n = Len(Path[r])
  OBVIOUS
<1>2. p \in Seq(Blocks) /\ n = Len(p) /\ n \in Nat /\ DOMAIN p = 1..n
  BY <1>1, PrefixAssumption
<1>3. \A i \in 1..n : p[i] \in Blocks /\ Parent[p[i]] = (IF i = 1 THEN Root ELSE p[i - 1])
  <2>1. \A i \in DOMAIN Path[r] : Parent[Path[r][i]] = (IF i = 1 THEN Root ELSE Path[r][i - 1])
    BY PrefixAssumption
  <2>2. \A i \in 1..n : Parent[p[i]] = (IF i = 1 THEN Root ELSE p[i - 1])
    BY <1>1, <1>2, <2>1
  <2>3. QED BY <1>2, <2>2
<1>4. PICK level : Levels(level)
  BY LevelsExist
<1>5. Cardinality(Blocks) \in Nat
  BY PrefixAssumption, FS_CardinalityType
<1>6. \A b \in Blocks : level[b] \in Nat
  BY <1>4, <1>5 DEF Levels
<1>7. \A i \in 1..n : i # 1 => level[p[i - 1]] < level[p[i]]
  <2>1. ASSUME NEW i \in 1..n, i # 1 PROVE level[p[i - 1]] < level[p[i]]
    <3>1. i - 1 \in 1..n
      BY <1>2, <2>1
    <3>2. Parent[p[i]] = p[i - 1] /\ p[i] \in Blocks /\ p[i - 1] \in Blocks
      BY <1>3, <2>1, <3>1
    <3>3. Parent[p[i]] # Root
      BY <3>2, PrefixAssumption
    <3>4. QED BY <1>4, <3>2, <3>3 DEF Levels
  <2>2. QED BY <2>1
<1>8. PICK G : G = {k \in 0..n : \A i \in 1..n : i < k => level[p[i]] < level[p[k]]}
  OBVIOUS
<1>9. 0 \in G
  BY <1>2, <1>8
<1>10. ASSUME NEW k \in 1..n, k - 1 \in G PROVE k \in G
  <2>1. SUFFICES ASSUME NEW i \in 1..n, i < k PROVE level[p[i]] < level[p[k]]
    BY <1>2, <1>8
  <2>2. k # 1 /\ k - 1 \in 1..n
    BY <1>2, <2>1
  <2>3. level[p[k - 1]] < level[p[k]]
    BY <1>7, <2>2
  <2>4. p[i] \in Blocks /\ p[k] \in Blocks /\ p[k - 1] \in Blocks
    BY <1>3, <2>2
  <2>5. CASE i = k - 1
    BY <2>3, <2>5
  <2>6. CASE i < k - 1
    <3>1. level[p[i]] < level[p[k - 1]]
      BY <1>8, <1>10, <2>6
    <3>2. QED BY <1>6, <2>3, <2>4, <3>1
  <2>7. QED BY <1>2, <2>1, <2>5, <2>6
<1>11. \A k \in 0..n : k \in G
  BY <1>2, <1>9, <1>10, StepInduction
<1>12. ASSUME NEW i \in 1..n, NEW j \in 1..n, p[i] = p[j] PROVE i = j
  <2>1. i \in 0..n /\ j \in 0..n
    BY <1>2
  <2>2. i < j => level[p[i]] < level[p[j]]
    BY <1>8, <1>11, <2>1
  <2>3. j < i => level[p[j]] < level[p[i]]
    BY <1>8, <1>11, <2>1
  <2>4. level[p[i]] \in Nat
    BY <1>3, <1>6
  <2>5. QED BY <1>2, <1>12, <2>2, <2>3, <2>4
<1>13. Prompt[r] \in 1..n
  BY <1>1, PrefixAssumption
<1>14. QED BY <1>1, <1>2, <1>3, <1>12, <1>13

\* A set that holds the parents of its blocks holds a path up to each of them.
LEMMA PathClosed ==
  ASSUME NEW r \in Requests, NEW S, Closed(S), NEW k \in 1..Len(Path[r]), Path[r][k] \in S
  PROVE  \A i \in 1..k : Path[r][i] \in S
<1>1. PICK p, n : p = Path[r] /\ n = Len(Path[r])
  OBVIOUS
<1>2. /\ n \in Nat /\ k \in 1..n /\ p[k] \in S
      /\ \A i \in 1..n : p[i] \in Blocks /\ Parent[p[i]] = (IF i = 1 THEN Root ELSE p[i - 1])
  BY <1>1, PathFacts
<1>3. PICK G : G = {j \in 0..(k - 1) : p[k - j] \in S}
  OBVIOUS
<1>4. 0 \in G
  BY <1>2, <1>3
<1>5. ASSUME NEW j \in 1..(k - 1), j - 1 \in G PROVE j \in G
  <2>1. PICK i : i = k - (j - 1)
    OBVIOUS
  <2>2. i \in 1..n /\ i # 1 /\ i - 1 = k - j /\ p[i] \in S /\ j \in 0..(k - 1) /\ i - 1 \in 1..n
    BY <1>2, <1>3, <1>5, <2>1
  <2>3. Parent[p[i]] = p[i - 1] /\ p[i - 1] \in Blocks
    BY <1>2, <2>2
  <2>4. p[i - 1] # Root
    BY <2>3, PrefixAssumption
  <2>5. p[i - 1] \in S
    BY <2>2, <2>3, <2>4 DEF Closed
  <2>6. QED BY <1>3, <2>2, <2>5
<1>6. k - 1 \in Nat
  BY <1>2
<1>7. \A j \in 0..(k - 1) : j \in G
  BY <1>4, <1>5, <1>6, StepInduction
<1>8. ASSUME NEW i \in 1..k PROVE p[i] \in S
  <2>1. k - i \in 0..(k - 1) /\ k - (k - i) = i
    BY <1>2
  <2>2. QED BY <1>3, <1>7, <2>1
<1>9. QED BY <1>1, <1>8

Part(r, i, j) == SubSeq(Path[r], i, j)
PartOK(s, r, i, j) ==
  /\ s \in Seq(Blocks) /\ Range(s) = Between(r, i, j) /\ IsInjective(s) /\ Len(s) = j - i + 1
  /\ \A k \in 1..Len(s) : i + k - 1 \in i..j /\ s[k] = Path[r][i + k - 1]

\* Part of a path.
LEMMA PathPart ==
  ASSUME NEW r \in Requests, NEW i \in Nat \ {0}, NEW j \in Int, i <= j + 1, j <= Len(Path[r]),
         NEW s, s = Part(r, i, j)
  PROVE  PartOK(s, r, i, j)
<1>1. PICK p, n : p = Path[r] /\ n = Len(Path[r])
  OBVIOUS
<1>2. /\ p \in Seq(Blocks) /\ n = Len(p) /\ n \in Nat /\ j <= n
      /\ \A a, b \in 1..n : p[a] = p[b] => a = b
      /\ \A a \in 1..n : p[a] \in Blocks
  BY <1>1, PathFacts
<1>3. s = SubSeq(p, i, j)
  BY <1>1 DEF Part
<1>4. /\ Len(s) = j - i + 1 /\ Len(s) \in Nat /\ DOMAIN s = 1..Len(s)
      /\ \A k \in 1..Len(s) : s[k] = p[i + k - 1]
  BY <1>2, <1>3
<1>5. \A k \in 1..Len(s) : i + k - 1 \in i..j /\ i + k - 1 \in 1..n
  BY <1>2, <1>4
<1>6. s \in Seq(Blocks)
  <2>1. \A k \in 1..Len(s) : s[k] \in Blocks
    BY <1>2, <1>4, <1>5
  <2>2. s = [k \in 1..Len(s) |-> s[k]]
    BY <1>3, <1>4, SMTT(30)
  <2>3. QED BY <1>2, <1>3, <1>4, <2>1, <2>2
<1>7. IsInjective(s)
  <2>1. ASSUME NEW k \in 1..Len(s), NEW l \in 1..Len(s), s[k] = s[l] PROVE k = l
    <3>1. i + k - 1 = i + l - 1
      BY <1>2, <1>4, <1>5, <2>1
    <3>2. QED BY <1>4, <3>1
  <2>2. QED BY <1>4, <2>1 DEF IsInjective
<1>8. Range(s) = Between(r, i, j)
  <2>1. ASSUME NEW m \in i..j PROVE p[m] \in Range(s)
    <3>1. m - i + 1 \in 1..Len(s) /\ i + (m - i + 1) - 1 = m
      BY <1>2, <1>4
    <3>2. s[m - i + 1] = p[m]
      BY <1>4, <3>1
    <3>3. QED BY <1>4, <3>1, <3>2 DEF Range
  <2>2. ASSUME NEW x \in Range(s) PROVE \E m \in i..j : x = p[m]
    <3>1. PICK k \in 1..Len(s) : x = s[k]
      BY <1>4 DEF Range
    <3>2. i + k - 1 \in i..j /\ x = p[i + k - 1]
      BY <1>4, <1>5, <3>1
    <3>3. QED BY <3>2
  <2>3. QED BY <1>1, <2>1, <2>2 DEF Between
<1>9. QED BY <1>1, <1>4, <1>5, <1>6, <1>7, <1>8 DEF PartOK
-----------------------------------------------------------------------------
(* Publication *)

ReqType == [st : {"idle", "wait", "decode"}, replay : BOOLEAN, hit : Nat, att : Nat, pos : Nat,
            held : SUBSET Blocks, priv : Int, fwd : Seq(Nat \ {0})]
PubType == [c : CacheType, q : ReqType]

\* An insertion keeps the type.
LEMMA InsertType == ASSUME NEW C \in CacheType, NEW b \in Blocks PROVE Insert(C, b) \in CacheType
<1>1. /\ C.index \subseteq Blocks /\ C.dev \subseteq Blocks /\ C.ref \in [Blocks -> Int] /\ C.kids \in [Blocks -> Int]
  BY CacheFields
<1>2. PICK p : p = Parent[b] /\ p \in Blocks \cup {Root}
  BY PrefixAssumption
<1>3. PICK d : d = IF C.built /\ p # Root THEN [C.kids EXCEPT ![p] = C.kids[p] + 1] ELSE C.kids
  OBVIOUS
<1>4. d \in [Blocks -> Int]
  BY <1>1, <1>2, <1>3
<1>5. PICK i, v, f : i = C.index \cup {b} /\ v = C.dev \cup {b} /\ f = [C.ref EXCEPT ![b] = 1]
  OBVIOUS
<1>6. i \in SUBSET Blocks /\ v \in SUBSET Blocks /\ f \in [Blocks -> Int]
  BY <1>1, <1>5
<1>7. PICK D : D = [C EXCEPT !.index = i, !.dev = v, !.ref = f, !.kids = d]
  OBVIOUS
<1>8. D \in CacheType
  BY <1>4, <1>6, <1>7 DEF CacheType
<1>9. PICK E : E = Refresh(Refresh(D, b), p)
  OBVIOUS
<1>10. E \in CacheType
  <2>1. Refresh(D, b) \in CacheType
    BY <1>8, RefreshType
  <2>2. QED BY <1>2, <1>9, <2>1, RefreshType
<1>11. Insert(C, b) = IF p = Root \/ Blocked(C, p) THEN E ELSE Mutated(E)
  BY <1>2, <1>3, <1>5, <1>7, <1>9 DEF Insert
<1>12. QED BY <1>10, <1>11, MutatedType

\* Publishing a block keeps the types.
LEMMA PublishType == ASSUME NEW S \in PubType, NEW b \in Blocks PROVE PublishBlock(S, b) \in PubType
<1>1. S.c \in CacheType /\ S.q \in ReqType /\ S.q.held \subseteq Blocks /\ S.q.priv \in Int
  BY DEF PubType, ReqType
<1>2. PICK m, p : m = S.q.held \cup {b} /\ p = S.q.priv - 1
  OBVIOUS
<1>3. m \in SUBSET Blocks /\ p \in Int
  BY <1>1, <1>2
<1>4. [S.q EXCEPT !.held = m] \in ReqType /\ [S.q EXCEPT !.held = m, !.priv = p] \in ReqType
  BY <1>1, <1>3 DEF ReqType
<1>5. Acquire(S.c, b) \in CacheType /\ Insert(S.c, b) \in CacheType
  BY <1>1, BlockTypes, InsertType
<1>6. ASSUME NEW e \in Errors PROVE Fail(S.c, e) \in CacheType
  BY <1>1 DEF Fail, CacheType
<1>7. "missing" \in Errors /\ "parent" \in Errors
  BY DEF Errors
<1>8. ASSUME NEW C \in CacheType PROVE [S EXCEPT !.c = C] \in PubType
  BY DEF PubType
<1>9. [S EXCEPT !.c = Fail(S.c, "missing")] \in PubType /\ [S EXCEPT !.c = Fail(S.c, "parent")] \in PubType
  BY <1>6, <1>7, <1>8
<1>10. /\ [c |-> Acquire(S.c, b), q |-> [S.q EXCEPT !.held = m]] \in PubType
       /\ [c |-> Insert(S.c, b), q |-> [S.q EXCEPT !.held = m, !.priv = p]] \in PubType
  BY <1>4, <1>5 DEF PubType
<1>11. QED BY <1>2, <1>9, <1>10 DEF PublishBlock

Publishes(X, s) == Along(PublishBlock, X, s)

\* Publication, block by block.
LEMMA PublishRun ==
  ASSUME NEW X \in PubType, NEW s \in Seq(Blocks)
  PROVE  \E at : Publishes(X, s) = at[Len(s)] /\ at[0] = X /\ \A i \in 1..Len(s) : at[i] = PublishBlock(at[i - 1], s[i])
<1>1. PICK n : n = Len(s) /\ n \in Nat /\ \A i \in 1..n : s[i] \in Blocks
  OBVIOUS
<1>2. PICK h : h = [p \in (1..n) \X PubType |-> PublishBlock(p[2], s[p[1]])]
  OBVIOUS
<1>3. \A i \in 1..n : \A y \in PubType : h[<<i, y>>] = PublishBlock(y, s[i])
  BY <1>2
<1>4. \A i \in 1..n : \A y \in PubType : h[<<i, y>>] \in PubType
  BY <1>1, <1>3, PublishType
<1> DEFINE Runs(f) == f = [i \in 0..n |-> IF i = 0 THEN X ELSE PublishBlock(f[i - 1], s[i])]
<1>5. \E f : Runs(f)
  <2>1. PICK f : RunsTo(f, n, X, h) /\ \A i \in 0..n : f[i] \in PubType
    BY <1>1, <1>4, RunExists
  <2>2. \A i \in 0..n : i # 0 => i \in 1..n /\ i - 1 \in 0..n
    BY <1>1
  <2>3. \A i \in 0..n : (IF i = 0 THEN X ELSE h[<<i, f[i - 1]>>]) = (IF i = 0 THEN X ELSE PublishBlock(f[i - 1], s[i]))
    BY <1>3, <2>1, <2>2
  <2>4. Runs(f)
    BY <2>1, <2>3 DEF RunsTo
  <2>5. QED BY <2>4
<1>6. PICK at : at = CHOOSE f : Runs(f)
  OBVIOUS
<1>7. Publishes(X, s) = at[n]
  BY <1>1, <1>6 DEF Along, Publishes
<1>8. Runs(at)
  BY <1>5, <1>6
<1>9. \A i \in 1..n : i \in 0..n /\ i # 0
  BY <1>1
<1>10. at[0] = X /\ \A i \in 1..n : at[i] = PublishBlock(at[i - 1], s[i])
  BY <1>1, <1>8, <1>9
<1>11. QED BY <1>1, <1>7, <1>10

\* One reference more.
LEMMA AcquireSound ==
  ASSUME NEW C, Sound(C), NEW b \in C.index, NEW E, E = Acquire(C, b)
  PROVE  Sound(E) /\ RefTwin(C, E) /\ E.ref = [C.ref EXCEPT ![b] = C.ref[b] + 1]
<1>1. Sharp(C) /\ C.ref \in [Blocks -> Int] /\ C.index \subseteq Blocks
  BY CacheFields DEF Sound, Sharp, Kept
<1>2. C.ref[b] + 1 \in Int /\ E = SetRef(C, b, C.ref[b] + 1)
  BY <1>1 DEF Acquire
<1>3. /\ Sharp(E)
      /\ E.index = C.index /\ E.dev = C.dev /\ E.host = C.host /\ E.pinned = C.pinned
      /\ E.out = C.out /\ E.in = C.in /\ E.wt = C.wt /\ E.ref = [C.ref EXCEPT ![b] = C.ref[b] + 1]
      /\ E.slots = C.slots /\ E.pool = C.pool /\ E.down = C.down /\ E.up = C.up /\ E.err = C.err
  BY <1>1, <1>2, SetRefSharp
<1>4. RefTwin(C, E)
  BY <1>3 DEF RefTwin
<1>5. QED BY <1>3, <1>4, RefTwinSound
One(x, S) == IF x \in S THEN 1 ELSE 0

\* What a publication starts from: the blocks Prot that it holds are those of
\* the batch and their parents that the index had (I) before room was made.
PubStart(C, base, I, Prot, q, s) ==
  /\ Sound(C) /\ C.err \in {"none", "room"}
  /\ base \in [Blocks -> Nat] /\ \A x \in Blocks \ I : base[x] = 0
  /\ Prot \subseteq C.index /\ C.index \subseteq I
  /\ \A x \in Blocks : C.ref[x] = base[x] + One(x, Prot)
  /\ q \in ReqType /\ s \in Seq(Blocks) /\ IsInjective(s) /\ Range(s) \cap q.held = {}
  /\ \A b \in Range(s) : (b \in I => b \in Prot) /\ (Parent[b] \in I => Parent[b] \in Prot)

\* The same request but for what it owns.
SameRequest(q, p) ==
  p.st = q.st /\ p.replay = q.replay /\ p.hit = q.hit /\ p.att = q.att /\ p.pos = q.pos /\ p.fwd = q.fwd

\* After the first k blocks of s.
PubInv(C, base, Prot, q, s, k, D, p) ==
  /\ Sound(D) /\ p \in ReqType /\ SameRequest(q, p)
  /\ C.index \subseteq D.index /\ D.index \subseteq C.index \cup (p.held \ q.held)
  /\ C.dev \subseteq D.dev /\ D.dev \subseteq C.dev \cup (p.held \ q.held)
  /\ q.held \subseteq p.held /\ p.held \subseteq q.held \cup First(s, k) /\ p.held \ q.held \subseteq D.index
  /\ \A x \in Blocks : D.ref[x] = base[x] + One(x, Prot) + One(x, p.held \ q.held)
  /\ p.priv <= q.priv /\ q.priv - k <= p.priv /\ DevSum(D) + p.priv = DevSum(C) + q.priv
  /\ D.slots = C.slots /\ D.pool = C.pool /\ D.host = C.host /\ D.out = C.out /\ D.wt = C.wt
  /\ D.err = C.err \/ D.err \in {"missing", "parent"}

\* One block.
LEMMA PublishStep ==
  ASSUME NEW C, NEW base, NEW I, NEW Prot, NEW q, NEW s, PubStart(C, base, I, Prot, q, s),
         NEW k \in 1..Len(s), NEW S \in PubType, PubInv(C, base, Prot, q, s, k - 1, S.c, S.q),
         NEW E, E = PublishBlock(S, s[k])
  PROVE  PubInv(C, base, Prot, q, s, k, E.c, E.q)
<1>1. PICK D, p, b : D = S.c /\ p = S.q /\ b = s[k]
  OBVIOUS
<1>2. PubInv(C, base, Prot, q, s, k - 1, D, p) /\ D \in CacheType /\ p \in ReqType
  BY <1>1 DEF PubType
<1>3. /\ s \in Seq(Blocks) /\ IsInjective(s) /\ b \in Blocks /\ b \in Range(s) /\ k \in Nat \ {0}
      /\ First(s, k) = First(s, k - 1) \cup {b} /\ b \notin First(s, k - 1)
  BY <1>1, FirstFacts DEF PubStart
<1>4. /\ q \in ReqType /\ q.priv \in Int /\ p.priv \in Int /\ p.held \subseteq Blocks /\ D.ref \in [Blocks -> Int]
      /\ D.index \subseteq Blocks /\ D.dev \subseteq Blocks /\ D.slots \in Int /\ C.slots \in Int
      /\ base \in [Blocks -> Nat]
  BY <1>2, CacheFields DEF PubStart, ReqType, Sound, Sharp, Kept
<1>5. b \notin p.held /\ b \notin q.held
  BY <1>2, <1>3 DEF PubInv, PubStart
<1>6. p.priv <= q.priv /\ q.priv - k <= p.priv - 1 /\ q.priv - k <= p.priv /\ p.priv - 1 <= q.priv
  BY <1>2, <1>3, <1>4, SMTT(30) DEF PubInv
<1>7. DevSum(C) \in Int /\ DevSum(D) \in Int
  <2>1. C.dev \subseteq Blocks
    BY CacheFields DEF PubStart, Sound, Sharp, Kept
  <2>2. IsFiniteSet(C.dev) /\ IsFiniteSet(D.dev)
    BY <1>4, <2>1, PrefixAssumption, FS_Subset
  <2>3. QED BY <1>4, <2>2, FS_CardinalityType DEF DevSum
<1>8. CASE D.err # "none"
  <2>1. E.c = D /\ E.q = p
    BY <1>1, <1>8 DEF PublishBlock
  <2>2. QED BY <1>2, <1>3, <1>6, <2>1 DEF PubInv
<1>9. CASE D.err = "none" /\ b \in D.index
  <2>1. PICK m, F : m = p.held \cup {b} /\ F = Acquire(D, b)
    OBVIOUS
  <2>2. PICK o : o = [p EXCEPT !.held = m]
    OBVIOUS
  <2>3. E = [c |-> F, q |-> o]
    BY <1>1, <1>9, <2>1, <2>2 DEF PublishBlock
  <2>4. Sound(F) /\ RefTwin(D, F) /\ F.ref = [D.ref EXCEPT ![b] = D.ref[b] + 1]
    <3>1. Sound(D) /\ b \in D.index /\ F = Acquire(D, b)
      BY <1>2, <1>9, <2>1 DEF PubInv
    <3>2. QED BY <3>1, AcquireSound
  <2>5. /\ o \in ReqType /\ o.held = m /\ o.priv = p.priv /\ SameRequest(p, o)
    BY <1>2, <1>3, <1>4, <2>1, <2>2 DEF ReqType, SameRequest
  <2>6. m \ q.held = (p.held \ q.held) \cup {b}
    BY <1>5, <2>1
  <2>7. \A x \in Blocks : F.ref[x] = base[x] + One(x, Prot) + One(x, m \ q.held)
    <3>1. ASSUME NEW x \in Blocks PROVE F.ref[x] = base[x] + One(x, Prot) + One(x, m \ q.held)
      <4>1. D.ref[x] = base[x] + One(x, Prot) + One(x, p.held \ q.held)
        BY <1>2 DEF PubInv
      <4>2. CASE x = b
        <5>1. F.ref[x] = D.ref[x] + 1 /\ One(x, m \ q.held) = 1 /\ One(x, p.held \ q.held) = 0
          BY <1>4, <1>5, <2>4, <2>6, <4>2 DEF One
        <5>2. base[x] \in Nat /\ One(x, Prot) \in Nat
          BY <1>4 DEF One
        <5>3. QED BY <4>1, <5>1, <5>2
      <4>3. CASE x # b
        BY <1>4, <2>4, <2>6, <4>1, <4>3 DEF One
      <4>4. QED BY <4>2, <4>3
    <3>2. QED BY <3>1
  <2>8. SameRequest(q, o)
    BY <1>2, <2>5 DEF PubInv, SameRequest
  <2>9. DevSum(F) = DevSum(D)
    BY <2>4 DEF RefTwin, DevSum
  <2>10. PubInv(C, base, Prot, q, s, k, F, o)
    <3>1. /\ C.index \subseteq F.index /\ F.index \subseteq C.index \cup (m \ q.held)
          /\ C.dev \subseteq F.dev /\ F.dev \subseteq C.dev \cup (m \ q.held)
          /\ q.held \subseteq m /\ m \subseteq q.held \cup First(s, k) /\ m \ q.held \subseteq F.index
      BY <1>2, <1>3, <1>9, <2>1, <2>4, <2>6 DEF PubInv, RefTwin
    <3>2. /\ F.slots = C.slots /\ F.pool = C.pool /\ F.host = C.host /\ F.out = C.out /\ F.wt = C.wt
          /\ F.err = C.err \/ F.err \in {"missing", "parent"}
          /\ DevSum(F) + o.priv = DevSum(C) + q.priv
      BY <1>2, <2>4, <2>5, <2>9 DEF PubInv, RefTwin
    <3>3. QED BY <1>6, <2>4, <2>5, <2>7, <2>8, <3>1, <3>2 DEF PubInv
  <2>11. E.c = F /\ E.q = o
    BY <2>3
  <2>12. QED BY <2>10, <2>11
<1>10. ASSUME NEW e \in Errors, e \in {"missing", "parent"}, D.err = "none", E = [S EXCEPT !.c = Fail(D, e)]
       PROVE  PubInv(C, base, Prot, q, s, k, E.c, E.q)
  <2>1. PICK F : F = Fail(D, e)
    OBVIOUS
  <2>2. Sound(F) /\ ErrTwin(D, F) /\ F.err = e
    BY <1>2, <1>10, <2>1, FailSound DEF PubInv
  <2>3. DevSum(F) = DevSum(D)
    BY <2>2 DEF ErrTwin, DevSum
  <2>4. PubInv(C, base, Prot, q, s, k, F, p)
    BY <1>2, <1>3, <1>6, <1>10, <2>2, <2>3, ZenonT(30) DEF PubInv, ErrTwin
  <2>5. E.c = F /\ E.q = p
    BY <1>1, <1>10, <2>1 DEF PubType
  <2>6. QED BY <2>4, <2>5
<1>11. CASE D.err = "none" /\ b \notin D.index
  <2>1. CASE Parent[b] # Root /\ Parent[b] \notin D.index
    <3>1. "missing" \in Errors /\ E = [S EXCEPT !.c = Fail(D, "missing")]
      BY <1>1, <1>11, <2>1 DEF PublishBlock, Errors
    <3>2. QED BY <1>10, <1>11, <3>1
  <2>2. CASE ~(Parent[b] # Root /\ Parent[b] \notin D.index) /\ Parent[b] # Root /\ Parent[b] \notin D.dev
    <3>1. "parent" \in Errors /\ E = [S EXCEPT !.c = Fail(D, "parent")]
      BY <1>1, <1>11, <2>2 DEF PublishBlock, Errors
    <3>2. QED BY <1>10, <1>11, <3>1
  <2>3. CASE Parent[b] = Root \/ (Parent[b] \in D.index /\ Parent[b] \in D.dev)
    <3>1. PICK m, F, v : m = p.held \cup {b} /\ F = Insert(D, b) /\ v = p.priv - 1
      OBVIOUS
    <3>2. PICK o : o = [p EXCEPT !.held = m, !.priv = v]
      OBVIOUS
    <3>3. E = [c |-> F, q |-> o]
      BY <1>1, <1>11, <2>3, <3>1, <3>2 DEF PublishBlock
    <3>4. o \in ReqType /\ o.held = m /\ o.priv = v /\ SameRequest(p, o) /\ v \in Int
      <4>1. m \in SUBSET Blocks /\ v \in Int
        BY <1>3, <1>4, <3>1, SMTT(30)
      <4>2. QED BY <1>2, <3>2, <4>1 DEF ReqType, SameRequest
    <3>5. m \ q.held = (p.held \ q.held) \cup {b}
      BY <1>5, <3>1
    <3>6. b \notin I /\ b \notin Prot /\ base[b] = 0
      <4>1. b \notin Prot
        BY <1>2, <1>11 DEF PubInv, PubStart
      <4>2. b \notin I
        BY <1>3, <4>1 DEF PubStart
      <4>3. QED BY <1>3, <4>1, <4>2 DEF PubStart
    <3>7. Placeable(D, b)
      <4>1. b \notin D.dev
        BY <1>2, <1>11 DEF PubInv, Sound, Resident
      <4>2. ASSUME Parent[b] # Root PROVE D.ref[Parent[b]] # 0
        <5>1. Parent[b] \in Blocks /\ Parent[b] \in D.index
          BY <1>4, <2>3, <4>2
        <5>2. Parent[b] \in Prot \/ Parent[b] \in p.held \ q.held
          BY <1>2, <1>3, <5>1 DEF PubInv, PubStart
        <5>3. D.ref[Parent[b]] = base[Parent[b]] + One(Parent[b], Prot) + One(Parent[b], p.held \ q.held)
          BY <1>2, <5>1 DEF PubInv
        <5>4. base[Parent[b]] \in Nat
          BY <1>4, <5>1
        <5>5. QED BY <5>2, <5>3, <5>4 DEF One
      <4>3. QED BY <1>3, <1>11, <2>3, <4>1, <4>2 DEF Placeable
    <3>8. Sound(F) /\ Inserted(D, F, b)
      BY <1>2, <3>1, <3>7, InsertSound DEF PubInv
    <3>9. \A x \in Blocks : F.ref[x] = base[x] + One(x, Prot) + One(x, m \ q.held)
      <4>1. ASSUME NEW x \in Blocks PROVE F.ref[x] = base[x] + One(x, Prot) + One(x, m \ q.held)
        <5>1. D.ref[x] = base[x] + One(x, Prot) + One(x, p.held \ q.held)
          BY <1>2 DEF PubInv
        <5>2. CASE x = b
          <6>1. F.ref[x] = 1 /\ One(x, m \ q.held) = 1 /\ One(x, Prot) = 0 /\ base[x] = 0
            BY <1>4, <3>5, <3>6, <3>8, <5>2 DEF One, Inserted
          <6>2. QED BY <6>1
        <5>3. CASE x # b
          <6>1. F.ref[x] = D.ref[x] /\ One(x, m \ q.held) = One(x, p.held \ q.held)
            BY <1>4, <3>5, <3>8, <5>3 DEF One, Inserted
          <6>2. QED BY <5>1, <6>1
        <5>4. QED BY <5>2, <5>3
      <4>2. QED BY <4>1
    <3>10. DevSum(F) = DevSum(D) + 1
      BY <1>2, <1>3, <3>7, <3>8, InsertDevSum DEF PubInv, Placeable
    <3>11. DevSum(F) + v = DevSum(C) + q.priv
      <4>1. DevSum(D) + p.priv = DevSum(C) + q.priv
        BY <1>2 DEF PubInv
      <4>2. QED BY <1>4, <1>7, <3>1, <3>10, <4>1, SMTT(30)
    <3>12. SameRequest(q, o)
      BY <1>2, <3>4 DEF PubInv, SameRequest
    <3>13. /\ C.index \subseteq F.index /\ F.index \subseteq C.index \cup (m \ q.held)
           /\ C.dev \subseteq F.dev /\ F.dev \subseteq C.dev \cup (m \ q.held)
           /\ q.held \subseteq m /\ m \subseteq q.held \cup First(s, k) /\ m \ q.held \subseteq F.index
      BY <1>2, <1>3, <3>1, <3>5, <3>8 DEF PubInv, Inserted
    <3>14. /\ F.slots = C.slots /\ F.pool = C.pool /\ F.host = C.host /\ F.out = C.out /\ F.wt = C.wt
           /\ F.err = C.err \/ F.err \in {"missing", "parent"}
      BY <1>2, <3>8 DEF PubInv, Inserted
    <3>15. v <= q.priv /\ q.priv - k <= v
      BY <1>6, <3>1
    <3>16. PubInv(C, base, Prot, q, s, k, F, o)
      BY <3>4, <3>8, <3>9, <3>11, <3>12, <3>13, <3>14, <3>15 DEF PubInv
    <3>17. E.c = F /\ E.q = o
      BY <3>3
    <3>18. QED BY <3>16, <3>17
  <2>4. QED BY <2>1, <2>2, <2>3
<1>12. QED BY <1>8, <1>9, <1>11
\* All blocks of a batch.
LEMMA PublishAll ==
  ASSUME NEW C, NEW base, NEW I, NEW Prot, NEW q, NEW s, PubStart(C, base, I, Prot, q, s),
         NEW S, S = Publishes([c |-> C, q |-> q], s)
  PROVE  PubInv(C, base, Prot, q, s, Len(s), S.c, S.q)
<1>1. C \in CacheType /\ q \in ReqType /\ s \in Seq(Blocks) /\ q.priv \in Int /\ base \in [Blocks -> Nat]
  BY DEF PubStart, Sound, Sharp, Kept, ReqType
<1>2. PICK X : X = [c |-> C, q |-> q]
  OBVIOUS
<1>3. X \in PubType /\ X.c = C /\ X.q = q
  BY <1>1, <1>2 DEF PubType
<1>4. PICK at : Publishes(X, s) = at[Len(s)] /\ at[0] = X /\ \A i \in 1..Len(s) : at[i] = PublishBlock(at[i - 1], s[i])
  BY <1>1, <1>3, PublishRun
<1>5. PICK n : n = Len(s) /\ n \in Nat /\ \A i \in 1..n : s[i] \in Blocks
  BY <1>1
<1> DEFINE Fine(k) == at[k] \in PubType /\ PubInv(C, base, Prot, q, s, k, at[k].c, at[k].q)
<1>6. Fine(0)
  <2>1. q.held \ q.held = {} /\ First(s, 0) = {}
    BY <1>1, FirstFacts
  <2>2. \A x : One(x, q.held \ q.held) = 0
    BY DEF One
  <2>3. \A x \in Blocks : C.ref[x] = base[x] + One(x, Prot) + One(x, q.held \ q.held)
    <3>1. \A x \in Blocks : C.ref[x] = base[x] + One(x, Prot) /\ base[x] \in Nat /\ One(x, Prot) \in Nat
      BY <1>1 DEF PubStart, One
    <3>2. ASSUME NEW x \in Blocks PROVE C.ref[x] = base[x] + One(x, Prot) + One(x, q.held \ q.held)
      <4>1. C.ref[x] = base[x] + One(x, Prot) /\ base[x] \in Nat /\ One(x, Prot) \in Nat /\ One(x, q.held \ q.held) = 0
        BY <2>2, <3>1
      <4>2. QED BY <4>1
    <3>3. QED BY <3>2
  <2>4. PubInv(C, base, Prot, q, s, 0, C, q)
    <3>1. q.priv <= q.priv /\ q.priv - 0 <= q.priv
      BY <1>1
    <3>2. q.held \subseteq q.held \cup First(s, 0) /\ q.held \ q.held \subseteq C.index
      OBVIOUS
    <3>3. Sound(C) /\ SameRequest(q, q)
      BY DEF PubStart, SameRequest
    <3>4. QED BY <1>1, <2>3, <3>1, <3>2, <3>3 DEF PubInv
  <2>5. QED BY <1>3, <1>4, <2>4
<1>7. ASSUME NEW k \in 1..n, Fine(k - 1) PROVE Fine(k)
  <2>1. PICK Y : Y = at[k - 1]
    OBVIOUS
  <2>2. Y \in PubType /\ PubInv(C, base, Prot, q, s, k - 1, Y.c, Y.q) /\ at[k] = PublishBlock(Y, s[k]) /\ k \in 1..Len(s)
    BY <1>4, <1>5, <1>7, <2>1
  <2>3. at[k] \in PubType
    BY <1>5, <2>2, PublishType
  <2>4. PubInv(C, base, Prot, q, s, k, at[k].c, at[k].q)
    BY <2>2, PublishStep
  <2>5. QED BY <2>3, <2>4
<1>8. Fine(n)
  <2> HIDE DEF Fine
  <2>a. PICK G : G = {k \in 0..n : Fine(k)}
    OBVIOUS
  <2>1. 0 \in G /\ \A k \in 1..n : k - 1 \in G => k \in G
    <3>1. \A k \in 1..n : k \in 0..n
      BY <1>5
    <3>2. QED BY <1>5, <1>6, <1>7, <2>a, <3>1
  <2>2. n \in G
    <3>1. \A k \in 0..n : k \in G
      BY <1>5, <2>1, StepInduction
    <3>2. QED BY <1>5, <3>1
  <2>3. QED BY <2>a, <2>2
<1>9. QED BY <1>2, <1>4, <1>5, <1>8

\* References of a set of blocks.
LEMMA AcquireAllSound ==
  ASSUME NEW C, Sound(C), NEW s \in Seq(Blocks), IsInjective(s), Range(s) \subseteq C.index, NEW E, E = AcquireAll(C, s)
  PROVE  Sound(E) /\ RefTwin(C, E) /\ \A x \in Blocks : E.ref[x] = C.ref[x] + One(x, Range(s))
<1>1. Sharp(C) /\ C.ref \in [Blocks -> Int]
  BY CacheFields DEF Sound, Sharp, Kept
<1>2. /\ Sharp(E) /\ RefTwin(C, E)
      /\ \A x \in Blocks : E.ref[x] = IF x \in Range(s) THEN C.ref[x] + 1 ELSE C.ref[x]
  BY <1>1, AcquireAllSharp
<1>3. Sound(E)
  BY <1>2, RefTwinSound
<1>4. QED BY <1>1, <1>2, <1>3 DEF One

\* And their release.
LEMMA ReleaseAllSound ==
  ASSUME NEW C, Sound(C), NEW s \in Seq(Blocks), IsInjective(s), Range(s) \subseteq C.index, NEW E, E = ReleaseAll(C, s)
  PROVE  Sound(E) /\ RefTwin(C, E) /\ \A x \in Blocks : E.ref[x] = C.ref[x] - One(x, Range(s))
<1>1. Sharp(C) /\ C.ref \in [Blocks -> Int]
  BY CacheFields DEF Sound, Sharp, Kept
<1>2. /\ Sharp(E) /\ RefTwin(C, E)
      /\ \A x \in Blocks : E.ref[x] = IF x \in Range(s) THEN C.ref[x] - 1 ELSE C.ref[x]
  BY <1>1, ReleaseAllSharp
<1>3. Sound(E)
  BY <1>2, RefTwinSound
<1>4. QED BY <1>1, <1>2, <1>3 DEF One
-----------------------------------------------------------------------------
(* The invariant *)

\* The blocks a request attached to, and those it holds.
Root2Att(q, r) == Range(SubSeq(Path[r], 1, q.att))
Grip(q, r) == q.held \cup Root2Att(q, r)
Holders(Q, x) == {r \in Requests : x \in Grip(Q[r], r)}
Private(Q) == [r \in Requests |-> Q[r].priv]
PrivSum(Q) == SumFunctionOnSet(Private(Q), Requests)

\* A request by itself: it has read hit tokens from the cache and written the
\* rest, of which those in flight are not published.
Fit(q, r) ==
  /\ q \in ReqType
  /\ q.att <= q.hit
  /\ q.hit + Flying(q.fwd) <= q.pos
  /\ q.pos <= Len(Path[r])
  /\ q.held \subseteq Between(r, q.hit + 1, q.pos - Flying(q.fwd))
  /\ Flying(q.fwd) <= q.priv /\ q.priv <= q.pos - q.hit
  /\ q.att # q.hit => q.att = 0 /\ q.pos = q.hit

\* A request and the cache: what it holds is there, a hit that it has not
\* attached to is in the batch and still indexed.
Anchored(C, J, q, r) ==
  /\ q.att # q.hit =>
       /\ J.pc \in {"plan", "attach", "promote"}
       /\ \E k \in DOMAIN J.batch : J.batch[k].r = r /\ k >= J.i
       /\ C.err = "none" => Range(SubSeq(Path[r], 1, q.hit)) \subseteq C.index
  /\ Root2Att(q, r) \subseteq C.dev \/ (J.pc = "promote" /\ r = J.batch[J.i].r)
  /\ Grip(q, r) \subseteq C.index

\* The step being prepared.
Steady(C, Q, J) ==
  /\ J = [pc |-> J.pc, batch |-> J.batch, i |-> J.i, budget |-> J.budget, step |-> J.step, charged |-> J.charged]
  /\ J.pc \in {"idle", "plan", "attach", "promote", "take", "decode"}
  /\ J.batch \in Seq([r : Requests, n : Nat \ {0}])
  /\ Len(J.batch) <= MaxBatch
  /\ J.i \in 1..MaxBatch /\ J.step \in Int
  /\ \A k, l \in DOMAIN J.batch : J.batch[k].r = J.batch[l].r => k = l
  /\ J.pc \in {"attach", "promote", "take"} => J.i <= Len(J.batch)
  /\ J.pc = "plan" => C.err = "none" /\ J.i = 1
  /\ J.pc # "idle" /\ C.err = "none" =>
       \A k \in DOMAIN J.batch : (J.pc = "take" => k >= J.i) =>
         Q[J.batch[k].r].pos + J.batch[k].n <= Len(Path[J.batch[k].r])
  /\ J.pc = "promote" /\ C.err = "none" => Q[J.batch[J.i].r].att = Q[J.batch[J.i].r].hit

\* Slots, host memory and references add up.
Ledger(K, C, Q) ==
  /\ C.slots >= 0 /\ C.pool >= 0
  /\ DevSum(C) + PrivSum(Q) = NumSlots
  /\ HostSum(C) = K.host
  /\ C.err = "room" => K.host = 0
  /\ \A x \in Blocks : C.ref[x] = Cardinality(Holders(Q, x))

\* With offload nothing idle is left without a copy while the engine runs.
Backed(K, C) == K.host # 0 /\ C.err = "none" => Settled(C)

\* The cache, the requests and the job together.
Core(K, C, Q, J) ==
  /\ K \in Confs /\ Sound(C) /\ Q \in [Requests -> ReqType]
  /\ \A r \in Requests : Fit(Q[r], r) /\ Anchored(C, J, Q[r], r)
  /\ Steady(C, Q, J)
  /\ Ledger(K, C, Q)

Invariant(K, C, Q, J) == Core(K, C, Q, J) /\ Backed(K, C)

PrefixInv == Invariant(conf, cache, req, job)

\* Counting holders when one request changes.
LEMMA HoldersChange ==
  ASSUME NEW Q \in [Requests -> ReqType], NEW r \in Requests, NEW q \in ReqType, NEW x,
         NEW R, R = [Q EXCEPT ![r] = q]
  PROVE  /\ Cardinality(Holders(R, x)) = Cardinality(Holders(Q, x)) - One(x, Grip(Q[r], r)) + One(x, Grip(q, r))
         /\ Cardinality(Holders(Q, x)) \in Nat
         /\ x \in Grip(Q[r], r) => Cardinality(Holders(Q, x)) >= 1
<1>1. PICK A, B, T : A = Holders(Q, x) /\ B = Holders(R, x) /\ T = {s \in Requests : s # r /\ x \in Grip(Q[s], s)}
  OBVIOUS
<1>2. R[r] = q /\ \A s \in Requests : s # r => R[s] = Q[s]
  OBVIOUS
<1>3. A = (IF x \in Grip(Q[r], r) THEN T \cup {r} ELSE T) /\ B = (IF x \in Grip(q, r) THEN T \cup {r} ELSE T) /\ r \notin T
  BY <1>1, <1>2 DEF Holders
<1>4. IsFiniteSet(T)
  BY <1>1, PrefixAssumption, FS_Subset
<1>5. Cardinality(T) \in Nat /\ Cardinality(T \cup {r}) = Cardinality(T) + 1
  BY <1>3, <1>4, FS_CardinalityType, FS_AddElement
<1>6. Cardinality(A) = Cardinality(T) + One(x, Grip(Q[r], r)) /\ Cardinality(B) = Cardinality(T) + One(x, Grip(q, r))
  <2>1. x \in Grip(Q[r], r) => Cardinality(A) = Cardinality(T) + 1
    BY <1>3, <1>5
  <2>2. x \notin Grip(Q[r], r) => Cardinality(A) = Cardinality(T)
    BY <1>3
  <2>3. x \in Grip(q, r) => Cardinality(B) = Cardinality(T) + 1
    BY <1>3, <1>5
  <2>4. x \notin Grip(q, r) => Cardinality(B) = Cardinality(T)
    BY <1>3
  <2>5. QED BY <1>5, <2>1, <2>2, <2>3, <2>4 DEF One
<1>7. One(x, Grip(Q[r], r)) \in {0, 1} /\ One(x, Grip(q, r)) \in {0, 1} /\ (x \in Grip(Q[r], r) => One(x, Grip(Q[r], r)) = 1)
  BY DEF One
<1>8. QED BY <1>1, <1>5, <1>6, <1>7

\* The sum of private slots when one request changes.
LEMMA PrivateChange ==
  ASSUME NEW Q \in [Requests -> ReqType], NEW r \in Requests, NEW q \in ReqType, NEW R, R = [Q EXCEPT ![r] = q]
  PROVE  PrivSum(R) = PrivSum(Q) - Q[r].priv + q.priv /\ PrivSum(Q) \in Int
<1>1. PICK f, h : f = Private(Q) /\ h = Private(R)
  OBVIOUS
<1>2. \A s \in Requests : Q[s].priv \in Int /\ f[s] = Q[s].priv /\ h[s] = R[s].priv
  BY <1>1 DEF ReqType, Private
<1>3. IsFiniteSet(Requests) /\ Weights(f, Requests)
  BY <1>2, PrefixAssumption DEF Weights
<1>4. h[r] = q.priv /\ q.priv \in Int /\ \A s \in Requests : s # r => h[s] = f[s]
  BY <1>2 DEF ReqType
<1>5. SumFunctionOnSet(h, Requests) = SumFunctionOnSet(f, Requests) - f[r] + h[r]
  BY <1>3, <1>4, SumChange
<1>6. SumFunctionOnSet(f, Requests) \in Int
  BY <1>3, SumFacts
<1>7. QED BY <1>1, <1>2, <1>4, <1>5, <1>6 DEF PrivSum

\* What a request holds is referenced.
LEMMA HeldCounted ==
  ASSUME NEW K, NEW C, NEW Q, NEW J, Core(K, C, Q, J)
  PROVE  /\ \A x \in Blocks : C.ref[x] \in Nat
         /\ \A r \in Requests : \A x \in Grip(Q[r], r) : x \in C.index /\ x \in Blocks /\ C.ref[x] >= 1
         /\ \A x \in Blocks \ C.index : C.ref[x] = 0
<1>1. /\ Q \in [Requests -> ReqType] /\ \A x \in Blocks : C.ref[x] = Cardinality(Holders(Q, x))
      /\ \A r \in Requests : Grip(Q[r], r) \subseteq C.index
  BY DEF Core, Ledger, Anchored
<1>2. C.index \subseteq Blocks
  BY CacheFields DEF Core, Sound, Sharp, Kept
<1>3. \A x \in Blocks : IsFiniteSet(Holders(Q, x))
  BY PrefixAssumption, FS_Subset DEF Holders
<1>4. \A x \in Blocks : C.ref[x] \in Nat
  BY <1>1, <1>3, FS_CardinalityType
<1>5. ASSUME NEW r \in Requests, NEW x \in Grip(Q[r], r) PROVE x \in C.index /\ x \in Blocks /\ C.ref[x] >= 1
  <2>1. x \in C.index /\ x \in Blocks
    BY <1>1, <1>2, <1>5
  <2>2. Q[r] \in ReqType
    BY <1>1
  <2>3. Cardinality(Holders(Q, x)) >= 1
    <3>1. PICK R, q : q = Q[r] /\ R = [Q EXCEPT ![r] = q]
      OBVIOUS
    <3>2. QED BY <1>1, <1>5, <2>2, <3>1, HoldersChange
  <2>4. QED BY <1>1, <2>1, <2>3
<1>6. ASSUME NEW x \in Blocks \ C.index PROVE C.ref[x] = 0
  <2>1. Holders(Q, x) = {}
    BY <1>1, <1>6 DEF Holders
  <2>2. Cardinality({}) = 0
    BY FS_EmptySet
  <2>3. QED BY <1>1, <1>6, <2>1, <2>2
<1>7. QED BY <1>4, <1>5, <1>6

\* A cache that serves the same requests.
Serves(C, E) ==
  /\ Sound(E) /\ E.ref = C.ref
  /\ E.slots >= 0 /\ E.pool >= 0 /\ DevSum(E) = DevSum(C) /\ HostSum(E) = HostSum(C)
  /\ \A x \in C.index \ E.index : C.ref[x] = 0
  /\ \A x \in C.dev \ E.dev : C.ref[x] = 0
  /\ E.err = "none" => C.err = "none"

\* Nobody waits to attach to a hit.
AllAttached(Q) == \A r \in Requests : Q[r].att = Q[r].hit

\* Such a cache may replace the other.
LEMMA CacheStep ==
  ASSUME NEW K, NEW C, NEW Q, NEW J, Core(K, C, Q, J), NEW E, Serves(C, E),
         C.index \subseteq E.index \/ AllAttached(Q) \/ E.err # "none",
         J.pc = "plan" => E.err = "none",
         E.err = "room" => K.host = 0
  PROVE  Core(K, E, Q, J)
<1>1. \A r \in Requests : \A x \in Grip(Q[r], r) : x \in C.index /\ x \in Blocks /\ C.ref[x] >= 1
  BY HeldCounted
<1>2. \A r \in Requests : \A x \in Grip(Q[r], r) : x \in E.index /\ (x \in C.dev => x \in E.dev)
  BY <1>1 DEF Serves
<1>3. ASSUME NEW r \in Requests PROVE Anchored(E, J, Q[r], r)
  <2>1. Anchored(C, J, Q[r], r)
    BY DEF Core
  <2>2. Grip(Q[r], r) \subseteq E.index /\ (Root2Att(Q[r], r) \subseteq C.dev => Root2Att(Q[r], r) \subseteq E.dev)
    BY <1>2 DEF Grip
  <2>3. Q[r].att # Q[r].hit /\ E.err = "none" => Range(SubSeq(Path[r], 1, Q[r].hit)) \subseteq E.index
    BY <2>1 DEF Anchored, AllAttached, Serves
  <2>4. QED BY <2>1, <2>2, <2>3 DEF Anchored
<1>4. Steady(E, Q, J)
  BY DEF Core, Steady, Serves
<1>5. Ledger(K, E, Q)
  BY DEF Core, Ledger, Serves
<1>6. QED BY <1>3, <1>4, <1>5 DEF Core, Serves

\* A poll.
LEMMA PolledServes ==
  ASSUME NEW C, Sound(C), C.slots >= 0, C.pool >= 0, NEW P, Sound(P), Polled(C, P)
  PROVE  Serves(C, P) /\ C.index \subseteq P.index /\ P.err = C.err /\ (Settled(C) => Settled(P))
<1>1. HostSum(P) = HostSum(C) /\ DevSum(P) = DevSum(C)
  BY DEF Polled, HostSum, DevSum
<1>2. Settled(C) => Settled(P)
  BY DEF Polled, Settled
<1>3. QED BY <1>1, <1>2 DEF Polled, Serves

\* Taking note of finished copies keeps the invariant.
LEMMA PollStep ==
  ASSUME NEW K, NEW C, NEW Q, NEW J, Invariant(K, C, Q, J), NEW P, Sound(P), Polled(C, P)
  PROVE  Invariant(K, P, Q, J) /\ P.err = C.err
<1>1. Core(K, C, Q, J) /\ Sound(C) /\ C.slots >= 0 /\ C.pool >= 0
  BY DEF Invariant, Core, Ledger
<1>2. Serves(C, P) /\ C.index \subseteq P.index /\ P.err = C.err /\ (Settled(C) => Settled(P))
  BY <1>1, PolledServes
<1>3. (J.pc = "plan" => P.err = "none") /\ (P.err = "room" => K.host = 0)
  BY <1>1, <1>2 DEF Core, Steady, Ledger
<1>4. Core(K, P, Q, J)
  BY <1>1, <1>2, <1>3, CacheStep
<1>5. QED BY <1>2, <1>4 DEF Invariant, Backed

\* A query.
LEMMA QueryStep ==
  ASSUME NEW K, NEW C, NEW Q, NEW J, Invariant(K, C, Q, J), NEW k \in Kinds, NEW E, E = Query(C, k)
  PROVE  Invariant(K, E, Q, J) /\ Twin(C, E) /\ E.view[k] \subseteq Blocks
<1>1. Core(K, C, Q, J) /\ Sound(C) /\ Sharp(C) /\ C.slots >= 0 /\ C.pool >= 0
  BY DEF Invariant, Core, Ledger, Sound
<1>2. Sharp(E) /\ Twin(C, E) /\ E.view[k] \subseteq Blocks
  BY <1>1, QuerySharp
<1>3. RefTwin(C, E)
  BY <1>2 DEF Twin, RefTwin
<1>4. Sound(E)
  BY <1>1, <1>2, <1>3, RefTwinSound
<1>5. Serves(C, E) /\ C.index \subseteq E.index /\ E.err = C.err /\ (Settled(C) => Settled(E))
  BY <1>1, <1>2, <1>4 DEF Serves, Twin, Settled, DevSum, HostSum
<1>6. (J.pc = "plan" => E.err = "none") /\ (E.err = "room" => K.host = 0)
  BY <1>1, <1>5 DEF Core, Steady, Ledger
<1>7. Core(K, E, Q, J)
  BY <1>1, <1>5, <1>6, CacheStep
<1>8. QED BY <1>2, <1>5, <1>7 DEF Invariant, Backed

\* Another request and another step, with the same possessions.
LEMMA QuietStep ==
  ASSUME NEW K, NEW C, NEW Q, NEW J, Core(K, C, Q, J), NEW r \in Requests, NEW q \in ReqType, Fit(q, r),
         q.held = Q[r].held, q.att = Q[r].att, q.priv = Q[r].priv, NEW R, R = [Q EXCEPT ![r] = q],
         NEW I, Steady(C, R, I), \A s \in Requests : Anchored(C, I, R[s], s)
  PROVE  Core(K, C, R, I)
<1>1. Q \in [Requests -> ReqType] /\ \A s \in Requests : Fit(Q[s], s)
  BY DEF Core
<1>2. R \in [Requests -> ReqType] /\ R[r] = q /\ \A s \in Requests : s # r => R[s] = Q[s]
  BY <1>1
<1>3. \A s \in Requests : Fit(R[s], s)
  BY <1>1, <1>2
<1>4. Grip(q, r) = Grip(Q[r], r)
  BY DEF Grip, Root2Att
<1>5. \A s \in Requests : Grip(R[s], s) = Grip(Q[s], s)
  BY <1>2, <1>4
<1>6. \A x : Holders(R, x) = Holders(Q, x)
  BY <1>5 DEF Holders
<1>7. Private(R) = Private(Q)
  BY <1>2 DEF Private
<1>8. Ledger(K, C, R)
  BY <1>6, <1>7 DEF Core, Ledger, PrivSum
<1>9. QED BY <1>2, <1>3, <1>8 DEF Core

\* Another step only.
LEMMA JobStep ==
  ASSUME NEW K, NEW C, NEW Q, NEW J, Core(K, C, Q, J), NEW I, Steady(C, Q, I),
         \A s \in Requests : Anchored(C, I, Q[s], s)
  PROVE  Core(K, C, Q, I)
BY DEF Core
-----------------------------------------------------------------------------
(* The actions *)

\* Outside a prefill nobody waits to attach.
LEMMA SettledIn ==
  ASSUME NEW K, NEW C, NEW Q, NEW J, Core(K, C, Q, J),
         J.pc \notin {"plan", "attach", "promote"} \/ (J.pc = "plan" /\ J.batch = <<>>)
  PROVE  AllAttached(Q) /\ \A s \in Requests : Root2Att(Q[s], s) \subseteq C.dev /\ Grip(Q[s], s) \subseteq C.index
<1>1. \A s \in Requests : Anchored(C, J, Q[s], s)
  BY DEF Core
<1>2. J.batch = <<>> => DOMAIN J.batch = {}
  OBVIOUS
<1>3. QED BY <1>1, <1>2 DEF Anchored, AllAttached

\* Outside a step every hit is attached, so any job will do.
LEMMA Quiet ==
  ASSUME NEW C, NEW Q, AllAttached(Q), NEW I, 
         \A s \in Requests : Root2Att(Q[s], s) \subseteq C.dev /\ Grip(Q[s], s) \subseteq C.index
  PROVE  \A s \in Requests : Anchored(C, I, Q[s], s)
BY DEF Anchored, AllAttached

\* No step is being prepared.
LEMMA NoJobSteady ==
  ASSUME NEW C, NEW Q
  PROVE  Steady(C, Q, NoJob)
<1>1. <<>> \in Seq([r : Requests, n : Nat \ {0}]) /\ Len(<<>>) = 0 /\ DOMAIN <<>> = {}
  OBVIOUS
<1>2. MaxBatch \in Nat \ {0}
  BY PrefixAssumption
<1>3. 1 \in 1..MaxBatch /\ 0 \in Int /\ 0 <= MaxBatch
  BY <1>2
<1>4. QED BY <1>1, <1>3 DEF Steady, NoJob

\* A request arrives.
LEMMA SubmitStep ==
  ASSUME PrefixInv, NEW r \in Requests, Submit(r)
  PROVE  PrefixInv'
<1>1. Core(conf, cache, req, job) /\ Backed(conf, cache) /\ req \in [Requests -> ReqType] /\ Fit(req[r], r)
  BY DEF PrefixInv, Invariant, Core
<1>2. job.pc = "idle" /\ req' = [req EXCEPT ![r].st = "wait"] /\ conf' = conf /\ cache' = cache /\ job' = job
  BY DEF Submit
<1>3. PICK q : q = [req[r] EXCEPT !.st = "wait"]
  OBVIOUS
<1>4. req[r] \in ReqType
  BY <1>1
<1>5. /\ q \in ReqType /\ q.held = req[r].held /\ q.att = req[r].att /\ q.priv = req[r].priv
      /\ q.hit = req[r].hit /\ q.pos = req[r].pos /\ q.fwd = req[r].fwd
  BY <1>3, <1>4 DEF ReqType
<1>6. Fit(q, r)
  BY <1>1, <1>5 DEF Fit
<1>7. req' = [req EXCEPT ![r] = q]
  BY <1>1, <1>2, <1>3
<1>8. Steady(cache, req', job)
  BY <1>1, <1>2 DEF Core, Steady
<1>9. \A s \in Requests : Anchored(cache, job, req'[s], s)
  <2>1. \A s \in Requests : req'[s].att = req[s].att /\ req'[s].hit = req[s].hit /\ req'[s].held = req[s].held
    BY <1>1, <1>5, <1>7
  <2>2. \A s \in Requests : Anchored(cache, job, req[s], s)
    BY <1>1 DEF Core
  <2>3. QED BY <2>1, <2>2 DEF Anchored, Grip, Root2Att
<1>10. Core(conf, cache, req', job)
  BY <1>1, <1>5, <1>6, <1>7, <1>8, <1>9, QuietStep
<1>11. QED BY <1>1, <1>2, <1>10 DEF PrefixInv, Invariant

\* stats(): finished copies are noted and two views brought up to date.
LEMMA StatsStep ==
  ASSUME PrefixInv, Stats
  PROVE  PrefixInv'
<1>1. PICK P \in Poll(cache) : cache' = Query(Query(P, "demotable"), "freeable")
  BY DEF Stats
<1>2. Invariant(conf, cache, req, job) /\ Sound(cache)
  BY DEF PrefixInv, Invariant, Core
<1>3. Sound(P) /\ Polled(cache, P)
  BY <1>1, <1>2, PollSound
<1>4. Invariant(conf, P, req, job)
  BY <1>2, <1>3, PollStep
<1>5. PICK E : E = Query(P, "demotable")
  OBVIOUS
<1>6. "demotable" \in Kinds /\ "freeable" \in Kinds
  BY DEF Kinds
<1>7. Invariant(conf, E, req, job)
  BY <1>4, <1>5, <1>6, QueryStep
<1>8. cache' = Query(E, "freeable")
  BY <1>1, <1>5
<1>9. Invariant(conf, cache', req, job)
  BY <1>6, <1>7, <1>8, QueryStep
<1>10. conf' = conf /\ req' = req /\ job' = job
  BY DEF Stats
<1>11. QED BY <1>9, <1>10 DEF PrefixInv

\* A pass that schedules nothing.
LEMMA EndPassStep ==
  ASSUME PrefixInv, EndPass
  PROVE  PrefixInv'
<1>1. Core(conf, cache, req, job) /\ Backed(conf, cache)
  BY DEF PrefixInv, Invariant
<1>2. job.pc = "plan" /\ job.batch = <<>> /\ job' = NoJob /\ conf' = conf /\ cache' = cache /\ req' = req
  BY DEF EndPass
<1>3. AllAttached(req) /\ \A s \in Requests : Root2Att(req[s], s) \subseteq cache.dev /\ Grip(req[s], s) \subseteq cache.index
  BY <1>1, <1>2, SettledIn
<1>4. \A s \in Requests : Anchored(cache, NoJob, req[s], s)
  BY <1>3, Quiet
<1>5. Core(conf, cache, req, NoJob)
  BY <1>1, <1>4, NoJobSteady, JobStep
<1>6. QED BY <1>1, <1>2, <1>5 DEF PrefixInv, Invariant

\* A prefill batch goes on to its step.
LEMMA RunPrefillStep ==
  ASSUME PrefixInv, RunPrefill
  PROVE  PrefixInv'
<1>1. Core(conf, cache, req, job) /\ Backed(conf, cache) /\ Steady(cache, req, job)
  BY DEF PrefixInv, Invariant, Core
<1>2. job.pc = "plan" /\ job.batch # <<>> /\ job' = [job EXCEPT !.pc = "attach"] /\ conf' = conf /\ cache' = cache /\ req' = req
  BY DEF RunPrefill
<1>3. /\ job' = [pc |-> "attach", batch |-> job.batch, i |-> job.i, budget |-> job.budget, step |-> job.step, charged |-> job.charged]
      /\ job.batch \in Seq([r : Requests, n : Nat \ {0}]) /\ job.i = 1
  BY <1>1, <1>2 DEF Steady
<1>4. /\ job'.pc = "attach" /\ job'.batch = job.batch /\ job'.i = job.i
      /\ job'.budget = job.budget /\ job'.step = job.step /\ job'.charged = job.charged
  BY <1>3
<1>5. 1 <= Len(job.batch)
  BY <1>2, <1>3
<1>6. Steady(cache, req, job')
  BY <1>1, <1>2, <1>3, <1>4, <1>5 DEF Steady
<1>7. \A s \in Requests : Anchored(cache, job', req[s], s)
  BY <1>1, <1>2, <1>4 DEF Core, Anchored
<1>8. Core(conf, cache, req, job')
  BY <1>1, <1>6, <1>7, JobStep
<1>9. QED BY <1>1, <1>2, <1>8 DEF PrefixInv, Invariant

\* The step after its i-th hit was attached.
Onward(J) ==
  [pc |-> IF J.i < Len(J.batch) THEN "attach" ELSE "take", batch |-> J.batch,
   i |-> IF J.i < Len(J.batch) THEN J.i + 1 ELSE 1, budget |-> J.budget, step |-> J.step, charged |-> J.charged]

\* The step goes on once the i-th hit is attached.
LEMMA OnwardStep ==
  ASSUME NEW K, NEW C, NEW Q, NEW J, Core(K, C, Q, J), J.pc \in {"attach", "promote"}, C.err = "none",
         NEW r, r = J.batch[J.i].r, Q[r].att = Q[r].hit, Root2Att(Q[r], r) \subseteq C.dev, NEW I, I = Onward(J)
  PROVE  Core(K, C, Q, I)
<1>1. Steady(C, Q, J) /\ \A s \in Requests : Anchored(C, J, Q[s], s)
  BY DEF Core
<1>2. PICK n : n = Len(J.batch)
  OBVIOUS
<1>3. /\ n \in Nat /\ J.i \in 1..n /\ n <= MaxBatch /\ MaxBatch \in Nat /\ DOMAIN J.batch = 1..n
      /\ J.batch \in Seq([r : Requests, n : Nat \ {0}])
  BY <1>1, <1>2, PrefixAssumption DEF Steady
<1>4. /\ I.batch = J.batch /\ I.budget = J.budget /\ I.step = J.step /\ I.charged = J.charged
      /\ I.pc = (IF J.i < n THEN "attach" ELSE "take") /\ I.i = (IF J.i < n THEN J.i + 1 ELSE 1)
      /\ I = [pc |-> I.pc, batch |-> I.batch, i |-> I.i, budget |-> I.budget, step |-> I.step, charged |-> I.charged]
  BY <1>2 DEF Onward
<1>5. I.i \in 1..n /\ I.i \in 1..MaxBatch
  BY <1>3, <1>4, SMTT(30)
<1>6. Steady(C, Q, I)
  <2>1. I.pc \in {"attach", "take"} /\ I.i <= Len(I.batch) /\ Len(I.batch) <= MaxBatch /\ I.step \in Int
    BY <1>1, <1>2, <1>3, <1>4, <1>5 DEF Steady
  <2>2. \A k, l \in DOMAIN I.batch : I.batch[k].r = I.batch[l].r => k = l
    BY <1>1, <1>4 DEF Steady
  <2>3. \A k \in DOMAIN I.batch : Q[I.batch[k].r].pos + I.batch[k].n <= Len(Path[I.batch[k].r])
    BY <1>1, <1>4 DEF Steady
  <2>4. QED BY <1>3, <1>4, <1>5, <2>1, <2>2, <2>3 DEF Steady
<1>7. ASSUME NEW s \in Requests PROVE Anchored(C, I, Q[s], s)
  <2>1. Anchored(C, J, Q[s], s)
    BY <1>1
  <2>2. Root2Att(Q[s], s) \subseteq C.dev
    BY <2>1 DEF Anchored
  <2>3. ASSUME Q[s].att # Q[s].hit
        PROVE  I.pc \in {"plan", "attach", "promote"} /\ \E k \in DOMAIN I.batch : I.batch[k].r = s /\ k >= I.i
    <3>1. PICK k \in DOMAIN J.batch : J.batch[k].r = s /\ k >= J.i
      BY <2>1, <2>3 DEF Anchored
    <3>2. k # J.i
      BY <2>3, <3>1
    <3>3. J.i < n /\ k >= J.i + 1
      BY <1>3, <3>1, <3>2
    <3>4. QED BY <1>4, <3>1, <3>3
  <2>4. QED BY <2>1, <2>2, <2>3 DEF Anchored
<1>8. QED BY <1>6, <1>7, JobStep

\* The batch of a step.
LEMMA BatchFacts ==
  ASSUME NEW C, NEW Q, NEW J, Steady(C, Q, J)
  PROVE  /\ DOMAIN J.batch = 1..Len(J.batch) /\ Len(J.batch) \in Nat
         /\ \A k \in DOMAIN J.batch : J.batch[k].r \in Requests /\ J.batch[k].n \in Nat /\ J.batch[k].n # 0
         /\ J.pc \in {"attach", "promote", "take"} => J.i \in DOMAIN J.batch
<1>1. J.batch \in Seq([r : Requests, n : Nat \ {0}]) /\ J.i \in 1..MaxBatch /\ MaxBatch \in Nat
  BY PrefixAssumption DEF Steady
<1>2. DOMAIN J.batch = 1..Len(J.batch) /\ Len(J.batch) \in Nat
  BY <1>1
<1>3. \A k \in DOMAIN J.batch : J.batch[k] \in [r : Requests, n : Nat \ {0}]
  <2>1. PICK T : T = [r : Requests, n : Nat \ {0}]
    OBVIOUS
  <2>2. J.batch \in Seq(T)
    BY <1>1, <2>1
  <2>3. \A k \in DOMAIN J.batch : J.batch[k] \in T
    BY <2>2
  <2>4. QED BY <2>1, <2>3
<1>4. J.pc \in {"attach", "promote", "take"} => J.i \in DOMAIN J.batch
  BY <1>1, <1>2 DEF Steady
<1>5. QED BY <1>2, <1>3, <1>4

\* NextAttach is that step.
LEMMA NextAttachIs ==
  ASSUME NEW C, NEW Q, Steady(C, Q, job), job.pc \in {"attach", "promote"}
  PROVE  /\ job.pc = "attach" => NextAttach = Onward(job)
         /\ [NextAttach EXCEPT !.pc = IF job.i < Len(job.batch) THEN "attach" ELSE "take"] = Onward(job)
<1>1. job = [pc |-> job.pc, batch |-> job.batch, i |-> job.i, budget |-> job.budget, step |-> job.step, charged |-> job.charged]
  BY DEF Steady
<1>5. PICK p, i, b, g, t, c : job = [pc |-> p, batch |-> b, i |-> i, budget |-> g, step |-> t, charged |-> c]
  BY <1>1
<1>6. job.pc = p /\ job.i = i /\ job.batch = b /\ job.budget = g /\ job.step = t /\ job.charged = c
  BY <1>5
<1>2. CASE job.i < Len(job.batch)
  <2>1. NextAttach = [job EXCEPT !.i = i + 1]
    BY <1>2, <1>6 DEF NextAttach
  <2>2. NextAttach = [pc |-> p, batch |-> b, i |-> i + 1, budget |-> g, step |-> t, charged |-> c]
    BY <1>5, <2>1
  <2>3. Onward(job) = [pc |-> "attach", batch |-> b, i |-> i + 1, budget |-> g, step |-> t, charged |-> c]
    BY <1>2, <1>6 DEF Onward
  <2>4. QED BY <1>2, <1>6, <2>2, <2>3
<1>3. CASE ~(job.i < Len(job.batch))
  <2>1. NextAttach = [job EXCEPT !.i = 1, !.pc = "take"]
    BY <1>3 DEF NextAttach
  <2>2. NextAttach = [pc |-> "take", batch |-> b, i |-> 1, budget |-> g, step |-> t, charged |-> c]
    BY <1>5, <2>1
  <2>3. Onward(job) = [pc |-> "take", batch |-> b, i |-> 1, budget |-> g, step |-> t, charged |-> c]
    BY <1>3, <1>6 DEF Onward
  <2>4. QED BY <1>3, <2>2, <2>3
<1>4. QED BY <1>2, <1>3

\* A prompt without a hit has nothing to attach.
LEMMA NothingToAttachStep ==
  ASSUME PrefixInv, NothingToAttach
  PROVE  PrefixInv'
<1>1. Core(conf, cache, req, job) /\ Backed(conf, cache) /\ Steady(cache, req, job) /\ \A s \in Requests : Anchored(cache, job, req[s], s)
  BY DEF PrefixInv, Invariant, Core
<1>2. PICK r : r = job.batch[job.i].r
  OBVIOUS
<1>3. /\ cache.err = "none" /\ job.pc = "attach" /\ req[r].hit = req[r].att /\ job' = NextAttach
      /\ conf' = conf /\ cache' = cache /\ req' = req
  BY <1>2 DEF NothingToAttach, Running, Item
<1>4. job.i \in DOMAIN job.batch /\ r \in Requests
  BY <1>1, <1>2, <1>3, BatchFacts
<1>5. Root2Att(req[r], r) \subseteq cache.dev
  BY <1>1, <1>3, <1>4 DEF Anchored
<1>6. job' = Onward(job)
  BY <1>1, <1>3, NextAttachIs
<1>7. Core(conf, cache, req, job')
  BY <1>1, <1>2, <1>3, <1>5, <1>6, OnwardStep
<1>8. QED BY <1>1, <1>3, <1>7 DEF PrefixInv, Invariant

\* A pass begins with views that are current.
LEMMA BeginPassStep ==
  ASSUME PrefixInv, BeginPass
  PROVE  PrefixInv'
<1>1. Invariant(conf, cache, req, job)
  BY DEF PrefixInv
<1>2. cache.err = "none" /\ job.pc = "idle" /\ conf' = conf /\ req' = req
  BY DEF BeginPass, BetweenSteps, Running
<1>3. PICK D : D = DecodeQuery(cache)
  OBVIOUS
<1>4. {"reclaimable", "evictable", "freeable"} \subseteq Kinds /\ Capacity \in Kinds
  BY DEF Kinds, Capacity
<1>5. Invariant(conf, D, req, job) /\ D.err = "none"
  <2>1. PICK E, F, G : E = Query(cache, "evictable") /\ F = Query(E, "freeable") /\ G = Query(cache, "reclaimable")
    OBVIOUS
  <2>2. Invariant(conf, E, req, job) /\ Twin(cache, E)
    BY <1>1, <1>4, <2>1, QueryStep
  <2>3. Invariant(conf, F, req, job) /\ Twin(E, F)
    BY <1>4, <2>1, <2>2, QueryStep
  <2>4. Invariant(conf, G, req, job) /\ Twin(cache, G)
    BY <1>1, <1>4, <2>1, QueryStep
  <2>5. D \in {cache, E, F, G}
    BY <1>3, <2>1 DEF DecodeQuery
  <2>6. QED BY <1>1, <1>2, <2>2, <2>3, <2>4, <2>5 DEF Twin
<1>6. PICK E : E = Query(D, Capacity)
  OBVIOUS
<1>7. Invariant(conf, E, req, job) /\ Twin(D, E) /\ E.view[Capacity] \subseteq Blocks
  BY <1>4, <1>5, <1>6, QueryStep
<1>8. Core(conf, E, req, job) /\ Backed(conf, E) /\ E.err = "none" /\ E.slots \in Int
  BY <1>5, <1>7, CacheFields DEF Invariant, Twin, Core, Sound, Sharp, Kept
<1>9. Cardinality(E.view[Capacity]) \in Nat
  BY <1>7, PrefixAssumption, FS_Subset, FS_CardinalityType
<1>10. FreeWith(E) \in Int
  BY <1>8, <1>9 DEF FreeWith
<1>11. PICK b : cache' = E /\ job' = [NoJob EXCEPT !.pc = "plan", !.step = FreeWith(E), !.budget = b]
  BY <1>3, <1>6 DEF BeginPass
<1>12. job' = [pc |-> "plan", batch |-> <<>>, i |-> 1, budget |-> b, step |-> FreeWith(E), charged |-> {}]
  BY <1>11 DEF NoJob
<1>13. Steady(E, req, job')
  <2>1. <<>> \in Seq([r : Requests, n : Nat \ {0}]) /\ Len(<<>>) = 0 /\ DOMAIN <<>> = {}
    OBVIOUS
  <2>2. MaxBatch \in Nat \ {0}
    BY PrefixAssumption
  <2>3. 1 \in 1..MaxBatch /\ 0 <= MaxBatch
    BY <2>2
  <2>4. QED BY <1>8, <1>10, <1>12, <2>1, <2>3 DEF Steady
<1>14. AllAttached(req) /\ \A s \in Requests : Root2Att(req[s], s) \subseteq E.dev /\ Grip(req[s], s) \subseteq E.index
  BY <1>2, <1>8, SettledIn
<1>15. \A s \in Requests : Anchored(E, job', req[s], s)
  BY <1>14, Quiet
<1>16. Core(conf, E, req, job')
  BY <1>8, <1>13, <1>15, JobStep
<1>17. QED BY <1>2, <1>8, <1>11, <1>16 DEF PrefixInv, Invariant

\* A set as a sequence.
LEMMA SetToSeqFacts ==
  ASSUME NEW T, IsFiniteSet(T), NEW s, s = SetToSeq(T)
  PROVE  s \in Seq(T) /\ Len(s) = Cardinality(T) /\ IsInjective(s)
<1>1. PICK n : n = Cardinality(T) /\ n \in Nat
  BY FS_CardinalityType
<1>2. PICK f : f \in Bijection(1..n, T)
  BY <1>1, FS_CardinalityType DEF ExistsBijection
<1>3. f \in [1..n -> T] /\ \A i, j \in 1..n : f[i] = f[j] => i = j
  BY <1>2 DEF Bijection, Injection, IsInjective
<1>4. IsInjective(f)
  BY <1>3 DEF IsInjective
<1>5. s = CHOOSE g \in [1..n -> T] : IsInjective(g)
  BY <1>1 DEF SetToSeq
<1>6. s \in [1..n -> T] /\ IsInjective(s)
  BY <1>3, <1>4, <1>5
<1>7. s \in Seq(T) /\ Len(s) = n
  BY <1>1, <1>6
<1>8. QED BY <1>1, <1>6, <1>7

\* A decode batch is chosen.
LEMMA RunDecodeStep ==
  ASSUME PrefixInv, NEW S \in SUBSET Decoding, RunDecode(S)
  PROVE  PrefixInv'
<1>1. Core(conf, cache, req, job) /\ Backed(conf, cache) /\ Steady(cache, req, job) /\ req \in [Requests -> ReqType]
  BY DEF PrefixInv, Invariant, Core
<1>2. PICK T : T = {[r |-> x, n |-> 1] : x \in S}
  OBVIOUS
<1>3. /\ job.pc = "plan" /\ job.batch = <<>> /\ Cardinality(S) <= MaxBatch
      /\ \A r \in S : req[r].pos < Len(Path[r])
      /\ job' = [job EXCEPT !.pc = "decode", !.batch = SetToSeq(T)]
      /\ conf' = conf /\ cache' = cache /\ req' = req
  BY <1>2 DEF RunDecode
<1>4. S \subseteq Requests /\ IsFiniteSet(S)
  BY PrefixAssumption, FS_Subset DEF Decoding
<1>5. PICK g : g = [x \in S |-> [r |-> x, n |-> 1]]
  OBVIOUS
<1>6. g \in Bijection(S, T)
  <2>1. g \in [S -> T] /\ \A x, y \in S : g[x] = g[y] => x = y
    BY <1>2, <1>5
  <2>2. \A t \in T : \E x \in S : g[x] = t
    BY <1>2, <1>5
  <2>3. QED BY <2>1, <2>2 DEF Bijection, Injection, Surjection, IsInjective
<1>7. IsFiniteSet(T) /\ Cardinality(T) = Cardinality(S)
  BY <1>4, <1>6, FS_Bijection DEF ExistsBijection
<1>8. PICK s : s = SetToSeq(T)
  OBVIOUS
<1>9. s \in Seq(T) /\ Len(s) = Cardinality(S) /\ IsInjective(s)
  BY <1>7, <1>8, SetToSeqFacts
<1>10. Len(s) <= MaxBatch /\ DOMAIN s = 1..Len(s) /\ \A k \in DOMAIN s : s[k] \in T
  BY <1>3, <1>9
<1>11. \A k \in DOMAIN s : \E x \in S : s[k] = [r |-> x, n |-> 1]
  BY <1>2, <1>10
<1>12. \A k \in DOMAIN s : s[k].r \in S /\ s[k].n = 1 /\ s[k] = [r |-> s[k].r, n |-> 1]
  BY <1>11
<1>13. \A k, l \in DOMAIN s : s[k].r = s[l].r => k = l
  <2>1. ASSUME NEW k \in DOMAIN s, NEW l \in DOMAIN s, s[k].r = s[l].r PROVE k = l
    <3>1. s[k] = [r |-> s[k].r, n |-> 1] /\ s[l] = [r |-> s[l].r, n |-> 1]
      BY <1>12
    <3>2. s[k] = s[l]
      BY <2>1, <3>1
    <3>3. QED BY <1>9, <3>2 DEF IsInjective
  <2>2. QED BY <2>1
<1>14. s \in Seq([r : Requests, n : Nat \ {0}])
  <2>1. PICK U : U = [r : Requests, n : Nat \ {0}]
    OBVIOUS
  <2>2. T \subseteq U
    BY <1>2, <1>4, <2>1
  <2>3. s \in Seq(U)
    BY <1>9, <2>2
  <2>4. QED BY <2>1, <2>3
<1>15. \A k \in DOMAIN s : req[s[k].r].pos + s[k].n <= Len(Path[s[k].r])
  <2>1. ASSUME NEW k \in DOMAIN s PROVE req[s[k].r].pos + s[k].n <= Len(Path[s[k].r])
    <3>1. PICK x \in S : s[k] = [r |-> x, n |-> 1]
      BY <1>11, <2>1
    <3>2. req[x].pos \in Nat /\ Len(Path[x]) \in Nat /\ req[x].pos < Len(Path[x])
      BY <1>1, <1>3, <1>4, PathFacts DEF ReqType
    <3>3. s[k].r = x /\ s[k].n = 1
      BY <3>1
    <3>4. QED BY <3>2, <3>3
  <2>2. QED BY <2>1
<1>16. job' = [pc |-> "decode", batch |-> s, i |-> job.i, budget |-> job.budget, step |-> job.step, charged |-> job.charged]
  BY <1>1, <1>3, <1>8 DEF Steady
<1>17. Steady(cache, req, job')
  <2>1. /\ job'.pc = "decode" /\ job'.batch = s /\ job'.i = job.i /\ job'.budget = job.budget
        /\ job'.step = job.step /\ job'.charged = job.charged
    BY <1>16
  <2>2. job.i \in 1..MaxBatch /\ job.step \in Int
    BY <1>1 DEF Steady
  <2>3. QED BY <1>10, <1>13, <1>14, <1>15, <1>16, <2>1, <2>2 DEF Steady
<1>18. AllAttached(req) /\ \A x \in Requests : Root2Att(req[x], x) \subseteq cache.dev /\ Grip(req[x], x) \subseteq cache.index
  BY <1>1, <1>3, SettledIn
<1>19. \A x \in Requests : Anchored(cache, job', req[x], x)
  BY <1>18, Quiet
<1>20. Core(conf, cache, req, job')
  BY <1>1, <1>17, <1>19, JobStep
<1>21. QED BY <1>1, <1>3, <1>20 DEF PrefixInv, Invariant

\* A subtree that nobody holds is deleted.
LEMMA DeleteSubtreeStep ==
  ASSUME PrefixInv, NEW b \in Selectors, DeleteSubtree(b)
  PROVE  PrefixInv'
<1>1. Invariant(conf, cache, req, job) /\ Sound(cache)
  BY DEF PrefixInv, Invariant, Core
<1>2. cache.err = "none" /\ job.pc = "idle" /\ conf' = conf /\ req' = req /\ job' = job
  BY DEF DeleteSubtree, BetweenSteps, Running
<1>3. PICK C : C = SynchronizeAll(cache)
  OBVIOUS
<1>4. PICK V : V = FreeableIn(C) \cap Desc[b]
  OBVIOUS
<1>5. cache' = Evict(C, V)
  BY <1>3, <1>4 DEF DeleteSubtree
<1>6. Sound(C) /\ Polled(cache, C)
  BY <1>1, <1>3, SynchronizeSound
<1>7. Invariant(conf, C, req, job) /\ C.err = "none"
  BY <1>1, <1>2, <1>6, PollStep
<1>8. Core(conf, C, req, job) /\ Sharp(C) /\ b \in Blocks
  BY <1>6, <1>7, PrefixAssumption DEF Invariant, Sound
<1>9. Cut(C, V)
  BY <1>4, <1>8, SubtreeCut
<1>10. Sound(cache') /\ Evicted(C, cache', V)
  BY <1>5, <1>6, <1>7, <1>9, EvictSound
<1>11. V \subseteq C.index /\ \A x \in V : C.ref[x] = 0
  BY <1>8, <1>9, CutFacts
<1>12. HostSum(cache') = HostSum(C) /\ cache'.pool >= C.pool
  BY <1>6, <1>9, <1>10, EvictHostSum
<1>13. DevSum(cache') = DevSum(C) /\ cache'.slots >= C.slots
  BY <1>6, <1>10, EvictDevSum
<1>14. C.slots >= 0 /\ C.pool >= 0 /\ C.slots \in Int /\ C.pool \in Int
  BY <1>6, <1>8, CacheFields DEF Core, Ledger, Sound, Sharp, Kept
<1>19. cache'.slots \in Int /\ cache'.pool \in Int
  BY <1>10, CacheFields DEF Sound, Sharp, Kept
<1>15. Serves(C, cache')
  BY <1>7, <1>10, <1>11, <1>12, <1>13, <1>14, <1>19 DEF Serves, Evicted
<1>16. AllAttached(req)
  BY <1>2, <1>8, SettledIn
<1>17. cache'.err = "none"
  BY <1>7, <1>10 DEF Evicted
<1>18. Core(conf, cache', req, job)
  BY <1>8, <1>15, <1>16, <1>17, CacheStep
<1>20. Settled(C) => Settled(cache')
  BY <1>10 DEF Evicted, Settled
<1>21. QED BY <1>2, <1>7, <1>18, <1>20 DEF PrefixInv, Invariant, Backed

\* The pins of a subtree are set or lifted.
LEMMA SetPriorityStep ==
  ASSUME PrefixInv, NEW b \in Selectors, NEW pin \in BOOLEAN, SetPriority(b, pin)
  PROVE  PrefixInv'
<1>1. /\ Core(conf, cache, req, job) /\ Backed(conf, cache) /\ Sound(cache) /\ Kept(cache) /\ cache.index \subseteq Blocks
      /\ Resident(cache) /\ Queued(cache) /\ cache.slots >= 0 /\ cache.pool >= 0
  BY DEF PrefixInv, Invariant, Core, Sound, Sharp, Kept, Whole, Ledger
<1>2. cache.err = "none" /\ job.pc = "idle" /\ conf' = conf /\ req' = req /\ job' = job
  BY DEF SetPriority, BetweenSteps, Running
<1>3. PICK T : T = {x \in Desc[b] \cap cache.index : (x \in cache.pinned) # pin}
  OBVIOUS
<1>4. PICK s : s = Keep(RootFirst, T)
  OBVIOUS
<1>5. PICK D : D = Pins(cache, s, pin)
  OBVIOUS
<1>6. cache' = IF T = {} THEN D ELSE Mutated(D)
  BY <1>3, <1>4, <1>5 DEF SetPriority, Pins
<1>7. s \in Seq(Blocks) /\ Range(s) = T /\ Len(s) \in Nat
  BY <1>1, <1>3, <1>4, Walks, KeepFacts
<1>8. Kept(D) /\ PinTwin(cache, D) /\ (s = <<>> => D = cache)
  BY <1>1, <1>3, <1>5, <1>7, PinsKept
<1>9. Sharp(cache') /\ PinTwin(cache, cache')
  <2>1. CASE T = {}
    <3>1. s = <<>>
      BY <1>7, <2>1, RangeFacts
    <3>2. QED BY <1>1, <1>6, <1>8, <2>1, <3>1 DEF Sound, PinTwin
  <2>2. CASE T # {}
    <3>1. Sharp(Mutated(D)) /\ Twin(D, Mutated(D))
      BY <1>8, MutatedSharp
    <3>2. QED BY <1>6, <1>8, <2>2, <3>1 DEF PinTwin, Twin
  <2>3. QED BY <2>1, <2>2
<1>10. Sound(cache')
  BY <1>1, <1>9 DEF Sound, Resident, Queued, PinTwin
<1>11. Serves(cache, cache') /\ (Settled(cache) => Settled(cache')) /\ cache.index \subseteq cache'.index /\ cache'.err = "none"
  BY <1>1, <1>2, <1>9, <1>10 DEF Serves, PinTwin, Settled, DevSum, HostSum
<1>12. Core(conf, cache', req, job)
  BY <1>1, <1>11, CacheStep
<1>13. QED BY <1>1, <1>2, <1>11, <1>12 DEF PrefixInv, Invariant, Backed

\* A prompt that was not started holds nothing.
LEMMA FreshFacts ==
  ASSUME NEW r \in Requests, NEW q, Fit(q, r), q.pos = q.hit
  PROVE  Flying(q.fwd) = 0 /\ q.priv = 0 /\ q.held = {}
<1>1. q \in ReqType /\ q.hit \in Nat /\ q.pos \in Nat /\ q.priv \in Int /\ q.fwd \in Seq(Nat)
  BY DEF Fit, ReqType
<1>2. Flying(q.fwd) \in Nat
  BY <1>1, FlyingFacts
<1>3. Flying(q.fwd) = 0 /\ q.priv = 0
  BY <1>1, <1>2 DEF Fit
<1>4. (q.hit + 1)..(q.pos - Flying(q.fwd)) = {}
  BY <1>1, <1>3
<1>5. q.held = {}
  BY <1>4 DEF Fit, Between
<1>6. QED BY <1>3, <1>5

\* The blocks of the first n tokens.
LEMMA StartFacts ==
  ASSUME NEW r \in Requests, NEW n \in Nat, n <= Len(Path[r])
  PROVE  /\ Range(SubSeq(Path[r], 1, n)) = Between(r, 1, n) /\ SubSeq(Path[r], 1, n) \in Seq(Blocks)
         /\ IsInjective(SubSeq(Path[r], 1, n)) /\ Len(SubSeq(Path[r], 1, n)) = n
         /\ \A k \in 1..n : SubSeq(Path[r], 1, n)[k] = Path[r][k]
         /\ n = 0 => Range(SubSeq(Path[r], 1, n)) = {}
<1>1. PICK s : s = SubSeq(Path[r], 1, n)
  OBVIOUS
<1>2. PICK i : i = 1 /\ i \in Nat \ {0} /\ n \in Int /\ i <= n + 1 /\ s = Part(r, i, n)
  BY <1>1 DEF Part
<1>8. /\ s \in Seq(Blocks) /\ Range(s) = Between(r, i, n) /\ IsInjective(s) /\ Len(s) = n - i + 1
      /\ \A k \in 1..Len(s) : s[k] = Path[r][i + k - 1]
  <2>1. r \in Requests /\ i \in Nat \ {0} /\ n \in Int /\ i <= n + 1 /\ n <= Len(Path[r]) /\ s = Part(r, i, n)
    BY <1>2
  <2>2. PartOK(s, r, i, n)
    BY <2>1, PathPart
  <2>3. QED BY <2>2 DEF PartOK
<1>3. /\ s \in Seq(Blocks) /\ Range(s) = Between(r, 1, n) /\ IsInjective(s) /\ Len(s) = n - 1 + 1
      /\ \A k \in 1..Len(s) : s[k] = Path[r][1 + k - 1]
  BY <1>2, <1>8
<1>4. Len(s) = n /\ \A k \in 1..n : s[k] = Path[r][k]
  BY <1>3
<1>5. n = 0 => 1..n = {}
  OBVIOUS
<1>6. n = 0 => Between(r, 1, n) = {}
  BY <1>5 DEF Between
<1>7. QED BY <1>1, <1>3, <1>4, <1>6

\* lookup finds a hit that is indexed.
LEMMA LongestHitFacts ==
  ASSUME NEW C, Sound(C), NEW r \in Requests, NEW h, h = LongestHit(C, r)
  PROVE  /\ h \in Nat /\ h < Prompt[r] /\ Between(r, 1, h) \subseteq C.index
         /\ h < Prompt[r] - 1 => Path[r][h + 1] \notin C.index
<1>1. PICK n : n = Prompt[r] - 1
  OBVIOUS
<1>2. Prompt[r] \in 1..Len(Path[r]) /\ Len(Path[r]) \in Nat
  BY PathFacts
<1>3. n \in Nat /\ n + 1 <= Len(Path[r]) /\ n = Prompt[r] - 1
  BY <1>1, <1>2
<1> DEFINE Good(k) == \A i \in 1..k : Path[r][i] \in C.index
<1>4. \E k \in 0..n : Good(k) /\ (k < n => Path[r][k + 1] \notin C.index)
  <2>1. PICK T : T = {n - k : k \in {j \in 0..n : Good(j)}}
    OBVIOUS
  <2>2. T \in SUBSET Nat
    BY <1>3, <2>1
  <2>3. Good(0)
    OBVIOUS
  <2>4. n - 0 \in T
    BY <1>3, <2>1, <2>3
  <2>5. PICK m \in T : \A l \in T : m <= l
    BY <2>2, <2>4, LeastNat
  <2>6. PICK k \in 0..n : Good(k) /\ m = n - k
    BY <2>1
  <2>7. ASSUME k < n, Path[r][k + 1] \in C.index PROVE FALSE
    <3>1. k + 1 \in 0..n /\ \A i \in 1..(k + 1) : i \in 1..k \/ i = k + 1
      BY <1>3, <2>7
    <3>2. Good(k + 1)
      BY <2>6, <2>7, <3>1
    <3>3. n - (k + 1) \in T
      BY <2>1, <3>1, <3>2
    <3>4. QED BY <1>3, <2>5, <2>6, <3>3
  <2>8. QED BY <2>6, <2>7
<1>5. h = CHOOSE k \in 0..n : Good(k) /\ (k < n => Path[r][k + 1] \notin C.index)
  BY <1>1 DEF LongestHit
<1>6. h \in 0..n /\ Good(h) /\ (h < n => Path[r][h + 1] \notin C.index)
  BY <1>4, <1>5
<1>7. QED BY <1>2, <1>3, <1>6 DEF Between

\* The least of three.
LEMMA MinThree ==
  ASSUME NEW a \in Int, NEW b \in Int, NEW c \in Int, NEW n, n = Min({a, b, c})
  PROVE  n \in Int /\ n <= a
<1>1. PICK m \in {a, b, c} : \A y \in {a, b, c} : m <= y
  <2>1. \/ (a <= b /\ a <= c) \/ (b <= a /\ b <= c) \/ (c <= a /\ c <= b)
    OBVIOUS
  <2>2. a <= a /\ b <= b /\ c <= c
    OBVIOUS
  <2>3. QED BY <2>1, <2>2
<1>2. n = CHOOSE x \in {a, b, c} : \A y \in {a, b, c} : x <= y
  BY DEF Min
<1>3. n \in {a, b, c} /\ \A y \in {a, b, c} : n <= y
  BY <1>1, <1>2
<1>4. QED BY <1>3

\* One more item of a batch.
Joining(J, r, n, g, t, c) ==
  [pc |-> "plan", batch |-> Append(J.batch, [r |-> r, n |-> n]), i |-> J.i, budget |-> g, step |-> t, charged |-> c]
Joined(J, I, r) ==
  /\ I.pc = "plan" /\ I.i = 1
  /\ \A k \in DOMAIN J.batch : k \in DOMAIN I.batch /\ I.batch[k] = J.batch[k] /\ k >= I.i
  /\ \E k \in DOMAIN I.batch : I.batch[k].r = r /\ k >= I.i

\* One more prompt in the batch.
LEMMA JoinBatch ==
  ASSUME NEW C, NEW Q, NEW J, Steady(C, Q, J), J.pc = "plan", Len(J.batch) < MaxBatch,
         NEW r \in Requests, \A k \in DOMAIN J.batch : J.batch[k].r # r, NEW n \in Nat \ {0},
         NEW E, E.err = "none", NEW R, \A s \in Requests : s # r => R[s] = Q[s], R[r].pos + n <= Len(Path[r]),
         NEW g, NEW t \in Int, NEW c, NEW I,
         I = Joining(J, r, n, g, t, c)
  PROVE  Steady(E, R, I) /\ Joined(J, I, r)
<1>1. PICK T, m, x : T = [r : Requests, n : Nat \ {0}] /\ m = Len(J.batch) /\ x = [r |-> r, n |-> n]
  OBVIOUS
<1>2. x \in T /\ x.r = r /\ x.n = n
  BY <1>1
<1>3. J.batch \in Seq(T) /\ m \in Nat /\ DOMAIN J.batch = 1..m /\ J.i = 1 /\ MaxBatch \in Nat /\ m < MaxBatch /\ C.err = "none"
  BY <1>1, PrefixAssumption DEF Steady
<1>4. PICK b : b = Append(J.batch, x)
  OBVIOUS
<1>5. /\ b \in Seq(T) /\ Len(b) = m + 1 /\ DOMAIN b = 1..(m + 1) /\ b[m + 1] = x
      /\ \A k \in 1..m : b[k] = J.batch[k]
  BY <1>1, <1>2, <1>3, <1>4
<1>6. I.pc = "plan" /\ I.batch = b /\ I.i = 1 /\ I.budget = g /\ I.step = t /\ I.charged = c
  BY <1>1, <1>3, <1>4 DEF Joining
<1>7. \A k \in DOMAIN J.batch : J.batch[k].r \in Requests
  BY BatchFacts
<1>8. \A k \in 1..(m + 1) : k \in 1..m \/ k = m + 1
  BY <1>3
<1>9. \A k, l \in DOMAIN b : b[k].r = b[l].r => k = l
  <2>1. \A k, l \in 1..m : J.batch[k].r = J.batch[l].r => k = l
    BY <1>3 DEF Steady
  <2>2. \A k \in 1..m : b[k].r # r
    BY <1>3, <1>5
  <2>3. SUFFICES ASSUME NEW k \in 1..(m + 1), NEW l \in 1..(m + 1), b[k].r = b[l].r PROVE k = l
    BY <1>5
  <2>4. b[m + 1].r = r
    BY <1>2, <1>5
  <2>5. CASE k = m + 1 \/ l = m + 1
    BY <1>8, <2>2, <2>3, <2>4, <2>5
  <2>6. CASE k \in 1..m /\ l \in 1..m
    BY <1>5, <2>1, <2>3, <2>6
  <2>7. QED BY <1>8, <2>3, <2>5, <2>6
<1>10. \A k \in DOMAIN b : R[b[k].r].pos + b[k].n <= Len(Path[b[k].r])
  <2>1. \A k \in 1..m : Q[J.batch[k].r].pos + J.batch[k].n <= Len(Path[J.batch[k].r])
    BY <1>3 DEF Steady
  <2>2. ASSUME NEW k \in 1..m PROVE R[b[k].r].pos + b[k].n <= Len(Path[b[k].r])
    <3>1. b[k] = J.batch[k] /\ b[k].r \in Requests /\ b[k].r # r
      BY <1>3, <1>5, <1>7
    <3>2. R[b[k].r] = Q[b[k].r]
      BY <3>1
    <3>3. QED BY <2>1, <3>1, <3>2
  <2>3. R[b[m + 1].r].pos + b[m + 1].n <= Len(Path[b[m + 1].r])
    BY <1>2, <1>5
  <2>4. QED BY <1>5, <1>8, <2>2, <2>3
<1>11. Len(b) <= MaxBatch /\ 1 \in 1..MaxBatch
  BY <1>3, <1>5
<1>12. b \in Seq([r : Requests, n : Nat \ {0}])
  BY <1>1, <1>5
<1>13. I = [pc |-> I.pc, batch |-> I.batch, i |-> I.i, budget |-> I.budget, step |-> I.step, charged |-> I.charged]
  BY DEF Joining
<1>14. Steady(E, R, I)
  BY <1>6, <1>9, <1>10, <1>11, <1>12, <1>13 DEF Steady
<1>15. m + 1 \in DOMAIN b /\ m + 1 >= 1 /\ b[m + 1].r = r
  BY <1>2, <1>3, <1>5
<1>16. \A k \in DOMAIN J.batch : k \in DOMAIN b /\ b[k] = J.batch[k] /\ k >= 1
  BY <1>3, <1>5
<1>17. QED BY <1>6, <1>14, <1>15, <1>16 DEF Joined

\* A prompt is admitted.
LEMMA AdmitStep ==
  ASSUME PrefixInv, NEW r \in Requests, Admit(r)
  PROVE  PrefixInv'
<1>1. Invariant(conf, cache, req, job) /\ Core(conf, cache, req, job) /\ Sound(cache) /\ Steady(cache, req, job)
  BY DEF PrefixInv, Invariant, Core
<1>2. /\ job.pc = "plan" /\ Len(job.batch) < MaxBatch /\ \A k \in DOMAIN job.batch : job.batch[k].r # r
      /\ conf' = conf /\ cache.err = "none"
  BY <1>1 DEF Admit, Steady
<1>3. PICK P \in Poll(cache) :
        LET fresh == req[r].pos = 0
            hit == IF fresh /\ ~req[r].replay THEN LongestHit(P, r) ELSE 0
            Q == IF fresh THEN Query(P, Capacity) ELSE P
            start == req[r].pos + hit
            n == Min({Prompt[r] - start, Chunk, job.step})
            charge == IF fresh THEN HitCharge(Q, hit, r) ELSE {}
            cost == IF fresh THEN Prompt[r] - hit + Cardinality(charge \ job.charged) ELSE 0
        IN /\ n > 0
           /\ cost <= job.budget
           /\ cache' = Q
           /\ req' = IF fresh THEN [req EXCEPT ![r].hit = hit, ![r].pos = hit] ELSE req
           /\ job' = [job EXCEPT !.batch = Append(@, [r |-> r, n |-> n]),
                                 !.budget = @ - cost, !.step = @ - n,
                                 !.charged = @ \cup charge]
  BY DEF Admit
<1>4. PICK h : h = IF req[r].pos = 0 /\ ~req[r].replay THEN LongestHit(P, r) ELSE 0
  OBVIOUS
<1>5. PICK E : E = IF req[r].pos = 0 THEN Query(P, Capacity) ELSE P
  OBVIOUS
<1>6. PICK n : n = Min({Prompt[r] - (req[r].pos + h), Chunk, job.step})
  OBVIOUS
<1>7. PICK charge : charge = IF req[r].pos = 0 THEN HitCharge(E, h, r) ELSE {}
  OBVIOUS
<1>8. PICK cost : cost = IF req[r].pos = 0 THEN Prompt[r] - h + Cardinality(charge \ job.charged) ELSE 0
  OBVIOUS
<1>9. /\ n > 0 /\ cache' = E
      /\ req' = IF req[r].pos = 0 THEN [req EXCEPT ![r].hit = h, ![r].pos = h] ELSE req
      /\ job' = [job EXCEPT !.batch = Append(@, [r |-> r, n |-> n]), !.budget = @ - cost,
                            !.step = @ - n, !.charged = @ \cup charge]
  BY <1>3, <1>4, <1>5, <1>6, <1>7, <1>8, Zenon
<1>10. Sound(P) /\ Polled(cache, P)
  BY <1>1, PollSound
<1>11. Invariant(conf, P, req, job) /\ P.err = "none"
  BY <1>1, <1>2, <1>10, PollStep
<1>12. Invariant(conf, E, req, job) /\ E.err = "none" /\ E.index = P.index
  <2>1. PICK F : F = Query(P, Capacity)
    OBVIOUS
  <2>2. Capacity \in Kinds
    BY DEF Capacity, Kinds
  <2>3. Invariant(conf, F, req, job) /\ Twin(P, F)
    BY <1>11, <2>1, <2>2, QueryStep
  <2>4. QED BY <1>5, <1>11, <2>1, <2>3 DEF Twin
<1>13. Core(conf, E, req, job) /\ Backed(conf, E) /\ Steady(E, req, job) /\ req \in [Requests -> ReqType] /\ Sound(E)
  BY <1>12 DEF Invariant, Core
<1>14. Fit(req[r], r) /\ \A s \in Requests : Anchored(E, job, req[s], s)
  BY <1>13 DEF Core
<1>15. PICK p, q : p = req[r] /\ q = IF req[r].pos = 0 THEN [req[r] EXCEPT !.hit = h, !.pos = h] ELSE req[r]
  OBVIOUS
<1>16. /\ p \in ReqType /\ p.pos \in Nat /\ p.hit \in Nat /\ p.att \in Nat /\ p.fwd \in Seq(Nat) /\ p.priv \in Int /\ p.held \subseteq Blocks
      /\ Flying(p.fwd) \in Nat /\ Len(Path[r]) \in Nat /\ Prompt[r] \in 1..Len(Path[r])
  <2>1. p \in ReqType
    BY <1>13, <1>15
  <2>2. p.pos \in Nat /\ p.hit \in Nat /\ p.att \in Nat /\ p.fwd \in Seq(Nat) /\ p.priv \in Int /\ p.held \subseteq Blocks
    BY <2>1 DEF ReqType
  <2>3. QED BY <2>1, <2>2, FlyingFacts, PathFacts
<1>17. h \in Nat /\ h < Prompt[r] /\ Between(r, 1, h) \subseteq E.index
  <2>1. CASE req[r].pos = 0 /\ ~req[r].replay
    BY <1>4, <1>10, <1>12, <2>1, LongestHitFacts
  <2>2. CASE ~(req[r].pos = 0 /\ ~req[r].replay)
    <3>1. h = 0
      BY <1>4, <2>2
    <3>2. Between(r, 1, h) = {}
      <4>1. 1..0 = {}
        OBVIOUS
      <4>2. QED BY <3>1, <4>1 DEF Between
    <3>3. QED BY <1>16, <3>1, <3>2
  <2>3. QED BY <2>1, <2>2
<1>18. /\ q \in ReqType /\ q.held = p.held /\ q.att = p.att /\ q.priv = p.priv /\ q.fwd = p.fwd
       /\ q.pos = (IF p.pos = 0 THEN h ELSE p.pos) /\ q.hit = (IF p.pos = 0 THEN h ELSE p.hit)
  BY <1>15, <1>16, <1>17 DEF ReqType
<1>19. p.pos = 0 => p.hit = 0 /\ p.att = 0 /\ Flying(p.fwd) = 0 /\ p.priv = 0 /\ p.held = {}
  <2>1. ASSUME p.pos = 0 PROVE p.hit = 0 /\ p.att = 0
    BY <1>14, <1>15, <1>16, <2>1 DEF Fit
  <2>2. QED BY <1>14, <1>15, <2>1, FreshFacts
<1>20. p.pos # 0 => h = 0
  BY <1>4, <1>15
<1>21. q.pos = p.pos + h
  BY <1>16, <1>17, <1>18, <1>20
<1>22. Fit(q, r)
  <2>1. CASE p.pos = 0
    <3>1. q.hit = h /\ q.pos = h /\ q.att = 0 /\ q.priv = 0 /\ q.held = {} /\ Flying(q.fwd) = 0
      BY <1>18, <1>19, <2>1
    <3>2. h \in Nat /\ h <= Len(Path[r])
      BY <1>16, <1>17
    <3>3. QED BY <1>18, <3>1, <3>2 DEF Fit
  <2>2. CASE p.pos # 0
    <3>1. q = req[r]
      BY <1>15, <2>2
    <3>2. QED BY <1>14, <3>1
  <2>3. QED BY <2>1, <2>2
<1>23. req' = [req EXCEPT ![r] = q]
  <2>1. CASE p.pos = 0
    <3>1. req' = [req EXCEPT ![r].hit = h, ![r].pos = h] /\ q = [req[r] EXCEPT !.hit = h, !.pos = h]
      BY <1>9, <1>15, <2>1
    <3>2. [req EXCEPT ![r].hit = h, ![r].pos = h] = [req EXCEPT ![r] = [req[r] EXCEPT !.hit = h, !.pos = h]]
      BY <1>13
    <3>3. QED BY <3>1, <3>2
  <2>2. CASE p.pos # 0
    <3>1. req' = req /\ q = req[r]
      BY <1>9, <1>15, <2>2
    <3>2. QED BY <1>13, <3>1
  <2>3. QED BY <2>1, <2>2
<1>24. PICK R : R = [req EXCEPT ![r] = q]
  OBVIOUS
<1>25. R[r] = q /\ \A s \in Requests : s # r => R[s] = req[s]
  BY <1>13, <1>24
<1>26. n \in Nat \ {0} /\ n <= Prompt[r] - (p.pos + h)
  <2>1. Chunk \in Int /\ job.step \in Int
    BY <1>1, PrefixAssumption DEF Steady
  <2>2. PICK a : a = Prompt[r] - (p.pos + h) /\ a \in Int
    BY <1>16, <1>17
  <2>3. n = Min({a, Chunk, job.step})
    BY <1>6, <1>15, <2>2
  <2>4. n \in Int /\ n <= a
    BY <2>1, <2>2, <2>3, MinThree
  <2>5. QED BY <1>9, <2>2, <2>4
<1>27. R[r].pos + n <= Len(Path[r])
  BY <1>16, <1>17, <1>21, <1>25, <1>26, SMTT(30)
<1>28. PICK g, t, c : g = job.budget - cost /\ t = job.step - n /\ c = job.charged \cup charge
  OBVIOUS
<1>29. t \in Int
  BY <1>1, <1>26, <1>28 DEF Steady
<1>30. job' = [pc |-> "plan", batch |-> Append(job.batch, [r |-> r, n |-> n]), i |-> job.i, budget |-> g, step |-> t, charged |-> c]
  <2>1. PICK b : b = Append(job.batch, [r |-> r, n |-> n])
    OBVIOUS
  <2>2. job' = [job EXCEPT !.batch = b, !.budget = g, !.step = t, !.charged = c]
    BY <1>9, <1>28, <2>1
  <2>3. job = [pc |-> job.pc, batch |-> job.batch, i |-> job.i, budget |-> job.budget, step |-> job.step, charged |-> job.charged]
    BY <1>1 DEF Steady
  <2>4. PICK u, v, w, x, y, z : job = [pc |-> u, batch |-> v, i |-> w, budget |-> x, step |-> y, charged |-> z]
    BY <2>3
  <2>5. job.pc = u /\ job.i = w
    BY <2>4
  <2>6. job' = [pc |-> u, batch |-> b, i |-> w, budget |-> g, step |-> t, charged |-> c]
    BY <2>2, <2>4
  <2>7. QED BY <1>2, <2>1, <2>5, <2>6
<1>31. PICK I : I = job'
  OBVIOUS
<1>32. /\ Steady(E, R, I) /\ I.pc = "plan" /\ I.i = 1
       /\ \A k \in DOMAIN job.batch : k \in DOMAIN I.batch /\ I.batch[k] = job.batch[k] /\ k >= I.i
       /\ \E k \in DOMAIN I.batch : I.batch[k].r = r /\ k >= I.i
  <2>1. I = Joining(job, r, n, g, t, c)
    BY <1>30, <1>31 DEF Joining
  <2>2. /\ Steady(E, req, job) /\ job.pc = "plan" /\ Len(job.batch) < MaxBatch
        /\ \A k \in DOMAIN job.batch : job.batch[k].r # r
        /\ n \in Nat \ {0} /\ E.err = "none" /\ R[r].pos + n <= Len(Path[r]) /\ t \in Int
        /\ \A s \in Requests : s # r => R[s] = req[s]
    BY <1>2, <1>12, <1>13, <1>25, <1>26, <1>27, <1>29
  <2>3. Steady(E, R, I) /\ Joined(job, I, r)
    BY <2>1, <2>2, JoinBatch
  <2>4. QED BY <2>3 DEF Joined
<1>33. ASSUME NEW s \in Requests PROVE Anchored(E, I, R[s], s)
  <2>1. Anchored(E, job, req[s], s)
    BY <1>14
  <2>2. CASE s # r
    <3>1. R[s] = req[s]
      BY <1>25, <2>2
    <3>2. req[s].att # req[s].hit => \E k \in DOMAIN I.batch : I.batch[k].r = s /\ k >= I.i
      BY <1>32, <2>1 DEF Anchored
    <3>3. QED BY <1>2, <1>32, <2>1, <3>1, <3>2 DEF Anchored
  <2>3. CASE s = r
    <3>1. R[s] = q /\ Grip(q, r) = Grip(req[r], r) /\ Root2Att(q, r) = Root2Att(req[r], r)
      BY <1>15, <1>18, <1>25, <2>3 DEF Grip, Root2Att
    <3>2. Root2Att(q, r) \subseteq E.dev /\ Grip(q, r) \subseteq E.index
      BY <1>2, <2>1, <2>3, <3>1 DEF Anchored
    <3>3. q.att # q.hit => Range(SubSeq(Path[r], 1, q.hit)) \subseteq E.index
      <4>1. CASE p.pos = 0
        <5>1. q.hit = h /\ h <= Len(Path[r])
          BY <1>16, <1>17, <1>18, <4>1
        <5>2. Range(SubSeq(Path[r], 1, h)) = Between(r, 1, h)
          BY <1>17, <5>1, StartFacts
        <5>3. QED BY <1>17, <5>1, <5>2
      <4>2. CASE p.pos # 0
        <5>1. q = req[r]
          BY <1>15, <4>2
        <5>2. QED BY <1>2, <2>1, <2>3, <5>1 DEF Anchored
      <4>3. QED BY <4>1, <4>2
    <3>4. QED BY <1>32, <2>3, <3>1, <3>2, <3>3 DEF Anchored
  <2>4. QED BY <2>2, <2>3
<1>34. Core(conf, E, R, I)
  BY <1>13, <1>15, <1>18, <1>22, <1>24, <1>32, <1>33, QuietStep, ZenonT(30)
<1>35. QED BY <1>2, <1>9, <1>13, <1>23, <1>24, <1>31, <1>34 DEF PrefixInv, Invariant

\* Sums of a sound cache.
LEMMA SumTypes ==
  ASSUME NEW C, Sound(C)
  PROVE  DevSum(C) \in Int /\ HostSum(C) \in Int /\ C.slots \in Int /\ C.pool \in Int /\ Cardinality(C.dev) \in Nat
<1>1. C.dev \subseteq Blocks /\ C.host \cup C.out \subseteq Blocks /\ C.slots \in Int /\ C.pool \in Int
  BY CacheFields DEF Sound, Sharp, Kept
<1>2. Cardinality(C.dev) \in Nat /\ Cardinality(C.host \cup C.out) \in Nat
  BY <1>1, PrefixAssumption, FS_Subset, FS_CardinalityType
<1>3. QED BY <1>1, <1>2 DEF DevSum, HostSum

\* The books when one request changes.
Rebooked(K, C, E, p, q, r) ==
  /\ Sound(E) /\ E.slots >= 0 /\ E.pool >= 0
  /\ DevSum(E) + q.priv = DevSum(C) + p.priv /\ HostSum(E) = HostSum(C)
  /\ E.err = "room" => K.host = 0
  /\ \A x \in Blocks : E.ref[x] = C.ref[x] - One(x, Grip(p, r)) + One(x, Grip(q, r))

\* The ledger after one request and the cache changed together.
LEMMA LedgerChange ==
  ASSUME NEW K, NEW C, Sound(C), NEW Q \in [Requests -> ReqType], Ledger(K, C, Q), NEW r \in Requests, NEW q \in ReqType,
         NEW R, R = [Q EXCEPT ![r] = q], NEW E, Rebooked(K, C, E, Q[r], q, r)
  PROVE  Ledger(K, E, R)
<1>1. DevSum(C) \in Int /\ DevSum(E) \in Int /\ Q[r].priv \in Int /\ q.priv \in Int
  BY SumTypes DEF ReqType, Rebooked
<1>2. PrivSum(R) = PrivSum(Q) - Q[r].priv + q.priv /\ PrivSum(Q) \in Int
  BY PrivateChange
<1>3. DevSum(C) + PrivSum(Q) = NumSlots
  BY DEF Ledger
<1>7. DevSum(E) + q.priv = DevSum(C) + Q[r].priv
  BY DEF Rebooked
<1>4. DevSum(E) + PrivSum(R) = NumSlots
  BY <1>1, <1>2, <1>3, <1>7
<1>5. ASSUME NEW x \in Blocks PROVE E.ref[x] = Cardinality(Holders(R, x))
  <2>1. Cardinality(Holders(R, x)) = Cardinality(Holders(Q, x)) - One(x, Grip(Q[r], r)) + One(x, Grip(q, r))
    BY HoldersChange
  <2>2. C.ref[x] = Cardinality(Holders(Q, x))
    BY DEF Ledger
  <2>3. QED BY <2>1, <2>2 DEF Rebooked
<1>6. QED BY <1>4, <1>5 DEF Ledger, Rebooked

\* A hit is attached: references are taken, host blocks are asked back.
LEMMA AttachStep ==
  ASSUME PrefixInv, Attach
  PROVE  PrefixInv'
<1>1. Invariant(conf, cache, req, job) /\ Sound(cache) /\ Steady(cache, req, job)
  BY SMTT(30) DEF PrefixInv, Invariant, Core
<1>2. PICK r : r = job.batch[job.i].r
  OBVIOUS
<1>3. PICK P \in Poll(cache) :
        /\ cache' = Attaching(P, r)
        /\ job' = IF HostOnly(P, r) = {} THEN NextAttach ELSE [job EXCEPT !.pc = "promote"]
  BY <1>2, SMTT(30) DEF Attach, Item
<1>4. /\ cache.err = "none" /\ job.pc = "attach" /\ req[r].hit # req[r].att
      /\ req' = [req EXCEPT ![r].att = req[r].hit] /\ conf' = conf
  BY <1>2, SMTT(30) DEF Attach, Item, Running
<1>5. job.i \in DOMAIN job.batch /\ r \in Requests
  BY <1>1, <1>2, <1>4, BatchFacts
<1>6. Sound(P) /\ Polled(cache, P)
  BY <1>1, PollSound
<1>7. Invariant(conf, P, req, job) /\ P.err = "none"
  BY <1>1, <1>4, <1>6, PollStep
<1>8. /\ Core(conf, P, req, job) /\ Backed(conf, P) /\ req \in [Requests -> ReqType] /\ Steady(P, req, job) /\ Ledger(conf, P, req)
      /\ \A s \in Requests : Fit(req[s], s) /\ Anchored(P, job, req[s], s)
  BY <1>7 DEF Invariant, Core
<1>9. PICK p, h : p = req[r] /\ h = req[r].hit
  OBVIOUS
<1>10. /\ p \in ReqType /\ h \in Nat /\ p.hit = h /\ p.att \in Nat /\ p.pos \in Nat /\ Len(Path[r]) \in Nat /\ p.priv \in Int
       /\ p.fwd \in Seq(Nat) /\ Flying(p.fwd) \in Nat
  <2>1. p \in ReqType
    BY <1>5, <1>8, <1>9
  <2>2. h \in Nat /\ p.hit = h /\ p.att \in Nat /\ p.pos \in Nat /\ p.fwd \in Seq(Nat) /\ p.priv \in Int
    BY <1>9, <2>1 DEF ReqType
  <2>3. QED BY <1>5, <2>1, <2>2, PathFacts, FlyingFacts
<1>11. p.att = 0 /\ p.pos = h /\ h <= Len(Path[r]) /\ p.att # p.hit
  BY <1>4, <1>5, <1>8, <1>9 DEF Fit
<1>12. Flying(p.fwd) = 0 /\ p.priv = 0 /\ p.held = {}
  BY <1>5, <1>8, <1>9, <1>11, FreshFacts
<1>13. PICK s : s = SubSeq(Path[r], 1, h)
  OBVIOUS
<1>14. s \in Seq(Blocks) /\ IsInjective(s) /\ Range(s) = Between(r, 1, h) /\ Len(s) = h /\ \A k \in 1..h : s[k] = Path[r][k]
  BY <1>5, <1>10, <1>11, <1>13, StartFacts, ZenonT(30)
<1>15. Range(s) \subseteq P.index
  BY <1>5, <1>7, <1>8, <1>9, <1>11, <1>13 DEF Anchored
<1>16. Chain(r) = s
  BY <1>9, <1>13 DEF Chain
<1>17. Resident(P) /\ P.index \subseteq Blocks
  BY <1>6, CacheFields DEF Sound, Sharp, Kept
<1>18. PICK A : A = HostOnly(P, r)
  OBVIOUS
<1>19. \A x : x \in A <=> x \in Range(s) /\ x \notin P.dev
  BY <1>16, <1>18 DEF HostOnly
<1>20. A \subseteq P.host \ Moving(P)
  BY <1>15, <1>17, <1>19 DEF Resident, Moving
<1>21. ~ \E i, j \in DOMAIN s : i < j /\ s[i] \in A /\ s[j] \notin A
  <2>1. SUFFICES ASSUME NEW i \in DOMAIN s, NEW j \in DOMAIN s, i < j, s[i] \in A, s[j] \notin A PROVE FALSE
    OBVIOUS
  <2>2. i \in 1..h /\ j \in 1..h /\ j \in 1..Len(Path[r]) /\ i \in 1..j /\ s[i] = Path[r][i] /\ s[j] = Path[r][j]
    BY <1>10, <1>11, <1>14, <2>1
  <2>3. s[j] \in Range(s)
    BY <2>1 DEF Range
  <2>4. Path[r][j] \in P.dev
    BY <1>19, <2>1, <2>2, <2>3
  <2>5. Closed(P.dev)
    BY <1>17 DEF Resident
  <2>6. Path[r][i] \in P.dev
    BY <1>5, <2>2, <2>4, <2>5, PathClosed
  <2>7. QED BY <1>19, <2>1, <2>2, <2>6
<1>22. cache' = AcquireAll(P, s)
  BY <1>3, <1>15, <1>16, <1>18, <1>20, <1>21 DEF Attaching
<1>23. PICK E : E = AcquireAll(P, s)
  OBVIOUS
<1>24. Sound(E) /\ RefTwin(P, E) /\ \A x \in Blocks : E.ref[x] = P.ref[x] + One(x, Range(s))
  BY <1>6, <1>14, <1>15, <1>23, AcquireAllSound
<1>25. PICK q : q = [p EXCEPT !.att = h]
  OBVIOUS
<1>26. /\ q \in ReqType /\ q.att = h /\ q.hit = h /\ q.pos = h /\ q.held = {} /\ q.priv = 0 /\ q.fwd = p.fwd
  BY <1>10, <1>11, <1>12, <1>25 DEF ReqType
<1>27. Fit(q, r)
  BY <1>10, <1>11, <1>12, <1>26 DEF Fit
<1>28. Root2Att(p, r) = {} /\ Grip(p, r) = {} /\ Root2Att(q, r) = Range(s) /\ Grip(q, r) = Range(s)
  <2>3. PICK n : n = 0 /\ n \in Nat /\ n <= Len(Path[r])
    BY <1>10
  <2>4. Range(SubSeq(Path[r], 1, n)) = {}
    BY <1>5, <2>3, StartFacts
  <2>1. Range(SubSeq(Path[r], 1, 0)) = {}
    BY <2>3, <2>4
  <2>2. QED BY <1>11, <1>12, <1>13, <1>26, <2>1 DEF Grip, Root2Att
<1>29. PICK R : R = [req EXCEPT ![r] = q]
  OBVIOUS
<1>30. R \in [Requests -> ReqType] /\ R[r] = q /\ \A x \in Requests : x # r => R[x] = req[x]
  BY <1>5, <1>8, <1>26, <1>29
<1>31. req' = R
  BY <1>4, <1>8, <1>9, <1>25, <1>29
<1>32. Ledger(conf, E, R)
  <2>1. \A x \in Blocks : P.ref[x] \in Int
    BY <1>8, HeldCounted
  <2>2. \A x : One(x, Grip(req[r], r)) = 0 /\ One(x, Grip(q, r)) = One(x, Range(s)) /\ One(x, Range(s)) \in Int
    BY <1>9, <1>28 DEF One
  <2>3. \A x \in Blocks : E.ref[x] = P.ref[x] - One(x, Grip(req[r], r)) + One(x, Grip(q, r))
    BY <1>24, <2>1, <2>2
  <2>4. /\ DevSum(E) = DevSum(P) /\ HostSum(E) = HostSum(P) /\ E.slots >= 0 /\ E.pool >= 0
        /\ (E.err = "room" => conf.host = 0) /\ q.priv = req[r].priv
    BY <1>8, <1>9, <1>12, <1>24, <1>26 DEF RefTwin, DevSum, HostSum, Ledger
  <2>5. DevSum(E) + q.priv = DevSum(P) + req[r].priv
    BY <2>4
  <2>6. Rebooked(conf, P, E, req[r], q, r)
    BY <1>24, <2>3, <2>4, <2>5 DEF Rebooked
  <2>7. QED BY <1>5, <1>6, <1>8, <1>26, <1>29, <2>6, LedgerChange
<1>33. PICK J : J = [job EXCEPT !.pc = "promote"]
  OBVIOUS
<1>34. /\ J = [pc |-> "promote", batch |-> job.batch, i |-> job.i, budget |-> job.budget, step |-> job.step, charged |-> job.charged]
       /\ J.pc = "promote" /\ J.batch = job.batch /\ J.i = job.i /\ J.budget = job.budget /\ J.step = job.step /\ J.charged = job.charged
  BY <1>8, <1>33 DEF Steady
<1>35. E.err = "none" /\ E.index = P.index /\ E.dev = P.dev
  BY <1>7, <1>24 DEF RefTwin
<1>36. \A x \in Requests : R[x].pos = req[x].pos
  BY <1>9, <1>11, <1>26, <1>30
<1>37. \A k \in DOMAIN job.batch : job.batch[k].r \in Requests
  BY <1>1, BatchFacts, SMTT(30)
<1>38. Steady(E, R, J)
  <2>1. \A k \in DOMAIN job.batch : R[job.batch[k].r].pos + job.batch[k].n <= Len(Path[job.batch[k].r])
    BY <1>4, <1>7, <1>8, <1>36, <1>37 DEF Steady
  <2>2. R[job.batch[job.i].r].att = R[job.batch[job.i].r].hit
    BY <1>2, <1>26, <1>30
  <2>3. /\ job.batch \in Seq([r : Requests, n : Nat \ {0}]) /\ Len(job.batch) <= MaxBatch /\ job.i \in 1..MaxBatch
        /\ job.step \in Int /\ job.i <= Len(job.batch)
        /\ \A k, l \in DOMAIN job.batch : job.batch[k].r = job.batch[l].r => k = l
    BY <1>4, <1>8 DEF Steady
  <2>4. QED BY <1>34, <1>35, <2>1, <2>2, <2>3 DEF Steady
<1>39. ASSUME NEW x \in Requests PROVE Fit(R[x], x) /\ Anchored(E, J, R[x], x)
  <2>1. CASE x = r
    <3>1. R[x] = q /\ q.att = q.hit
      BY <1>26, <1>30, <2>1
    <3>2. QED BY <1>2, <1>15, <1>27, <1>28, <1>34, <1>35, <2>1, <3>1 DEF Anchored
  <2>2. CASE x # r
    <3>1. R[x] = req[x] /\ Fit(req[x], x) /\ Anchored(P, job, req[x], x)
      BY <1>8, <1>30, <2>2
    <3>2. Root2Att(req[x], x) \subseteq P.dev /\ Grip(req[x], x) \subseteq P.index
      BY <1>4, <3>1 DEF Anchored
    <3>3. req[x].att # req[x].hit =>
            /\ \E k \in DOMAIN J.batch : J.batch[k].r = x /\ k >= J.i
            /\ Range(SubSeq(Path[x], 1, req[x].hit)) \subseteq P.index
      BY <1>7, <1>34, <3>1 DEF Anchored
    <3>4. QED BY <1>34, <1>35, <3>1, <3>2, <3>3 DEF Anchored
  <2>3. QED BY <2>1, <2>2
<1>40. Core(conf, E, R, J)
  BY <1>8, <1>24, <1>30, <1>32, <1>38, <1>39 DEF Core
<1>41. Backed(conf, E)
  <2>1. \A x \in Blocks : E.ref[x] = 0 => P.ref[x] = 0
    <3>1. \A x \in Blocks : P.ref[x] \in Nat /\ One(x, Range(s)) \in Nat
      BY <1>8, HeldCounted DEF One
    <3>2. QED BY <1>24, <3>1
  <2>2. P.dev \subseteq Blocks
    BY <1>6, CacheFields DEF Sound, Sharp, Kept
  <2>3. QED BY <1>7, <1>8, <1>24, <2>1, <2>2 DEF Backed, Settled, RefTwin
<1>42. Core(conf, E, R, job')
  <2>1. CASE A = {}
    <3>1. job' = Onward(job)
      BY <1>1, <1>3, <1>4, <1>18, <2>1, NextAttachIs
    <3>2. Onward(J) = Onward(job)
      BY <1>34 DEF Onward
    <3>3. Root2Att(q, r) \subseteq E.dev
      BY <1>19, <1>28, <1>35, <2>1
    <3>4. /\ J.pc \in {"attach", "promote"} /\ r = J.batch[J.i].r /\ R[r].att = R[r].hit /\ Root2Att(R[r], r) \subseteq E.dev
          /\ job' = Onward(J)
      BY <1>2, <1>26, <1>30, <1>34, <3>1, <3>2, <3>3
    <3>5. QED BY <1>35, <1>40, <3>4, OnwardStep
  <2>2. CASE A # {}
    BY <1>3, <1>18, <1>33, <1>40, <2>2
  <2>3. QED BY <2>1, <2>2
<1>43. QED BY <1>4, <1>22, <1>23, <1>31, <1>41, <1>42 DEF PrefixInv, Invariant

\* The host blocks of a hit are promoted to device slots.
LEMMA PromoteStep ==
  ASSUME PrefixInv, Promote
  PROVE  PrefixInv'
<1>1. /\ Core(conf, cache, req, job) /\ Backed(conf, cache) /\ Sound(cache) /\ Steady(cache, req, job) /\ req \in [Requests -> ReqType]
      /\ \A s \in Requests : Fit(req[s], s) /\ Anchored(cache, job, req[s], s)
  BY DEF PrefixInv, Invariant, Core
<1>2. PICK r : r = job.batch[job.i].r
  OBVIOUS
<1>3. PICK S : S = HostOnly(cache, r)
  OBVIOUS
<1>4. /\ cache.err = "none" /\ job.pc = "promote" /\ cache.slots >= Cardinality(S) /\ cache' = SubmitH2D(cache, S)
      /\ job' = [NextAttach EXCEPT !.pc = IF job.i < Len(job.batch) THEN "attach" ELSE "take"]
      /\ conf' = conf /\ req' = req
  BY <1>2, <1>3 DEF Promote, Running, Need, Item
<1>5. job.i \in DOMAIN job.batch /\ r \in Requests
  BY <1>1, <1>2, <1>4, BatchFacts
<1>6. req[r].att = req[r].hit
  BY <1>1, <1>2, <1>4 DEF Steady
<1>7. PICK h, s : h = req[r].hit /\ s = SubSeq(Path[r], 1, h)
  OBVIOUS
<1>8. h \in Nat /\ h <= Len(Path[r]) /\ Len(Path[r]) \in Nat
  <2>1. req[r] \in ReqType /\ Fit(req[r], r)
    BY <1>1, <1>5
  <2>2. req[r].hit \in Nat /\ req[r].pos \in Nat /\ req[r].fwd \in Seq(Nat) /\ Len(Path[r]) \in Nat
    BY <1>5, <2>1, PathFacts DEF ReqType
  <2>3. Flying(req[r].fwd) \in Nat
    BY <2>2, FlyingFacts
  <2>4. QED BY <1>7, <2>1, <2>2, <2>3 DEF Fit
<1>9. s \in Seq(Blocks) /\ Range(s) = Between(r, 1, h) /\ Len(s) = h /\ \A k \in 1..h : s[k] = Path[r][k]
  BY <1>5, <1>7, <1>8, StartFacts
<1>10. Root2Att(req[r], r) = Range(s) /\ Range(s) \subseteq cache.index
  BY <1>1, <1>5, <1>6, <1>7 DEF Root2Att, Anchored, Grip
<1>11. \A x : x \in S <=> x \in Range(s) /\ x \notin cache.dev
  BY <1>3, <1>7 DEF HostOnly, Chain
<1>12. Resident(cache) /\ cache.index \subseteq Blocks
  BY <1>1, CacheFields DEF Sound, Sharp, Kept
<1>13. S \in SUBSET cache.index /\ S \subseteq cache.host /\ S \cap cache.dev = {} /\ S \in SUBSET Blocks
  BY <1>10, <1>11, <1>12 DEF Resident
<1>14. ASSUME NEW b \in S PROVE Parent[b] = Root \/ Parent[b] \in cache.dev \cup S
  <2>1. PICK k \in 1..h : b = Path[r][k]
    BY <1>9, <1>11, <1>14 DEF Between
  <2>2. k \in 1..Len(Path[r])
    BY <1>8
  <2>3. Parent[b] = IF k = 1 THEN Root ELSE Path[r][k - 1]
    BY <1>5, <2>1, <2>2, PathFacts
  <2>4. CASE k = 1
    BY <2>3, <2>4
  <2>5. CASE k # 1
    <3>1. k - 1 \in 1..h
      BY <1>8, <2>5
    <3>2. Path[r][k - 1] \in Range(s)
      BY <1>9, <3>1 DEF Between
    <3>3. QED BY <1>11, <2>3, <2>5, <3>2
  <2>6. QED BY <2>4, <2>5
<1>15. Sound(cache') /\ Ascending(cache, cache', S)
  BY <1>1, <1>4, <1>13, <1>14, SubmitH2DSound
<1>16. DevSum(cache') = DevSum(cache) /\ cache'.slots = cache.slots - Cardinality(S) /\ Cardinality(S) \in Nat
  BY <1>1, <1>13, <1>15, AscendDevSum
<1>17. cache.slots \in Int /\ cache.pool >= 0
  BY <1>1, SumTypes DEF Core, Ledger
<1>18. cache'.slots >= 0
  BY <1>4, <1>16, <1>17
<1>19. Serves(cache, cache') /\ cache.index \subseteq cache'.index /\ cache'.err = "none"
  BY <1>4, <1>15, <1>16, <1>17, <1>18 DEF Serves, Ascending, HostSum
<1>20. Core(conf, cache', req, job)
  BY <1>1, <1>4, <1>19, CacheStep
<1>21. Settled(cache) => Settled(cache')
  BY <1>13, <1>15 DEF Settled, Ascending
<1>22. job' = Onward(job)
  BY <1>1, <1>4, NextAttachIs
<1>23. Root2Att(req[r], r) \subseteq cache'.dev
  BY <1>10, <1>11, <1>15 DEF Ascending
<1>24. Core(conf, cache', req, job')
  BY <1>2, <1>4, <1>6, <1>19, <1>20, <1>22, <1>23, OnwardStep
<1>25. QED BY <1>1, <1>4, <1>21, <1>24 DEF PrefixInv, Invariant, Backed

\* Without offload nothing is on the host.
LEMMA NoHost ==
  ASSUME NEW K, NEW C, NEW Q, NEW J, Core(K, C, Q, J), K.host = 0
  PROVE  C.host = {} /\ C.out = {} /\ C.index \subseteq C.dev
<1>1. Sound(C) /\ Ledger(K, C, Q)
  BY DEF Core
<1>2. PICK X : X = C.host \cup C.out
  OBVIOUS
<1>3. X \subseteq Blocks /\ C.pool \in Int /\ C.pool >= 0
  BY <1>1, <1>2, CacheFields DEF Sound, Sharp, Kept, Ledger
<1>4. IsFiniteSet(X) /\ Cardinality(X) \in Nat
  BY <1>3, PrefixAssumption, FS_Subset, FS_CardinalityType
<1>5. C.pool + Cardinality(X) = 0
  BY <1>1, <1>2 DEF Ledger, HostSum
<1>6. Cardinality(X) = 0
  BY <1>3, <1>4, <1>5
<1>7. X = {}
  BY <1>4, <1>6, FS_EmptySet
<1>8. QED BY <1>1, <1>2, <1>7 DEF Sound, Resident

\* Slots are reclaimed from blocks nobody holds.
LEMMA ReclaimStep ==
  ASSUME PrefixInv, Reclaim
  PROVE  PrefixInv'
<1>1. /\ Invariant(conf, cache, req, job) /\ Core(conf, cache, req, job) /\ Sound(cache) /\ Steady(cache, req, job)
      /\ \A s \in Requests : Fit(req[s], s) /\ Anchored(cache, job, req[s], s)
      /\ conf \in Confs
  BY DEF PrefixInv, Invariant, Core
<1>2. cache.err = "none" /\ cache.slots < Need /\ conf' = conf /\ req' = req /\ job' = job
  BY DEF Reclaim, Running
<1>3. cache.slots \in Int /\ cache.slots >= 0 /\ cache.pool \in Int /\ cache.pool >= 0 /\ conf.host \in Nat
  BY <1>1, SumTypes, PrefixAssumption DEF Core, Ledger
<1>4. job.pc # "plan"
  <2>1. job.pc = "plan" => Need = 0
    BY DEF Need
  <2>2. QED BY <1>2, <1>3, <2>1
<1>5. CASE ~Offload
  <2>1. conf.host = 0
    BY <1>3, <1>5 DEF Offload
  <2>2. cache.index \subseteq cache.dev
    BY <1>1, <2>1, NoHost
  <2>3. job.pc \notin {"plan", "attach", "promote"}
    <3>1. job.pc = "attach" => Need = 0
      BY DEF Need
    <3>2. ASSUME job.pc = "promote" PROVE FALSE
      <4>1. PICK r : r = job.batch[job.i].r
        OBVIOUS
      <4>2. r \in Requests /\ req[r].att = req[r].hit
        BY <1>1, <1>2, <3>2, <4>1, BatchFacts DEF Steady
      <4>3. Range(SubSeq(Path[r], 1, req[r].hit)) \subseteq cache.index
        BY <1>1, <4>2 DEF Anchored, Grip, Root2Att
      <4>4. HostOnly(cache, r) = {}
        BY <2>2, <4>3 DEF HostOnly, Chain
      <4>5. Need = Cardinality(HostOnly(cache, r))
        BY <3>2, <4>1 DEF Need, Item
      <4>6. Cardinality({}) = 0
        BY FS_EmptySet
      <4>7. Need = 0
        BY <4>4, <4>5, <4>6
      <4>8. QED BY <1>2, <1>3, <4>7, SMTT(30)
    <3>3. QED BY <1>2, <1>3, <1>4, <3>1, <3>2
  <2>4. AllAttached(req)
    BY <1>1, <2>3, SettledIn
  <2>5. PICK n, V : V \in Victims(FreeableIn(cache), cache.index, n)
                 /\ cache' = IF Evict(cache, V).slots < Need THEN Fail(Evict(cache, V), "slots") ELSE Evict(cache, V)
    BY <1>5 DEF Reclaim
  <2>6. PICK E : E = Evict(cache, V)
    OBVIOUS
  <2>7. Cut(cache, V)
    BY <2>5, VictimsCut
  <2>8. Sound(E) /\ Evicted(cache, E, V)
    BY <1>1, <1>2, <2>6, <2>7, EvictSound
  <2>9. Sharp(cache)
    BY <1>1 DEF Sound
  <2>10. \A x \in V : cache.ref[x] = 0
    BY <2>7, <2>9, CutFacts
  <2>11. HostSum(E) = HostSum(cache) /\ E.pool >= cache.pool /\ DevSum(E) = DevSum(cache) /\ E.slots >= cache.slots
    BY <1>1, <2>7, <2>8, EvictHostSum, EvictDevSum
  <2>12. E.slots \in Int /\ E.pool \in Int
    BY <2>8, SumTypes
  <2>13. E.slots >= 0 /\ E.pool >= 0
    BY <1>3, <2>11, <2>12
  <2>14. Serves(cache, E) /\ E.err = "none"
    BY <1>2, <2>8, <2>10, <2>11, <2>13 DEF Serves, Evicted
  <2>15. PICK F : F = Fail(E, "slots")
    OBVIOUS
  <2>16. Sound(F) /\ ErrTwin(E, F) /\ F.err = "slots"
    BY <2>8, <2>14, <2>15, FailSound DEF Errors
  <2>17. Serves(cache, F)
    BY <2>14, <2>16 DEF Serves, ErrTwin, DevSum, HostSum
  <2>18. cache' \in {E, F} /\ Serves(cache, cache') /\ cache'.err # "room"
    BY <2>5, <2>6, <2>14, <2>15, <2>16, <2>17
  <2>19. Core(conf, cache', req, job)
    BY <1>1, <1>4, <2>4, <2>18, CacheStep
  <2>20. QED BY <1>2, <2>1, <2>19 DEF PrefixInv, Invariant, Backed
<1>6. CASE Offload
  <2>1. PICK P, n : P \in Poll(cache) /\ \E V \in Victims(ReclaimableIn(P, FALSE), P.dev, n) :
          cache' = IF Demote(P, V).slots >= Need THEN Demote(P, V)
                   ELSE IF Demote(P, V).down # <<>> THEN FinishD2H(Demote(P, V)) ELSE Fail(Demote(P, V), "slots")
    BY <1>6 DEF Reclaim
  <2>2. PICK V \in Victims(ReclaimableIn(P, FALSE), P.dev, n) :
          cache' = IF Demote(P, V).slots >= Need THEN Demote(P, V)
                   ELSE IF Demote(P, V).down # <<>> THEN FinishD2H(Demote(P, V)) ELSE Fail(Demote(P, V), "slots")
    BY <2>1
  <2>3. PICK D : D = Demote(P, V)
    OBVIOUS
  <2>4. Sound(P) /\ Polled(cache, P)
    BY <1>1, <2>1, PollSound
  <2>5. Invariant(conf, P, req, job) /\ P.err = "none"
    BY <1>1, <1>2, <2>4, PollStep
  <2>6. Idle(P, V)
    BY <2>2, <2>4, DemoteVictims DEF Sound
  <2>7. Sound(D) /\ Demoted(P, D, V)
    BY <2>3, <2>4, <2>6, DemoteSound
  <2>8. V \subseteq P.dev /\ \A x \in V : P.ref[x] = 0
    BY <2>6 DEF Idle
  <2>9. DevSum(D) = DevSum(P) /\ D.slots >= P.slots
    BY <2>4, <2>7, <2>8, DemoteDevSum
  <2>10. P.slots \in Int /\ P.slots >= 0 /\ D.slots \in Int /\ P.pool >= 0
    BY <2>4, <2>5, <2>7, SumTypes DEF Invariant, Core, Ledger
  <2>11. D.slots >= 0
    BY <2>9, <2>10
  <2>12. Serves(P, D) /\ P.index \subseteq D.index /\ D.err = "none" /\ (Settled(P) => Settled(D))
    BY <2>5, <2>7, <2>8, <2>9, <2>10, <2>11 DEF Serves, Demoted, HostSum, Settled
  <2>13. Core(conf, D, req, job)
    BY <1>4, <2>5, <2>12, CacheStep DEF Invariant
  <2>14. Invariant(conf, D, req, job)
    BY <2>5, <2>12, <2>13 DEF Invariant, Backed
  <2>15. ASSUME D.down # <<>> PROVE Invariant(conf, FinishD2H(D), req, job)
    <3>1. PICK F : F = FinishD2H(D)
      OBVIOUS
    <3>2. Sound(F) /\ Polled(D, F)
      BY <2>7, <2>15, <3>1, FinishD2HSound
    <3>3. QED BY <2>14, <3>1, <3>2, PollStep
  <2>16. Invariant(conf, Fail(D, "slots"), req, job)
    <3>1. PICK F : F = Fail(D, "slots")
      OBVIOUS
    <3>2. Sound(F) /\ ErrTwin(D, F) /\ F.err = "slots"
      BY <2>7, <2>12, <3>1, FailSound DEF Errors
    <3>3. D.slots >= 0 /\ D.pool >= 0
      BY <2>13 DEF Core, Ledger
    <3>4. Serves(D, F) /\ D.index \subseteq F.index
      BY <3>2, <3>3 DEF Serves, ErrTwin, DevSum, HostSum
    <3>5. Core(conf, F, req, job)
      BY <1>4, <2>13, <3>2, <3>4, CacheStep
    <3>6. QED BY <3>1, <3>2, <3>5 DEF Invariant, Backed
  <2>17. Invariant(conf, cache', req, job)
    BY <2>2, <2>3, <2>14, <2>15, <2>16
  <2>18. QED BY <1>2, <2>17 DEF PrefixInv
<1>7. QED BY <1>5, <1>6

\* The same cache but for the free slots.
SlotTwin(C, D) ==
  /\ D.index = C.index /\ D.dev = C.dev /\ D.host = C.host /\ D.pinned = C.pinned
  /\ D.out = C.out /\ D.in = C.in /\ D.ref = C.ref /\ D.wt = C.wt
  /\ D.pool = C.pool /\ D.down = C.down /\ D.up = C.up /\ D.err = C.err

\* Only the number of free slots changes.
LEMMA SlotsSound ==
  ASSUME NEW C, Sound(C), NEW m \in Int, NEW D, D = [C EXCEPT !.slots = m]
  PROVE  /\ Sound(D) /\ SlotTwin(C, D) /\ D.slots = m
         /\ DevSum(D) = DevSum(C) - C.slots + m /\ HostSum(D) = HostSum(C) /\ (Settled(C) => Settled(D))
<1>1. C \in CacheType
  BY DEF Sound, Sharp, Kept
<1>2. /\ D \in CacheType /\ D.slots = m /\ SlotTwin(C, D)
      /\ D.built = C.built /\ D.free = C.free /\ D.kids = C.kids /\ D.view = C.view
  BY <1>1 DEF CacheType, SlotTwin
<1>3. Sound(D)
  BY <1>2, ShelfSound DEF SlotTwin
<1>4. HostSum(D) = HostSum(C) /\ (Settled(C) => Settled(D))
  BY <1>2 DEF SlotTwin, HostSum, Settled
<1>5. C.slots \in Int /\ Cardinality(C.dev) \in Nat /\ D.dev = C.dev
  BY <1>2, SumTypes DEF SlotTwin
<1>6. DevSum(D) = DevSum(C) - C.slots + m
  BY <1>2, <1>5 DEF DevSum
<1>7. QED BY <1>2, <1>3, <1>4, <1>6

\* A request that writes n tokens.
LEMMA AdvanceFits ==
  ASSUME NEW r \in Requests, NEW p, Fit(p, r), p.att = p.hit, NEW n \in Nat, n # 0, p.pos + n <= Len(Path[r]),
         NEW q, q = Advance(p, r, n)
  PROVE  /\ q \in ReqType /\ Fit(q, r) /\ q.att = p.att /\ q.hit = p.hit /\ q.held = p.held
         /\ q.priv = p.priv + n /\ q.pos = p.pos + n
<1>1. /\ p \in ReqType /\ p.pos \in Nat /\ p.hit \in Nat /\ p.priv \in Int /\ p.fwd \in Seq(Nat \ {0}) /\ p.replay \in BOOLEAN
      /\ p.att \in Nat /\ p.held \subseteq Blocks
  BY DEF Fit, ReqType
<1>2. PICK f : f = Append(p.fwd, n)
  OBVIOUS
<1>3. f \in Seq(Nat \ {0}) /\ p.fwd \in Seq(Nat)
  BY <1>1, <1>2
<1>4. Flying(p.fwd) \in Nat /\ Flying(f) = Flying(p.fwd) + n
  BY <1>2, <1>3, FlyingFacts
<1>5. PICK t, b : t \in {"wait", "decode"} /\ b \in BOOLEAN
        /\ q = [p EXCEPT !.pos = p.pos + n, !.priv = p.priv + n, !.fwd = f, !.st = t, !.replay = b]
  <2>1. PICK done : done = (p.pos + n >= Prompt[r])
    OBVIOUS
  <2>2. PICK t, b : t = (IF done THEN "decode" ELSE "wait") /\ b = (p.replay /\ ~done)
    OBVIOUS
  <2>3. t \in {"wait", "decode"} /\ b \in BOOLEAN
    BY <2>2
  <2>4. q = [p EXCEPT !.pos = p.pos + n, !.priv = p.priv + n, !.fwd = f, !.st = t, !.replay = b]
    BY <1>2, <2>1, <2>2 DEF Advance
  <2>5. QED BY <2>3, <2>4
<1>6. /\ q \in ReqType /\ q.att = p.att /\ q.hit = p.hit /\ q.held = p.held
      /\ q.priv = p.priv + n /\ q.pos = p.pos + n /\ q.fwd = f
  <2>1. PICK u, v : u = p.pos + n /\ v = p.priv + n /\ u \in Nat /\ v \in Int
    BY <1>1
  <2>2. q = [p EXCEPT !.pos = u, !.priv = v, !.fwd = f, !.st = t, !.replay = b]
    BY <1>5, <2>1
  <2>3. t \in {"idle", "wait", "decode"} /\ b \in BOOLEAN
    BY <1>5
  <2>4. q \in ReqType
    BY <1>1, <1>3, <2>1, <2>2, <2>3 DEF ReqType
  <2>5. q.att = p.att /\ q.hit = p.hit /\ q.held = p.held /\ q.priv = v /\ q.pos = u /\ q.fwd = f
    BY <1>1, <2>2 DEF ReqType
  <2>6. QED BY <2>1, <2>4, <2>5
<1>7. q.pos - Flying(f) = p.pos - Flying(p.fwd)
  BY <1>1, <1>4, <1>6
<1>8. Fit(q, r)
  <2>1. q.held \subseteq Between(r, q.hit + 1, q.pos - Flying(q.fwd))
    BY <1>6, <1>7 DEF Fit
  <2>2. q.hit + Flying(q.fwd) <= q.pos /\ q.pos <= Len(Path[r]) /\ Flying(q.fwd) <= q.priv /\ q.priv <= q.pos - q.hit
    BY <1>1, <1>4, <1>6, SMTT(30) DEF Fit
  <2>3. q.att <= q.hit /\ q.att = q.hit
    BY <1>6 DEF Fit
  <2>4. QED BY <1>6, <2>1, <2>2, <2>3 DEF Fit
<1>9. QED BY <1>6, <1>8

\* A prompt takes the slots of its chunk.
LEMMA TakePrefillStep ==
  ASSUME PrefixInv, TakePrefill
  PROVE  PrefixInv'
<1>1. /\ Core(conf, cache, req, job) /\ Backed(conf, cache) /\ Sound(cache) /\ Steady(cache, req, job) /\ req \in [Requests -> ReqType]
      /\ Ledger(conf, cache, req) /\ \A s \in Requests : Fit(req[s], s)
  BY DEF PrefixInv, Invariant, Core
<1>2. PICK r, n : r = job.batch[job.i].r /\ n = job.batch[job.i].n
  OBVIOUS
<1>3. /\ cache.err = "none" /\ job.pc = "take" /\ cache.slots >= n /\ cache' = [cache EXCEPT !.slots = @ - n]
      /\ req' = [req EXCEPT ![r] = Advance(@, r, n)]
      /\ job' = IF job.i < Len(job.batch) THEN [job EXCEPT !.i = @ + 1] ELSE NoJob
      /\ conf' = conf
  BY <1>2 DEF TakePrefill, Running, Need, Item
<1>4. job.i \in DOMAIN job.batch /\ r \in Requests /\ n \in Nat /\ n # 0
  BY <1>1, <1>2, <1>3, BatchFacts
<1>5. req[r].pos + n <= Len(Path[r])
  <2>1. job.i >= job.i
    BY <1>1 DEF Steady
  <2>2. QED BY <1>1, <1>2, <1>3, <1>4, <2>1 DEF Steady
<1>6. AllAttached(req) /\ \A s \in Requests : Root2Att(req[s], s) \subseteq cache.dev /\ Grip(req[s], s) \subseteq cache.index
  BY <1>1, <1>3, SettledIn
<1>7. PICK q : q = Advance(req[r], r, n)
  OBVIOUS
<1>8. /\ q \in ReqType /\ Fit(q, r) /\ q.att = req[r].att /\ q.hit = req[r].hit /\ q.held = req[r].held
      /\ q.priv = req[r].priv + n /\ q.pos = req[r].pos + n
  BY <1>1, <1>4, <1>5, <1>6, <1>7, AdvanceFits DEF AllAttached
<1>9. PICK R : R = [req EXCEPT ![r] = q]
  OBVIOUS
<1>10. req' = R /\ R \in [Requests -> ReqType] /\ R[r] = q /\ \A s \in Requests : s # r => R[s] = req[s]
  BY <1>1, <1>3, <1>4, <1>7, <1>8, <1>9
<1>11. cache.slots \in Int /\ DevSum(cache) \in Int /\ cache.slots - n \in Int
  BY <1>1, <1>4, SumTypes
<1>12. PICK m : m = cache.slots - n
  OBVIOUS
<1>13. cache' = [cache EXCEPT !.slots = m] /\ m \in Int /\ m >= 0
  BY <1>3, <1>4, <1>11, <1>12
<1>14. /\ Sound(cache') /\ SlotTwin(cache, cache') /\ cache'.slots = m
       /\ DevSum(cache') = DevSum(cache) - cache.slots + m /\ HostSum(cache') = HostSum(cache) /\ (Settled(cache) => Settled(cache'))
  BY <1>1, <1>13, SlotsSound
<1>15. Grip(q, r) = Grip(req[r], r) /\ Root2Att(q, r) = Root2Att(req[r], r)
  BY <1>8 DEF Grip, Root2Att
<1>16. Rebooked(conf, cache, cache', req[r], q, r)
  <2>1. req[r].priv \in Int
    BY <1>1, <1>4 DEF ReqType
  <2>2. DevSum(cache') + q.priv = DevSum(cache) + req[r].priv
    BY <1>4, <1>8, <1>11, <1>12, <1>14, <2>1
  <2>3. \A x \in Blocks : cache.ref[x] \in Int /\ One(x, Grip(q, r)) \in Int
    BY <1>1, HeldCounted DEF One
  <2>4. \A x \in Blocks : cache'.ref[x] = cache.ref[x] - One(x, Grip(req[r], r)) + One(x, Grip(q, r))
    BY <1>14, <1>15, <2>3 DEF SlotTwin
  <2>5. cache'.pool >= 0 /\ cache'.err = "none"
    BY <1>1, <1>3, <1>14 DEF SlotTwin, Ledger
  <2>6. QED BY <1>13, <1>14, <2>2, <2>4, <2>5 DEF Rebooked
<1>17. Ledger(conf, cache', R)
  BY <1>1, <1>4, <1>8, <1>9, <1>16, LedgerChange
<1>18. \A s \in Requests : Fit(R[s], s)
  BY <1>1, <1>8, <1>10
<1>19. \A s \in Requests : Anchored(cache', job', R[s], s)
  <2>1. \A s \in Requests : R[s].att = R[s].hit
    BY <1>6, <1>8, <1>10 DEF AllAttached
  <2>2. \A s \in Requests : Root2Att(R[s], s) \subseteq cache'.dev /\ Grip(R[s], s) \subseteq cache'.index
    BY <1>6, <1>10, <1>14, <1>15 DEF SlotTwin
  <2>3. QED BY <2>1, <2>2, Quiet DEF AllAttached
<1>20. Steady(cache', R, job')
  <2>1. CASE job.i < Len(job.batch)
    <3>1. PICK I : I = job'
      OBVIOUS
    <3>2. PICK u, v, w, x, y, z : job = [pc |-> u, batch |-> v, i |-> w, budget |-> x, step |-> y, charged |-> z]
      BY <1>1 DEF Steady
    <3>3. u = "take" /\ v = job.batch /\ w = job.i /\ x = job.budget /\ y = job.step /\ z = job.charged
      BY <1>3, <3>2
    <3>4. I = [pc |-> u, batch |-> v, i |-> w + 1, budget |-> x, step |-> y, charged |-> z]
      BY <1>3, <2>1, <3>1, <3>2
    <3>5. /\ I.pc = "take" /\ I.batch = job.batch /\ I.i = job.i + 1 /\ I.budget = job.budget /\ I.step = job.step /\ I.charged = job.charged
          /\ I = [pc |-> I.pc, batch |-> I.batch, i |-> I.i, budget |-> I.budget, step |-> I.step, charged |-> I.charged]
      BY <3>3, <3>4
    <3>6. /\ job.batch \in Seq([r : Requests, n : Nat \ {0}]) /\ Len(job.batch) <= MaxBatch /\ job.i \in 1..MaxBatch /\ MaxBatch \in Nat
          /\ job.step \in Int /\ Len(job.batch) \in Nat /\ \A k, l \in DOMAIN job.batch : job.batch[k].r = job.batch[l].r => k = l
      BY <1>1, BatchFacts, PrefixAssumption DEF Steady
    <3>7. I.i \in 1..MaxBatch /\ I.i <= Len(I.batch)
      BY <2>1, <3>5, <3>6
    <3>8. ASSUME NEW k \in DOMAIN job.batch, k >= job.i + 1
          PROVE  R[job.batch[k].r].pos + job.batch[k].n <= Len(Path[job.batch[k].r])
      <4>1. k \in Nat /\ k # job.i /\ k >= job.i
        BY <1>1, <3>6, <3>8, BatchFacts, SMTT(30)
      <4>2. job.batch[k].r # r /\ job.batch[k].r \in Requests
        BY <1>1, <1>2, <1>4, <3>6, <4>1, BatchFacts
      <4>3. R[job.batch[k].r] = req[job.batch[k].r]
        BY <1>10, <4>2
      <4>4. QED BY <1>1, <1>3, <4>1, <4>3 DEF Steady
    <3>9. Steady(cache', R, I)
      BY <3>5, <3>6, <3>7, <3>8 DEF Steady
    <3>10. QED BY <3>1, <3>9
  <2>2. CASE ~(job.i < Len(job.batch))
    BY <1>3, <2>2, NoJobSteady
  <2>3. QED BY <2>1, <2>2
<1>21. conf \in Confs
  BY <1>1 DEF Core
<1>22. Core(conf, cache', R, job')
  BY <1>10, <1>14, <1>17, <1>18, <1>19, <1>20, <1>21 DEF Core
<1>23. Backed(conf, cache')
  BY <1>1, <1>14 DEF Backed, SlotTwin
<1>24. QED BY <1>3, <1>10, <1>22, <1>23 DEF PrefixInv, Invariant

\* One for each.
LEMMA OnesSum ==
  ASSUME NEW B, IsFiniteSet(B), NEW g, g = [x \in B |-> 1]
  PROVE  SumFunctionOnSet(g, B) = Cardinality(B)
<1>1. PICK G : G = {T \in SUBSET B : SumFunctionOnSet(g, T) = Cardinality(T)}
  OBVIOUS
<1>2. ASSUME NEW T \in SUBSET B, \A S \in SUBSET T : S # T => S \in G PROVE T \in G
  <2>1. IsFiniteSet(T) /\ Weights(g, T) /\ \A x \in T : g[x] = 1
    BY <1>2, FS_Subset DEF Weights
  <2>2. CASE T = {}
    <3>1. SumFunctionOnSet(g, T) = 0
      BY <2>1, <2>2, SumFacts
    <3>2. Cardinality({}) = 0
      BY FS_EmptySet
    <3>3. SumFunctionOnSet(g, T) = Cardinality(T)
      BY <2>2, <3>1, <3>2
    <3>4. QED BY <1>1, <3>3
  <2>3. CASE T # {}
    <3>1. PICK x \in T : TRUE
      BY <2>3
    <3>2. PICK S : S = T \ {x}
      OBVIOUS
    <3>3. S \in G
      BY <1>2, <3>1, <3>2
    <3>4. SumFunctionOnSet(g, T) = g[x] + SumFunctionOnSet(g, S)
      BY <2>1, <3>1, <3>2, SumFacts
    <3>5. Cardinality(S) = Cardinality(T) - 1 /\ Cardinality(T) \in Nat
      BY <2>1, <3>1, <3>2, FS_RemoveElement, FS_CardinalityType
    <3>6. SumFunctionOnSet(g, T) = Cardinality(T)
      BY <1>1, <2>1, <3>1, <3>3, <3>4, <3>5
    <3>7. QED BY <1>1, <3>6
  <2>4. QED BY <2>2, <2>3
<1>3. \A T \in SUBSET B : T \in G
  BY <1>2, SubsetInduction
<1>4. QED BY <1>1, <1>3

\* The decodes take a slot each.
LEMMA TakeDecodeStep ==
  ASSUME PrefixInv, TakeDecode
  PROVE  PrefixInv'
<1>1. /\ Core(conf, cache, req, job) /\ Backed(conf, cache) /\ Sound(cache) /\ Steady(cache, req, job) /\ req \in [Requests -> ReqType]
      /\ Ledger(conf, cache, req) /\ \A s \in Requests : Fit(req[s], s)
  BY DEF PrefixInv, Invariant, Core
<1>2. PICK n : n = Len(job.batch)
  OBVIOUS
<1>3. /\ cache.err = "none" /\ job.pc = "decode" /\ cache.slots >= n /\ cache' = [cache EXCEPT !.slots = @ - n]
      /\ req' = [r \in Requests |-> IF \E k \in DOMAIN job.batch : job.batch[k].r = r THEN Advance(req[r], r, 1) ELSE req[r]]
      /\ job' = NoJob /\ conf' = conf
  BY <1>2 DEF TakeDecode, Running, Need
<1>4. /\ DOMAIN job.batch = 1..n /\ n \in Nat
      /\ \A k \in 1..n : job.batch[k].r \in Requests /\ job.batch[k].n \in Nat /\ job.batch[k].n # 0
  BY <1>1, <1>2, BatchFacts
<1>5. PICK B : B = {job.batch[k].r : k \in 1..n}
  OBVIOUS
<1>6. B \in SUBSET Requests /\ IsFiniteSet(B)
  <2>1. B \in SUBSET Requests
    BY <1>4, <1>5
  <2>2. QED BY <2>1, PrefixAssumption, FS_Subset
<1>7. Cardinality(B) = n
  <2>1. PICK g : g = [k \in 1..n |-> job.batch[k].r]
    OBVIOUS
  <2>2. \A k, l \in 1..n : job.batch[k].r = job.batch[l].r => k = l
    BY <1>1, <1>4 DEF Steady
  <2>3. g \in [1..n -> B] /\ (\A k, l \in 1..n : g[k] = g[l] => k = l) /\ \A x \in B : \E k \in 1..n : g[k] = x
    BY <1>5, <2>1, <2>2
  <2>4. g \in Bijection(1..n, B)
    BY <2>3 DEF Bijection, Injection, Surjection, IsInjective
  <2>5. QED BY <1>4, <2>4, FS_CountingElements DEF ExistsBijection
<1>8. AllAttached(req) /\ \A s \in Requests : Root2Att(req[s], s) \subseteq cache.dev /\ Grip(req[s], s) \subseteq cache.index
  BY <1>1, <1>3, SettledIn
<1>9. PICK R : R = req'
  OBVIOUS
<1>10. \A r \in Requests : R[r] = IF r \in B THEN Advance(req[r], r, 1) ELSE req[r]
  BY <1>3, <1>4, <1>5, <1>9
<1>11. ASSUME NEW r \in B
       PROVE  /\ R[r] \in ReqType /\ Fit(R[r], r) /\ R[r].att = req[r].att /\ R[r].hit = req[r].hit /\ R[r].held = req[r].held
              /\ R[r].priv = req[r].priv + 1
  <2>1. PICK k \in 1..n : r = job.batch[k].r
    BY <1>5
  <2>2. r \in Requests /\ req[r].pos + job.batch[k].n <= Len(Path[r])
    BY <1>1, <1>3, <1>4, <1>6, <2>1 DEF Steady
  <2>3. req[r].pos \in Nat /\ Len(Path[r]) \in Nat /\ job.batch[k].n \in Nat /\ job.batch[k].n # 0
    BY <1>1, <1>4, <2>2, PathFacts DEF ReqType
  <2>4. PICK m : m = 1 /\ m \in Nat /\ m # 0 /\ req[r].pos + m <= Len(Path[r])
    BY <2>2, <2>3, SMTT(30)
  <2>5. R[r] = Advance(req[r], r, m)
    BY <1>10, <2>2, <2>4
  <2>6. Fit(req[r], r) /\ req[r].att = req[r].hit
    BY <1>1, <1>8, <2>2 DEF AllAttached
  <2>7. /\ R[r] \in ReqType /\ Fit(R[r], r) /\ R[r].att = req[r].att /\ R[r].hit = req[r].hit /\ R[r].held = req[r].held
        /\ R[r].priv = req[r].priv + m
    BY <2>2, <2>4, <2>5, <2>6, AdvanceFits
  <2>8. QED BY <2>4, <2>7
<1>12. \A r \in Requests \ B : R[r] = req[r]
  BY <1>10
<1>13. /\ \A r \in Requests : Fit(R[r], r) /\ R[r] \in ReqType /\ R[r].att = req[r].att /\ R[r].hit = req[r].hit /\ R[r].held = req[r].held
  BY <1>1, <1>11, <1>12
<1>14. R \in [Requests -> ReqType]
  BY <1>3, <1>9, <1>13
<1>15. \A r \in Requests : Grip(R[r], r) = Grip(req[r], r) /\ Root2Att(R[r], r) = Root2Att(req[r], r)
  BY <1>13 DEF Grip, Root2Att
<1>16. \A x : Holders(R, x) = Holders(req, x)
  BY <1>15 DEF Holders
<1>17. PrivSum(R) = PrivSum(req) + n /\ PrivSum(req) \in Int
  <2>1. PICK f, h, g : f = Private(req) /\ h = Private(R) /\ g = [x \in B |-> 1]
    OBVIOUS
  <2>2. \A r \in Requests : f[r] = req[r].priv /\ h[r] = R[r].priv /\ req[r].priv \in Int
    BY <1>1, <2>1 DEF Private, ReqType
  <2>9. IsFiniteSet(Requests) /\ Weights(f, Requests)
    BY <2>2, PrefixAssumption DEF Weights
  <2>10. \A x \in B : g[x] = 1 /\ g[x] \in Int
    BY <2>1
  <2>3. Weights(f, Requests) /\ Weights(g, B) /\ IsFiniteSet(Requests)
    BY <2>9, <2>10 DEF Weights
  <2>4. (\A x \in B : h[x] = f[x] + g[x]) /\ \A x \in Requests \ B : h[x] = f[x]
    BY <1>6, <1>11, <1>12, <2>1, <2>2
  <2>5. SumFunctionOnSet(h, Requests) = SumFunctionOnSet(f, Requests) + SumFunctionOnSet(g, B)
    BY <1>6, <2>3, <2>4, SumPlus
  <2>6. SumFunctionOnSet(g, B) = n
    BY <1>6, <1>7, <2>1, OnesSum
  <2>7. SumFunctionOnSet(f, Requests) \in Int
    BY <2>3, SumFacts
  <2>8. QED BY <2>1, <2>5, <2>6, <2>7 DEF PrivSum
<1>18. cache.slots \in Int /\ DevSum(cache) \in Int
  BY <1>1, SumTypes
<1>19. PICK m : m = cache.slots - n
  OBVIOUS
<1>20. cache' = [cache EXCEPT !.slots = m] /\ m \in Int /\ m >= 0
  BY <1>3, <1>4, <1>18, <1>19
<1>21. /\ Sound(cache') /\ SlotTwin(cache, cache') /\ cache'.slots = m
       /\ DevSum(cache') = DevSum(cache) - cache.slots + m /\ HostSum(cache') = HostSum(cache) /\ (Settled(cache) => Settled(cache'))
  BY <1>1, <1>20, SlotsSound
<1>22. DevSum(cache') + PrivSum(R) = NumSlots
  <2>1. DevSum(cache) + PrivSum(req) = NumSlots
    BY <1>1 DEF Ledger
  <2>2. QED BY <1>4, <1>17, <1>18, <1>19, <1>21, <2>1
<1>23. Ledger(conf, cache', R)
  BY <1>1, <1>16, <1>20, <1>21, <1>22 DEF Ledger, SlotTwin
<1>24. \A s \in Requests : Anchored(cache', NoJob, R[s], s)
  <2>1. AllAttached(R)
    BY <1>8, <1>13 DEF AllAttached
  <2>2. \A s \in Requests : Root2Att(R[s], s) \subseteq cache'.dev /\ Grip(R[s], s) \subseteq cache'.index
    BY <1>8, <1>15, <1>21 DEF SlotTwin
  <2>3. QED BY <2>1, <2>2, Quiet
<1>25. conf \in Confs
  BY <1>1 DEF Core
<1>26. Core(conf, cache', R, NoJob)
  BY <1>13, <1>14, <1>21, <1>23, <1>24, <1>25, NoJobSteady DEF Core
<1>27. Backed(conf, cache')
  BY <1>1, <1>21 DEF Backed, SlotTwin
<1>28. QED BY <1>3, <1>9, <1>26, <1>27 DEF PrefixInv, Invariant

\* free_seq: the request r keeps nothing.
LEMMA FreeStep ==
  ASSUME PrefixInv, NEW r \in Requests, FreeSeq(r), NEW q \in ReqType,
         q.hit = 0, q.att = 0, q.pos = 0, q.held = {}, q.priv = 0, q.fwd = <<>>,
         NEW R, R = [req EXCEPT ![r] = q], NEW J, J.pc # "plan", Steady(cache, R, J),
         \A s \in Requests : Anchored(cache, J, R[s], s), AllAttached(R) \/ cache.err # "none"
  PROVE  Invariant(conf, cache', R, J)
<1>1. Invariant(conf, cache, req, job) /\ Sound(cache) /\ conf \in Confs
  BY DEF PrefixInv, Invariant, Core
<1>2. PICK P \in Poll(cache) :
        LET C == ReleaseAll([P EXCEPT !.slots = @ + req[r].priv], InPathOrder(r, HeldBy(r)))
        IN IF Offload /\ req[r].pos > 0 THEN cache' \in WriteThrough(C, HeldBy(r)) ELSE cache' = C
  BY DEF FreeSeq
<1>3. Sound(P) /\ Polled(cache, P)
  BY <1>1, PollSound
<1>4. Invariant(conf, P, req, job) /\ P.err = cache.err /\ P.index = cache.index /\ P.dev = cache.dev
  BY <1>1, <1>3, PollStep DEF Polled
<1>5. /\ Core(conf, P, req, job) /\ Backed(conf, P) /\ req \in [Requests -> ReqType] /\ Ledger(conf, P, req)
      /\ \A s \in Requests : Fit(req[s], s) /\ Anchored(P, job, req[s], s)
  BY <1>4 DEF Invariant, Core
<1>6. PICK p, G : p = req[r] /\ G = HeldBy(r)
  OBVIOUS
<1>7. G = Grip(p, r)
  BY <1>6 DEF HeldBy, Attached, Grip, Root2Att
<1>8. /\ p \in ReqType /\ Fit(p, r) /\ p.hit \in Nat /\ p.pos \in Nat /\ p.att \in Nat /\ p.priv \in Int /\ p.fwd \in Seq(Nat)
      /\ Flying(p.fwd) \in Nat /\ Len(Path[r]) \in Nat /\ Path[r] \in Seq(Blocks) /\ p.held \subseteq Blocks
  <2>1. p \in ReqType /\ Fit(p, r)
    BY <1>5, <1>6
  <2>2. p.hit \in Nat /\ p.pos \in Nat /\ p.att \in Nat /\ p.priv \in Int /\ p.fwd \in Seq(Nat) /\ p.held \subseteq Blocks
    BY <2>1 DEF ReqType
  <2>3. QED BY <2>1, <2>2, PathFacts, FlyingFacts
<1>9. p.priv >= 0 /\ p.att <= Len(Path[r]) /\ p.att <= p.hit /\ p.pos <= Len(Path[r]) /\ p.hit + Flying(p.fwd) <= p.pos
  BY <1>8, SMTT(30) DEF Fit
<1>10. G \subseteq P.index /\ P.index \subseteq Blocks /\ G \subseteq Blocks
  <2>1. G \subseteq P.index
    BY <1>5, <1>6, <1>7 DEF Anchored
  <2>2. P.index \subseteq Blocks
    BY <1>3, CacheFields DEF Sound, Sharp, Kept
  <2>3. QED BY <2>1, <2>2
<1>11. PICK s : s = Keep(Path[r], G)
  OBVIOUS
<1>12. s \in Seq(Blocks) /\ IsInjective(s) /\ Range(s) = G
  <2>0. DOMAIN Path[r] = 1..Len(Path[r])
    BY <1>8
  <2>5. \A i, j \in 1..Len(Path[r]) : Path[r][i] = Path[r][j] => i = j
    BY PathFacts
  <2>1. IsInjective(Path[r]) /\ DOMAIN Path[r] = 1..Len(Path[r])
    BY <2>0, <2>5 DEF IsInjective
  <2>2. G \subseteq Range(Path[r])
    <3>1. Root2Att(p, r) = Between(r, 1, p.att)
      BY <1>8, <1>9, StartFacts DEF Root2Att
    <3>2. ASSUME NEW x \in G PROVE \E k \in 1..Len(Path[r]) : x = Path[r][k]
      <4>1. x \in p.held \/ x \in Between(r, 1, p.att)
        BY <1>7, <3>1, <3>2 DEF Grip
      <4>2. CASE x \in Between(r, 1, p.att)
        <5>1. PICK k \in 1..p.att : x = Path[r][k]
          BY <4>2 DEF Between
        <5>2. k \in 1..Len(Path[r])
          BY <1>8, <1>9
        <5>3. QED BY <5>1, <5>2
      <4>3. CASE x \in p.held
        <5>1. PICK k \in (p.hit + 1)..(p.pos - Flying(p.fwd)) : x = Path[r][k]
          BY <1>8, <4>3 DEF Fit, Between
        <5>2. k \in 1..Len(Path[r])
          BY <1>8, <1>9
        <5>3. QED BY <5>1, <5>2
      <4>4. QED BY <4>1, <4>2, <4>3
    <3>3. QED BY <2>1, <3>2 DEF Range
  <2>3. PICK w : w = Path[r] /\ w \in Seq(Blocks) /\ IsInjective(w)
    BY <1>8, <2>1
  <2>4. Keep(w, G) \in Seq(Blocks) /\ Range(Keep(w, G)) = Range(w) \cap G /\ IsInjective(Keep(w, G))
    BY <2>3, KeepFacts
  <2>6. QED BY <1>11, <2>2, <2>3, <2>4
<1>13. PICK m : m = P.slots + p.priv
  OBVIOUS
<1>14. PICK D : D = [P EXCEPT !.slots = m]
  OBVIOUS
<1>15. P.slots \in Int /\ m \in Int /\ m >= 0 /\ DevSum(P) \in Int /\ P.slots >= 0 /\ P.pool >= 0
  <2>1. P.slots \in Int /\ DevSum(P) \in Int /\ P.slots >= 0 /\ P.pool >= 0
    BY <1>3, <1>5, SumTypes DEF Ledger
  <2>2. QED BY <1>8, <1>9, <1>13, <2>1, SMTT(30)
<1>16. /\ Sound(D) /\ SlotTwin(P, D) /\ D.slots = m /\ DevSum(D) = DevSum(P) - P.slots + m /\ HostSum(D) = HostSum(P)
  BY <1>3, <1>14, <1>15, SlotsSound
<1>17. PICK C : C = ReleaseAll(D, s)
  OBVIOUS
<1>18. Range(s) \subseteq D.index
  BY <1>10, <1>12, <1>16 DEF SlotTwin
<1>19. Sound(C) /\ RefTwin(D, C) /\ \A x \in Blocks : C.ref[x] = D.ref[x] - One(x, Range(s))
  BY <1>12, <1>16, <1>17, <1>18, ReleaseAllSound
<1>20. /\ C.index = cache.index /\ C.dev = cache.dev /\ C.err = cache.err /\ C.host = P.host /\ C.out = P.out /\ C.wt = P.wt
       /\ C.slots = m /\ C.pool = P.pool /\ DevSum(C) = DevSum(D) /\ HostSum(C) = HostSum(P)
       /\ \A x \in Blocks : C.ref[x] = P.ref[x] - One(x, G)
  BY <1>4, <1>12, <1>16, <1>19 DEF RefTwin, SlotTwin, DevSum, HostSum
<1>21. Grip(q, r) = {}
  <2>1. PICK n : n = 0 /\ n \in Nat /\ n <= Len(Path[r])
    BY <1>8
  <2>2. Range(SubSeq(Path[r], 1, n)) = {}
    BY <2>1, StartFacts
  <2>3. QED BY <2>1, <2>2 DEF Grip, Root2Att
<1>22. Rebooked(conf, P, C, req[r], q, r)
  <2>1. DevSum(C) + q.priv = DevSum(P) + req[r].priv
    BY <1>6, <1>8, <1>13, <1>15, <1>16, <1>20
  <2>2. \A x \in Blocks : P.ref[x] \in Int /\ One(x, G) \in Int /\ One(x, Grip(q, r)) = 0
    BY <1>5, <1>21, HeldCounted DEF One
  <2>3. \A x \in Blocks : C.ref[x] = P.ref[x] - One(x, Grip(req[r], r)) + One(x, Grip(q, r))
    BY <1>6, <1>7, <1>20, <2>2
  <2>4. C.slots >= 0 /\ C.pool >= 0 /\ (C.err = "room" => conf.host = 0)
    BY <1>4, <1>5, <1>15, <1>20 DEF Ledger
  <2>5. QED BY <1>19, <1>20, <2>1, <2>3, <2>4 DEF Rebooked
<1>23. Ledger(conf, C, R)
  BY <1>3, <1>5, <1>22, LedgerChange
<1>24. R \in [Requests -> ReqType] /\ R[r] = q /\ \A x \in Requests : x # r => R[x] = req[x]
  BY <1>5
<1>25. Fit(q, r)
  <2>1. Flying(<<>>) = 0
    BY FlyingFacts
  <2>2. 0 <= Len(Path[r])
    BY <1>8
  <2>3. QED BY <2>1, <2>2 DEF Fit
<1>26. Core(conf, C, R, J)
  <2>1. Steady(C, R, J)
    BY <1>20 DEF Steady
  <2>2. \A x \in Requests : Anchored(C, J, R[x], x)
    BY <1>20 DEF Anchored
  <2>3. \A x \in Requests : Fit(R[x], x)
    BY <1>5, <1>24, <1>25
  <2>4. QED BY <1>1, <1>19, <1>23, <1>24, <2>1, <2>2, <2>3 DEF Core
<1>27. IF Offload /\ req[r].pos > 0 THEN cache' \in WriteThrough(C, G) ELSE cache' = C
  BY <1>2, <1>6, <1>11, <1>13, <1>14, <1>17 DEF InPathOrder
<1>28. conf.host \in Nat
  BY <1>1, PrefixAssumption
<1>29. CASE Offload /\ req[r].pos > 0
  <2>1. C.err # "room" /\ C.pool >= 0 /\ C.slots >= 0
    BY <1>23, <1>28, <1>29 DEF Ledger, Offload
  <2>2. G \in SUBSET Blocks /\ cache' \in WriteThrough(C, G)
    BY <1>10, <1>27, <1>29
  <2>3. Sound(cache') /\ BackedUp(C, cache') /\ (Owed(C, C.wt \cup G) /\ cache'.err # "host" => Settled(cache'))
    BY <1>19, <2>1, <2>2, WriteThroughSound
  <2>4. Serves(C, cache') /\ cache'.err # "room"
    BY <2>1, <2>3 DEF BackedUp, Serves, DevSum
  <2>5. AllAttached(R) \/ cache'.err # "none"
    BY <1>20, <2>3 DEF BackedUp
  <2>6. Core(conf, cache', R, J)
    BY <1>26, <2>4, <2>5, CacheStep
  <2>7. ASSUME conf.host # 0, cache'.err = "none" PROVE Settled(cache')
    <3>1. P.err = "none"
      BY <1>4, <1>20, <2>3, <2>7 DEF BackedUp
    <3>2. Settled(P)
      BY <1>5, <2>7, <3>1 DEF Backed
    <3>3. P.dev \subseteq Blocks
      BY <1>3, CacheFields DEF Sound, Sharp, Kept
    <3>4. \A x \in Blocks : C.ref[x] = 0 /\ x \notin G => P.ref[x] = 0
      <4>1. \A x \in Blocks : P.ref[x] \in Int
        BY <1>5, HeldCounted
      <4>2. QED BY <1>20, <4>1 DEF One
    <3>5. Owed(C, C.wt \cup G)
      BY <1>4, <1>20, <3>2, <3>3, <3>4 DEF Owed, Settled
    <3>6. QED BY <2>3, <2>7, <3>5
  <2>8. QED BY <2>6, <2>7 DEF Invariant, Backed
<1>30. CASE ~(Offload /\ req[r].pos > 0)
  <2>1. cache' = C
    BY <1>27, <1>30
  <2>2. ASSUME conf.host # 0, C.err = "none" PROVE Settled(C)
    <3>1. p.pos = 0
      BY <1>6, <1>8, <1>28, <1>30, <2>2 DEF Offload
    <3>2. p.hit = 0 /\ p.att = 0
      BY <1>8, <1>9, <3>1
    <3>3. p.held = {}
      BY <1>8, <3>1, <3>2, FreshFacts
    <3>4. PICK n : n = 0 /\ n \in Nat /\ n <= Len(Path[r])
      BY <1>8
    <3>5. Range(SubSeq(Path[r], 1, n)) = {}
      BY <3>4, StartFacts
    <3>6. G = {}
      BY <1>7, <3>2, <3>3, <3>4, <3>5 DEF Grip, Root2Att
    <3>7. \A x \in Blocks : P.ref[x] \in Int
      BY <1>5, HeldCounted
    <3>8. \A x \in Blocks : C.ref[x] = P.ref[x]
      BY <1>20, <3>6, <3>7 DEF One
    <3>9. Settled(P)
      BY <1>4, <1>5, <1>20, <2>2 DEF Backed
    <3>10. P.dev \subseteq Blocks
      BY <1>3, CacheFields DEF Sound, Sharp, Kept
    <3>11. QED BY <1>4, <1>20, <3>8, <3>9, <3>10 DEF Settled
  <2>3. QED BY <1>26, <2>1, <2>2 DEF Invariant, Backed
<1>31. QED BY <1>29, <1>30

\* A request that is gone holds nothing.
LEMMA GoneAnchored ==
  ASSUME NEW K, NEW C, NEW Q, NEW J, Core(K, C, Q, J), NEW r \in Requests, NEW q, q.hit = 0, q.att = 0, q.held = {},
         NEW R, R = [Q EXCEPT ![r] = q]
  PROVE  (\A s \in Requests : Anchored(C, J, R[s], s)) /\ (AllAttached(Q) => AllAttached(R))
<1>1. R[r] = q /\ \A s \in Requests : s # r => R[s] = Q[s]
  BY DEF Core
<1>2. PICK n : n = 0 /\ n \in Nat /\ n <= Len(Path[r])
  BY PathFacts
<1>3. Range(SubSeq(Path[r], 1, n)) = {}
  BY <1>2, StartFacts
<1>4. Root2Att(q, r) = {} /\ Grip(q, r) = {}
  BY <1>2, <1>3 DEF Root2Att, Grip
<1>5. Anchored(C, J, R[r], r)
  BY <1>1, <1>4 DEF Anchored
<1>6. \A s \in Requests : Anchored(C, J, Q[s], s)
  BY DEF Core
<1>7. QED BY <1>1, <1>5, <1>6 DEF AllAttached

\* A request that is not there has a type.
LEMMA NoRequestType ==
  /\ NoRequest \in ReqType /\ NoRequest.hit = 0 /\ NoRequest.att = 0 /\ NoRequest.pos = 0
  /\ NoRequest.held = {} /\ NoRequest.priv = 0 /\ NoRequest.fwd = <<>>
<1>1. <<>> \in Seq(Nat \ {0})
  OBVIOUS
<1>2. QED BY <1>1 DEF NoRequest, ReqType

\* A request ends.
LEMMA EndRequestStep ==
  ASSUME PrefixInv, NEW r \in Requests, EndRequest(r)
  PROVE  PrefixInv'
<1>1. Core(conf, cache, req, job) /\ Steady(cache, req, job)
  BY DEF PrefixInv, Invariant, Core
<1>2. job.pc = "idle" /\ FreeSeq(r) /\ req' = [req EXCEPT ![r] = NoRequest] /\ conf' = conf /\ job' = job
  BY DEF EndRequest, BetweenSteps
<1>3. PICK R, q : q = NoRequest /\ R = [req EXCEPT ![r] = q]
  OBVIOUS
<1>4. q \in ReqType /\ q.hit = 0 /\ q.att = 0 /\ q.pos = 0 /\ q.held = {} /\ q.priv = 0 /\ q.fwd = <<>>
  BY <1>3, NoRequestType
<1>5. AllAttached(req)
  BY <1>1, <1>2, SettledIn
<1>6. (\A s \in Requests : Anchored(cache, job, R[s], s)) /\ AllAttached(R)
  BY <1>1, <1>3, <1>4, <1>5, GoneAnchored
<1>7. Steady(cache, R, job) /\ job.pc # "plan"
  BY <1>1, <1>2 DEF Steady
<1>8. Invariant(conf, cache', R, job)
  BY <1>2, <1>3, <1>4, <1>6, <1>7, FreeStep
<1>9. QED BY <1>2, <1>3, <1>8 DEF PrefixInv

\* A request is torn down after an error.
LEMMA TearDownStep ==
  ASSUME PrefixInv, NEW r \in Requests, TearDown(r)
  PROVE  PrefixInv'
<1>1. Core(conf, cache, req, job) /\ Steady(cache, req, job)
  BY DEF PrefixInv, Invariant, Core
<1>2. cache.err # "none" /\ FreeSeq(r) /\ req' = [req EXCEPT ![r] = NoRequest] /\ conf' = conf /\ job' = job
  BY DEF TearDown, Running
<1>3. PICK R, q : q = NoRequest /\ R = [req EXCEPT ![r] = q]
  OBVIOUS
<1>4. q \in ReqType /\ q.hit = 0 /\ q.att = 0 /\ q.pos = 0 /\ q.held = {} /\ q.priv = 0 /\ q.fwd = <<>>
  BY <1>3, NoRequestType
<1>5. \A s \in Requests : Anchored(cache, job, R[s], s)
  BY <1>1, <1>3, <1>4, GoneAnchored
<1>6. Steady(cache, R, job) /\ job.pc # "plan"
  BY <1>1, <1>2 DEF Steady
<1>7. Invariant(conf, cache', R, job)
  BY <1>2, <1>3, <1>4, <1>5, <1>6, FreeStep
<1>8. QED BY <1>2, <1>3, <1>7 DEF PrefixInv

\* A decode is preempted.
LEMMA PreemptStep ==
  ASSUME PrefixInv, NEW r \in Requests, Preempt(r)
  PROVE  PrefixInv'
<1>1. Core(conf, cache, req, job) /\ Steady(cache, req, job)
  BY DEF PrefixInv, Invariant, Core
<1>2. PICK q : q = [NoRequest EXCEPT !.st = "wait", !.replay = TRUE]
  OBVIOUS
<1>3. /\ job.pc = "plan" /\ job.batch = <<>> /\ FreeSeq(r) /\ req' = [req EXCEPT ![r] = q]
      /\ conf' = conf /\ job' = NoJob
  BY <1>2 DEF Preempt
<1>4. q \in ReqType /\ q.hit = 0 /\ q.att = 0 /\ q.pos = 0 /\ q.held = {} /\ q.priv = 0 /\ q.fwd = <<>>
  <2>1. NoRequest \in ReqType
    BY NoRequestType
  <2>2. q \in ReqType
    BY <1>2, <2>1 DEF ReqType
  <2>3. /\ q.hit = NoRequest.hit /\ q.att = NoRequest.att /\ q.pos = NoRequest.pos /\ q.held = NoRequest.held
        /\ q.priv = NoRequest.priv /\ q.fwd = NoRequest.fwd
    BY <1>2, <2>1 DEF ReqType
  <2>4. QED BY <2>2, <2>3, NoRequestType
<1>5. PICK R : R = [req EXCEPT ![r] = q]
  OBVIOUS
<1>6. AllAttached(req) /\ \A s \in Requests : Root2Att(req[s], s) \subseteq cache.dev /\ Grip(req[s], s) \subseteq cache.index
  BY <1>1, <1>3, SettledIn
<1>7. \A s \in Requests : Anchored(cache, NoJob, req[s], s)
  BY <1>6, Quiet
<1>8. Core(conf, cache, req, NoJob)
  BY <1>1, <1>7, NoJobSteady, JobStep
<1>9. (\A s \in Requests : Anchored(cache, NoJob, R[s], s)) /\ AllAttached(R)
  BY <1>4, <1>5, <1>6, <1>8, GoneAnchored
<1>10. Steady(cache, R, NoJob) /\ NoJob.pc # "plan"
  BY NoJobSteady DEF NoJob
<1>11. Invariant(conf, cache', R, NoJob)
  BY <1>3, <1>4, <1>5, <1>9, <1>10, FreeStep
<1>12. QED BY <1>3, <1>5, <1>11 DEF PrefixInv

\* The oldest forward of a request is published.
LEMMA PublishedStep ==
  ASSUME PrefixInv, NEW r \in Requests, Publish(r)
  PROVE  PrefixInv'
<1>1. /\ Invariant(conf, cache, req, job) /\ Sound(cache) /\ conf \in Confs
  BY DEF PrefixInv, Invariant, Core
<1>2. cache.err = "none" /\ job.pc = "idle" /\ req[r].fwd # <<>> /\ conf' = conf /\ job' = job
  BY SMTT(30) DEF Publish, Running
<1>3. PICK P \in Poll(cache) :
       LET first == req[r].pos - InFlight(r) + 1
           new == SubSeq(Path[r], first, first + Head(req[r].fwd) - 1)
           near == Range(new) \cup {Parent[b] : b \in Range(new)}
           protected == Keep(RootFirst, near \cap P.index)
           q == [req[r] EXCEPT !.fwd = Tail(@)]
       IN \E C \in RoomFor(AcquireAll(P, protected), Cardinality(Range(new) \ P.index)) :
            LET S == Along(PublishBlock, [c |-> C, q |-> q], new)
            IN /\ cache' = ReleaseAll(S.c, protected)
               /\ req' = [req EXCEPT ![r] = S.q]
  BY DEF Publish
<1>4. PICK p, f : p = req[r] /\ f = req[r].fwd
  OBVIOUS
<1>5. PICK i, j : i = p.pos - Flying(f) + 1 /\ j = p.pos - Flying(f) + 1 + Head(f) - 1
  OBVIOUS
<1>6. PICK s : s = Part(r, i, j)
  OBVIOUS
<1>7. PICK w : w = Keep(RootFirst, (Range(s) \cup {Parent[b] : b \in Range(s)}) \cap P.index)
  OBVIOUS
<1>8. PICK q : q = [p EXCEPT !.fwd = Tail(f)]
  OBVIOUS
<1>9. PICK A : A = AcquireAll(P, w)
  OBVIOUS
<1>10. PICK C \in RoomFor(A, Cardinality(Range(s) \ P.index)) :
         LET S == Along(PublishBlock, [c |-> C, q |-> q], s)
         IN /\ cache' = ReleaseAll(S.c, w)
            /\ req' = [req EXCEPT ![r] = S.q]
  <2>1. Flying(f) = InFlight(r)
    BY <1>4 DEF Flying, InFlight
  <2>2. s = SubSeq(Path[r], req[r].pos - InFlight(r) + 1, req[r].pos - InFlight(r) + 1 + Head(req[r].fwd) - 1)
    BY <1>4, <1>5, <1>6, <2>1 DEF Part
  <2>3. q = [req[r] EXCEPT !.fwd = Tail(@)]
    BY <1>4, <1>8
  <2>4. QED BY <1>3, <1>7, <1>9, <2>2, <2>3
<1>11. PICK S : S = Publishes([c |-> C, q |-> q], s)
  OBVIOUS
<1>12. cache' = ReleaseAll(S.c, w) /\ req' = [req EXCEPT ![r] = S.q]
  BY <1>10, <1>11 DEF Publishes
<1>13. Sound(P) /\ Polled(cache, P)
  BY <1>1, PollSound
<1>14. Invariant(conf, P, req, job) /\ P.err = "none"
  BY <1>1, <1>2, <1>13, PollStep
<1>15. /\ Core(conf, P, req, job) /\ Backed(conf, P) /\ req \in [Requests -> ReqType] /\ Ledger(conf, P, req) /\ Steady(P, req, job)
       /\ \A x \in Requests : Fit(req[x], x)
  BY <1>14 DEF Invariant, Core
<1>16. AllAttached(req) /\ \A x \in Requests : Root2Att(req[x], x) \subseteq P.dev /\ Grip(req[x], x) \subseteq P.index
  BY <1>2, <1>15, SettledIn
<1>17. /\ \A x \in Blocks : P.ref[x] \in Nat
       /\ \A t \in Requests : \A x \in Grip(req[t], t) : x \in P.index /\ x \in Blocks /\ P.ref[x] >= 1
       /\ \A x \in Blocks \ P.index : P.ref[x] = 0
  BY <1>15, HeldCounted
<1>18. /\ p \in ReqType /\ Fit(p, r) /\ p.hit \in Nat /\ p.pos \in Nat /\ p.att \in Nat /\ p.priv \in Int /\ p.held \subseteq Blocks
       /\ f = p.fwd /\ f \in Seq(Nat \ {0}) /\ f \in Seq(Nat) /\ f # <<>>
       /\ Len(Path[r]) \in Nat /\ Path[r] \in Seq(Blocks)
  <2>1. p \in ReqType /\ Fit(p, r)
    BY <1>4, <1>15
  <2>2. p.hit \in Nat /\ p.pos \in Nat /\ p.att \in Nat /\ p.priv \in Int /\ p.held \subseteq Blocks /\ p.fwd \in Seq(Nat \ {0})
    BY <2>1 DEF ReqType
  <2>3. p.fwd \in Seq(Nat)
    BY <2>2
  <2>4. QED BY <1>2, <1>4, <2>1, <2>2, <2>3, PathFacts
<1>19. PICK n, g : n = Head(f) /\ g = Tail(f)
  OBVIOUS
<1>20. n \in Nat /\ g \in Seq(Nat \ {0}) /\ g \in Seq(Nat) /\ Flying(f) = Flying(g) + n /\ Flying(f) \in Nat /\ Flying(g) \in Nat
  <2>1. n \in Nat /\ g \in Seq(Nat \ {0}) /\ g \in Seq(Nat)
    BY <1>18, <1>19
  <2>2. QED BY <1>18, <1>19, <2>1, FlyingFacts
<1>21. /\ p.hit + Flying(f) <= p.pos /\ p.pos <= Len(Path[r]) /\ p.att <= p.hit /\ Flying(f) <= p.priv /\ p.priv <= p.pos - p.hit
       /\ p.held \subseteq Between(r, p.hit + 1, p.pos - Flying(f))
  BY <1>18 DEF Fit
<1>64. PICK h, z, t, m, v, u, l :
         h = p.hit /\ z = p.pos /\ t = p.att /\ m = p.priv /\ v = Flying(f) /\ u = Flying(g) /\ l = Len(Path[r])
  OBVIOUS
<1>65. h \in Nat /\ z \in Nat /\ t \in Nat /\ m \in Int /\ v \in Nat /\ u \in Nat /\ l \in Nat /\ n \in Nat
  BY <1>18, <1>20, <1>64
<1>66. v = u + n /\ h + v <= z /\ z <= l /\ t <= h /\ v <= m /\ m <= z - h /\ i = z - v + 1 /\ j = z - v + 1 + n - 1
  BY <1>5, <1>19, <1>20, <1>21, <1>64
<1>67. i \in Nat \ {0} /\ j \in Int /\ i <= j + 1 /\ j <= l /\ j = z - u /\ i > h /\ i > t /\ j - i + 1 = n /\ t <= l
  BY <1>65, <1>66
<1>22. i \in Nat \ {0} /\ j \in Int /\ i <= j + 1 /\ j <= Len(Path[r]) /\ j = p.pos - Flying(g) /\ i > p.hit /\ i > p.att
  BY <1>64, <1>67
<1>23. PartOK(s, r, i, j)
  BY <1>6, <1>22, PathPart
<1>24. s \in Seq(Blocks) /\ Range(s) = Between(r, i, j) /\ IsInjective(s) /\ Len(s) = n
  <2>1. s \in Seq(Blocks) /\ Range(s) = Between(r, i, j) /\ IsInjective(s) /\ Len(s) = j - i + 1
    BY <1>23 DEF PartOK
  <2>2. j - i + 1 = n
    BY <1>67
  <2>3. QED BY <2>1, <2>2
<1>25. Root2Att(p, r) = Between(r, 1, p.att)
  <2>1. p.att <= Len(Path[r])
    BY <1>64, <1>67
  <2>2. QED BY <1>18, <2>1, StartFacts DEF Root2Att
<1>26. Range(s) \cap p.held = {} /\ Range(s) \cap Root2Att(p, r) = {}
  <2>1. \A a, b \in 1..Len(Path[r]) : Path[r][a] = Path[r][b] => a = b
    BY PathFacts
  <2>2. \A a \in i..j : a \in 1..Len(Path[r])
    BY <1>18, <1>22
  <2>8. /\ \A a \in i..j : \A b \in (h + 1)..(z - v) : b \in 1..l /\ a # b
        /\ \A a \in i..j : \A b \in 1..t : b \in 1..l /\ a # b
    BY <1>65, <1>66, <1>67
  <2>3. \A a \in i..j : \A b \in (p.hit + 1)..(p.pos - Flying(f)) : b \in 1..Len(Path[r]) /\ a # b
    BY <1>64, <2>8
  <2>4. \A a \in i..j : \A b \in 1..p.att : b \in 1..Len(Path[r]) /\ a # b
    BY <1>64, <2>8
  <2>5. Range(s) \cap Between(r, p.hit + 1, p.pos - Flying(f)) = {}
    BY <1>24, <2>1, <2>2, <2>3 DEF Between
  <2>6. Range(s) \cap Between(r, 1, p.att) = {}
    BY <1>24, <2>1, <2>2, <2>4 DEF Between
  <2>7. QED BY <1>21, <1>25, <2>5, <2>6
<1>27. PICK T : T = (Range(s) \cup {Parent[b] : b \in Range(s)}) \cap P.index
  OBVIOUS
<1>28. P.index \subseteq Blocks /\ T \subseteq P.index /\ P.dev \subseteq Blocks
  BY <1>13, <1>27, CacheFields DEF Sound, Sharp, Kept
<1>29. w \in Seq(Blocks) /\ IsInjective(w) /\ Range(w) = T
  <2>1. PICK o : o = RootFirst /\ o \in Seq(Blocks) /\ IsInjective(o) /\ Range(o) = Blocks
    BY Walks
  <2>2. Keep(o, T) \in Seq(Blocks) /\ Range(Keep(o, T)) = Range(o) \cap T /\ IsInjective(Keep(o, T))
    BY <2>1, KeepFacts
  <2>3. QED BY <1>7, <1>27, <1>28, <2>1, <2>2
<1>30. Sound(A) /\ RefTwin(P, A) /\ \A x \in Blocks : A.ref[x] = P.ref[x] + One(x, T)
  BY <1>9, <1>13, <1>28, <1>29, AcquireAllSound
<1>31. A.err = "none" /\ A.index = P.index /\ A.dev = P.dev /\ A.slots = P.slots /\ A.pool = P.pool /\ A.host = P.host /\ A.out = P.out /\ A.wt = P.wt
       /\ DevSum(A) = DevSum(P) /\ HostSum(A) = HostSum(P)
  BY <1>14, <1>30 DEF RefTwin, DevSum, HostSum
<1>32. Sound(C) /\ MadeRoom(A, C)
  <2>1. A.err # "room"
    BY <1>31
  <2>2. QED BY <1>10, <1>30, <2>1, RoomForSound
<1>33. \A x \in Blocks : One(x, T) \in {0, 1} /\ (x \in T => One(x, T) = 1) /\ (x \notin T => One(x, T) = 0)
  BY DEF One
<1>34. \A x \in Blocks : x \in T \/ P.ref[x] >= 1 => C.ref[x] # 0 /\ A.ref[x] # 0
  <2>1. \A x \in Blocks : C.ref[x] = A.ref[x]
    BY <1>32 DEF MadeRoom
  <2>2. \A x \in Blocks : P.ref[x] \in Nat /\ A.ref[x] = P.ref[x] + One(x, T)
    BY <1>17, <1>30
  <2>3. QED BY <1>33, <2>1, <2>2
<1>35. /\ C.index \subseteq P.index /\ C.dev \subseteq P.dev
       /\ \A x \in P.index : x \in T \/ P.ref[x] >= 1 => x \in C.index
       /\ \A x \in P.dev : x \in T \/ P.ref[x] >= 1 => x \in C.dev
  <2>1. /\ C.index \subseteq A.index /\ \A x \in A.index \ C.index : A.ref[x] = 0
        /\ C.dev \subseteq A.dev /\ \A x \in A.dev \ C.dev : A.ref[x] = 0
    BY <1>32 DEF MadeRoom
  <2>2. QED BY <1>28, <1>31, <1>34, <2>1
<1>36. C.err \in {"none", "room"} /\ (C.err = "room" => conf.max # 0)
  BY <1>31, <1>32 DEF MadeRoom
<1>37. PICK B : B = [x \in Blocks |-> P.ref[x]]
  OBVIOUS
<1>38. q \in ReqType /\ q.held = p.held /\ q.priv = p.priv /\ q.hit = p.hit /\ q.att = p.att /\ q.pos = p.pos /\ q.fwd = g
  BY <1>8, <1>18, <1>19, <1>20 DEF ReqType
<1>39. PubStart(C, B, P.index, T, q, s)
  <2>1. B \in [Blocks -> Nat] /\ \A x \in Blocks \ P.index : B[x] = 0
    BY <1>17, <1>37
  <2>2. T \subseteq C.index
    BY <1>28, <1>35
  <2>3. \A x \in Blocks : C.ref[x] = B[x] + One(x, T)
    <3>1. \A x \in Blocks : C.ref[x] = A.ref[x]
      BY <1>32 DEF MadeRoom
    <3>2. QED BY <1>30, <1>37, <3>1
  <2>4. \A b \in Range(s) : (b \in P.index => b \in T) /\ (Parent[b] \in P.index => Parent[b] \in T)
    BY <1>27
  <2>5. QED BY <1>24, <1>26, <1>32, <1>35, <1>36, <1>38, <2>1, <2>2, <2>3, <2>4 DEF PubStart
<1>40. PICK D, o : D = S.c /\ o = S.q
  OBVIOUS
<1>41. PubInv(C, B, T, q, s, Len(s), D, o)
  BY <1>11, <1>39, <1>40, PublishAll
<1>42. PICK X : X = o.held \ p.held
  OBVIOUS
<1>43. /\ Sound(D) /\ o \in ReqType /\ SameRequest(q, o)
       /\ C.index \subseteq D.index /\ C.dev \subseteq D.dev /\ D.dev \subseteq C.dev \cup X
       /\ o.held = p.held \cup X /\ X \cap p.held = {} /\ X \subseteq Range(s) /\ X \subseteq D.index
       /\ o.priv <= p.priv /\ p.priv - n <= o.priv /\ DevSum(D) + o.priv = DevSum(C) + p.priv
       /\ D.slots = C.slots /\ D.pool = C.pool /\ D.host = C.host /\ D.out = C.out /\ D.wt = C.wt
       /\ (D.err = C.err \/ D.err \in {"missing", "parent"})
       /\ \A x \in Blocks : D.ref[x] = B[x] + One(x, T) + One(x, X)
  <2>1. First(s, Len(s)) = Range(s)
    BY <1>24, FirstFacts
  <2>2. p.held \subseteq o.held /\ o.held \subseteq p.held \cup Range(s) /\ o.held \ p.held \subseteq D.index
    BY <1>38, <1>41, <2>1 DEF PubInv
  <2>3. QED BY <1>24, <1>38, <1>41, <1>42, <2>2 DEF PubInv
<1>44. o.hit = p.hit /\ o.att = p.att /\ o.pos = p.pos /\ o.fwd = g /\ o.priv \in Int
  BY <1>38, <1>43 DEF SameRequest, ReqType
<1>45. PICK E : E = ReleaseAll(D, w)
  OBVIOUS
<1>46. cache' = E /\ req' = [req EXCEPT ![r] = o]
  BY <1>12, <1>40, <1>45
<1>47. Sound(E) /\ RefTwin(D, E) /\ \A x \in Blocks : E.ref[x] = D.ref[x] - One(x, T)
  <2>1. T \subseteq D.index
    BY <1>28, <1>35, <1>43
  <2>2. QED BY <1>29, <1>43, <1>45, <2>1, ReleaseAllSound
<1>48. \A x \in Blocks : E.ref[x] = P.ref[x] + One(x, X) /\ P.ref[x] \in Nat /\ One(x, X) \in {0, 1}
  <2>1. \A x : One(x, X) \in {0, 1}
    BY DEF One
  <2>2. \A x \in Blocks : D.ref[x] = P.ref[x] + One(x, T) + One(x, X) /\ P.ref[x] \in Nat
    BY <1>17, <1>37, <1>43
  <2>3. QED BY <1>33, <1>47, <2>1, <2>2
<1>49. /\ E.index = D.index /\ E.dev = D.dev /\ E.host = D.host /\ E.out = D.out /\ E.wt = D.wt /\ E.err = D.err
       /\ E.slots = D.slots /\ E.pool = D.pool /\ DevSum(E) = DevSum(D) /\ HostSum(E) = HostSum(D)
  BY <1>47 DEF RefTwin, DevSum, HostSum
<1>50. Root2Att(o, r) = Root2Att(p, r) /\ Grip(o, r) = Grip(p, r) \cup X /\ X \cap Grip(p, r) = {}
  BY <1>26, <1>43, <1>44 DEF Root2Att, Grip
<1>51. conf.max # 0 => conf.host = 0
  BY <1>1, PrefixAssumption
<1>52. Rebooked(conf, P, E, req[r], o, r)
  <2>1. DevSum(E) + o.priv = DevSum(P) + req[r].priv
    <3>1. DevSum(C) = DevSum(P)
      BY <1>31, <1>32 DEF MadeRoom
    <3>2. QED BY <1>4, <1>43, <1>49, <3>1
  <2>2. HostSum(E) = HostSum(P)
    <3>1. HostSum(C) = HostSum(P)
      BY <1>31, <1>32 DEF MadeRoom
    <3>2. HostSum(D) = HostSum(C)
      BY <1>43 DEF HostSum
    <3>3. QED BY <1>49, <3>1, <3>2
  <2>3. E.slots >= 0 /\ E.pool >= 0
    <3>1. P.slots \in Int /\ P.pool \in Int /\ C.slots \in Int /\ C.pool \in Int
      BY <1>13, <1>32, SumTypes
    <3>2. P.slots >= 0 /\ P.pool >= 0 /\ C.slots >= P.slots /\ C.pool >= P.pool
      BY <1>15, <1>31, <1>32 DEF MadeRoom, Ledger
    <3>3. C.slots >= 0 /\ C.pool >= 0
      BY <3>1, <3>2
    <3>4. QED BY <1>43, <1>49, <3>3
  <2>4. E.err = "room" => conf.host = 0
    BY <1>36, <1>43, <1>49, <1>51
  <2>5. ASSUME NEW x \in Blocks PROVE E.ref[x] = P.ref[x] - One(x, Grip(req[r], r)) + One(x, Grip(o, r))
    <3>1. One(x, Grip(o, r)) = One(x, Grip(req[r], r)) + One(x, X) /\ One(x, Grip(req[r], r)) \in {0, 1}
      BY <1>4, <1>50 DEF One
    <3>2. QED BY <1>48, <3>1
  <2>6. QED BY <1>47, <2>1, <2>2, <2>3, <2>4, <2>5 DEF Rebooked
<1>53. PICK R : R = [req EXCEPT ![r] = o]
  OBVIOUS
<1>54. R \in [Requests -> ReqType] /\ R[r] = o /\ \A x \in Requests : x # r => R[x] = req[x]
  BY <1>15, <1>43, <1>53
<1>55. Ledger(conf, E, R)
  BY <1>13, <1>15, <1>43, <1>52, <1>53, LedgerChange
<1>56. Fit(o, r)
  <2>1. o.hit + Flying(g) <= o.pos /\ Flying(g) <= o.priv /\ o.priv <= o.pos - o.hit
    <3>1. PICK e : e = o.priv
      OBVIOUS
    <3>2. e \in Int /\ e <= m /\ m - n <= e
      BY <1>43, <1>44, <1>64, <3>1
    <3>3. h + u <= z /\ u <= e /\ e <= z - h
      BY <1>65, <1>66, <3>2
    <3>4. QED BY <1>44, <1>64, <3>1, <3>3
  <2>2. Between(r, p.hit + 1, p.pos - Flying(f)) \subseteq Between(r, p.hit + 1, j)
    <3>3. \A k \in (h + 1)..(z - v) : k \in (h + 1)..j
      BY <1>65, <1>66, <1>67
    <3>1. \A k \in (p.hit + 1)..(p.pos - Flying(f)) : k \in (p.hit + 1)..j
      BY <1>64, <3>3
    <3>2. QED BY <3>1 DEF Between
  <2>3. Between(r, i, j) \subseteq Between(r, p.hit + 1, j)
    <3>1. \A k \in i..j : k \in (p.hit + 1)..j
      BY <1>18, <1>22
    <3>2. QED BY <3>1 DEF Between
  <2>4. o.held \subseteq Between(r, o.hit + 1, o.pos - Flying(g))
    BY <1>21, <1>22, <1>24, <1>43, <1>44, <2>2, <2>3
  <2>5. o.att = o.hit
    BY <1>4, <1>16, <1>44 DEF AllAttached
  <2>6. o.pos <= Len(Path[r]) /\ o.att <= o.hit
    BY <1>21, <1>44
  <2>7. QED BY <1>43, <1>44, <2>1, <2>4, <2>5, <2>6 DEF Fit
<1>57. AllAttached(R)
  BY <1>4, <1>16, <1>44, <1>54 DEF AllAttached
<1>58. ASSUME NEW x \in Requests PROVE Root2Att(R[x], x) \subseteq E.dev /\ Grip(R[x], x) \subseteq E.index
  <2>1. \A y \in Grip(req[x], x) : y \in P.index /\ P.ref[y] >= 1
    BY <1>17
  <2>2. Grip(req[x], x) \subseteq E.index
    BY <1>35, <1>43, <1>49, <2>1
  <2>3. Root2Att(req[x], x) \subseteq P.dev /\ Root2Att(req[x], x) \subseteq Grip(req[x], x)
    BY <1>16 DEF Grip
  <2>4. Root2Att(req[x], x) \subseteq E.dev
    BY <1>35, <1>43, <1>49, <2>1, <2>3
  <2>5. CASE x = r
    BY <1>4, <1>43, <1>49, <1>50, <1>54, <2>2, <2>4, <2>5
  <2>6. CASE x # r
    BY <1>54, <2>2, <2>4, <2>6
  <2>7. QED BY <2>5, <2>6
<1>59. \A x \in Requests : Anchored(E, job, R[x], x)
  BY <1>57, <1>58, Quiet
<1>60. Steady(E, R, job)
  BY <1>2, <1>15 DEF Steady
<1>61. Core(conf, E, R, job)
  <2>1. \A x \in Requests : Fit(R[x], x)
    BY <1>15, <1>54, <1>56
  <2>2. QED BY <1>1, <1>47, <1>54, <1>55, <1>59, <1>60, <2>1 DEF Core
<1>62. Backed(conf, E)
  <2>1. SUFFICES ASSUME conf.host # 0, E.err = "none" PROVE Settled(E)
    BY DEF Backed
  <2>2. C = A
    BY <1>32, <1>51, <2>1 DEF MadeRoom
  <2>3. Settled(P)
    BY <1>14, <1>15, <2>1 DEF Backed
  <2>4. E.dev \subseteq P.dev \cup X /\ E.host = P.host /\ E.out = P.out /\ E.wt = P.wt
    BY <1>31, <1>43, <1>49, <2>2
  <2>5. \A x \in Blocks : E.ref[x] = 0 => P.ref[x] = 0 /\ x \notin X
    <3>1. \A x \in X : One(x, X) = 1
      BY DEF One
    <3>2. QED BY <1>48, <3>1
  <2>6. E.dev \subseteq Blocks
    BY <1>47, CacheFields DEF Sound, Sharp, Kept
  <2>7. QED BY <2>3, <2>4, <2>5, <2>6 DEF Settled
<1>63. QED BY <1>2, <1>46, <1>53, <1>61, <1>62 DEF PrefixInv, Invariant

-----------------------------------------------------------------------------
(* The invariant holds *)

\* A cache without blocks is sound.
LEMMA EmptySound ==
  ASSUME NEW C, NEW h \in Nat,
         C = [index |-> {}, dev |-> {}, host |-> {}, pinned |-> {}, out |-> {},
              in |-> {}, ref |-> [b \in Blocks |-> 0], slots |-> NumSlots,
              pool |-> h, down |-> <<>>, up |-> <<>>, wt |-> {},
              built |-> FALSE, free |-> {}, kids |-> [b \in Blocks |-> 0],
              view |-> [k \in Kinds |-> Stale], err |-> "none"]
  PROVE  Sound(C)
<1>1. /\ C.index = {} /\ C.dev = {} /\ C.host = {} /\ C.pinned = {} /\ C.out = {} /\ C.in = {} /\ C.wt = {} /\ C.free = {}
      /\ C.built = FALSE /\ C.err = "none" /\ C.down = <<>> /\ C.up = <<>>
      /\ \A b \in Blocks : C.kids[b] = 0
      /\ \A k \in Kinds : C.view[k] = Stale
  OBVIOUS
<1>2. NumSlots \in Int /\ h \in Int
  BY PrefixAssumption
<1>10. <<>> \in Seq(SUBSET Blocks) /\ DOMAIN <<>> = {}
  OBVIOUS
<1>3. PICK e : e = <<>> /\ e \in Seq(SUBSET Blocks) /\ DOMAIN e = {}
  BY <1>10
<1>4. [b \in Blocks |-> 0] \in [Blocks -> Int] /\ [k \in Kinds |-> Stale] \in [Kinds -> {Stale} \cup SUBSET Blocks]
  OBVIOUS
<1>5. C \in CacheType
  <2>1. "none" \in Errors /\ FALSE \in BOOLEAN /\ {} \in SUBSET Blocks
    BY DEF Errors
  <2>2. PICK x, y : x = [b \in Blocks |-> 0] /\ y = [k \in Kinds |-> Stale] /\ x \in [Blocks -> Int] /\ y \in [Kinds -> {Stale} \cup SUBSET Blocks]
    BY <1>4
  <2>3. C = [index |-> {}, dev |-> {}, host |-> {}, pinned |-> {}, out |-> {}, in |-> {}, ref |-> x, slots |-> NumSlots,
             pool |-> h, down |-> e, up |-> e, wt |-> {}, built |-> FALSE, free |-> {}, kids |-> x, view |-> y, err |-> "none"]
    BY <1>3, <2>2
  <2>4. QED BY <1>2, <1>3, <2>1, <2>2, <2>3 DEF CacheType
<1>6. Sharp(C)
  BY <1>1, <1>5 DEF Sharp, Kept, Whole, Dormant, FreeExact, ViewsCurrent
<1>7. Resident(C)
  BY <1>1 DEF Resident, Closed
<1>8. Queued(C)
  <2>1. Range(e) = {} /\ C.down = e /\ C.up = e
    BY <1>1, <1>3 DEF Range
  <2>2. UNION {} = {}
    OBVIOUS
  <2>3. QED BY <1>1, <1>3, <2>1, <2>2 DEF Queued, Disjoint
<1>9. QED BY <1>6, <1>7, <1>8 DEF Sound

\* The cache starts empty and nobody owns a slot.
LEMMA PrefixStart ==
  ASSUME Init
  PROVE  PrefixInv
<1>1. conf \in Confs /\ conf.host \in Nat
  BY PrefixAssumption DEF Init
<1>2. Sound(cache)
  BY <1>1, EmptySound DEF Init
<1>3. /\ cache.index = {} /\ cache.dev = {} /\ cache.host = {} /\ cache.out = {} /\ cache.slots = NumSlots /\ cache.pool = conf.host
      /\ cache.err = "none" /\ \A b \in Blocks : cache.ref[b] = 0
  BY DEF Init
<1>4. req = [r \in Requests |-> NoRequest] /\ job = NoJob
  BY DEF Init
<1>5. /\ NoRequest \in ReqType /\ NoRequest.hit = 0 /\ NoRequest.att = 0 /\ NoRequest.pos = 0
      /\ NoRequest.held = {} /\ NoRequest.priv = 0 /\ NoRequest.fwd = <<>>
  BY NoRequestType
<1>6. req \in [Requests -> ReqType] /\ \A r \in Requests : req[r] = NoRequest
  BY <1>4, <1>5
<1>7. \A r \in Requests : Grip(req[r], r) = {} /\ Root2Att(req[r], r) = {}
  <2>1. SUFFICES ASSUME NEW r \in Requests PROVE Grip(req[r], r) = {} /\ Root2Att(req[r], r) = {}
    OBVIOUS
  <2>2. PICK n : n = 0 /\ n \in Nat /\ n <= Len(Path[r])
    BY PathFacts
  <2>3. Range(SubSeq(Path[r], 1, n)) = {}
    BY <2>2, StartFacts
  <2>4. QED BY <1>5, <1>6, <2>2, <2>3 DEF Grip, Root2Att
<1>8. AllAttached(req)
  BY <1>5, <1>6 DEF AllAttached
<1>9. \A r \in Requests : Anchored(cache, job, req[r], r)
  <2>1. \A r \in Requests : Root2Att(req[r], r) \subseteq cache.dev /\ Grip(req[r], r) \subseteq cache.index
    BY <1>7
  <2>2. QED BY <1>8, <2>1, Quiet
<1>10. \A r \in Requests : Fit(req[r], r)
  <2>1. Flying(<<>>) = 0
    BY FlyingFacts
  <2>2. \A r \in Requests : 0 <= Len(Path[r])
    BY PathFacts
  <2>3. QED BY <1>5, <1>6, <2>1, <2>2 DEF Fit
<1>11. Steady(cache, req, job)
  BY <1>4, NoJobSteady
<1>12. PrivSum(req) = 0
  <2>1. PICK w : w = Private(req)
    OBVIOUS
  <2>2. \A r \in Requests : w[r] = 0
    BY <1>5, <1>6, <2>1 DEF Private
  <2>3. IsFiniteSet(Requests)
    BY PrefixAssumption
  <2>4. SumFunctionOnSet(w, Requests) = 0
    <3>1. PICK B : B = {} /\ B \in SUBSET Requests /\ IsFiniteSet(B) /\ Weights(w, B)
      BY FS_EmptySet DEF Weights
    <3>2. (\A r \in B : w[r] = w[r]) /\ \A r \in Requests \ B : w[r] = 0
      BY <2>2
    <3>3. SumFunctionOnSet(w, Requests) = SumFunctionOnSet(w, B)
      BY <2>3, <3>1, <3>2, SumSupport
    <3>4. SumFunctionOnSet(w, B) = 0
      BY <3>1, SumFacts
    <3>5. QED BY <3>3, <3>4
  <2>5. QED BY <2>1, <2>4 DEF PrivSum
<1>13. Ledger(conf, cache, req)
  <2>1. Cardinality({}) = 0
    BY FS_EmptySet
  <2>2. \A x \in Blocks : Holders(req, x) = {}
    BY <1>7 DEF Holders
  <2>3. NumSlots \in Nat
    BY PrefixAssumption
  <2>4. DevSum(cache) = NumSlots /\ HostSum(cache) = conf.host
    <3>1. cache.host \cup cache.out = {}
      BY <1>3
    <3>2. QED BY <1>1, <1>3, <2>1, <2>3, <3>1 DEF DevSum, HostSum
  <2>5. DevSum(cache) + PrivSum(req) = NumSlots
    BY <1>12, <2>3, <2>4
  <2>6. cache.slots >= 0 /\ cache.pool >= 0
    BY <1>1, <1>3, <2>3
  <2>7. QED BY <1>3, <2>1, <2>2, <2>4, <2>5, <2>6 DEF Ledger
<1>14. Backed(conf, cache)
  BY <1>3 DEF Backed, Settled
<1>15. QED BY <1>1, <1>2, <1>6, <1>9, <1>10, <1>11, <1>13, <1>14 DEF PrefixInv, Invariant, Core

\* One step of any action.
LEMMA PrefixStep ==
  ASSUME PrefixInv, [Next]_vars
  PROVE  PrefixInv'
<1>1. CASE UNCHANGED vars
  BY <1>1 DEF vars, PrefixInv
<1>2. ASSUME NEW r \in Requests, Submit(r) PROVE PrefixInv'
  BY <1>2, SubmitStep
<1>3. ASSUME NEW r \in Requests, Admit(r) PROVE PrefixInv'
  BY <1>3, AdmitStep
<1>4. ASSUME NEW r \in Requests, Publish(r) PROVE PrefixInv'
  BY <1>4, PublishedStep
<1>5. ASSUME NEW r \in Requests, EndRequest(r) PROVE PrefixInv'
  BY <1>5, EndRequestStep
<1>6. ASSUME NEW r \in Requests, Preempt(r) PROVE PrefixInv'
  BY <1>6, PreemptStep
<1>7. ASSUME NEW r \in Requests, TearDown(r) PROVE PrefixInv'
  BY <1>7, TearDownStep
<1>8. ASSUME NEW S \in SUBSET Decoding \ {{}}, RunDecode(S) PROVE PrefixInv'
  BY <1>8, RunDecodeStep
<1>9. ASSUME NEW b \in Selectors, DeleteSubtree(b) PROVE PrefixInv'
  BY <1>9, PrefixAssumption, DeleteSubtreeStep
<1>10. ASSUME NEW b \in Selectors, NEW pin \in BOOLEAN, SetPriority(b, pin) PROVE PrefixInv'
  BY <1>10, PrefixAssumption, SetPriorityStep
<1>11. CASE BeginPass \/ RunPrefill \/ EndPass \/ Stats
  BY <1>11, BeginPassStep, RunPrefillStep, EndPassStep, StatsStep
<1>12. CASE NothingToAttach \/ Attach \/ Reclaim \/ Promote \/ TakePrefill \/ TakeDecode
  BY <1>12, NothingToAttachStep, AttachStep, ReclaimStep, PromoteStep, TakePrefillStep, TakeDecodeStep
<1>13. QED BY <1>1, <1>2, <1>3, <1>4, <1>5, <1>6, <1>7, <1>8, <1>9, <1>10, <1>11, <1>12 DEF Next

\* The invariant of the prefix cache: what is kept about capacity is exact,
\* paths are whole, copies are queued in order, requests and step are as they
\* should be, and slots, host memory and references add up.
THEOREM PrefixInvariance == Spec => []PrefixInv
<1>1. Init => PrefixInv
  BY PrefixStart
<1>2. PrefixInv /\ [Next]_vars => PrefixInv'
  BY PrefixStep
<1>3. QED BY <1>1, <1>2, PTL DEF Spec

-----------------------------------------------------------------------------
(* What it shows *)

\* A hit is the longest if it ends at an indexed block and the next is not.
LEMMA HitUnique ==
  ASSUME NEW C, Sound(C), NEW r \in Requests, NEW k \in 0..(Prompt[r] - 1), k = 0 \/ Path[r][k] \in C.index,
         k = Prompt[r] - 1 \/ Path[r][k + 1] \notin C.index
  PROVE  k = LongestHit(C, r)
<1>1. PICK h : h = LongestHit(C, r)
  OBVIOUS
<1>2. /\ h \in Nat /\ h < Prompt[r] /\ Between(r, 1, h) \subseteq C.index
      /\ h < Prompt[r] - 1 => Path[r][h + 1] \notin C.index
  BY <1>1, LongestHitFacts
<1>3. PICK n, l : n = Prompt[r] /\ l = Len(Path[r])
  OBVIOUS
<1>4. n \in 1..l /\ l \in Nat /\ k \in 0..(n - 1) /\ h \in Nat /\ h < n
  BY <1>2, <1>3, PathFacts
<1>5. \A i \in 1..k : Path[r][i] \in C.index
  <2>1. CASE k = 0
    BY <2>1
  <2>2. CASE k # 0
    <3>1. k \in 1..Len(Path[r])
      BY <1>3, <1>4, <2>2
    <3>2. Closed(C.index) /\ Path[r][k] \in C.index
      BY <2>2 DEF Sound, Sharp, Kept, Whole, Closed
    <3>3. QED BY <3>1, <3>2, PathClosed
  <2>3. QED BY <2>1, <2>2
<1>6. ~(k < h)
  <2>1. SUFFICES ASSUME k < h PROVE FALSE
    OBVIOUS
  <2>2. k + 1 \in 1..h /\ k # n - 1
    BY <1>4, <2>1
  <2>3. Path[r][k + 1] \in C.index
    BY <1>2, <2>2 DEF Between
  <2>4. QED BY <1>3, <2>2, <2>3
<1>7. ~(h < k)
  <2>1. SUFFICES ASSUME h < k PROVE FALSE
    OBVIOUS
  <2>2. h + 1 \in 1..k /\ h < n - 1
    BY <1>4, <2>1
  <2>3. QED BY <1>2, <1>3, <1>5, <2>2
<1>8. QED BY <1>1, <1>4, <1>6, <1>7

\* Paths stay whole (remove_block, demote, match_prefix).
LEMMA InvPaths ==
  ASSUME PrefixInv
  PROVE  PathsResident
<1>1. Sound(cache) /\ \A r \in Requests : Anchored(cache, job, req[r], r)
  BY DEF PrefixInv, Invariant, Core
<1>2. Closed(cache.index) /\ Closed(cache.dev) /\ Closed(cache.host)
  BY <1>1 DEF Sound, Sharp, Kept, Whole, Closed, Resident
<1>3. cache.err # "room" => cache.index = cache.dev \cup cache.host
  BY <1>1 DEF Sound, Resident
<1>4. \A S \in {cache.index, cache.dev, cache.host} : \A b \in S : Parent[b] = Root \/ Parent[b] \in S
  BY <1>2 DEF Closed
<1>5. ASSUME NEW r \in Requests PROVE HeldBy(r) \subseteq cache.index /\ (job.pc # "promote" => Attached(r) \subseteq cache.dev)
  <2>1. Anchored(cache, job, req[r], r)
    BY <1>1
  <2>2. HeldBy(r) = Grip(req[r], r) /\ Attached(r) = Root2Att(req[r], r)
    BY DEF HeldBy, Attached, Grip, Root2Att
  <2>3. QED BY <2>1, <2>2 DEF Anchored
<1>6. ASSUME NEW r \in Requests, NEW k \in 0..(Prompt[r] - 1), k = 0 \/ Path[r][k] \in cache.index,
             k = Prompt[r] - 1 \/ Path[r][k + 1] \notin cache.index
      PROVE  k = LongestHit(cache, r)
  BY <1>1, <1>6, HitUnique
<1>7. QED BY <1>3, <1>4, <1>5, <1>6 DEF PathsResident

\* Slots, host blocks, references and copies add up.
LEMMA InvOwnership ==
  ASSUME PrefixInv
  PROVE  OwnershipExact
<1>1. Sound(cache) /\ Ledger(conf, cache, req) /\ Resident(cache) /\ Queued(cache)
  BY DEF PrefixInv, Invariant, Core, Sound
<1>2. DevSum(cache) + PrivSum(req) = NumSlots /\ HostSum(cache) = conf.host
  BY <1>1 DEF Ledger
<1>3. \A b \in Blocks : cache.ref[b] = Cardinality({r \in Requests : b \in HeldBy(r)})
  <2>1. \A r \in Requests : HeldBy(r) = Grip(req[r], r)
    BY DEF HeldBy, Attached, Grip, Root2Att
  <2>2. \A b \in Blocks : Holders(req, b) = {r \in Requests : b \in HeldBy(r)}
    BY <2>1 DEF Holders
  <2>3. QED BY <1>1, <2>2 DEF Ledger
<1>4. Weight(cache.down) = Cardinality(cache.out)
  <2>1. cache.down \in Seq(SUBSET Blocks) /\ Disjoint(cache.down) /\ cache.out = UNION Range(cache.down)
    BY <1>1, CacheFields DEF Sound, Sharp, Kept, Queued
  <2>2. QED BY <2>1, WeightFacts
<1>5. cache.slots + Cardinality(cache.dev) + SumFunctionOnSet([r \in Requests |-> req[r].priv], Requests) = NumSlots
  BY <1>2 DEF DevSum, PrivSum, Private
<1>6. cache.pool + Cardinality(cache.host \cup cache.out) = conf.host /\ cache.host \cap cache.out = {}
  BY <1>1, <1>2 DEF HostSum, Resident
<1>7. Cardinality(cache.out) = Along(LAMBDA a, S : a + Cardinality(S), 0, cache.down)
  BY <1>4 DEF Weight
<1>8. cache.out = UNION Range(cache.down) /\ cache.in = UNION Range(cache.up)
  BY <1>1 DEF Queued
<1>9. QED BY <1>3, <1>5, <1>6, <1>7, <1>8 DEF OwnershipExact

\* With offload an idle path has copies, from the root on.
LEMMA InvBacked ==
  ASSUME PrefixInv
  PROVE  IdleIsBacked
<1>1. SUFFICES ASSUME Offload, Running
      PROVE  \A b \in cache.dev : (\A x \in Range(Up[b]) : cache.ref[x] = 0) => b \in cache.host \cup cache.out
  BY DEF IdleIsBacked
<1>2. Sound(cache) /\ Backed(conf, cache) /\ conf \in Confs
  BY DEF PrefixInv, Invariant, Core
<1>3. conf.host # 0 /\ cache.err = "none"
  <2>1. conf.host \in Nat
    BY <1>2, PrefixAssumption
  <2>2. QED BY <1>1, <2>1 DEF Offload, Running
<1>4. Settled(cache) /\ Closed(cache.dev) /\ cache.dev \subseteq Blocks
  BY <1>2, <1>3, CacheFields DEF Backed, Sound, Sharp, Kept, Resident
<1>5. PICK G : G = {b \in Blocks : b \in cache.dev /\ (\A x \in Range(Up[b]) : cache.ref[x] = 0) => b \in cache.host \cup cache.out}
  OBVIOUS
<1>6. ASSUME NEW b \in Blocks, Parent[b] # Root => Parent[b] \in G PROVE b \in G
  <2>1. SUFFICES ASSUME b \in cache.dev, \A x \in Range(Up[b]) : cache.ref[x] = 0, b \notin cache.host \cup cache.out PROVE FALSE
    BY <1>5
  <2>2. b \in Range(Up[b])
    BY UpRange
  <2>3. Parent[b] # Root /\ Parent[b] \notin cache.host \cup cache.out
    BY <1>4, <2>1, <2>2 DEF Settled
  <2>4. Parent[b] \in cache.dev /\ Range(Up[Parent[b]]) \subseteq Range(Up[b])
    BY <1>4, <2>1, <2>3, UpRange DEF Closed
  <2>5. QED BY <1>5, <1>6, <2>1, <2>3, <2>4
<1>7. G = Blocks
  BY <1>5, <1>6, TreeInduction
<1>8. QED BY <1>4, <1>5, <1>7

\* Types and bounds.
LEMMA InvTypes ==
  ASSUME PrefixInv
  PROVE  TypeOK
<1>1. /\ conf \in Confs /\ Sound(cache) /\ req \in [Requests -> ReqType] /\ Steady(cache, req, job) /\ Ledger(conf, cache, req)
      /\ \A r \in Requests : Fit(req[r], r)
  BY DEF PrefixInv, Invariant, Core
<1>2. /\ cache \in CacheType /\ Kept(cache) /\ Dormant(cache) /\ FreeExact(cache)
  BY <1>1 DEF Sound, Sharp, Kept
<1>3. IsFiniteSet(Requests) /\ IsFiniteSet(Blocks) /\ Cardinality(Requests) \in Nat /\ Cardinality(Blocks) \in Nat
  BY PrefixAssumption, FS_CardinalityType
<1>4. cache.ref \in [Blocks -> 0..Cardinality(Requests)]
  <2>1. cache.ref \in [Blocks -> Int]
    BY <1>2, CacheFields
  <2>2. ASSUME NEW x \in Blocks PROVE cache.ref[x] \in 0..Cardinality(Requests)
    <3>1. PICK H : H = Holders(req, x)
      OBVIOUS
    <3>2. H \subseteq Requests /\ cache.ref[x] = Cardinality(H)
      BY <1>1, <3>1 DEF Ledger, Holders
    <3>3. IsFiniteSet(H) /\ Cardinality(H) <= Cardinality(Requests)
      BY <1>3, <3>2, FS_Subset
    <3>4. Cardinality(H) \in Nat
      BY <3>3, FS_CardinalityType
    <3>5. QED BY <1>3, <3>2, <3>3, <3>4
  <2>3. QED BY <2>1, <2>2
<1>5. cache.kids \in [Blocks -> 0..Cardinality(Blocks)]
  <2>1. cache.kids \in [Blocks -> Int]
    BY <1>2, CacheFields
  <2>2. ASSUME NEW x \in Blocks PROVE cache.kids[x] \in 0..Cardinality(Blocks)
    <3>1. CASE cache.built
      <4>1. PICK H : H = Children(cache, x) \ cache.free
        OBVIOUS
      <4>2. cache.kids[x] = Cardinality(H)
        BY <1>2, <3>1, <4>1 DEF FreeExact
      <4>3. cache.index \subseteq Blocks
        BY <1>2, CacheFields
      <4>4. H \subseteq Blocks
        BY <4>1, <4>3 DEF Children
      <4>5. IsFiniteSet(H) /\ Cardinality(H) <= Cardinality(Blocks)
        BY <1>3, <4>4, FS_Subset
      <4>6. Cardinality(H) \in Nat
        BY <4>5, FS_CardinalityType
      <4>7. QED BY <1>3, <4>2, <4>5, <4>6
    <3>2. CASE ~cache.built
      <4>1. cache.kids[x] = 0
        BY <1>2, <3>2 DEF Dormant
      <4>2. QED BY <1>3, <4>1
    <3>3. QED BY <3>1, <3>2
  <2>3. QED BY <2>1, <2>2
<1>6. \A r \in Requests : /\ req[r].st \in {"idle", "wait", "decode"} /\ req[r].pos \in 0..Len(Path[r])
                          /\ req[r].priv \in 0..req[r].pos /\ req[r].att \in 0..req[r].hit
  <2>1. SUFFICES ASSUME NEW r \in Requests
        PROVE  /\ req[r].st \in {"idle", "wait", "decode"} /\ req[r].pos \in 0..Len(Path[r])
               /\ req[r].priv \in 0..req[r].pos /\ req[r].att \in 0..req[r].hit
    OBVIOUS
  <2>2. PICK p : p = req[r] /\ p \in ReqType /\ Fit(p, r)
    BY <1>1
  <2>3. PICK h, z, t, m, v, l : h = p.hit /\ z = p.pos /\ t = p.att /\ m = p.priv /\ v = Flying(p.fwd) /\ l = Len(Path[r])
    OBVIOUS
  <2>4. p.fwd \in Seq(Nat) /\ h \in Nat /\ z \in Nat /\ t \in Nat /\ m \in Int /\ l \in Nat /\ p.st \in {"idle", "wait", "decode"}
    BY <2>2, <2>3, PathFacts DEF ReqType
  <2>5. v \in Nat /\ h + v <= z /\ z <= l /\ t <= h /\ v <= m /\ m <= z - h
    BY <2>2, <2>3, <2>4, FlyingFacts DEF Fit
  <2>6. z \in 0..l /\ m \in 0..z /\ t \in 0..h
    BY <2>4, <2>5
  <2>7. QED BY <2>2, <2>3, <2>4, <2>6
<1>7. cache.slots \in 0..NumSlots
  <2>1. PrivSum(req) \in Nat
    <3>1. PICK w : w = Private(req)
      OBVIOUS
    <3>2. \A r \in Requests : w[r] \in Nat
      <4>1. SUFFICES ASSUME NEW r \in Requests PROVE req[r].priv \in Nat
        BY <3>1 DEF Private
      <4>2. req[r].pos \in 0..Len(Path[r]) /\ req[r].priv \in 0..req[r].pos
        BY <1>6
      <4>3. QED BY <4>2
    <3>3. SumFunctionOnSet(w, Requests) \in Nat
      BY <1>3, <3>2, SumNat
    <3>4. QED BY <3>1, <3>3 DEF PrivSum
  <2>2. cache.slots \in Int /\ Cardinality(cache.dev) \in Nat
    BY <1>1, SumTypes
  <2>3. cache.slots >= 0 /\ cache.slots + Cardinality(cache.dev) + PrivSum(req) = NumSlots
    BY <1>1 DEF Ledger, DevSum
  <2>4. NumSlots \in Nat
    BY PrefixAssumption
  <2>5. QED BY <2>1, <2>2, <2>3, <2>4
<1>8. cache.pool \in 0..conf.host
  <2>1. PICK X : X = cache.host \cup cache.out
    OBVIOUS
  <2>2. X \subseteq Blocks /\ cache.pool \in Int
    BY <1>2, <2>1, CacheFields
  <2>3. Cardinality(X) \in Nat
    BY <1>3, <2>2, FS_Subset, FS_CardinalityType
  <2>4. cache.pool >= 0 /\ cache.pool + Cardinality(X) = conf.host
    BY <1>1, <2>1 DEF Ledger, HostSum
  <2>5. conf.host \in Nat
    BY <1>1, PrefixAssumption
  <2>6. QED BY <2>2, <2>3, <2>4, <2>5
<1>9. \A k \in Kinds : cache.view[k] = Stale \/ cache.view[k] \subseteq Blocks
  <2>1. cache.view \in [Kinds -> {Stale} \cup SUBSET Blocks]
    BY <1>2, CacheFields
  <2>2. QED BY <2>1
<1>10. /\ \A f \in {cache.index, cache.dev, cache.host, cache.pinned, cache.out, cache.in, cache.wt, cache.free} : f \subseteq Blocks
       /\ {cache.down, cache.up} \subseteq Seq(SUBSET Blocks)
  <2>1. /\ cache.index \subseteq Blocks /\ cache.dev \subseteq Blocks /\ cache.host \subseteq Blocks /\ cache.pinned \subseteq Blocks
        /\ cache.out \subseteq Blocks /\ cache.in \subseteq Blocks /\ cache.wt \subseteq Blocks /\ cache.free \subseteq Blocks
        /\ cache.down \in Seq(SUBSET Blocks) /\ cache.up \in Seq(SUBSET Blocks)
    BY <1>2, CacheFields
  <2>2. QED BY <2>1
<1>11. job.i \in 1..MaxBatch
  BY <1>1 DEF Steady
<1>12. QED BY <1>1, <1>4, <1>5, <1>6, <1>7, <1>8, <1>9, <1>10, <1>11 DEF TypeOK

\* Every field has its type, and the slot and host stacks, the reference and
\* the child counts stay within their bounds.
THEOREM PrefixTyped == Spec => []TypeOK
<1>1. PrefixInv => TypeOK
  BY InvTypes
<1>2. QED BY <1>1, PrefixInvariance, PTL

\* No device slot, host block or reference is lost or counted twice by
\* attachment, publication, eviction, demotion, copies and release.
THEOREM PrefixOwnership == Spec => []OwnershipExact
<1>1. PrefixInv => OwnershipExact
  BY InvOwnership
<1>2. QED BY <1>1, PrefixInvariance, PTL

\* Paths stay whole in the index, on the device and on the host, what a
\* request holds stays resident, and a memoised hit that passes its two
\* membership checks is the longest (lookup_prefix_cache_hit).
THEOREM PrefixPaths == Spec => []PathsResident
<1>1. PrefixInv => PathsResident
  BY InvPaths
<1>2. QED BY <1>1, PrefixInvariance, PTL

\* The freeable set that _refresh_freeable_path maintains block by block and
\* every cached capacity view are what a scan of the whole tree gives.
THEOREM PrefixViews == Spec => []ViewsExact
<1>1. PrefixInv => ViewsExact
  BY DEF PrefixInv, Invariant, Core, Sound, Sharp, Kept, ViewsExact
<1>2. QED BY <1>1, PrefixInvariance, PTL

\* With offload an idle path on the device has its copies on the host or on
\* their way (_schedule_write_through_prefix_blocks).
THEOREM PrefixBacked == Spec => []IdleIsBacked
<1>1. PrefixInv => IdleIsBacked
  BY InvBacked
<1>2. QED BY <1>1, PrefixInvariance, PTL

=============================================================================
