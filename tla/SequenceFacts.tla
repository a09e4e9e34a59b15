---------------------------- MODULE SequenceFacts ----------------------------
(***************************************************************************)
(* What the deque operations of the scheduler do to the elements of a      *)
(* queue without duplicates, and what happens to a sum over requests when  *)
(* a weight changes or a request joins or leaves.                          *)
(***************************************************************************)
EXTENDS Integers, Queues, FiniteSetTheorems, TLAPS

\* The empty queue.
LEMMA EmptyFacts ==
  /\ IsInjective(<<>>) /\ Range(<<>>) = {}
  /\ \A S : <<>> \in Seq(S)
BY DEF IsInjective, Range

\* What is in a queue of requests is a request.
LEMMA RangeFacts ==
  ASSUME NEW S, NEW q \in Seq(S)
  PROVE  Range(q) \subseteq S /\ (q # <<>> <=> Range(q) # {}) /\ Len(q) \in Nat
BY DEF Range

\* A batch of one.
LEMMA SingletonFacts ==
  ASSUME NEW S, NEW s \in S
  PROVE  <<s>> \in Seq(S) /\ Range(<<s>>) = {s} /\ IsInjective(<<s>>)
BY DEF Range, IsInjective

\* append
LEMMA AppendFacts ==
  ASSUME NEW S, NEW q \in Seq(S), NEW s \in S
  PROVE  /\ Append(q, s) \in Seq(S) /\ Len(Append(q, s)) = Len(q) + 1
         /\ Range(Append(q, s)) = Range(q) \cup {s}
         /\ IsInjective(q) /\ s \notin Range(q) => IsInjective(Append(q, s))
<1>1. Append(q, s) \in Seq(S) /\ Len(Append(q, s)) = Len(q) + 1 /\ DOMAIN Append(q, s) = 1..(Len(q) + 1)
  OBVIOUS
<1>2. \A i \in 1..Len(q) : Append(q, s)[i] = q[i]
  OBVIOUS
<1>3. Append(q, s)[Len(q) + 1] = s /\ DOMAIN q = 1..Len(q)
  OBVIOUS
<1>4. Range(Append(q, s)) = Range(q) \cup {s}
  BY <1>1, <1>2, <1>3 DEF Range
<1>5. IsInjective(q) /\ s \notin Range(q) => IsInjective(Append(q, s))
  BY <1>1, <1>2, <1>3 DEF Range, IsInjective
<1>6. QED BY <1>1, <1>4, <1>5

\* extendleft, and the scan putting a batch back
LEMMA ConcatFacts ==
  ASSUME NEW S, NEW p \in Seq(S), NEW q \in Seq(S)
  PROVE  /\ p \o q \in Seq(S)
         /\ Range(p \o q) = Range(p) \cup Range(q)
         /\ IsInjective(p) /\ IsInjective(q) /\ Range(p) \cap Range(q) = {}
              => IsInjective(p \o q)
<1>1. p \o q \in Seq(S) /\ DOMAIN (p \o q) = 1..(Len(p) + Len(q))
  OBVIOUS
<1>2. \A i \in 1..Len(p) : (p \o q)[i] = p[i]
  OBVIOUS
<1>3. \A i \in 1..Len(q) : (p \o q)[Len(p) + i] = q[i]
  OBVIOUS
<1>4. DOMAIN p = 1..Len(p) /\ DOMAIN q = 1..Len(q) /\ Len(p) \in Nat /\ Len(q) \in Nat
  OBVIOUS
<1>5. \A i \in (Len(p) + 1)..(Len(p) + Len(q)) : (p \o q)[i] = q[i - Len(p)]
  OBVIOUS
<1>6. Range(p \o q) = Range(p) \cup Range(q)
  <2>1. Range(p \o q) \subseteq Range(p) \cup Range(q)
    BY <1>1, <1>2, <1>4, <1>5 DEF Range
  <2>2. Range(p) \subseteq Range(p \o q)
    BY <1>1, <1>2, <1>4 DEF Range
  <2>3. Range(q) \subseteq Range(p \o q)
    <3>1. SUFFICES ASSUME NEW i \in 1..Len(q)
                   PROVE  q[i] \in Range(p \o q)
      BY <1>4 DEF Range
    <3>2. Len(p) + i \in DOMAIN (p \o q)
      BY <1>1, <1>4
    <3>3. QED BY <1>3, <3>2 DEF Range
  <2>4. QED BY <2>1, <2>2, <2>3
<1>7. ASSUME IsInjective(p), IsInjective(q), Range(p) \cap Range(q) = {}
      PROVE  IsInjective(p \o q)
  <2>1. SUFFICES ASSUME NEW i \in 1..(Len(p) + Len(q)), NEW j \in 1..(Len(p) + Len(q)),
                        (p \o q)[i] = (p \o q)[j]
                 PROVE  i = j
    BY <1>1 DEF IsInjective
  <2>2. CASE i <= Len(p) /\ j <= Len(p)
    BY <2>1, <2>2, <1>2, <1>4, <1>7 DEF IsInjective
  <2>3. CASE i > Len(p) /\ j > Len(p)
    BY <2>1, <2>3, <1>4, <1>5, <1>7, SMTT(60) DEF IsInjective
  <2>4. CASE (i <= Len(p) /\ j > Len(p)) \/ (i > Len(p) /\ j <= Len(p))
    <3>1. \A a \in 1..Len(p), b \in 1..Len(q) : p[a] # q[b]
      BY <1>4, <1>7 DEF Range
    <3>2. CASE i <= Len(p) /\ j > Len(p)
      <4>1. i \in 1..Len(p) /\ j - Len(p) \in 1..Len(q)
        BY <1>4, <2>1, <3>2
      <4>2. p[i] = q[j - Len(p)]
        BY <1>2, <1>4, <1>5, <2>1, <3>2, <4>1
      <4>3. QED BY <3>1, <4>1, <4>2
    <3>3. CASE i > Len(p) /\ j <= Len(p)
      <4>1. j \in 1..Len(p) /\ i - Len(p) \in 1..Len(q)
        BY <1>4, <2>1, <3>3
      <4>2. p[j] = q[i - Len(p)]
        BY <1>2, <1>4, <1>5, <2>1, <3>3, <4>1
      <4>3. QED BY <3>1, <4>1, <4>2
    <3>4. QED BY <2>4, <3>2, <3>3
  <2>5. QED BY <2>2, <2>3, <2>4, <1>4
<1>8. QED BY <1>1, <1>6, <1>7

\* popleft
LEMMA HeadTailFacts ==
  ASSUME NEW S, NEW q \in Seq(S), q # <<>>
  PROVE  /\ Head(q) \in S /\ Head(q) \in Range(q)
         /\ Tail(q) \in Seq(S) /\ Len(Tail(q)) = Len(q) - 1
         /\ Range(Tail(q)) \subseteq Range(q)
         /\ Range(q) = Range(Tail(q)) \cup {Head(q)}
         /\ IsInjective(q) => IsInjective(Tail(q)) /\ Head(q) \notin Range(Tail(q))
<1>1. Len(q) >= 1 /\ Len(q) \in Nat /\ DOMAIN q = 1..Len(q) /\ Head(q) = q[1]
  OBVIOUS
<1>2. Tail(q) \in Seq(S) /\ Len(Tail(q)) = Len(q) - 1 /\ DOMAIN Tail(q) = 1..(Len(q) - 1)
  OBVIOUS
<1>3. \A i \in 1..(Len(q) - 1) : Tail(q)[i] = q[i + 1]
  OBVIOUS
<1>4. \A i \in 2..Len(q) : q[i] = Tail(q)[i - 1]
  BY <1>1, <1>3
<1>5. Range(Tail(q)) \subseteq Range(q)
  BY <1>1, <1>2, <1>3 DEF Range
<1>6. Range(q) \subseteq Range(Tail(q)) \cup {Head(q)}
  <2>1. SUFFICES ASSUME NEW i \in 1..Len(q), i # 1
                 PROVE  q[i] \in Range(Tail(q))
    BY <1>1 DEF Range
  <2>2. i - 1 \in DOMAIN Tail(q) /\ i \in 2..Len(q)
    BY <1>1, <1>2, <2>1
  <2>3. QED BY <1>4, <2>2 DEF Range
<1>7. Head(q) \in Range(q) /\ Head(q) \in S
  BY <1>1 DEF Range
<1>8. IsInjective(q) => IsInjective(Tail(q)) /\ Head(q) \notin Range(Tail(q))
  BY <1>1, <1>2, <1>3 DEF Range, IsInjective
<1>9. QED BY <1>2, <1>5, <1>6, <1>7, <1>8

\* rotation: the head moves to the tail
LEMMA RotateFacts ==
  ASSUME NEW S, NEW q \in Seq(S), q # <<>>, IsInjective(q)
  PROVE  /\ Append(Tail(q), Head(q)) \in Seq(S)
         /\ Len(Append(Tail(q), Head(q))) = Len(q)
         /\ Range(Append(Tail(q), Head(q))) = Range(q)
         /\ IsInjective(Append(Tail(q), Head(q)))
<1> DEFINE h == Head(q)
           t == Tail(q)
<1>1. /\ h \in S /\ t \in Seq(S) /\ Len(t) = Len(q) - 1 /\ IsInjective(t)
      /\ h \notin Range(t) /\ Range(q) = Range(t) \cup {h} /\ Len(q) \in Nat
  BY HeadTailFacts
<1> HIDE DEF h, t
<1>2. /\ Append(t, h) \in Seq(S) /\ Len(Append(t, h)) = Len(t) + 1
      /\ Range(Append(t, h)) = Range(t) \cup {h} /\ IsInjective(Append(t, h))
  BY <1>1, AppendFacts
<1>3. QED BY <1>1, <1>2 DEF h, t

\* appendleft
LEMMA PrependFacts ==
  ASSUME NEW S, NEW q \in Seq(S), NEW s \in S
  PROVE  /\ <<s>> \o q \in Seq(S)
         /\ Range(<<s>> \o q) = Range(q) \cup {s}
         /\ IsInjective(q) /\ s \notin Range(q) => IsInjective(<<s>> \o q)
<1> DEFINE p == <<s>>
<1>1. p \in Seq(S) /\ Range(p) = {s} /\ IsInjective(p)
  BY SingletonFacts
<1> HIDE DEF p
<1>2. /\ p \o q \in Seq(S) /\ Range(p \o q) = Range(p) \cup Range(q)
      /\ IsInjective(q) /\ Range(p) \cap Range(q) = {} => IsInjective(p \o q)
  BY <1>1, ConcatFacts
<1>3. QED BY <1>1, <1>2 DEF p

\* deque.remove and the filter of abort_many, on a queue without duplicates
LEMMA RemoveFacts ==
  ASSUME NEW S, NEW q \in Seq(S), NEW s, IsInjective(q)
  PROVE  /\ RemoveFirst(q, s) \in Seq(S)
         /\ Range(RemoveFirst(q, s)) = Range(q) \ {s}
         /\ IsInjective(RemoveFirst(q, s))
<1>1. CASE ~\E i \in 1..Len(q) : q[i] = s
  BY <1>1 DEF RemoveFirst, Range
<1>2. CASE \E i \in 1..Len(q) : q[i] = s
  <2>1. PICK k \in 1..Len(q) : q[k] = s
    BY <1>2
  <2>2. {i \in 1..Len(q) : q[i] = s} = {k}
    BY <2>1 DEF IsInjective
  <2>3. Min({k}) = k
    BY <2>1 DEF Min
  <2>4. RemoveFirst(q, s) = RemoveAt(q, k)
    BY <1>2, <2>2, <2>3 DEF RemoveFirst, SelectInSeq
  <2> DEFINE l == SubSeq(q, 1, k - 1)
             r == SubSeq(q, k + 1, Len(q))
  <2>5. /\ l \in Seq(S) /\ Len(l) = k - 1 /\ DOMAIN l = 1..(k - 1)
        /\ \A i \in 1..(k - 1) : l[i] = q[i]
    BY <2>1
  <2>6. /\ r \in Seq(S) /\ Len(r) = Len(q) - k /\ DOMAIN r = 1..(Len(q) - k)
        /\ \A i \in 1..(Len(q) - k) : r[i] = q[k + i]
    BY <2>1
  <2>7. Range(l) = {q[i] : i \in 1..(k - 1)}
    BY <2>5 DEF Range
  <2>8. Range(r) = {q[i] : i \in (k + 1)..Len(q)}
    <3>1. \A i \in (k + 1)..Len(q) : q[i] = r[i - k] /\ i - k \in 1..(Len(q) - k)
      BY <2>1, <2>6
    <3>2. Range(r) \subseteq {q[i] : i \in (k + 1)..Len(q)}
      BY <2>1, <2>6, SMTT(60) DEF Range
    <3>3. ASSUME NEW i \in (k + 1)..Len(q)
          PROVE  q[i] \in Range(r)
      BY <2>6, <3>1 DEF Range
    <3>4. QED BY <3>2, <3>3
  <2>9. Range(l) \cap Range(r) = {} /\ IsInjective(l) /\ IsInjective(r)
    <3>1. Range(l) \cap Range(r) = {}
      BY <2>1, <2>7, <2>8 DEF IsInjective
    <3>2. IsInjective(l)
      BY <2>1, <2>5 DEF IsInjective
    <3>3. IsInjective(r)
      BY <2>1, <2>6 DEF IsInjective
    <3>4. QED BY <3>1, <3>2, <3>3
  <2>10. Range(q) \ {s} = Range(l) \cup Range(r)
    <3>1. DOMAIN q = 1..Len(q)
      OBVIOUS
    <3>2. \A i \in 1..Len(q) : i # k => q[i] # s
      BY <2>1, <3>1 DEF IsInjective
    <3>3. Range(l) \cup Range(r) \subseteq Range(q) \ {s}
      BY <2>1, <2>7, <2>8, <3>1, <3>2 DEF Range
    <3>4. ASSUME NEW i \in 1..Len(q), q[i] # s
          PROVE  q[i] \in Range(l) \cup Range(r)
      <4>1. i \in 1..(k - 1) \/ i \in (k + 1)..Len(q)
        BY <2>1, <3>4
      <4>2. QED BY <2>7, <2>8, <4>1
    <3>5. Range(q) \ {s} \subseteq Range(l) \cup Range(r)
      BY <3>1, <3>4 DEF Range
    <3>6. QED BY <3>3, <3>5
  <2>11. RemoveAt(q, k) = l \o r
    BY DEF RemoveAt
  <2> HIDE DEF l, r
  <2>12. /\ l \o r \in Seq(S)
         /\ Range(l \o r) = Range(l) \cup Range(r)
         /\ IsInjective(l \o r)
    BY <2>5, <2>6, <2>9, ConcatFacts
  <2>13. QED
    BY <2>4, <2>10, <2>11, <2>12
<1>3. QED BY <1>1, <1>2

\* sorting a queue permutes it
LEMMA PermuteFacts ==
  ASSUME NEW S, NEW q \in Seq(S), NEW p \in Bijection(DOMAIN q, DOMAIN q)
  PROVE  LET r == [i \in DOMAIN q |-> q[p[i]]]
         IN  /\ r \in Seq(S)
             /\ Range(r) = Range(q)
             /\ IsInjective(q) => IsInjective(r)
<1> DEFINE r == [i \in DOMAIN q |-> q[p[i]]]
<1>1. DOMAIN q = 1..Len(q) /\ Len(q) \in Nat
  OBVIOUS
<1>2. /\ p \in [DOMAIN q -> DOMAIN q] /\ IsInjective(p)
      /\ \A t \in DOMAIN q : \E i \in DOMAIN q : p[i] = t
  BY DEF Bijection, Injection, Surjection
<1>3. \A i \in 1..Len(q) : r[i] \in S
  BY <1>1, <1>2
<1>4. r \in Seq(S)
  BY <1>1, <1>3
<1>5. Range(r) = Range(q)
  BY <1>1, <1>2 DEF Range
<1>6. IsInjective(q) => IsInjective(r)
  BY <1>1, <1>2 DEF IsInjective
<1>7. QED BY <1>4, <1>5, <1>6

\* append, by position
LEMMA AppendPositions ==
  ASSUME NEW S, NEW q \in Seq(S), NEW s \in S
  PROVE  /\ Append(q, s) \in Seq(S)
         /\ DOMAIN Append(q, s) = DOMAIN q \cup {Len(q) + 1} /\ Len(q) + 1 \notin DOMAIN q
         /\ \A i \in DOMAIN q : Append(q, s)[i] = q[i]
         /\ Append(q, s)[Len(q) + 1] = s
OBVIOUS

\* popleft, by position
LEMMA TailPositions ==
  ASSUME NEW S, NEW q \in Seq(S), q # <<>>
  PROVE  /\ Tail(q) \in Seq(S) /\ Head(q) \in S
         /\ 1 \in DOMAIN q /\ Head(q) = q[1]
         /\ DOMAIN q \subseteq Nat
         /\ \A i \in DOMAIN Tail(q) : i \in Nat \ {0} /\ i + 1 \in DOMAIN q /\ Tail(q)[i] = q[i + 1]
OBVIOUS
-----------------------------------------------------------------------------
(* Sums over finite sets *)

\* A set of naturals has a least element.
LEMMA LeastNat == ASSUME NEW T \in SUBSET Nat, T # {} PROVE \E n \in T : \A m \in T : n <= m
<1>1. \E n \in T : \A m \in T : ~(<<m, n>> \in OpToRel(<, Nat))
  BY WFMin, NatLessThanWellFounded, Zenon
<1>2. \A m, n \in Nat : <<m, n>> \in OpToRel(<, Nat) <=> m < n
  BY DEF OpToRel
<1>3. \A m, n \in Nat : ~(m < n) => n <= m
  OBVIOUS
<1>4. PICK n \in T : \A m \in T : ~(<<m, n>> \in OpToRel(<, Nat))
  BY <1>1
<1>5. \A m \in T : n <= m
  BY <1>2, <1>3, <1>4
<1>6. QED BY <1>5

\* Induction over the subsets of a finite set, smaller ones first.
LEMMA SubsetInduction ==
  ASSUME NEW U, IsFiniteSet(U), NEW P,
         \A T \in SUBSET U : (\A R \in SUBSET T : R # T => R \in P) => T \in P
  PROVE  \A T \in SUBSET U : T \in P
<1> DEFINE N == {n \in Nat : \E T \in SUBSET U : T \notin P /\ Cardinality(T) = n}
<1>1. SUFFICES ASSUME NEW T \in SUBSET U, T \notin P PROVE FALSE
  OBVIOUS
<1>2. \A R \in SUBSET U : IsFiniteSet(R) /\ Cardinality(R) \in Nat
  BY FS_Subset, FS_CardinalityType
<1>3. Cardinality(T) \in N
  BY <1>1, <1>2
<1>4. PICK n \in N : \A m \in N : n <= m
  BY <1>3, LeastNat
<1>5. PICK B \in SUBSET U : B \notin P /\ Cardinality(B) = n
  BY <1>4
<1>6. ASSUME NEW R \in SUBSET B, R # B, R \notin P PROVE FALSE
  <2>1. R \in SUBSET U /\ IsFiniteSet(B)
    BY <1>2, <1>5
  <2>2. Cardinality(R) <= n /\ Cardinality(R) # n /\ Cardinality(R) \in Nat /\ n \in Nat
    BY <1>2, <1>5, <1>6, <2>1, FS_Subset
  <2>3. Cardinality(R) \in N
    BY <1>6, <2>1, <2>2
  <2>4. n <= Cardinality(R)
    BY <1>4, <2>3
  <2>5. QED BY <2>2, <2>4
<1>7. QED BY <1>5, <1>6

\* The element a sum takes next.
Nth(T) == CHOOSE x \in T : TRUE

\* The recursion that defines a sum, on the subsets of S.
Adds(g, f, S) ==
  g = [T \in SUBSET S |-> IF T = {} THEN 0 ELSE f[Nth(T)] + g[T \ {Nth(T)}]]

\* The library's sum is the solution of the recursion, at S.
LEMMA SumIsChoice ==
  ASSUME NEW f, NEW S
  PROVE  SumFunctionOnSet(f, S) = (CHOOSE g : Adds(g, f, S))[S]
BY DEF SumFunctionOnSet, FoldFunctionOnSet, MapThenFoldSet, Adds, Nth

\* What the recursion computes is an integer, whatever element it takes first.
AnyOrder(g, f, S) ==
  /\ g[{}] = 0
  /\ \A T \in SUBSET S : g[T] \in Int /\ \A x \in T : g[T] = f[x] + g[T \ {x}]

\* Two functions agree on the subsets of R.
AgreeOn(g, h, R) == \A T \in SUBSET R : g[T] = h[T]

\* f gives an integer to each element of S.
Weights(f, S) == \A x \in S : f[x] \in Int

\* The recursion has a solution, on sets of any size.
LEMMA AddsExists == ASSUME NEW f, NEW S, IsFiniteSet(S) PROVE \E g : Adds(g, f, S)
<1> DEFINE Step(g, T) == IF T = {} THEN 0 ELSE f[Nth(T)] + g[T \ {Nth(T)}]
           Upto(g, n) == \A T \in SUBSET S : Cardinality(T) <= n => g[T] = Step(g, T)
           B == {n \in Nat : ~ \E g : Upto(g, n)}
<1>1. \A T \in SUBSET S : /\ IsFiniteSet(T) /\ Cardinality(T) \in Nat
                          /\ Cardinality(T) <= Cardinality(S)
                          /\ (Cardinality(T) = 0 <=> T = {})
  BY FS_Subset, FS_CardinalityType, FS_EmptySet
<1>2. \A T \in SUBSET S : T # {} => /\ Nth(T) \in T /\ T \ {Nth(T)} \in SUBSET S
                                    /\ Cardinality(T \ {Nth(T)}) = Cardinality(T) - 1
  <2>1. SUFFICES ASSUME NEW T \in SUBSET S, T # {}
                 PROVE  /\ Nth(T) \in T /\ T \ {Nth(T)} \in SUBSET S
                        /\ Cardinality(T \ {Nth(T)}) = Cardinality(T) - 1
    OBVIOUS
  <2>2. Nth(T) \in T
    BY <2>1 DEF Nth
  <2>3. QED BY <1>1, <2>2, FS_RemoveElement
<1>3. B = {}
  <2>1. SUFFICES ASSUME B # {} PROVE FALSE
    OBVIOUS
  <2>2. PICK n \in B : \A m \in B : n <= m
    BY <2>1, LeastNat
  <2>3. n # 0
    <3>1. ASSUME n = 0 PROVE FALSE
      <4>1. PICK g : g = [T \in SUBSET S |-> 0]
        OBVIOUS
      <4>2. Upto(g, 0)
        BY <1>1, <4>1
      <4>3. QED BY <2>2, <3>1, <4>2
    <3>2. QED BY <3>1
  <2>4. n - 1 \in Nat /\ ~(n <= n - 1) /\ n \in Nat
    BY <2>3
  <2>5. PICK g : Upto(g, n - 1)
    BY <2>2, <2>4
  <2>6. PICK h : h = [T \in SUBSET S |-> IF Cardinality(T) <= n - 1 THEN g[T] ELSE Step(g, T)]
    OBVIOUS
  <2>7. \A T \in SUBSET S : Cardinality(T) <= n - 1 => h[T] = g[T]
    BY <2>6
  <2>8. ASSUME NEW T \in SUBSET S, Cardinality(T) <= n PROVE h[T] = Step(h, T)
    <3>1. h[T] = Step(g, T)
      BY <2>5, <2>6
    <3>2. T # {} => h[T \ {Nth(T)}] = g[T \ {Nth(T)}]
      <4>1. SUFFICES ASSUME T # {} PROVE h[T \ {Nth(T)}] = g[T \ {Nth(T)}]
        OBVIOUS
      <4>2. T \ {Nth(T)} \in SUBSET S /\ Cardinality(T \ {Nth(T)}) <= n - 1
        BY <1>1, <1>2, <2>4, <2>8, <4>1
      <4>3. QED BY <2>7, <4>2
    <3>3. QED BY <3>1, <3>2
  <2>9. QED BY <2>2, <2>4, <2>8
<1>4. Cardinality(S) \in Nat
  BY FS_CardinalityType
<1>5. PICK g : Upto(g, Cardinality(S))
  BY <1>3, <1>4
<1>6. PICK h : h = [T \in SUBSET S |-> g[T]]
  OBVIOUS
<1>7. ASSUME NEW T \in SUBSET S PROVE h[T] = Step(h, T)
  <2>1. g[T] = Step(g, T) /\ h[T] = g[T]
    BY <1>1, <1>5, <1>6
  <2>2. T # {} => h[T \ {Nth(T)}] = g[T \ {Nth(T)}]
    BY <1>2, <1>6
  <2>3. QED BY <2>1, <2>2
<1>8. h = [T \in SUBSET S |-> Step(h, T)]
  <2>1. h = [T \in SUBSET S |-> h[T]]
    BY <1>6
  <2>2. QED BY <1>7, <2>1
<1>9. QED BY <1>8 DEF Adds

\* The order in which a sum takes its elements does not matter.
LEMMA AddsAnyOrder ==
  ASSUME NEW f, NEW S, IsFiniteSet(S), Weights(f, S), NEW g, Adds(g, f, S)
  PROVE  AnyOrder(g, f, S)
<1> USE DEF Weights
<1> DEFINE P == {T \in SUBSET S : g[T] \in Int /\ \A x \in T : g[T] = f[x] + g[T \ {x}]}
<1>1. g[{}] = 0
  BY DEF Adds
<1>2. \A T \in SUBSET S : T # {} => Nth(T) \in T /\ g[T] = f[Nth(T)] + g[T \ {Nth(T)}]
  BY DEF Adds, Nth
<1>3. ASSUME NEW T \in SUBSET S, \A R \in SUBSET T : R # T => R \in P PROVE T \in P
  <2>1. CASE T = {}
    BY <1>1, <2>1
  <2>2. CASE T # {}
    <3>1. PICK p \in T : g[T] = f[p] + g[T \ {p}]
      BY <1>2, <2>2
    <3>2. T \ {p} \in P /\ g[T \ {p}] \in Int /\ f[p] \in Int /\ g[T] \in Int
      <4>1. T \ {p} \in SUBSET T /\ T \ {p} # T
        OBVIOUS
      <4>2. QED BY <1>3, <3>1, <4>1
    <3>3. ASSUME NEW x \in T, x # p PROVE g[T] = f[x] + g[T \ {x}]
      <4>1. T \ {x} \in SUBSET T /\ T \ {x} # T /\ p \in T \ {x} /\ x \in T \ {p}
        BY <3>3
      <4>2. T \ {x} \in P
        BY <1>3, <4>1
      <4>3. g[T \ {x}] = f[p] + g[(T \ {x}) \ {p}]
        BY <4>1, <4>2
      <4>4. g[T \ {p}] = f[x] + g[(T \ {p}) \ {x}]
        BY <3>2, <4>1
      <4>5. (T \ {x}) \ {p} = (T \ {p}) \ {x}
        OBVIOUS
      <4>6. PICK v : v = g[(T \ {p}) \ {x}]
        OBVIOUS
      <4>7. v \in Int
        <5>1. (T \ {p}) \ {x} \in SUBSET T /\ (T \ {p}) \ {x} # T
          OBVIOUS
        <5>2. QED BY <1>3, <4>6, <5>1
      <4>8. f[x] \in Int
        OBVIOUS
      <4>9. PICK a, b, c, d : a = f[p] /\ b = f[x] /\ c = g[T \ {p}] /\ d = g[T \ {x}]
        OBVIOUS
      <4>10. a \in Int /\ b \in Int /\ c = b + v /\ d = a + v
        BY <3>2, <4>3, <4>4, <4>5, <4>6, <4>8, <4>9
      <4>11. a + c = b + d
        BY <4>7, <4>10
      <4>12. QED BY <3>1, <4>9, <4>11
    <3>4. QED BY <3>1, <3>2, <3>3
  <2>3. QED BY <2>1, <2>2
<1> HIDE DEF P
<1>4. \A T \in SUBSET S : T \in P
  BY <1>3, SubsetInduction
<1>5. QED BY <1>1, <1>4 DEF P, AnyOrder

\* Two solutions agree where both are defined.
LEMMA AddsUnique ==
  ASSUME NEW f, NEW S, NEW R \in SUBSET S, IsFiniteSet(S),
         NEW g, Adds(g, f, S), NEW h, Adds(h, f, R)
  PROVE  AgreeOn(g, h, R)
<1> DEFINE P == {T \in SUBSET R : g[T] = h[T]}
<1>1. IsFiniteSet(R)
  BY FS_Subset
<1>2. \A T \in SUBSET R : /\ g[T] = IF T = {} THEN 0 ELSE f[Nth(T)] + g[T \ {Nth(T)}]
                          /\ h[T] = IF T = {} THEN 0 ELSE f[Nth(T)] + h[T \ {Nth(T)}]
  BY DEF Adds
<1>3. ASSUME NEW T \in SUBSET R, \A Q \in SUBSET T : Q # T => Q \in P PROVE T \in P
  <2>1. T # {} => Nth(T) \in T
    BY DEF Nth
  <2>2. T # {} => T \ {Nth(T)} \in P
    BY <1>3, <2>1
  <2>3. QED BY <1>2, <2>2
<1> HIDE DEF P
<1>4. \A T \in SUBSET R : T \in P
  BY <1>1, <1>3, SubsetInduction
<1>5. QED BY <1>4 DEF P, AgreeOn

\* A sum and the sum without one of its elements.
LEMMA SumFacts ==
  ASSUME NEW f, NEW S, IsFiniteSet(S), Weights(f, S)
  PROVE  /\ SumFunctionOnSet(f, S) \in Int
         /\ S = {} => SumFunctionOnSet(f, S) = 0
         /\ \A x \in S : SumFunctionOnSet(f, S) = f[x] + SumFunctionOnSet(f, S \ {x})
<1>1. PICK g : g = CHOOSE h : Adds(h, f, S)
  OBVIOUS
<1>2. Adds(g, f, S) /\ SumFunctionOnSet(f, S) = g[S]
  BY <1>1, AddsExists, SumIsChoice
<1>3. /\ g[{}] = 0 /\ g[S] \in Int
      /\ \A x \in S : g[S] = f[x] + g[S \ {x}]
  <2>1. AnyOrder(g, f, S)
    BY <1>2, AddsAnyOrder
  <2>2. S \in SUBSET S
    OBVIOUS
  <2>3. QED BY <2>1, <2>2 DEF AnyOrder
<1>4. ASSUME NEW x \in S PROVE SumFunctionOnSet(f, S \ {x}) = g[S \ {x}]
  <2>1. PICK R : R = S \ {x}
    OBVIOUS
  <2>2. R \in SUBSET S /\ IsFiniteSet(R)
    BY <2>1, FS_Subset
  <2>3. PICK k : k = CHOOSE h : Adds(h, f, R)
    OBVIOUS
  <2>4. Adds(k, f, R) /\ SumFunctionOnSet(f, R) = k[R]
    BY <2>2, <2>3, AddsExists, SumIsChoice
  <2>5. AgreeOn(g, k, R)
    BY <1>2, <2>2, <2>4, AddsUnique
  <2>6. QED BY <2>1, <2>4, <2>5 DEF AgreeOn
<1>5. QED BY <1>2, <1>3, <1>4

\* Adding the weights g of the elements of B to the weights f adds their sum.
LEMMA SumPlus ==
  ASSUME NEW U, IsFiniteSet(U), NEW B \in SUBSET U,
         NEW f, Weights(f, U), NEW g, Weights(g, B), NEW h,
         \A x \in B : h[x] = f[x] + g[x], \A x \in U \ B : h[x] = f[x]
  PROVE  SumFunctionOnSet(h, U) = SumFunctionOnSet(f, U) + SumFunctionOnSet(g, B)
<1> DEFINE Goal(T) == SumFunctionOnSet(h, T) = SumFunctionOnSet(f, T) + SumFunctionOnSet(g, T \cap B)
           P == {T \in SUBSET U : Goal(T)}
<1>1. ASSUME NEW T \in SUBSET U
      PROVE  /\ IsFiniteSet(T) /\ IsFiniteSet(T \cap B)
             /\ Weights(f, T) /\ Weights(h, T) /\ Weights(g, T \cap B)
  <2>1. IsFiniteSet(T) /\ IsFiniteSet(T \cap B)
    BY FS_Subset
  <2>2. QED BY <2>1 DEF Weights
<1>2. ASSUME NEW T \in SUBSET U, \A R \in SUBSET T : R # T => R \in P PROVE T \in P
  <2>1. CASE T = {}
    <3>1. T \cap B = {}
      BY <2>1
    <3>2. /\ SumFunctionOnSet(h, T) = 0 /\ SumFunctionOnSet(f, T) = 0
          /\ SumFunctionOnSet(g, T \cap B) = 0
      BY <1>1, <2>1, <3>1, SumFacts
    <3>3. QED BY <3>2
  <2>2. CASE T # {}
    <3>1. PICK x \in T : TRUE
      BY <2>2
    <3>2. PICK R : R = T \ {x}
      OBVIOUS
    <3>3. R \in P /\ R \in SUBSET U
      <4>1. R \in SUBSET T /\ R # T
        BY <3>2
      <4>2. QED BY <1>2, <4>1
    <3>4. Goal(R)
      BY <3>3
    <3>5. /\ SumFunctionOnSet(f, T) = f[x] + SumFunctionOnSet(f, R) /\ SumFunctionOnSet(f, R) \in Int
          /\ SumFunctionOnSet(h, T) = h[x] + SumFunctionOnSet(h, R)
          /\ SumFunctionOnSet(g, R \cap B) \in Int
      <4>1. /\ IsFiniteSet(T) /\ Weights(f, T) /\ Weights(h, T)
            /\ IsFiniteSet(R) /\ Weights(f, R) /\ IsFiniteSet(R \cap B) /\ Weights(g, R \cap B)
        BY <1>1, <3>3
      <4> HIDE DEF P, Goal
      <4>2. SumFunctionOnSet(f, T) = f[x] + SumFunctionOnSet(f, R)
        BY <3>2, <4>1, SumFacts
      <4>3. SumFunctionOnSet(f, R) \in Int
        BY <4>1, SumFacts
      <4>4. SumFunctionOnSet(h, T) = h[x] + SumFunctionOnSet(h, R)
        BY <3>2, <4>1, SumFacts
      <4>5. SumFunctionOnSet(g, R \cap B) \in Int
        BY <4>1, SumFacts
      <4>6. QED BY <4>2, <4>3, <4>4, <4>5
    <3>6. f[x] \in Int
      BY DEF Weights
    <3>7. CASE x \in B
      <4>1. (T \cap B) \ {x} = R \cap B /\ x \in T \cap B
        BY <3>2, <3>7
      <4>2. SumFunctionOnSet(g, T \cap B) = g[x] + SumFunctionOnSet(g, R \cap B)
        <5>1. PICK C : C = T \cap B
          OBVIOUS
        <5>2. IsFiniteSet(C) /\ Weights(g, C) /\ x \in C
          BY <1>1, <4>1, <5>1
        <5>3. SumFunctionOnSet(g, C) = g[x] + SumFunctionOnSet(g, C \ {x})
          BY <5>2, SumFacts
        <5>4. QED BY <4>1, <5>1, <5>3
      <4>3. h[x] = f[x] + g[x] /\ g[x] \in Int
        BY <3>7 DEF Weights
      <4>4. ASSUME NEW a \in Int, NEW b \in Int, NEW c \in Int, NEW d \in Int
            PROVE  (a + b) + (c + d) = (a + c) + (b + d)
        OBVIOUS
      <4>5. Goal(T)
        BY <3>4, <3>5, <3>6, <4>2, <4>3, <4>4
      <4>6. QED BY <4>5
    <3>8. CASE x \notin B
      <4>1. T \cap B = R \cap B /\ h[x] = f[x]
        BY <3>2, <3>8
      <4>2. ASSUME NEW a \in Int, NEW b \in Int, NEW c \in Int
            PROVE  a + (b + c) = (a + b) + c
        OBVIOUS
      <4>3. SumFunctionOnSet(g, T \cap B) = SumFunctionOnSet(g, R \cap B) /\ h[x] = f[x]
        BY <4>1, Zenon
      <4>4. Goal(T)
        BY <3>4, <3>5, <3>6, <4>2, <4>3
      <4>5. QED BY <4>4
    <3>9. QED BY <3>7, <3>8
  <2>3. QED BY <2>1, <2>2
<1>3. U \in SUBSET U /\ U \cap B = B
  OBVIOUS
<1> HIDE DEF P
<1>4. \A T \in SUBSET U : T \in P
  BY <1>2, SubsetInduction
<1>5. QED BY <1>3, <1>4 DEF P

\* Smaller weights on fewer elements have a smaller sum.
LEMMA SumBelow ==
  ASSUME NEW U, IsFiniteSet(U), NEW B \in SUBSET U,
         NEW f, Weights(f, B), NEW h, Weights(h, U),
         \A x \in B : f[x] <= h[x], \A x \in U \ B : 0 <= h[x]
  PROVE  SumFunctionOnSet(f, B) <= SumFunctionOnSet(h, U)
<1> DEFINE Goal(T) == SumFunctionOnSet(f, T \cap B) <= SumFunctionOnSet(h, T)
           P == {T \in SUBSET U : Goal(T)}
<1>1. ASSUME NEW T \in SUBSET U
      PROVE  /\ IsFiniteSet(T) /\ IsFiniteSet(T \cap B)
             /\ Weights(h, T) /\ Weights(f, T \cap B)
  <2>1. IsFiniteSet(T) /\ IsFiniteSet(T \cap B)
    BY FS_Subset
  <2>2. QED BY <2>1 DEF Weights
<1>2. ASSUME NEW T \in SUBSET U, \A R \in SUBSET T : R # T => R \in P PROVE T \in P
  <2>1. CASE T = {}
    <3>1. T \cap B = {}
      BY <2>1
    <3>2. SumFunctionOnSet(h, T) = 0 /\ SumFunctionOnSet(f, T \cap B) = 0
      BY <1>1, <2>1, <3>1, SumFacts
    <3>3. QED BY <3>2
  <2>2. CASE T # {}
    <3>1. PICK x \in T : TRUE
      BY <2>2
    <3>2. PICK R : R = T \ {x}
      OBVIOUS
    <3>3. R \in P /\ R \in SUBSET U
      <4>1. R \in SUBSET T /\ R # T
        BY <3>2
      <4>2. QED BY <1>2, <4>1
    <3>4. Goal(R)
      BY <3>3
    <3>5. /\ SumFunctionOnSet(h, T) = h[x] + SumFunctionOnSet(h, R)
          /\ SumFunctionOnSet(h, R) \in Int /\ SumFunctionOnSet(f, R \cap B) \in Int
      <4>1. SumFunctionOnSet(h, T) = h[x] + SumFunctionOnSet(h, R) /\ SumFunctionOnSet(h, R) \in Int
        BY <1>1, <3>2, <3>3, SumFacts
      <4>2. SumFunctionOnSet(f, R \cap B) \in Int
        BY <1>1, <3>3, SumFacts
      <4>3. QED BY <4>1, <4>2
    <3>6. h[x] \in Int
      BY DEF Weights
    <3>7. CASE x \in B
      <4>1. (T \cap B) \ {x} = R \cap B /\ x \in T \cap B
        BY <3>2, <3>7
      <4>2. SumFunctionOnSet(f, T \cap B) = f[x] + SumFunctionOnSet(f, R \cap B)
        BY <1>1, <4>1, SumFacts
      <4>3. f[x] <= h[x] /\ f[x] \in Int
        BY <3>7 DEF Weights
      <4>4. QED BY <3>4, <3>5, <3>6, <4>2, <4>3
    <3>8. CASE x \notin B
      <4>1. T \cap B = R \cap B /\ 0 <= h[x]
        BY <3>2, <3>8
      <4>2. QED BY <3>4, <3>5, <3>6, <4>1
    <3>9. QED BY <3>7, <3>8
  <2>3. QED BY <2>1, <2>2
<1>3. U \in SUBSET U /\ U \cap B = B
  OBVIOUS
<1> HIDE DEF P
<1>4. \A T \in SUBSET U : T \in P
  BY <1>2, SubsetInduction
<1>5. QED BY <1>3, <1>4 DEF P

\* Only the weights of the elements count.
LEMMA SumSame ==
  ASSUME NEW U, IsFiniteSet(U), NEW f, Weights(f, U), NEW h, \A x \in U : h[x] = f[x]
  PROVE  SumFunctionOnSet(h, U) = SumFunctionOnSet(f, U)
<1>1. {} \in SUBSET U /\ Weights(f, {}) /\ IsFiniteSet({})
  BY FS_EmptySet DEF Weights
<1>2. SumFunctionOnSet(h, U) = SumFunctionOnSet(f, U) + SumFunctionOnSet(f, {})
  BY <1>1, SumPlus
<1>3. SumFunctionOnSet(f, {}) = 0 /\ SumFunctionOnSet(f, U) \in Int
  BY <1>1, SumFacts
<1>4. QED BY <1>2, <1>3

\* A sum of naturals is one.
LEMMA SumNat ==
  ASSUME NEW U, IsFiniteSet(U), NEW f, \A x \in U : f[x] \in Nat
  PROVE  SumFunctionOnSet(f, U) \in Nat
<1>1. {} \in SUBSET U /\ Weights(f, {}) /\ IsFiniteSet({}) /\ Weights(f, U)
  BY FS_EmptySet DEF Weights
<1>2. \A x \in U \ {} : 0 <= f[x]
  OBVIOUS
<1>3. SumFunctionOnSet(f, {}) <= SumFunctionOnSet(f, U)
  BY <1>1, <1>2, SumBelow
<1>4. SumFunctionOnSet(f, {}) = 0 /\ SumFunctionOnSet(f, U) \in Int
  BY <1>1, SumFacts
<1>5. QED BY <1>3, <1>4

\* Changing the weight of one element.
LEMMA SumChange ==
  ASSUME NEW U, IsFiniteSet(U), NEW f, Weights(f, U), NEW y \in U, NEW h, h[y] \in Int,
         \A x \in U : x # y => h[x] = f[x]
  PROVE  SumFunctionOnSet(h, U) = SumFunctionOnSet(f, U) - f[y] + h[y]
<1>1. PICK R : R = U \ {y}
  OBVIOUS
<1>2. IsFiniteSet(R) /\ Weights(f, R) /\ Weights(h, U)
  BY <1>1, FS_Subset DEF Weights
<1>3. \A x \in R : h[x] = f[x]
  BY <1>1
<1>4. SumFunctionOnSet(h, R) = SumFunctionOnSet(f, R)
  BY <1>2, <1>3, SumSame
<1>5. SumFunctionOnSet(h, U) = h[y] + SumFunctionOnSet(h, R)
  BY <1>1, <1>2, SumFacts
<1>6. SumFunctionOnSet(f, U) = f[y] + SumFunctionOnSet(f, R) /\ SumFunctionOnSet(f, R) \in Int
  BY <1>1, <1>2, SumFacts
<1>7. f[y] \in Int
  BY DEF Weights
<1>8. QED BY <1>4, <1>5, <1>6, <1>7

\* Counting one more element.
LEMMA SumAdd ==
  ASSUME NEW S, IsFiniteSet(S), NEW f, Weights(f, S), NEW y, y \notin S, f[y] \in Int
  PROVE  SumFunctionOnSet(f, S \cup {y}) = SumFunctionOnSet(f, S) + f[y]
<1>1. PICK U : U = S \cup {y}
  OBVIOUS
<1>2. IsFiniteSet(U) /\ Weights(f, U) /\ U \ {y} = S /\ y \in U
  BY <1>1, FS_AddElement DEF Weights
<1>3. SumFunctionOnSet(f, U) = f[y] + SumFunctionOnSet(f, S)
  BY <1>2, SumFacts
<1>4. SumFunctionOnSet(f, S) \in Int
  BY SumFacts
<1>5. QED BY <1>1, <1>3, <1>4

\* An element of weight zero does not count.
LEMMA SumSupport ==
  ASSUME NEW U, IsFiniteSet(U), NEW B \in SUBSET U, NEW f, Weights(f, B), NEW h,
         \A x \in B : h[x] = f[x], \A x \in U \ B : h[x] = 0
  PROVE  SumFunctionOnSet(h, U) = SumFunctionOnSet(f, B)
<1>1. PICK z : z = [x \in U |-> 0]
  OBVIOUS
<1>2. Weights(z, U) /\ \A x \in U : z[x] = 0
  BY <1>1 DEF Weights
<1>3. \A x \in B : h[x] = z[x] + f[x]
  BY <1>2 DEF Weights
<1>4. \A x \in U \ B : h[x] = z[x]
  BY <1>2
<1>5. SumFunctionOnSet(h, U) = SumFunctionOnSet(z, U) + SumFunctionOnSet(f, B)
  BY <1>2, <1>3, <1>4, SumPlus
<1>6. SumFunctionOnSet(z, U) = 0
  <2>1. PICK w : w = [x \in U |-> 0]
    OBVIOUS
  <2>2. \A x \in U : w[x] = z[x] + z[x]
    BY <1>2, <2>1
  <2>3. SumFunctionOnSet(w, U) = SumFunctionOnSet(z, U) + SumFunctionOnSet(z, U)
    <3>1. U \in SUBSET U /\ \A x \in U \ U : w[x] = z[x]
      OBVIOUS
    <3>2. QED BY <1>2, <2>2, <3>1, SumPlus
  <2>4. SumFunctionOnSet(z, U) \in Int /\ w = z
    BY <1>1, <1>2, <2>1, SumFacts
  <2>5. PICK v : v = SumFunctionOnSet(z, U)
    OBVIOUS
  <2>6. v \in Int /\ v = v + v
    BY <2>3, <2>4, <2>5
  <2>7. \A n \in Int : n = n + n => n = 0
    OBVIOUS
  <2>8. v = 0
    BY <2>6, <2>7
  <2>9. QED BY <2>5, <2>8
<1>7. IsFiniteSet(B)
  BY FS_Subset
<1>8. SumFunctionOnSet(f, B) \in Int
  BY <1>7, SumFacts
<1>9. QED BY <1>5, <1>6, <1>8

-----------------------------------------------------------------------------
(* Filtered queues *)

\* f[i] is what Keep takes of the first i elements of q.
Filters(f, q, S, n) ==
  f = [i \in 0..n |-> IF i = 0 THEN <<>>
                      ELSE IF q[i] \in S THEN Append(f[i - 1], q[i]) ELSE f[i - 1]]

\* The recursion that defines Keep has a solution, for every length.
LEMMA FilterExists == ASSUME NEW q, NEW S, NEW n \in Nat PROVE \E f : Filters(f, q, S, n)
<1> DEFINE T == {k \in Nat : ~ \E f : Filters(f, q, S, k)}
<1>1. SUFFICES ASSUME T # {} PROVE FALSE
  OBVIOUS
<1>2. PICK k \in T : \A m \in T : k <= m
  BY <1>1, LeastNat
<1>3. k # 0
  <2>1. Filters([i \in 0..0 |-> <<>>], q, S, 0)
    BY DEF Filters
  <2>2. QED BY <2>1
<1>4. k - 1 \in Nat /\ ~(k <= k - 1)
  BY <1>3
<1>5. PICK f : Filters(f, q, S, k - 1)
  BY <1>2, <1>4
<1>6. PICK e : e = IF q[k] \in S THEN Append(f[k - 1], q[k]) ELSE f[k - 1]
  OBVIOUS
<1>7. PICK g : g = [i \in 0..k |-> IF i = k THEN e ELSE f[i]]
  OBVIOUS
<1>8. Filters(g, q, S, k)
  <2>1. \A i \in 0..(k - 1) : i \in 0..k /\ i # k /\ (i # 0 => i - 1 \in 0..(k - 1) /\ i - 1 # k /\ i - 1 \in 0..k)
    BY <1>3
  <2>2. \A i \in 0..(k - 1) : g[i] = f[i]
    BY <1>7, <2>1
  <2>3. \A i \in 0..(k - 1) : f[i] = IF i = 0 THEN <<>> ELSE IF q[i] \in S THEN Append(f[i - 1], q[i]) ELSE f[i - 1]
    BY <1>5 DEF Filters
  <2>4. g[k] = e /\ g[k - 1] = f[k - 1]
    BY <1>3, <1>7, <2>2
  <2>5. \A i \in 0..k : i = k \/ i \in 0..(k - 1)
    OBVIOUS
  <2>6. \A i \in 0..k : g[i] = IF i = 0 THEN <<>> ELSE IF q[i] \in S THEN Append(g[i - 1], q[i]) ELSE g[i - 1]
    BY <1>3, <1>6, <2>1, <2>2, <2>3, <2>4, <2>5
  <2>7. g = [i \in 0..k |-> g[i]]
    BY <1>7
  <2>8. QED BY <2>6, <2>7 DEF Filters
<1>9. QED BY <1>2, <1>8

\* Keep is the last value of that solution.
LEMMA KeepDef == ASSUME NEW A, NEW q \in Seq(A), NEW S
  PROVE \E f : Filters(f, q, S, Len(q)) /\ Keep(q, S) = f[Len(q)]
<1>1. PICK f : f = CHOOSE g : Filters(g, q, S, Len(q))
  OBVIOUS
<1>2. Filters(f, q, S, Len(q))
  BY <1>1, FilterExists
<1>3. Keep(q, S) = f[Len(q)]
  BY <1>1 DEF Keep, Filters
<1>4. QED BY <1>2, <1>3

\* What Keep returns: the members of q that are in S, each as often as in q.
LEMMA KeepFacts ==
  ASSUME NEW A, NEW q \in Seq(A), NEW S
  PROVE  /\ Keep(q, S) \in Seq(A)
         /\ Range(Keep(q, S)) = Range(q) \cap S
         /\ IsInjective(q) => IsInjective(Keep(q, S))
<1>1. PICK f : Filters(f, q, S, Len(q)) /\ Keep(q, S) = f[Len(q)]
  BY KeepDef
<1> DEFINE Fine(k) == /\ f[k] \in Seq(A) /\ Range(f[k]) = {q[j] : j \in 1..k} \cap S
                      /\ IsInjective(q) => IsInjective(f[k])
           T == {k \in 0..Len(q) : ~Fine(k)}
<1>2. Len(q) \in Nat /\ \A j \in 1..Len(q) : q[j] \in A
  OBVIOUS
<1>3. \A i \in 0..Len(q) : f[i] = IF i = 0 THEN <<>> ELSE IF q[i] \in S THEN Append(f[i - 1], q[i]) ELSE f[i - 1]
  BY <1>1 DEF Filters
<1>4. T = {}
  <2>1. SUFFICES ASSUME T # {} PROVE FALSE
    OBVIOUS
  <2> HIDE DEF Fine
  <2>2. T \in SUBSET Nat
    BY <1>2
  <2>3. PICK k \in T : \A m \in T : k <= m
    BY <2>1, <2>2, LeastNat, Zenon
  <2>4. k # 0
    <3>1. f[0] = <<>> /\ {q[j] : j \in 1..0} = {}
      BY <1>2, <1>3
    <3>2. Fine(0)
      BY <3>1, EmptyFacts DEF Fine
    <3>3. QED BY <2>3, <3>2
  <2>5. k \in 1..Len(q) /\ k - 1 \in 0..Len(q) /\ ~(k <= k - 1) /\ k \in Nat
    BY <1>2, <2>3, <2>4
  <2>6. Fine(k - 1)
    BY <2>3, <2>5
  <2>7. {q[j] : j \in 1..k} = {q[j] : j \in 1..(k - 1)} \cup {q[k]}
    <3>1. \A j \in 1..k : j \in 1..(k - 1) \/ j = k
      BY <2>5
    <3>2. k \in 1..k /\ \A j \in 1..(k - 1) : j \in 1..k
      BY <2>5
    <3>3. QED BY <3>1, <3>2
  <2>8. f[k] = IF q[k] \in S THEN Append(f[k - 1], q[k]) ELSE f[k - 1]
    BY <1>3, <2>4, <2>5
  <2>9. q[k] \in A
    BY <1>2, <2>5
  <2>10. CASE q[k] \in S
    <3>1. f[k - 1] \in Seq(A) /\ f[k] = Append(f[k - 1], q[k])
      BY <2>6, <2>8, <2>10 DEF Fine
    <3>2. f[k] \in Seq(A) /\ Range(f[k]) = Range(f[k - 1]) \cup {q[k]}
      BY <2>9, <3>1, AppendFacts
    <3>3. Range(f[k]) = {q[j] : j \in 1..k} \cap S
      BY <2>6, <2>7, <2>10, <3>2 DEF Fine
    <3>4. ASSUME IsInjective(q) PROVE IsInjective(f[k])
      <4>1. \A j \in 1..(k - 1) : j \in DOMAIN q /\ k \in DOMAIN q /\ j # k
        BY <1>2, <2>5
      <4>2. q[k] \notin {q[j] : j \in 1..(k - 1)}
        BY <3>4, <4>1 DEF IsInjective
      <4>3. q[k] \notin Range(f[k - 1]) /\ IsInjective(f[k - 1])
        BY <2>6, <3>4, <4>2 DEF Fine
      <4>4. QED BY <2>9, <3>1, <4>3, AppendFacts
    <3>5. Fine(k)
      BY <3>2, <3>3, <3>4 DEF Fine
    <3>6. QED BY <2>3, <3>5
  <2>11. CASE q[k] \notin S
    <3>1. f[k] = f[k - 1]
      BY <2>8, <2>11
    <3>2. {q[j] : j \in 1..k} \cap S = {q[j] : j \in 1..(k - 1)} \cap S
      BY <2>7, <2>11
    <3>3. Fine(k)
      BY <2>6, <3>1, <3>2 DEF Fine
    <3>4. QED BY <2>3, <3>3
  <2>12. QED BY <2>10, <2>11
<1>5. Fine(Len(q))
  <2> HIDE DEF Fine
  <2>1. Len(q) \in 0..Len(q)
    BY <1>2
  <2>2. QED BY <1>4, <2>1
<1>6. {q[j] : j \in 1..Len(q)} = Range(q)
  BY DEF Range
<1>7. QED BY <1>1, <1>5, <1>6
-----------------------------------------------------------------------------
(* Recursion along a sequence *)

RunsTo(f, n, x, h) == f = [i \in 0..n |-> IF i = 0 THEN x ELSE h[<<i, f[i - 1]>>]]

\* A recursion that stays in a set has a solution, for every length.
LEMMA RunExists ==
  ASSUME NEW n \in Nat, NEW X, NEW x \in X, NEW h, \A i \in 1..n : \A y \in X : h[<<i, y>>] \in X
  PROVE  \E f : RunsTo(f, n, x, h) /\ \A i \in 0..n : f[i] \in X
<1> USE DEF RunsTo
<1> DEFINE Solves(f, k) == /\ f = [i \in 0..k |-> IF i = 0 THEN x ELSE h[<<i, f[i - 1]>>]]
                           /\ \A i \in 0..k : f[i] \in X
           T == {k \in Nat : k <= n /\ ~ \E f : Solves(f, k)}
<1>1. SUFFICES ASSUME T # {} PROVE FALSE
  OBVIOUS
<1>2. PICK k \in T : \A m \in T : k <= m
  BY <1>1, LeastNat
<1>3. k # 0
  <2>1. PICK f : f = [i \in 0..0 |-> x]
    OBVIOUS
  <2>2. Solves(f, 0)
    BY <2>1
  <2>3. QED BY <1>2, <2>2
<1>4. k - 1 \in Nat /\ ~(k <= k - 1) /\ k - 1 <= n /\ k \in 1..n
  BY <1>2, <1>3
<1>5. PICK f : Solves(f, k - 1)
  BY <1>2, <1>4
<1>6. PICK e : e = h[<<k, f[k - 1]>>]
  OBVIOUS
<1>7. PICK g : g = [i \in 0..k |-> IF i = k THEN e ELSE f[i]]
  OBVIOUS
<1>8. Solves(g, k)
  <2>1. \A i \in 0..(k - 1) : i \in 0..k /\ i # k /\ (i # 0 => i - 1 \in 0..(k - 1) /\ i - 1 # k /\ i - 1 \in 0..k)
    BY <1>3, <1>4
  <2>2. \A i \in 0..(k - 1) : g[i] = f[i]
    BY <1>7, <2>1
  <2>3. \A i \in 0..(k - 1) : f[i] \in X /\ f[i] = IF i = 0 THEN x ELSE h[<<i, f[i - 1]>>]
    BY <1>5
  <2>4. k - 1 \in 0..(k - 1) /\ k \in 0..k
    BY <1>4
  <2>5. g[k] = e /\ g[k - 1] = f[k - 1] /\ f[k - 1] \in X
    BY <1>7, <2>2, <2>3, <2>4
  <2>6. e \in X
    BY <1>4, <1>6, <2>5
  <2>7. \A i \in 0..k : i = k \/ i \in 0..(k - 1)
    BY <1>4
  <2>8. \A i \in 0..(k - 1) : g[i] = IF i = 0 THEN x ELSE h[<<i, g[i - 1]>>]
    BY <2>1, <2>2, <2>3
  <2>9. g[k] = h[<<k, g[k - 1]>>]
    BY <1>6, <2>5
  <2>10. \A i \in 0..k : g[i] = IF i = 0 THEN x ELSE h[<<i, g[i - 1]>>]
    BY <1>3, <2>7, <2>8, <2>9
  <2>11. \A i \in 0..k : g[i] \in X
    BY <2>2, <2>3, <2>5, <2>6, <2>7
  <2>12. g = [i \in 0..k |-> g[i]]
    BY <1>7
  <2>13. g = [i \in 0..k |-> IF i = 0 THEN x ELSE h[<<i, g[i - 1]>>]]
    BY <2>10, <2>12
  <2>14. QED BY <2>11, <2>13
<1>9. QED BY <1>2, <1>8

\* In the order of a relation: what is related to a later element comes earlier.
Ordered(q, R) == \A i, j \in 1..Len(q) : <<q[i], q[j]>> \in R => i < j

\* What Keep returns is in the order of the queue.
LEMMA KeepOrder ==
  ASSUME NEW A, NEW q \in Seq(A), NEW S, NEW R, Ordered(q, R)
  PROVE  Ordered(Keep(q, S), R)
<1>1. PICK f : Filters(f, q, S, Len(q)) /\ Keep(q, S) = f[Len(q)]
  BY KeepDef
<1> DEFINE Fine(k) == /\ f[k] \in Seq(A)
                      /\ \A i \in 1..Len(f[k]) : \E j \in 1..k : f[k][i] = q[j]
                      /\ Ordered(f[k], R)
           T == {k \in 0..Len(q) : ~Fine(k)}
<1>2. Len(q) \in Nat /\ \A j \in 1..Len(q) : q[j] \in A
  OBVIOUS
<1>3. \A i \in 0..Len(q) : f[i] = IF i = 0 THEN <<>> ELSE IF q[i] \in S THEN Append(f[i - 1], q[i]) ELSE f[i - 1]
  BY <1>1 DEF Filters
<1>4. T = {}
  <2>1. SUFFICES ASSUME T # {} PROVE FALSE
    OBVIOUS
  <2> HIDE DEF Fine
  <2>2. T \in SUBSET Nat
    BY <1>2
  <2>3. PICK k \in T : \A m \in T : k <= m
    BY <2>1, <2>2, LeastNat, Zenon
  <2>4. k # 0
    <3>1. f[0] = <<>>
      BY <1>2, <1>3
    <3>2. Fine(0)
      BY <3>1 DEF Fine, Ordered
    <3>3. QED BY <2>3, <3>2
  <2>5. k \in 1..Len(q) /\ k - 1 \in 0..Len(q) /\ ~(k <= k - 1) /\ k \in Nat
    BY <1>2, <2>3, <2>4
  <2>6. Fine(k - 1)
    BY <2>3, <2>5
  <2>7. f[k] = IF q[k] \in S THEN Append(f[k - 1], q[k]) ELSE f[k - 1]
    BY <1>3, <2>4, <2>5
  <2>8. q[k] \in A
    BY <1>2, <2>5
  <2>9. \A j \in 1..(k - 1) : j \in 1..k /\ j \in 1..Len(q) /\ j < k
    BY <1>2, <2>5
  <2>10. CASE q[k] \in S
    <3>1. PICK g, h : g = f[k - 1] /\ h = f[k]
      OBVIOUS
    <3>2. g \in Seq(A) /\ h = Append(g, q[k]) /\ Ordered(g, R)
      BY <2>6, <2>7, <2>10, <3>1 DEF Fine
    <3>3. /\ h \in Seq(A) /\ Len(h) = Len(g) + 1 /\ Len(g) \in Nat /\ h[Len(g) + 1] = q[k]
          /\ \A i \in 1..Len(g) : h[i] = g[i]
      BY <2>8, <3>2
    <3>4. \A i \in 1..Len(g) : \E j \in 1..(k - 1) : g[i] = q[j]
      BY <2>6, <3>1 DEF Fine
    <3>5. \A i \in 1..Len(h) : i \in 1..Len(g) \/ i = Len(g) + 1
      BY <3>3
    <3>6. \A i \in 1..Len(h) : \E j \in 1..k : h[i] = q[j]
      BY <2>5, <2>9, <3>3, <3>4, <3>5
    <3>7. ASSUME NEW i \in 1..Len(h), NEW j \in 1..Len(h), <<h[i], h[j]>> \in R PROVE i < j
      <4>1. CASE i \in 1..Len(g) /\ j \in 1..Len(g)
        BY <3>2, <3>3, <3>7, <4>1 DEF Ordered
      <4>2. CASE i \in 1..Len(g) /\ j = Len(g) + 1
        BY <3>3, <4>2
      <4>3. CASE i = Len(g) + 1 /\ j \in 1..Len(g)
        <5>1. PICK l \in 1..(k - 1) : g[j] = q[l]
          BY <3>4, <4>3
        <5>2. <<q[k], q[l]>> \in R /\ l \in 1..Len(q) /\ l < k
          BY <2>9, <3>3, <3>7, <4>3, <5>1
        <5>3. k < l
          BY <2>5, <5>2 DEF Ordered
        <5>4. QED BY <2>5, <5>1, <5>2, <5>3
      <4>4. CASE i = Len(g) + 1 /\ j = Len(g) + 1
        <5>1. <<q[k], q[k]>> \in R
          BY <3>3, <3>7, <4>4
        <5>2. k < k
          BY <2>5, <5>1 DEF Ordered
        <5>3. QED BY <2>5, <5>2
      <4>5. QED BY <3>5, <4>1, <4>2, <4>3, <4>4
    <3>8. Fine(k)
      BY <3>1, <3>3, <3>6, <3>7 DEF Fine, Ordered
    <3>9. QED BY <2>3, <3>8
  <2>11. CASE q[k] \notin S
    <3>1. f[k] = f[k - 1]
      BY <2>7, <2>11
    <3>2. Fine(k)
      BY <2>6, <2>9, <3>1 DEF Fine
    <3>3. QED BY <2>3, <3>2
  <2>12. QED BY <2>10, <2>11
<1>5. Fine(Len(q))
  <2> HIDE DEF Fine
  <2>1. Len(q) \in 0..Len(q)
    BY <1>2
  <2>2. QED BY <1>4, <2>1
<1>6. QED BY <1>1, <1>5

\* Induction over the steps of a run.
LEMMA StepInduction ==
  ASSUME NEW n \in Nat, NEW G, 0 \in G, \A k \in 1..n : k - 1 \in G => k \in G
  PROVE  \A k \in 0..n : k \in G
<1>1. PICK T : T = {k \in Nat : k \in 0..n /\ k \notin G}
  OBVIOUS
<1>2. SUFFICES ASSUME T # {} PROVE FALSE
  BY <1>1
<1>3. PICK k \in T : \A m \in T : k <= m
  BY <1>1, <1>2, LeastNat
<1>4. k \in 1..n /\ k - 1 \in 0..n /\ k - 1 \in Nat /\ ~(k <= k - 1)
  BY <1>1, <1>3
<1>5. k - 1 \in G
  BY <1>1, <1>3, <1>4
<1>6. QED BY <1>1, <1>3, <1>4, <1>5

First(s, k) == {s[j] : j \in 1..k}

\* What the first elements of a queue are.
LEMMA FirstFacts ==
  ASSUME NEW A, NEW s \in Seq(A)
  PROVE  /\ First(s, 0) = {} /\ First(s, Len(s)) = Range(s)
         /\ \A k \in 1..Len(s) : First(s, k) = First(s, k - 1) \cup {s[k]} /\ s[k] \in Range(s) /\ First(s, k) \subseteq Range(s)
         /\ IsInjective(s) => \A k \in 1..Len(s) : s[k] \notin First(s, k - 1)
<1>1. First(s, 0) = {} /\ First(s, Len(s)) = Range(s) /\ Len(s) \in Nat /\ DOMAIN s = 1..Len(s)
  BY DEF First, Range
<1>2. ASSUME NEW k \in 1..Len(s) PROVE First(s, k) = First(s, k - 1) \cup {s[k]} /\ s[k] \in Range(s) /\ First(s, k) \subseteq Range(s)
  <2>1. \A j : j \in 1..k <=> j \in 1..(k - 1) \/ j = k
    BY <1>1
  <2>2. \A j \in 1..k : j \in DOMAIN s
    BY <1>1
  <2>3. QED BY <2>1, <2>2 DEF First, Range
<1>3. ASSUME IsInjective(s), NEW k \in 1..Len(s) PROVE s[k] \notin First(s, k - 1)
  <2>1. \A j \in 1..(k - 1) : j \in DOMAIN s /\ k \in DOMAIN s /\ j # k
    BY <1>1
  <2>2. QED BY <1>3, <2>1 DEF First, IsInjective
<1>4. QED BY <1>1, <1>2, <1>3
=============================================================================
