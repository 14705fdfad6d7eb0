-------------------------- MODULE WalletReadsProofs --------------------------
(***************************************************************************)
(* Reconciliation and paging, for every set of movements and every number  *)
(* of readers: a reported difference is explained to the last unit, and a  *)
(* listing misses nothing and repeats nothing.                             *)
(***************************************************************************)
EXTENDS WalletReads, FiniteSetTheorems, TLAPS

-----------------------------------------------------------------------------
(* Sums.  Sum takes the elements of its set in an order nobody knows: that *)
(* the order does not matter is an induction over finite sets, done here   *)
(* with a smallest counterexample.                                         *)

LEMMA Smallest ==
  ASSUME NEW E, IsFiniteSet(E), NEW B \in SUBSET (SUBSET E), B # {}
  PROVE  \E s \in B : \A t \in B : t \subseteq s => t = s
  <1>1. IsWellFoundedOn(StrictSubsetOrdering(E), FiniteSubsetsOf(E))
    BY FS_StrictSubsetOrderingWellFounded
  <1>2. FiniteSubsetsOf(E) = SUBSET E
    BY FS_FiniteSubsetsOfFinite
  <1>3. PICK s \in B : \A t \in B : ~(<<t, s>> \in StrictSubsetOrdering(E))
    BY <1>1, <1>2, WFMin
  <1>4. ASSUME NEW t \in B, t \subseteq s, t # s
        PROVE  FALSE
    <2>1. <<t, s>> \in StrictSubsetOrdering(E)
      BY <1>4 DEF StrictSubsetOrdering
    <2>2. QED
      BY <1>3, <2>1
  <1>5. QED
    BY <1>4

First(s) == CHOOSE x \in s : TRUE

LEMMA FirstIn ==
  ASSUME NEW s, s # {}
  PROVE  First(s) \in s
  BY DEF First

\* The recursion by which the amounts of every subset of E are summed.
Unfolds(g, E) ==
  g = [s \in SUBSET E |-> IF s = {} THEN 0 ELSE First(s).amount + g[s \ {First(s)}]]

LEMMA UnfoldsAt ==
  ASSUME NEW g, NEW E, Unfolds(g, E), NEW s \in SUBSET E
  PROVE  g[s] = IF s = {} THEN 0 ELSE First(s).amount + g[s \ {First(s)}]
  BY DEF Unfolds

LEMMA UnfoldsUnique ==
  ASSUME NEW E, IsFiniteSet(E), NEW F, NEW g, NEW h, Unfolds(g, E), Unfolds(h, F),
         NEW s \in SUBSET E, s \subseteq F
  PROVE  g[s] = h[s]
  <1> DEFINE B == {u \in SUBSET E : u \subseteq F /\ g[u] # h[u]}
  <1>1. SUFFICES ASSUME B # {} PROVE FALSE
    OBVIOUS
  <1>2. PICK u \in B : \A t \in B : t \subseteq u => t = u
    <2>1. B \in SUBSET (SUBSET E)
      OBVIOUS
    <2> HIDE DEF B
    <2>2. QED
      BY <1>1, <2>1, Smallest
  <1>3. u # {}
    BY UnfoldsAt
  <1> DEFINE v == u \ {First(u)}
  <1>4. First(u) \in u
    BY <1>3, FirstIn
  <1>5. v \in SUBSET E /\ v \subseteq F /\ v \subseteq u /\ v # u
    BY <1>4
  <1>6. g[v] = h[v]
    BY <1>2, <1>5
  <1>7. g[u] = First(u).amount + g[v] /\ h[u] = First(u).amount + h[v]
    BY <1>3, UnfoldsAt
  <1>8. QED
    BY <1>6, <1>7

\* A solution of the recursion, with the type of a sum.
Sums(h, E) ==
  /\ Unfolds(h, E)
  /\ \A s \in SUBSET E : h[s] \in Int

LEMMA SumsOfNone == Sums([s \in {{}} |-> 0], {})
  BY DEF Sums, Unfolds

LEMMA SumsExist ==
  ASSUME NEW E, IsFiniteSet(E), E \subseteq Entry
  PROVE  \E h : Sums(h, E)
  <1> DEFINE B == {u \in SUBSET E : ~\E h : Sums(h, u)}
  <1>1. SUFFICES ASSUME B # {} PROVE FALSE
    OBVIOUS
  <1>2. PICK s \in B : \A t \in B : t \subseteq s => t = s
    <2>1. B \in SUBSET (SUBSET E)
      OBVIOUS
    <2> HIDE DEF B
    <2>2. QED
      BY <1>1, <2>1, Smallest
  <1>3. s \subseteq E /\ ~\E h : Sums(h, s)
    OBVIOUS
  <1>4. s # {}
    BY <1>3, SumsOfNone
  <1> DEFINE H(t) == CHOOSE h : Sums(h, t)
             rest(t) == t \ {First(t)}
  <1>5. ASSUME NEW t, t \subseteq s, t # s
        PROVE  Sums(H(t), t)
    BY <1>2, <1>3, <1>5
  <1>6. ASSUME NEW t, t \subseteq s, t # {}
        PROVE  First(t) \in t /\ rest(t) \subseteq s /\ rest(t) # s /\ rest(t) \subseteq t
    BY <1>6, FirstIn
  <1> DEFINE total(t) == IF t = {} THEN 0 ELSE First(t).amount + H(rest(t))[rest(t)]
             h == [t \in SUBSET s |-> total(t)]
  <1> HIDE DEF H, B
  <1>7. ASSUME NEW t, t \subseteq s, t # s
        PROVE  total(t) = H(t)[t]
    <2>1. Sums(H(t), t)
      BY <1>5, <1>7
    <2>2. t = {} => H(t)[t] = 0
      BY <2>1, UnfoldsAt DEF Sums
    <2>3. ASSUME t # {}
          PROVE  H(t)[t] = First(t).amount + H(rest(t))[rest(t)]
      <3>1. First(t) \in t /\ rest(t) \subseteq s /\ rest(t) # s /\ rest(t) \subseteq t
        BY <1>6, <1>7, <2>3
      <3>2. Unfolds(H(rest(t)), rest(t)) /\ Unfolds(H(t), t)
        BY <1>5, <2>1, <3>1 DEF Sums
      <3>3. IsFiniteSet(rest(t))
        BY <1>3, <3>1, FS_Subset
      <3>4. H(rest(t))[rest(t)] = H(t)[rest(t)]
        <4> HIDE DEF rest
        <4>1. QED
          BY <3>1, <3>2, <3>3, UnfoldsUnique
      <3>5. H(t)[t] = First(t).amount + H(t)[rest(t)]
        BY <3>2, <2>3, UnfoldsAt
      <3>6. QED
        BY <3>4, <3>5
    <2>4. QED
      BY <2>2, <2>3
  <1>8. ASSUME NEW t \in SUBSET s
        PROVE  /\ h[t] = IF t = {} THEN 0 ELSE First(t).amount + h[rest(t)]
               /\ h[t] \in Int
    <2>1. CASE t = {}
      BY <2>1
    <2>2. CASE t # {}
      <3>1. First(t) \in t /\ rest(t) \subseteq s /\ rest(t) # s
        BY <1>6, <2>2
      <3>2. h[rest(t)] = H(rest(t))[rest(t)]
        <4>1. h[rest(t)] = total(rest(t))
          BY <3>1
        <4> HIDE DEF rest, total
        <4>2. QED
          BY <1>7, <3>1, <4>1
      <3>3. H(rest(t))[rest(t)] \in Int
        <4> HIDE DEF rest
        <4>1. QED
          BY <1>5, <3>1 DEF Sums
      <3>4. First(t).amount \in Int
        BY <1>3, <3>1, ConstantsAssumption DEF Entry
      <3>5. h[t] = First(t).amount + H(rest(t))[rest(t)]
        BY <2>2
      <3> HIDE DEF h, rest
      <3>6. QED
        BY <2>2, <3>2, <3>3, <3>4, <3>5
    <2>3. QED
      BY <2>1, <2>2
  <1>9. Unfolds(h, s)
    <2>1. h = [t \in SUBSET s |-> IF t = {} THEN 0 ELSE First(t).amount + h[rest(t)]]
      BY <1>8
    <2> HIDE DEF h
    <2>2. QED
      BY <2>1 DEF Unfolds
  <1>10. Sums(h, s)
    <2> HIDE DEF h
    <2>1. QED
      BY <1>8, <1>9 DEF Sums
  <1>11. QED
    <2> HIDE DEF h
    <2>1. QED
      BY <1>3, <1>10

\* Sum is the one solution of the recursion.
LEMMA SumIs ==
  ASSUME NEW E, IsFiniteSet(E), E \subseteq Entry, NEW h, Sums(h, E), NEW s \in SUBSET E
  PROVE  Sum(s) = h[s] /\ Sum(s) \in Int
  <1>1. IsFiniteSet(s) /\ s \subseteq Entry
    BY FS_Subset
  <1> DEFINE iter == CHOOSE g : Unfolds(g, s)
  <1>2. Unfolds(iter, s)
    <2>1. \E g : Unfolds(g, s)
      BY <1>1, SumsExist DEF Sums
    <2>2. QED
      BY <2>1
  <1>3. Sum(s) = iter[s]
    BY DEF Sum, MapThenSumSet, MapThenFoldSet, Unfolds, First
  <1> HIDE DEF iter
  <1>4. iter[s] = h[s]
    BY <1>1, <1>2, UnfoldsUnique DEF Sums
  <1>5. QED
    BY <1>3, <1>4 DEF Sums

LEMMA SumType ==
  ASSUME NEW E, IsFiniteSet(E), E \subseteq Entry
  PROVE  Sum(E) \in Int
  BY SumsExist, SumIs

LEMMA SumOfNone == Sum({}) = 0
  <1>1. IsFiniteSet({}) /\ {} \subseteq Entry
    BY FS_EmptySet
  <1>2. PICK h : Sums(h, {})
    BY <1>1, SumsExist
  <1>3. h[{}] = 0
    BY <1>2, UnfoldsAt DEF Sums
  <1>4. QED
    BY <1>1, <1>2, <1>3, SumIs

LEMMA SumOfFirst ==
  ASSUME NEW E, IsFiniteSet(E), E \subseteq Entry, E # {}
  PROVE  Sum(E) = First(E).amount + Sum(E \ {First(E)})
  <1>1. PICK h : Sums(h, E)
    BY SumsExist
  <1>2. h[E] = First(E).amount + h[E \ {First(E)}]
    BY <1>1, UnfoldsAt DEF Sums
  <1>3. Sum(E) = h[E] /\ Sum(E \ {First(E)}) = h[E \ {First(E)}]
    BY <1>1, SumIs
  <1>4. QED
    BY <1>2, <1>3

\* Any entry may be taken out of the sum, not only the one that is chosen.
LEMMA SumOf ==
  ASSUME NEW E, IsFiniteSet(E), E \subseteq Entry, NEW x \in E
  PROVE  Sum(E) = x.amount + Sum(E \ {x})
  <1> DEFINE Right(u) == \A y \in u : Sum(u) = y.amount + Sum(u \ {y})
             B == {u \in SUBSET E : ~Right(u)}
  <1>1. SUFFICES ASSUME B # {} PROVE FALSE
    OBVIOUS
  <1>2. PICK s \in B : \A t \in B : t \subseteq s => t = s
    <2>1. B \in SUBSET (SUBSET E)
      OBVIOUS
    <2> HIDE DEF B
    <2>2. QED
      BY <1>1, <2>1, Smallest
  <1>3. s \subseteq E /\ ~Right(s)
    OBVIOUS
  <1>4. ASSUME NEW t, t \subseteq s, t # s, NEW y \in t
        PROVE  Sum(t) = y.amount + Sum(t \ {y})
    BY <1>2, <1>3, <1>4
  <1>5. PICK y \in s : Sum(s) # y.amount + Sum(s \ {y})
    BY <1>3
  <1> HIDE DEF Right, B
  <1>6. IsFiniteSet(s) /\ s \subseteq Entry
    BY <1>3, FS_Subset
  <1> DEFINE z == First(s)
             both == s \ {y, z}
  <1>7. z \in s
    BY <1>5, FirstIn
  <1>8. Sum(s) = z.amount + Sum(s \ {z})
    BY <1>5, <1>6, SumOfFirst
  <1> HIDE DEF z
  <1>9. y # z
    BY <1>5, <1>8
  <1>10. Sum(s \ {z}) = y.amount + Sum(both)
    <2>1. s \ {z} \subseteq s /\ s \ {z} # s /\ y \in s \ {z} /\ (s \ {z}) \ {y} = both
      BY <1>5, <1>7, <1>9
    <2>2. Sum(s \ {z}) = y.amount + Sum((s \ {z}) \ {y})
      BY <1>4, <2>1
    <2>3. QED
      BY <2>1, <2>2
  <1>11. Sum(s \ {y}) = z.amount + Sum(both)
    <2>1. s \ {y} \subseteq s /\ s \ {y} # s /\ z \in s \ {y} /\ (s \ {y}) \ {z} = both
      BY <1>5, <1>7, <1>9
    <2>2. Sum(s \ {y}) = z.amount + Sum((s \ {y}) \ {z})
      BY <1>4, <2>1
    <2>3. QED
      BY <2>1, <2>2
  <1>12. y.amount \in Int /\ z.amount \in Int
    BY <1>6, <1>7, ConstantsAssumption DEF Entry
  <1>13. Sum(both) \in Int
    <2>1. IsFiniteSet(both) /\ both \subseteq Entry
      BY <1>6, FS_Subset
    <2>2. QED
      BY <2>1, SumType
  <1>14. QED
    BY <1>5, <1>8, <1>10, <1>11, <1>12, <1>13

LEMMA SumWith ==
  ASSUME NEW E, IsFiniteSet(E), E \subseteq Entry, NEW x \in Entry, x \notin E
  PROVE  Sum(E \cup {x}) = Sum(E) + x.amount
  <1> DEFINE F == E \cup {x}
  <1>1. IsFiniteSet(F) /\ F \subseteq Entry /\ x \in F /\ F \ {x} = E
    BY FS_AddElement
  <1> HIDE DEF F
  <1>2. Sum(F) = x.amount + Sum(E)
    BY <1>1, SumOf
  <1>3. Sum(E) \in Int /\ x.amount \in Int
    BY SumType, ConstantsAssumption DEF Entry
  <1>4. Sum(F) = Sum(E) + x.amount
    BY <1>2, <1>3
  <1>5. QED
    BY <1>4 DEF F

\* What was summed before and what was added since make up the sum now.
LEMMA SumOfParts ==
  ASSUME NEW L, IsFiniteSet(L), L \subseteq Entry, NEW R \in SUBSET L
  PROVE  Sum(L) = Sum(R) + Sum(L \ R)
  <1> DEFINE Right(u) == Sum(L) = Sum(u) + Sum(L \ u)
             B == {u \in SUBSET L : ~Right(u)}
  <1>1. SUFFICES ASSUME B # {} PROVE FALSE
    OBVIOUS
  <1>2. PICK s \in B : \A t \in B : t \subseteq s => t = s
    <2>1. B \in SUBSET (SUBSET L)
      OBVIOUS
    <2> HIDE DEF B
    <2>2. QED
      BY <1>1, <2>1, Smallest
  <1>3. s \subseteq L /\ ~Right(s)
    OBVIOUS
  <1>4. s # {}
    <2>1. L \ {} = L /\ Sum(L) \in Int
      BY SumType
    <2>2. QED
      BY <1>3, <2>1, SumOfNone
  <1> DEFINE x == First(s)
             t == s \ {x}
  <1>5. x \in s
    BY <1>4, FirstIn
  <1> HIDE DEF x
  <1>6. t \subseteq s /\ t # s /\ t \subseteq L
    BY <1>3, <1>5
  <1>7. Right(t)
    BY <1>2, <1>6
  <1>8. Sum(s) = x.amount + Sum(t)
    <2>1. IsFiniteSet(s) /\ s \subseteq Entry
      BY <1>3, FS_Subset
    <2>2. QED
      BY <1>5, <2>1, SumOf
  <1>9. Sum(L \ t) = x.amount + Sum(L \ s)
    <2>1. IsFiniteSet(L \ t) /\ L \ t \subseteq Entry
      BY FS_Subset
    <2>2. x \in L \ t /\ (L \ t) \ {x} = L \ s
      BY <1>3, <1>5
    <2>3. Sum(L \ t) = x.amount + Sum((L \ t) \ {x})
      <3> HIDE DEF t
      <3>1. QED
        BY <2>1, <2>2, SumOf
    <2>4. QED
      BY <2>2, <2>3
  <1>10. Sum(t) \in Int /\ Sum(L \ s) \in Int /\ Sum(L) \in Int
    <2>1. IsFiniteSet(t) /\ t \subseteq Entry /\ IsFiniteSet(L \ s) /\ L \ s \subseteq Entry
      BY <1>6, FS_Subset
    <2>2. QED
      BY <2>1, SumType
  <1>11. x.amount \in Int
    BY <1>3, <1>5, ConstantsAssumption DEF Entry
  <1> HIDE DEF t, B
  <1>12. QED
    BY <1>3, <1>7, <1>8, <1>9, <1>10, <1>11

-----------------------------------------------------------------------------
(* Pages.  An entry has as many places before it as entries precede it, so *)
(* that the n-th entry of a page exists and is the only one.               *)

\* No two entries share an id, which decides between two of the same time.
Distinct(E) == \A e, f \in E : e.id = f.id => e = f

LEMMA PrecedesIsOrder ==
  ASSUME NEW e \in Entry, NEW f \in Entry
  PROVE  /\ ~Precedes(e, e)
         /\ Precedes(e, f) => ~Precedes(f, e)
         /\ e.id # f.id => Precedes(e, f) \/ Precedes(f, e)
         /\ \A g \in Entry : Precedes(e, f) /\ Precedes(f, g) => Precedes(e, g)
  <1>1. ASSUME NEW g \in Entry
        PROVE  g.id \in Int /\ g.createdAt \in Int
    <2>1. g.id \in Id /\ g.createdAt \in Time
      BY DEF Entry
    <2>2. g.id \in Nat /\ g.createdAt \in Nat
      BY <2>1, ConstantsAssumption
    <2>3. QED
      BY <2>2
  <1>2. QED
    BY <1>1 DEF Precedes

Earlier(E, e) == {f \in E : Precedes(f, e)}

Rank(E, e) == Cardinality(Earlier(E, e))

LEMMA RankBounds ==
  ASSUME NEW E, IsFiniteSet(E), E \subseteq Entry, NEW e \in E
  PROVE  Rank(E, e) \in 0..(Cardinality(E) - 1)
  <1>1. Earlier(E, e) \in SUBSET E /\ e \notin Earlier(E, e)
    BY PrecedesIsOrder DEF Earlier
  <1>2. /\ IsFiniteSet(Earlier(E, e))
        /\ Cardinality(Earlier(E, e)) <= Cardinality(E)
        /\ Cardinality(Earlier(E, e)) # Cardinality(E)
    BY <1>1, FS_Subset
  <1>3. Cardinality(Earlier(E, e)) \in Nat /\ Cardinality(E) \in Nat
    BY <1>2, FS_CardinalityType
  <1>4. QED
    BY <1>2, <1>3 DEF Rank

LEMMA RankOrder ==
  ASSUME NEW E, IsFiniteSet(E), E \subseteq Entry, NEW e \in E, NEW f \in E, Precedes(e, f)
  PROVE  Rank(E, e) < Rank(E, f)
  <1>1. Earlier(E, e) \in SUBSET Earlier(E, f)
    BY PrecedesIsOrder DEF Earlier
  <1>2. e \in Earlier(E, f) /\ e \notin Earlier(E, e)
    BY PrecedesIsOrder DEF Earlier
  <1>3. IsFiniteSet(Earlier(E, f))
    BY FS_Subset DEF Earlier
  <1>4. /\ IsFiniteSet(Earlier(E, e))
        /\ Cardinality(Earlier(E, e)) <= Cardinality(Earlier(E, f))
        /\ Cardinality(Earlier(E, e)) # Cardinality(Earlier(E, f))
    BY <1>1, <1>2, <1>3, FS_Subset
  <1>5. Cardinality(Earlier(E, e)) \in Nat /\ Cardinality(Earlier(E, f)) \in Nat
    BY <1>3, <1>4, FS_CardinalityType
  <1>6. QED
    BY <1>4, <1>5 DEF Rank

LEMMA RankDecides ==
  ASSUME NEW E, IsFiniteSet(E), E \subseteq Entry, Distinct(E), NEW e \in E, NEW f \in E
  PROVE  /\ Rank(E, e) < Rank(E, f) => Precedes(e, f)
         /\ Rank(E, e) = Rank(E, f) => e = f
  <1>1. Rank(E, e) \in Int /\ Rank(E, f) \in Int
    BY RankBounds
  <1>2. e = f \/ Precedes(e, f) \/ Precedes(f, e)
    <2>1. e.id = f.id => e = f
      BY DEF Distinct
    <2>2. e \in Entry /\ f \in Entry
      OBVIOUS
    <2>3. QED
      BY <2>1, <2>2, PrecedesIsOrder
  <1>3. Precedes(e, f) => Rank(E, e) < Rank(E, f)
    BY RankOrder
  <1>4. Precedes(f, e) => Rank(E, f) < Rank(E, e)
    BY RankOrder
  <1>5. QED
    BY <1>1, <1>2, <1>3, <1>4

LEMMA RankOnto ==
  ASSUME NEW E, IsFiniteSet(E), E \subseteq Entry, Distinct(E),
         NEW k \in 0..(Cardinality(E) - 1)
  PROVE  \E e \in E : Rank(E, e) = k
  <1> DEFINE T == 0..(Cardinality(E) - 1)
             f == [e \in E |-> Rank(E, e)]
  <1>1. Cardinality(E) \in Nat
    BY FS_CardinalityType
  <1>2. f \in [E -> T]
    BY RankBounds
  <1>3. \A a, b \in E : f[a] = f[b] => a = b
    BY RankDecides
  <1>4. f \in Injection(E, T)
    BY <1>2, <1>3 DEF Injection, IsInjective
  <1>5. IsFiniteSet(T) /\ Cardinality(T) = Cardinality(E)
    BY <1>1, FS_Interval
  <1> HIDE DEF T
  <1>6. f \in Surjection(E, T)
    <2> HIDE DEF f
    <2>1. QED
      BY <1>4, <1>5, FS_Injection
  <1>7. \E e \in E : f[e] = k
    BY <1>6 DEF Surjection, T
  <1>8. QED
    BY <1>7

LEMMA MinOfTwo ==
  ASSUME NEW a \in Nat, NEW b \in Nat
  PROVE  /\ Min({a, b}) \in Nat
         /\ Min({a, b}) <= a /\ Min({a, b}) <= b
         /\ Min({a, b}) = a \/ Min({a, b}) = b
  <1>1. \E x \in {a, b} : \A y \in {a, b} : x =< y
    OBVIOUS
  <1>2. Min({a, b}) \in {a, b} /\ \A y \in {a, b} : Min({a, b}) =< y
    BY <1>1 DEF Min
  <1>3. QED
    BY <1>2

Ascending(s) == \A m, n \in DOMAIN s : m < n => Precedes(s[m], s[n])

\* A page is in order, holds everything if it is not full, and nothing that is left out
\* precedes anything it holds.
LEMMA PageIs ==
  ASSUME NEW E, IsFiniteSet(E), E \subseteq Entry, Distinct(E), NEW p, p = FirstPage(E)
  PROVE  /\ p \in Seq(Entry) /\ Len(p) <= PageSize
         /\ \A n \in DOMAIN p : p[n] \in E
         /\ Ascending(p)
         /\ Len(p) < PageSize => E \subseteq ToSet(p)
         /\ Len(p) = PageSize => \A e \in E : e \in ToSet(p) \/ Precedes(p[PageSize], e)
  <1> DEFINE size == Min({PageSize, Cardinality(E)})
             at(n) == CHOOSE e \in E : Rank(E, e) = n - 1
  <1>1. PICK N \in Nat : N = Cardinality(E)
    BY FS_CardinalityType
  <1>2. PICK k \in Nat : k = size
    BY <1>1, MinOfTwo, ConstantsAssumption
  <1>3. k <= PageSize /\ k <= N /\ (k = PageSize \/ k = N)
    BY <1>1, <1>2, MinOfTwo, ConstantsAssumption
  <1>4. p = [n \in 1..k |-> at(n)]
    BY <1>2 DEF FirstPage, Rank, Earlier
  <1>5. ASSUME NEW n \in 1..k
        PROVE  at(n) \in E /\ Rank(E, at(n)) = n - 1
    <2>1. n - 1 \in 0..(N - 1)
      BY <1>3
    <2>2. \E e \in E : Rank(E, e) = n - 1
      BY <1>1, <2>1, RankOnto
    <2>3. QED
      BY <2>2
  <1> HIDE DEF at, size
  <1>6. DOMAIN p = 1..k /\ \A n \in 1..k : p[n] \in E /\ Rank(E, p[n]) = n - 1
    BY <1>4, <1>5
  <1>7. p \in Seq(Entry) /\ Len(p) = k
    <2>1. p \in [1..k -> Entry]
      BY <1>4, <1>5
    <2>2. QED
      BY <2>1
  <1>8. ASSUME NEW m \in 1..k, NEW n \in 1..k, m < n
        PROVE  Precedes(p[m], p[n])
    <2>1. p[m] \in E /\ p[n] \in E /\ Rank(E, p[m]) = m - 1 /\ Rank(E, p[n]) = n - 1
      BY <1>6
    <2>2. Rank(E, p[m]) < Rank(E, p[n])
      BY <2>1, <1>8
    <2>3. QED
      BY <2>1, <2>2, RankDecides
  <1>9. ASSUME NEW e \in E, Rank(E, e) < k
        PROVE  e \in ToSet(p)
    <2>1. PICK n \in 1..k : n - 1 = Rank(E, e)
      <3>1. PICK q \in Nat : q = Rank(E, e)
        BY RankBounds
      <3>2. q + 1 \in 1..k /\ (q + 1) - 1 = q
        BY <1>9, <3>1
      <3>3. QED
        BY <3>1, <3>2
    <2>2. p[n] \in E /\ Rank(E, p[n]) = Rank(E, e)
      BY <1>6, <2>1
    <2>3. p[n] = e
      BY <2>2, RankDecides
    <2>4. QED
      BY <1>6, <2>3 DEF ToSet
  <1>10. ASSUME k < PageSize, NEW e \in E
         PROVE  e \in ToSet(p)
    <2>1. k = N
      BY <1>3, <1>10
    <2>2. PICK q \in 0..(N - 1) : q = Rank(E, e)
      BY <1>1, RankBounds
    <2>3. Rank(E, e) < k
      BY <2>1, <2>2
    <2>4. QED
      BY <1>9, <2>3
  <1>11. ASSUME k = PageSize, NEW e \in E
         PROVE  e \in ToSet(p) \/ Precedes(p[PageSize], e)
    <2>1. PICK q \in Nat : q = Rank(E, e)
      BY RankBounds
    <2>2. CASE q < k
      BY <1>9, <2>1, <2>2
    <2>3. CASE q >= k
      <3>1. k \in 1..k
        BY <1>11, ConstantsAssumption
      <3>2. p[k] \in E /\ Rank(E, p[k]) = k - 1
        BY <1>6, <3>1
      <3>3. Rank(E, p[k]) < Rank(E, e)
        BY <2>1, <2>3, <3>2
      <3>4. QED
        BY <1>11, <3>2, <3>3, RankDecides
    <2>4. QED
      BY <2>1, <2>2, <2>3
  <1>12. Ascending(p)
    BY <1>6, <1>8 DEF Ascending
  <1>13. /\ Len(p) < PageSize => E \subseteq ToSet(p)
         /\ Len(p) = PageSize => \A e \in E : e \in ToSet(p) \/ Precedes(p[PageSize], e)
    BY <1>7, <1>10, <1>11
  <1>14. QED
    BY <1>3, <1>6, <1>7, <1>12, <1>13

\* s is what the pages before c have shown, and of the entries in b everything else is
\* still to come.
Follows(s, c, b) ==
  /\ s \in Seq(Entry) /\ Ascending(s)
  /\ IF c = None THEN b \subseteq ToSet(s)
     ELSE /\ c \in Entry /\ s # <<>> /\ c = s[Len(s)]
          /\ \A e \in b : e \in ToSet(s) \/ Precedes(c, e)

\* What t is if p has been appended to s.
Joins(t, s, p) ==
  /\ t \in Seq(Entry) /\ Len(t) = Len(s) + Len(p)
  /\ \A n \in DOMAIN t :
       \/ n \in DOMAIN s /\ t[n] = s[n]
       \/ n > Len(s) /\ n - Len(s) \in DOMAIN p /\ t[n] = p[n - Len(s)]
  /\ ToSet(t) = ToSet(s) \cup ToSet(p)
  /\ p # <<>> => t # <<>> /\ t[Len(t)] = p[Len(p)]

LEMMA ConcatJoins ==
  ASSUME NEW s \in Seq(Entry), NEW p \in Seq(Entry), NEW t, t = s \o p
  PROVE  Joins(t, s, p)
  <1>1. t \in Seq(Entry) /\ Len(t) = Len(s) + Len(p)
    OBVIOUS
  <1>2. ASSUME NEW n \in DOMAIN t
        PROVE  \/ n \in DOMAIN s /\ t[n] = s[n]
               \/ n > Len(s) /\ n - Len(s) \in DOMAIN p /\ t[n] = p[n - Len(s)]
    OBVIOUS
  <1>3. \A n \in DOMAIN s : n \in DOMAIN t /\ t[n] = s[n]
    OBVIOUS
  <1>4. \A n \in DOMAIN p : n + Len(s) \in DOMAIN t /\ t[n + Len(s)] = p[n]
    OBVIOUS
  <1>5. ToSet(t) = ToSet(s) \cup ToSet(p)
    <2>1. \A e : e \in ToSet(t) => e \in ToSet(s) \cup ToSet(p)
      BY <1>2 DEF ToSet
    <2>2. \A e : e \in ToSet(s) => e \in ToSet(t)
      BY <1>3 DEF ToSet
    <2>3. \A e : e \in ToSet(p) => e \in ToSet(t)
      BY <1>4 DEF ToSet
    <2>4. QED
      BY <2>1, <2>2, <2>3
  <1>6. p # <<>> => t # <<>> /\ t[Len(t)] = p[Len(p)]
    OBVIOUS
  <1>7. QED
    BY <1>1, <1>2, <1>5, <1>6 DEF Joins

\* What Fetch does with the ledger L of that moment.
LEMMA NextPage ==
  ASSUME NEW L, IsFiniteSet(L), L \subseteq Entry, Distinct(L), NEW b \in SUBSET L,
         NEW s \in Seq(Entry), Ascending(s),
         NEW c, c # None => c \in Entry /\ s # <<>> /\ c = s[Len(s)],
         c = None => s = <<>>,
         \A e \in b : e \in ToSet(s) \/ c = None \/ Precedes(c, e),
         NEW p, p = FirstPage({e \in L : c # None => Precedes(c, e)})
  PROVE  Follows(s \o p, NextCursor(p), b)
  <1> DEFINE E == {e \in L : c # None => Precedes(c, e)}
             d == NextCursor(p)
  <1>1. IsFiniteSet(E) /\ E \subseteq Entry /\ Distinct(E)
    BY FS_Subset DEF Distinct
  <1>2. /\ p \in Seq(Entry) /\ Len(p) <= PageSize
        /\ \A n \in DOMAIN p : p[n] \in E
        /\ Ascending(p)
        /\ Len(p) < PageSize => E \subseteq ToSet(p)
        /\ Len(p) = PageSize => \A e \in E : e \in ToSet(p) \/ Precedes(p[PageSize], e)
    <2> HIDE DEF E
    <2>1. p = FirstPage(E)
      BY DEF E
    <2>2. QED
      BY <1>1, <2>1, PageIs
  <1>3. ASSUME NEW n \in DOMAIN p
        PROVE  p[n] \in Entry /\ (c # None => Precedes(c, p[n]))
    BY <1>2
  <1>4. ASSUME NEW e \in b
        PROVE  e \in ToSet(s) \/ e \in E
    BY <1>4
  <1> HIDE DEF E
  <1>5. PICK t : t = s \o p
    OBVIOUS
  <1>6. /\ t \in Seq(Entry) /\ Len(t) = Len(s) + Len(p)
        /\ \A n \in DOMAIN t :
             \/ n \in DOMAIN s /\ t[n] = s[n]
             \/ n > Len(s) /\ n - Len(s) \in DOMAIN p /\ t[n] = p[n - Len(s)]
        /\ ToSet(t) = ToSet(s) \cup ToSet(p)
        /\ p # <<>> => t # <<>> /\ t[Len(t)] = p[Len(p)]
    <2>1. p \in Seq(Entry)
      BY <1>2
    <2>2. Joins(t, s, p)
      BY <1>5, <2>1, ConcatJoins
    <2>3. QED
      BY <2>2 DEF Joins
  <1>7. ASSUME NEW m \in DOMAIN s, NEW n \in DOMAIN p
        PROVE  Precedes(s[m], p[n])
    <2>1. c # None
      BY <1>7
    <2>2. c \in Entry /\ c = s[Len(s)] /\ Precedes(c, p[n]) /\ p[n] \in Entry
      BY <1>3, <2>1
    <2>3. m = Len(s) \/ (m < Len(s) /\ Len(s) \in DOMAIN s)
      OBVIOUS
    <2>4. s[m] \in Entry /\ (s[m] = c \/ Precedes(s[m], c))
      BY <2>2, <2>3 DEF Ascending
    <2>5. QED
      BY <2>2, <2>4, PrecedesIsOrder
  <1>8. Ascending(t)
    <2>1. ASSUME NEW m \in DOMAIN t, NEW n \in DOMAIN t, m < n
          PROVE  Precedes(t[m], t[n])
      <3>1. m \in Nat /\ n \in Nat /\ Len(s) \in Nat
        BY <1>6
      <3>2. CASE n \in DOMAIN s /\ t[n] = s[n]
        <4>1. n <= Len(s)
          BY <3>2
        <4>2. m \in DOMAIN s /\ t[m] = s[m]
          <5>1. ~(m > Len(s))
            BY <2>1, <3>1, <4>1
          <5>2. QED
            BY <1>6, <5>1
        <4>3. QED
          BY <2>1, <3>2, <4>2 DEF Ascending
      <3>3. CASE n > Len(s) /\ n - Len(s) \in DOMAIN p /\ t[n] = p[n - Len(s)]
        <4>1. CASE m \in DOMAIN s /\ t[m] = s[m]
          BY <1>7, <3>3, <4>1
        <4>2. CASE m > Len(s) /\ m - Len(s) \in DOMAIN p /\ t[m] = p[m - Len(s)]
          <5>1. m - Len(s) < n - Len(s)
            BY <2>1, <3>1
          <5>2. QED
            BY <1>2, <3>3, <4>2, <5>1 DEF Ascending
        <4>3. QED
          BY <1>6, <4>1, <4>2
      <3>4. QED
        BY <1>6, <3>2, <3>3
    <2>2. QED
      BY <2>1 DEF Ascending
  <1>9. CASE Len(p) = PageSize
    <2>1. p # <<>> /\ d = p[PageSize] /\ PageSize \in DOMAIN p
      BY <1>2, <1>9, ConstantsAssumption DEF NextCursor
    <2>2. d \in Entry /\ d # None
      BY <1>3, <2>1, NoneAssumption
    <2>3. t # <<>> /\ d = t[Len(t)]
      BY <1>6, <1>9, <2>1
    <2>4. \A e \in b : e \in ToSet(t) \/ Precedes(d, e)
      BY <1>2, <1>4, <1>6, <1>9, <2>1
    <2> HIDE DEF d
    <2>5. Follows(t, d, b)
      BY <1>6, <1>8, <2>2, <2>3, <2>4 DEF Follows
    <2>6. QED
      BY <1>5, <2>5 DEF d
  <1>10. CASE Len(p) # PageSize
    <2>1. d = None
      BY <1>10 DEF NextCursor
    <2>2. Len(p) < PageSize
      BY <1>2, <1>10, ConstantsAssumption
    <2>3. b \subseteq ToSet(t)
      BY <1>2, <1>4, <1>6, <2>2
    <2> HIDE DEF d
    <2>4. Follows(t, d, b)
      BY <1>6, <1>8, <2>1, <2>3 DEF Follows
    <2>5. QED
      BY <1>5, <2>4 DEF d
  <1>11. QED
    BY <1>9, <1>10

-----------------------------------------------------------------------------
(* The invariant.  DifferenceExplained speaks of reports alone; it holds because the  *)
(* balance is at every moment the sum of the ledger and the drift, and so was what    *)
(* a reconciliation under way has read.  ListedOnce speaks of what a listing has      *)
(* shown; it holds because nothing that precedes the cursor is still to be shown.     *)

MovementsOK == IsFiniteSet(ledger) /\ Distinct(ledger)

Balanced == balance = Sum(ledger) + drift

\* x was the state of the wallet when the ledger was a part of L.
Sound(x, L) ==
  /\ x \in Reading /\ x.ledger \subseteq L
  /\ x.balance = Sum(x.ledger) + x.drift

ReadingsOK == \A r \in Reader : read[r] # None => Sound(read[r], ledger)

ListingsOK ==
  \A r \in Reader : before[r] \subseteq ledger /\ Follows(shown[r], after[r], before[r])

IInv ==
  /\ TypeOK /\ MovementsOK /\ Balanced
  /\ ReadingsOK /\ DifferenceExplained /\ ListingsOK

LEMMA DriftType ==
  ASSUME NEW d \in Spoilt \cup {0}
  PROVE  d \in Int
  BY ConstantsAssumption

LEMMA InitIInv == Init => IInv
  <1> SUFFICES ASSUME Init PROVE IInv
    OBVIOUS
  <1>1. TypeOK
    BY DEF Init, TypeOK
  <1>2. MovementsOK
    BY FS_EmptySet DEF Init, MovementsOK, Distinct
  <1>3. Balanced
    BY SumOfNone DEF Init, Balanced
  <1>4. ReadingsOK /\ DifferenceExplained
    BY DEF Init, ReadingsOK, DifferenceExplained
  <1>5. ListingsOK
    <2>1. <<>> \in Seq(Entry) /\ Ascending(<<>>)
      BY DEF Ascending
    <2>2. QED
      BY <2>1 DEF Init, ListingsOK, Follows
  <1>6. QED
    BY <1>1, <1>2, <1>3, <1>4, <1>5 DEF IInv

\* e is inserted, and the readers do not notice.
MoveOf(e) ==
  /\ \A f \in ledger : f.id # e.id
  /\ balance + e.amount >= 0
  /\ ledger' = ledger \cup {e}
  /\ balance' = balance + e.amount
  /\ UNCHANGED <<drift, pc, reconciliation, listing>>

LEMMA MoveKeeps ==
  ASSUME IInv, NEW e \in Entry, MoveOf(e)
  PROVE  IInv'
  <1> USE DEF reconciliation, listing
  <1>1. e \notin ledger /\ ledger \subseteq Entry /\ IsFiniteSet(ledger)
    BY DEF IInv, TypeOK, MovementsOK, MoveOf
  <1>2. e.amount \in Int /\ balance \in Nat /\ drift \in Int
    <2>1. e.amount \in Int
      BY ConstantsAssumption DEF Entry
    <2>2. balance \in Nat /\ drift \in Spoilt \cup {0}
      BY DEF IInv, TypeOK
    <2>3. QED
      BY <2>1, <2>2, DriftType
  <1>3. TypeOK'
    <2>1. balance' \in Nat
      BY <1>2 DEF MoveOf
    <2>2. QED
      BY <2>1 DEF IInv, TypeOK, MoveOf
  <1>4. MovementsOK'
    <2>1. IsFiniteSet(ledger')
      BY <1>1, FS_AddElement DEF MoveOf
    <2>2. Distinct(ledger')
      BY DEF IInv, MovementsOK, Distinct, MoveOf
    <2>3. QED
      BY <2>1, <2>2 DEF MovementsOK
  <1>5. Balanced'
    <2>1. PICK L : L = ledger'
      OBVIOUS
    <2>2. Sum(L) = Sum(ledger) + e.amount
      BY <1>1, <2>1, SumWith DEF MoveOf
    <2>3. Sum(ledger) \in Int
      BY <1>1, SumType
    <2>4. balance = Sum(ledger) + drift /\ balance' = balance + e.amount /\ drift' = drift
      BY DEF IInv, Balanced, MoveOf
    <2>5. balance' = Sum(L) + drift'
      BY <1>2, <2>2, <2>3, <2>4
    <2>6. QED
      BY <2>1, <2>5 DEF Balanced
  <1>6. ReadingsOK'
    BY DEF IInv, ReadingsOK, Sound, MoveOf
  <1>7. DifferenceExplained'
    BY DEF IInv, DifferenceExplained, MoveOf
  <1>8. ListingsOK'
    BY DEF IInv, ListingsOK, MoveOf
  <1>9. QED
    BY <1>3, <1>4, <1>5, <1>6, <1>7, <1>8 DEF IInv

LEMMA SpoilKeeps ==
  ASSUME IInv, Spoil
  PROVE  IInv'
  <1> USE DEF reconciliation, listing
  <1>1. balance \in Nat /\ drift' \in Int
    <2>1. balance \in Nat /\ drift' \in Spoilt \cup {0}
      BY DEF IInv, TypeOK, Spoil
    <2>2. QED
      BY <2>1, DriftType
  <1>2. TypeOK'
    <2>1. balance' \in Nat
      <3>1. balance' = balance + drift' /\ balance' >= 0
        BY DEF Spoil
      <3>2. PICK n \in Nat, d \in Int : n = balance /\ d = drift'
        BY <1>1
      <3>3. n + d >= 0 => n + d \in Nat
        OBVIOUS
      <3>4. QED
        BY <3>1, <3>2, <3>3
    <2>2. QED
      BY <2>1 DEF IInv, TypeOK, Spoil
  <1>3. Balanced'
    <2>1. Sum(ledger) \in Int
      BY SumType DEF IInv, TypeOK, MovementsOK
    <2>2. balance = Sum(ledger)
      BY <2>1 DEF IInv, Balanced, Spoil
    <2>3. QED
      BY <2>2 DEF Balanced, Spoil
  <1>4. MovementsOK' /\ ReadingsOK' /\ DifferenceExplained' /\ ListingsOK'
    BY DEF IInv, MovementsOK, ReadingsOK, DifferenceExplained, ListingsOK, Spoil
  <1>5. QED
    BY <1>2, <1>3, <1>4 DEF IInv

LEMMA ReadBalanceKeeps ==
  ASSUME IInv, NEW r \in Reader, ReadBalance(r)
  PROVE  IInv'
  <1> USE DEF wallet, listing, Becomes
  <1> DEFINE x == [balance |-> balance, ledger |-> ledger, drift |-> drift]
  <1>1. Sound(x, ledger) /\ x # None
    <2>1. x \in Reading
      BY DEF IInv, TypeOK, Reading
    <2>2. QED
      BY <2>1, NoneAssumption DEF IInv, Balanced, Sound
  <1>2. read' = [read EXCEPT ![r] = x]
    BY DEF ReadBalance
  <1> HIDE DEF x
  <1>3. TypeOK'
    BY <1>1, <1>2 DEF IInv, TypeOK, ReadBalance
  <1>4. ReadingsOK'
    BY <1>1, <1>2 DEF IInv, TypeOK, ReadingsOK, ReadBalance
  <1>5. MovementsOK' /\ Balanced' /\ DifferenceExplained' /\ ListingsOK'
    BY DEF IInv, MovementsOK, Balanced, DifferenceExplained, ListingsOK, ReadBalance
  <1>6. QED
    BY <1>3, <1>4, <1>5 DEF IInv

LEMMA ReconcileKeeps ==
  ASSUME IInv, NEW r \in Reader, Reconcile(r)
  PROVE  IInv'
  <1> USE DEF wallet, listing, Becomes
  <1>1. PICK x : x = read[r]
    OBVIOUS
  <1>2. Sound(x, ledger)
    BY <1>1 DEF IInv, TypeOK, ReadingsOK, Reconcile
  <1>3. x.balance - SumLedger = x.drift - Sum(ledger \ x.ledger)
    <2>1. x.ledger \in SUBSET ledger /\ ledger \subseteq Entry /\ IsFiniteSet(ledger)
      BY <1>2 DEF Sound, IInv, TypeOK, MovementsOK
    <2>2. Sum(ledger) = Sum(x.ledger) + Sum(ledger \ x.ledger)
      BY <2>1, SumOfParts
    <2>3. Sum(x.ledger) \in Int /\ Sum(ledger \ x.ledger) \in Int
      <3>1. /\ IsFiniteSet(x.ledger) /\ x.ledger \subseteq Entry
            /\ IsFiniteSet(ledger \ x.ledger) /\ ledger \ x.ledger \subseteq Entry
        BY <2>1, FS_Subset
      <3>2. QED
        BY <3>1, SumType
    <2>4. x.drift \in Int /\ x.balance = Sum(x.ledger) + x.drift
      <3>1. x.drift \in Spoilt \cup {0}
        BY <1>2 DEF Sound, Reading
      <3>2. QED
        BY <1>2, <3>1, DriftType DEF Sound
    <2>5. QED
      BY <2>2, <2>3, <2>4 DEF SumLedger
  <1> DEFINE y == [difference |-> x.balance - SumLedger, read |-> x, ledger |-> ledger]
  <1>4. y.difference = y.read.drift - Sum(y.ledger \ y.read.ledger)
    BY <1>3
  <1>5. report' = [report EXCEPT ![r] = y] /\ read' = [read EXCEPT ![r] = None]
    BY <1>1 DEF Reconcile
  <1> HIDE DEF y
  <1>6. TypeOK'
    BY <1>5 DEF IInv, TypeOK, Reconcile
  <1>7. ReadingsOK'
    BY <1>5 DEF IInv, TypeOK, ReadingsOK, Reconcile
  <1>8. DifferenceExplained'
    BY <1>4, <1>5 DEF IInv, TypeOK, DifferenceExplained
  <1>9. MovementsOK' /\ Balanced' /\ ListingsOK'
    BY DEF IInv, MovementsOK, Balanced, ListingsOK, Reconcile
  <1>10. QED
    BY <1>6, <1>7, <1>8, <1>9 DEF IInv

LEMMA FetchKeeps ==
  ASSUME IInv, NEW r \in Reader, Fetch(r)
  PROVE  IInv'
  <1> USE DEF wallet, reconciliation, Becomes
  <1>1. PICK p : p = Page(after[r])
    OBVIOUS
  <1>2. PICK c : c = after[r]
    OBVIOUS
  <1>3. PICK s : s = IF pc[r] = "idle" THEN <<>> ELSE shown[r]
    OBVIOUS
  <1>4. PICK b : b = IF pc[r] = "idle" THEN ledger ELSE before[r]
    OBVIOUS
  <1>5. /\ IsFiniteSet(ledger) /\ ledger \subseteq Entry /\ Distinct(ledger)
        /\ pc[r] \in {"idle", "page"} /\ (pc[r] = "page" <=> c # None)
        /\ before[r] \subseteq ledger /\ Follows(shown[r], c, before[r])
    BY <1>2 DEF IInv, TypeOK, MovementsOK, ListingsOK, Fetch
  <1>6. p = FirstPage({e \in ledger : c # None => Precedes(c, e)})
    BY <1>1, <1>2 DEF Page
  <1>7. p \in Seq(Entry)
    <2> DEFINE E == {e \in ledger : c # None => Precedes(c, e)}
    <2>1. IsFiniteSet(E) /\ E \subseteq Entry /\ Distinct(E)
      BY <1>5, FS_Subset DEF Distinct
    <2> HIDE DEF E
    <2>2. QED
      BY <1>6, <2>1, PageIs DEF E
  <1>8. /\ s \in Seq(Entry) /\ Ascending(s) /\ b \in SUBSET ledger
        /\ c # None => c \in Entry /\ s # <<>> /\ c = s[Len(s)]
        /\ c = None => s = <<>>
        /\ \A e \in b : e \in ToSet(s) \/ c = None \/ Precedes(c, e)
    <2>1. CASE pc[r] = "idle"
      BY <1>3, <1>4, <1>5, <2>1 DEF Ascending
    <2>2. CASE pc[r] = "page"
      BY <1>3, <1>4, <1>5, <2>2 DEF Follows
    <2>3. QED
      BY <1>5, <2>1, <2>2
  <1>9. Follows(s \o p, NextCursor(p), b)
    BY <1>5, <1>6, <1>8, NextPage
  <1>10. s \o p = IF pc[r] = "idle" THEN p ELSE shown[r] \o p
    BY <1>3, <1>7
  <1>11. PICK t : t = s \o p
    OBVIOUS
  <1>12. PICK d : d = NextCursor(p)
    OBVIOUS
  <1>13. Follows(t, d, b) /\ t \in Seq(Entry) /\ d \in Entry \cup {None}
    BY <1>9, <1>11, <1>12 DEF Follows
  <1>14. /\ after' = [after EXCEPT ![r] = d]
         /\ pc' = [pc EXCEPT ![r] = IF d = None THEN "idle" ELSE "page"]
         /\ shown' = [shown EXCEPT ![r] = t]
         /\ before' = [before EXCEPT ![r] = b]
         /\ pc[r] # "sum"
         /\ UNCHANGED <<ledger, balance, drift, read, report>>
    BY <1>1, <1>4, <1>10, <1>11, <1>12 DEF Fetch
  <1>15. TypeOK'
    BY <1>5, <1>8, <1>13, <1>14 DEF IInv, TypeOK
  <1>16. ListingsOK'
    BY <1>8, <1>13, <1>14 DEF IInv, TypeOK, ListingsOK
  <1>17. MovementsOK' /\ Balanced' /\ ReadingsOK' /\ DifferenceExplained'
    BY <1>14 DEF IInv, MovementsOK, Balanced, ReadingsOK, DifferenceExplained
  <1>18. QED
    BY <1>15, <1>16, <1>17 DEF IInv

LEMMA NextKeeps == IInv /\ [Next]_vars => IInv'
  <1> SUFFICES ASSUME IInv, [Next]_vars PROVE IInv'
    OBVIOUS
  <1>1. CASE Move
    <2>1. PICK e \in Entry : MoveOf(e)
      BY <1>1 DEF Move, MoveOf
    <2>2. QED
      BY <2>1, MoveKeeps
  <1>2. CASE Spoil
    BY <1>2, SpoilKeeps
  <1>3. ASSUME NEW r \in Reader, ReadBalance(r) \/ Reconcile(r) \/ Fetch(r)
        PROVE  IInv'
    BY <1>3, ReadBalanceKeeps, ReconcileKeeps, FetchKeeps
  <1>4. CASE UNCHANGED vars
    BY <1>4 DEF vars, wallet, reconciliation, listing, IInv, TypeOK, MovementsOK, Balanced,
                ReadingsOK, DifferenceExplained, ListingsOK
  <1>5. QED
    BY <1>1, <1>2, <1>3, <1>4 DEF Next

LEMMA Invariance == Spec => []IInv
  BY InitIInv, NextKeeps, PTL DEF Spec

\* What a report has read is a reading of the wallet.
ReportsOK == \A r \in Reader : report[r] # None => report[r].read \in Reading

LEMMA ReportsHold == Spec => []ReportsOK
  <1>1. Init => ReportsOK
    BY DEF Init, ReportsOK
  <1>2. IInv /\ ReportsOK /\ [Next]_vars => ReportsOK'
    <2> SUFFICES ASSUME IInv, ReportsOK, [Next]_vars PROVE ReportsOK'
      OBVIOUS
    <2>1. ASSUME NEW r \in Reader, Reconcile(r)
          PROVE  ReportsOK'
      <3>1. read[r] \in Reading
        BY <2>1 DEF IInv, TypeOK, ReadingsOK, Sound, Reconcile
      <3>2. PICK y : y.read = read[r] /\ report' = [report EXCEPT ![r] = y]
        BY <2>1 DEF Reconcile
      <3>3. QED
        BY <3>1, <3>2 DEF ReportsOK, IInv, TypeOK
    <2>2. CASE UNCHANGED report
      BY <2>2 DEF ReportsOK
    <2>3. UNCHANGED report \/ \E r \in Reader : Reconcile(r)
      BY DEF Next, vars, reconciliation, listing, Move, Spoil, ReadBalance, Fetch
    <2>4. QED
      BY <2>1, <2>2, <2>3
  <1>3. QED
    BY <1>1, <1>2, Invariance, PTL DEF Spec

-----------------------------------------------------------------------------
(* Theorems *)

\* Every variable has its type in every reachable state: the balance is never negative,
\* and a reader holds a cursor only between two pages.
THEOREM TypeCorrect == Spec => []TypeOK
  <1>1. IInv => TypeOK
    BY DEF IInv
  <1>2. QED
    BY <1>1, Invariance, PTL

\* Whatever moves between the two reads of a reconciliation, the difference it reports
\* is the drift of the stored balance less what was committed in between
\* (reconcile-wallet.use-case.ts).
THEOREM ReconciliationIsExplained == Spec => []DifferenceExplained
  <1>1. IInv => DifferenceExplained
    BY DEF IInv
  <1>2. QED
    BY <1>1, Invariance, PTL

\* On a wallet that nothing moved between its two reads, a reconciliation reports the
\* drift of the stored balance and nothing else: "consistent" if and only if there is none
\* (reconcile-wallet.use-case.ts).
THEOREM QuietReportIsDrift ==
  Spec => [](\A r \in Reader :
               report[r] # None /\ report[r].ledger = report[r].read.ledger
               => report[r].difference = report[r].read.drift)
  <1>1. ASSUME DifferenceExplained, ReportsOK, NEW r \in Reader,
               report[r] # None, report[r].ledger = report[r].read.ledger
        PROVE  report[r].difference = report[r].read.drift
    <2>1. report[r].ledger \ report[r].read.ledger = {}
      BY <1>1
    <2>2. report[r].difference = report[r].read.drift - 0
      BY <1>1, <2>1, SumOfNone DEF DifferenceExplained
    <2>3. report[r].read.drift \in Int
      BY <1>1, DriftType DEF ReportsOK, Reading
    <2>4. QED
      BY <2>2, <2>3
  <1>2. IInv /\ ReportsOK => \A r \in Reader :
                                report[r] # None /\ report[r].ledger = report[r].read.ledger
                                => report[r].difference = report[r].read.drift
    BY <1>1 DEF IInv
  <1>3. QED
    BY <1>2, Invariance, ReportsHold, PTL

\* A listing shows in order, once, every entry that was there when it began, for every
\* size of a page and however many entries share a time (the cursor of
\* listLedgerEntries).
THEOREM ListingIsComplete == Spec => []ListedOnce
  <1>1. IInv => ListedOnce
    BY DEF IInv, TypeOK, ListingsOK, Follows, Ascending, ListedOnce
  <1>2. QED
    BY <1>1, Invariance, PTL
=============================================================================
