----------------------------- MODULE DeckProofs -----------------------------
(***************************************************************************)
(* Theorems about one night of the Analyst, for any rows, questions, ties, *)
(* answers and limits.                                                     *)
(***************************************************************************)
EXTENDS Deck, TLAPS, SequenceTheorems, FiniteSetTheorems, WellFoundedInduction

-----------------------------------------------------------------------------
\* Listing a finite set along a total order.

\* upTo[x] is the set of those up to x in a total order of S.
IsOrder(S, upTo) ==
    /\ upTo \in [S -> SUBSET S]
    /\ \A x \in S : x \in upTo[x]
    /\ \A x, y \in S : x \in upTo[y] \/ y \in upTo[x]
    /\ \A x, y \in S : x \in upTo[y] => upTo[x] \subseteq upTo[y]
    /\ \A x, y \in S : x \in upTo[y] /\ y \in upTo[x] => x = y

\* list names every member of S once, each at its rank.
Lists(list, S, upTo) ==
    /\ list \in [1..Cardinality(S) -> S]
    /\ \A x \in S : /\ Cardinality(upTo[x]) \in 1..Cardinality(S)
                    /\ list[Cardinality(upTo[x])] = x
    /\ \A k \in 1..Cardinality(S) : Cardinality(upTo[list[k]]) = k
    /\ \A j, k \in 1..Cardinality(S) : j <= k <=> list[j] \in upTo[list[k]]

\* Every member has a rank of its own, and every rank up to the size of the set
\* is somebody's: Along finds the member it asks for.
LEMMA Enumerated ==
    ASSUME NEW S, IsFiniteSet(S), NEW upTo, IsOrder(S, upTo)
    PROVE  Lists(Along(S, upTo), S, upTo)
<1> DEFINE n == Cardinality(S)
           T == 1..n
           rank == [x \in S |-> Cardinality(upTo[x])]
<1>1. n \in Nat
  BY FS_CardinalityType
<1>2. IsFiniteSet(T) /\ Cardinality(T) = n
  BY <1>1, FS_Interval
<1>3. ASSUME NEW x \in S
      PROVE  IsFiniteSet(upTo[x]) /\ Cardinality(upTo[x]) \in T
  <2>1. upTo[x] \in SUBSET S /\ x \in upTo[x]
    BY DEF IsOrder
  <2>2. IsFiniteSet(upTo[x]) /\ Cardinality(upTo[x]) <= n
    BY <2>1, FS_Subset
  <2>3. Cardinality(upTo[x]) \in Nat
    BY <2>2, FS_CardinalityType
  <2>4. Cardinality(upTo[x]) # 0
    BY <2>1, <2>2, FS_EmptySet
  <2> QED
    BY <1>1, <2>2, <2>3, <2>4
<1>4. ASSUME NEW x \in S, NEW y \in S, x \in upTo[y], x # y
      PROVE  Cardinality(upTo[x]) < Cardinality(upTo[y])
  <2>1. upTo[x] \in SUBSET upTo[y] /\ y \notin upTo[x] /\ y \in upTo[y]
    BY <1>4 DEF IsOrder
  <2>2. /\ Cardinality(upTo[x]) <= Cardinality(upTo[y])
        /\ Cardinality(upTo[x]) # Cardinality(upTo[y])
    BY <1>3, <2>1, FS_Subset
  <2> QED
    BY <1>1, <1>3, <2>2
<1>5. rank \in Injection(S, T)
  <2>1. rank \in [S -> T]
    BY <1>3
  <2>2. ASSUME NEW x \in S, NEW y \in S, rank[x] = rank[y]
        PROVE  x = y
    <3>1. x \in upTo[y] \/ y \in upTo[x]
      BY DEF IsOrder
    <3>2. Cardinality(upTo[x]) = Cardinality(upTo[y]) /\ Cardinality(upTo[x]) \in Nat
      BY <1>3, <2>2, <1>1
    <3> QED
      BY <1>4, <3>1, <3>2
  <2> QED
    BY <2>1, <2>2 DEF Injection, IsInjective
<1>6. rank \in Surjection(S, T)
  BY <1>2, <1>5, FS_Injection
<1>7. \A k \in T : \E x \in S : Cardinality(upTo[x]) = k
  BY <1>6 DEF Surjection
<1> DEFINE list == Along(S, upTo)
<1>8. ASSUME NEW k \in T
      PROVE  list[k] \in S /\ Cardinality(upTo[list[k]]) = k
  BY <1>7 DEF Along
<1>9. list \in [T -> S]
  BY <1>8 DEF Along
<1>10. ASSUME NEW x \in S
       PROVE  Cardinality(upTo[x]) \in T /\ list[Cardinality(upTo[x])] = x
  <2>1. Cardinality(upTo[x]) \in T
    BY <1>3
  <2>2. /\ list[Cardinality(upTo[x])] \in S
        /\ rank[list[Cardinality(upTo[x])]] = rank[x]
    BY <1>8, <2>1
  <2> QED
    BY <1>5, <2>1, <2>2 DEF Injection, IsInjective
<1>11. ASSUME NEW j \in T, NEW k \in T
       PROVE  j <= k <=> list[j] \in upTo[list[k]]
  <2>1. /\ list[j] \in S /\ Cardinality(upTo[list[j]]) = j
        /\ list[k] \in S /\ Cardinality(upTo[list[k]]) = k
    BY <1>8
  <2>2. list[j] \in upTo[list[k]] => j <= k
    BY <1>1, <1>4, <2>1
  <2>3. list[j] \notin upTo[list[k]] => k < j
    <3>1. list[k] \in upTo[list[k]] /\ (list[j] \in upTo[list[k]] \/ list[k] \in upTo[list[j]])
      BY <2>1 DEF IsOrder
    <3> QED
      BY <1>4, <2>1, <3>1
  <2> QED
    BY <1>1, <2>2, <2>3
<1> HIDE DEF list
<1> QED
  BY <1>8, <1>9, <1>10, <1>11 DEF Lists, list

\* Numbers are listed by size.
LEMMA NumbersInOrder ==
    ASSUME NEW S \in SUBSET Nat, IsFiniteSet(S)
    PROVE  Lists(InOrder(S), S, [i \in S |-> {j \in S : j <= i}])
<1> DEFINE upTo == [i \in S |-> {j \in S : j <= i}]
<1>1. IsOrder(S, upTo)
  <2>1. \A x \in S : upTo[x] = {j \in S : j <= x}
    OBVIOUS
  <2>2. upTo \in [S -> SUBSET S]
    OBVIOUS
  <2> HIDE DEF upTo
  <2>3. \A x, y \in S : x \in upTo[y] <=> x <= y
    BY <2>1
  <2>4. \A x, y \in S : x \in upTo[y] => upTo[x] \subseteq upTo[y]
    <3>1. ASSUME NEW x \in S, NEW y \in S, x \in upTo[y], NEW z \in upTo[x]
          PROVE  z \in upTo[y]
      <4>1. z \in S /\ z <= x /\ x <= y
        BY <2>1, <3>1
      <4> QED
        BY <2>1, <4>1
    <3> QED
      BY <3>1
  <2>5. \A x, y \in S : x \in upTo[y] \/ y \in upTo[x]
    BY <2>3
  <2>6. \A x, y \in S : x \in upTo[y] /\ y \in upTo[x] => x = y
    BY <2>3
  <2>7. \A x \in S : x \in upTo[x]
    BY <2>3
  <2> QED
    BY <2>2, <2>4, <2>5, <2>6, <2>7 DEF IsOrder
<1> HIDE DEF upTo
<1>2. Lists(Along(S, upTo), S, upTo)
  BY <1>1, Enumerated
<1> QED
  BY <1>2 DEF InOrder, upTo

\* What that comes to: an increasing enumeration.
Enumerates(list, S) ==
    /\ list \in [1..Cardinality(S) -> S]
    /\ \A i \in S : \E k \in 1..Cardinality(S) : list[k] = i
    /\ \A j, k \in 1..Cardinality(S) : j <= k <=> list[j] <= list[k]

LEMMA InOrderEnumerates ==
    ASSUME NEW S \in SUBSET Nat, IsFiniteSet(S)
    PROVE  Enumerates(InOrder(S), S)
<1> DEFINE upTo == [i \in S |-> {j \in S : j <= i}]
           list == InOrder(S)
<1>1. Lists(list, S, upTo)
  BY NumbersInOrder
<1>2. list \in [1..Cardinality(S) -> S]
  BY <1>1 DEF Lists
<1>3. \A i \in S : \E k \in 1..Cardinality(S) : list[k] = i
  BY <1>1 DEF Lists
<1>4. \A j, k \in 1..Cardinality(S) : j <= k <=> list[j] \in upTo[list[k]]
  BY <1>1 DEF Lists
<1>5. \A j, k \in 1..Cardinality(S) : list[j] \in upTo[list[k]] <=> list[j] <= list[k]
  BY <1>2
<1>6. \A j, k \in 1..Cardinality(S) : j <= k <=> list[j] <= list[k]
  BY <1>4, <1>5
<1> HIDE DEF list
<1>7. Enumerates(list, S)
  BY <1>2, <1>3, <1>6 DEF Enumerates
<1> QED
  BY <1>7 DEF list

\* Rows listed by strength: each once, and never a weaker one before a stronger.
ByStrength(list, rows, b) ==
    /\ list \in [1..Cardinality(rows) -> rows]
    /\ \A r \in rows : \E k \in 1..Cardinality(rows) : list[k] = r
    /\ \A j, k \in 1..Cardinality(rows) : j <= k => b[list[j]] >= b[list[k]]
    /\ \A j, k \in 1..Cardinality(rows) : list[j] = list[k] => j = k

LEMMA OrderedByStrength ==
    ASSUME NEW rows \in SUBSET Rows, IsFiniteSet(rows), NEW b, NEW tie \in Ties,
           \A r \in rows : b[r] \in Nat
    PROVE  ByStrength(Ordered(rows, b, tie), rows, b)
<1> DEFINE upTo == [r \in rows |-> {s \in rows : \/ b[s] > b[r]
                                                \/ (b[s] = b[r] /\ tie[s] <= tie[r])}]
           list == Ordered(rows, b, tie)
<1>1. /\ \A r \in rows : tie[r] \in Nat
      /\ \A r, s \in rows : tie[r] = tie[s] => r = s
  BY DeckAssumption DEF IsInjective
<1>2. \A r, s \in rows : s \in upTo[r] <=> \/ b[s] > b[r]
                                          \/ (b[s] = b[r] /\ tie[s] <= tie[r])
  OBVIOUS
<1>3. upTo \in [rows -> SUBSET rows]
  OBVIOUS
<1>4. list = Along(rows, upTo)
  BY DEF Ordered
<1> HIDE DEF upTo, list
<1>5. IsOrder(rows, upTo)
  <2>1. \A r \in rows : r \in upTo[r]
    BY <1>1, <1>2
  <2>2. ASSUME NEW r \in rows, NEW s \in rows
        PROVE  /\ r \in upTo[s] \/ s \in upTo[r]
               /\ r \in upTo[s] /\ s \in upTo[r] => r = s
    <3>1. b[r] \in Nat /\ b[s] \in Nat /\ tie[r] \in Nat /\ tie[s] \in Nat
      BY <1>1
    <3>2. tie[r] = tie[s] => r = s
      BY <1>1
    <3>3. /\ s \in upTo[r] <=> b[s] > b[r] \/ (b[s] = b[r] /\ tie[s] <= tie[r])
          /\ r \in upTo[s] <=> b[r] > b[s] \/ (b[r] = b[s] /\ tie[r] <= tie[s])
      BY <1>2
    <3> QED
      BY <3>1, <3>2, <3>3
  <2>3. ASSUME NEW r \in rows, NEW s \in rows, r \in upTo[s], NEW u \in upTo[r]
        PROVE  u \in upTo[s]
    <3>1. u \in rows
      BY <1>3, <2>3
    <3>2. /\ b[r] \in Nat /\ b[s] \in Nat /\ b[u] \in Nat
          /\ tie[r] \in Nat /\ tie[s] \in Nat /\ tie[u] \in Nat
      BY <1>1, <3>1
    <3>3. /\ b[r] > b[s] \/ (b[r] = b[s] /\ tie[r] <= tie[s])
          /\ b[u] > b[r] \/ (b[u] = b[r] /\ tie[u] <= tie[r])
      BY <1>2, <2>3, <3>1
    <3>4. b[u] > b[s] \/ (b[u] = b[s] /\ tie[u] <= tie[s])
      BY <3>2, <3>3
    <3> QED
      BY <1>2, <3>1, <3>4
  <2> QED
    BY <1>3, <2>1, <2>2, <2>3 DEF IsOrder
<1>6. Lists(list, rows, upTo)
  BY <1>4, <1>5, Enumerated
<1>7. Cardinality(rows) \in Nat
  BY FS_CardinalityType
<1>8. /\ list \in [1..Cardinality(rows) -> rows]
      /\ \A r \in rows : \E k \in 1..Cardinality(rows) : list[k] = r
  BY <1>6 DEF Lists
<1>9. ASSUME NEW j \in 1..Cardinality(rows), NEW k \in 1..Cardinality(rows)
      PROVE  /\ j <= k => b[list[j]] >= b[list[k]]
             /\ list[j] = list[k] => j = k
  <2>1. /\ j <= k => list[j] \in upTo[list[k]]
        /\ Cardinality(upTo[list[j]]) = j /\ Cardinality(upTo[list[k]]) = k
    BY <1>6 DEF Lists
  <2>2. /\ list[j] \in rows /\ list[k] \in rows
        /\ b[list[j]] \in Nat /\ b[list[k]] \in Nat
    BY <1>8
  <2> QED
    BY <1>2, <2>1, <2>2
<1>10. ByStrength(list, rows, b)
  BY <1>8, <1>9 DEF ByStrength
<1> QED
  BY <1>10 DEF list

-----------------------------------------------------------------------------
\* Numbers of a set: its least one, and its greatest when there is a bound.

LEMMA Least ==
    ASSUME NEW S \in SUBSET Nat, S # {}
    PROVE  Min(S) \in S /\ \A i \in S : Min(S) <= i
<1> DEFINE L == OpToRel(<, Nat)
<1>1. IsWellFoundedOn(L, Nat)
  BY NatLessThanWellFounded
<1>2. \A x, y \in Nat : <<x, y>> \in L <=> x < y
  BY DEF OpToRel
<1> HIDE DEF L
<1>3. IsWellFoundedOn(L, S)
  BY <1>1, IsWellFoundedOnSubset
<1>4. PICK m \in S : \A y \in S : ~(<<y, m>> \in L)
  BY <1>3, WFMin, Zenon
<1>5. ASSUME NEW y \in S  PROVE  m <= y
  <2>1. m \in Nat /\ y \in Nat /\ ~(y < m)
    BY <1>2, <1>4
  <2> QED
    BY <2>1
<1> QED
  BY <1>4, <1>5 DEF Min

LEMMA Greatest ==
    ASSUME NEW S \in SUBSET Nat, S # {}, NEW n \in Nat, \A i \in S : i <= n
    PROVE  Max(S) \in S /\ \A i \in S : i <= Max(S)
<1> DEFINE T == {k \in Nat : \A i \in S : i <= k}
<1>1. n \in T /\ T \in SUBSET Nat
  OBVIOUS
<1>2. Min(T) \in T /\ \A k \in T : Min(T) <= k
  BY <1>1, Least
<1>3. Min(T) \in S
  <2>1. SUFFICES ASSUME Min(T) \notin S
                 PROVE  FALSE
    OBVIOUS
  <2>2. PICK i \in S : TRUE
    OBVIOUS
  <2>3. Min(T) \in Nat /\ \A j \in S : j <= Min(T) /\ j # Min(T)
    BY <1>2, <2>1
  <2>4. Min(T) - 1 \in T
    BY <2>2, <2>3
  <2> QED
    BY <1>2, <2>3, <2>4
<1>4. \A i \in S : i <= Min(T)
  BY <1>2
<1> QED
  BY <1>3, <1>4 DEF Max

-----------------------------------------------------------------------------
\* The cap and the bar. In what follows ordered lists some rows by strength.

Stay(ordered) == DOMAIN ordered \ Capped(ordered)

LEMMA StayFinite ==
    ASSUME NEW rows, IsFiniteSet(rows), NEW ordered \in [1..Cardinality(rows) -> rows]
    PROVE  /\ Stay(ordered) \in SUBSET Nat /\ Stay(ordered) \subseteq 1..Cardinality(rows)
           /\ IsFiniteSet(Stay(ordered))
           /\ Cardinality(Stay(ordered)) \in Nat
           /\ Cardinality(Stay(ordered)) <= Cardinality(rows)
<1>1. Cardinality(rows) \in Nat
  BY FS_CardinalityType
<1>2. IsFiniteSet(1..Cardinality(rows)) /\ Cardinality(1..Cardinality(rows)) = Cardinality(rows)
  BY <1>1, FS_Interval
<1>3. Stay(ordered) \in SUBSET (1..Cardinality(rows))
  BY DEF Stay
<1>4. /\ IsFiniteSet(Stay(ordered))
      /\ Cardinality(Stay(ordered)) <= Cardinality(1..Cardinality(rows))
  BY <1>2, <1>3, FS_Subset
<1> QED
  BY <1>1, <1>2, <1>3, <1>4, FS_CardinalityType

\* The rows of a source that lie above p, and are not dropped.
Above(ordered, p) ==
    {j \in 1..(p-1) : Fact[ordered[j]].site = Fact[ordered[p]].site} \ Capped(ordered)

\* The first rows of a source are never dropped: whatever is dropped has as many
\* rows of its source above it as the cap allows, every one of them kept.
LEMMA CapLeavesEnough ==
    ASSUME NEW n \in Nat, NEW ordered, DOMAIN ordered = 1..n,
           NEW p \in Capped(ordered)
    PROVE  /\ Fact[ordered[p]].site # Null
           /\ Above(ordered, p) \subseteq 1..(p-1)
           /\ IsFiniteSet(Above(ordered, p))
           /\ Cardinality(Above(ordered, p)) \in Nat
           /\ Cardinality(Above(ordered, p)) >= MaxPerSource
<1> DEFINE site == Fact[ordered[p]].site
           J == {j \in 1..(p-1) : Fact[ordered[j]].site = site}
           upTo == [i \in J |-> {j \in J : j <= i}]
           L == InOrder(J)
           A == Above(ordered, p)
<1>1. /\ p \in 1..n /\ site # Null
      /\ Cardinality(J) >= MaxPerSource
  BY DEF Capped
<1>2. MaxPerSource \in Nat \ {0}
  BY DeckAssumption
<1>3. IsFiniteSet(1..(p-1)) /\ J \in SUBSET (1..(p-1)) /\ J \in SUBSET Nat
  BY <1>1, FS_Interval
<1>4. IsFiniteSet(J)
  BY <1>3, FS_Subset
<1>5. Cardinality(J) \in Nat
  BY <1>4, FS_CardinalityType
<1>6. A \in SUBSET J
  BY DEF Above
<1>7. IsFiniteSet(A) /\ Cardinality(A) \in Nat
  BY <1>4, <1>6, FS_Subset, FS_CardinalityType
<1>8. Lists(L, J, upTo)
  BY <1>3, <1>4, NumbersInOrder
<1>9. L \in [1..Cardinality(J) -> J] /\ \A k \in 1..Cardinality(J) : Cardinality(upTo[L[k]]) = k
  BY <1>8 DEF Lists
<1> DEFINE same(x) == {j \in 1..(x-1) : Fact[ordered[j]].site = Fact[ordered[x]].site}
<1>14. /\ \A x \in Capped(ordered) : Cardinality(same(x)) >= MaxPerSource
       /\ \A j : j \in J <=> j \in 1..(p-1) /\ Fact[ordered[j]].site = site
       /\ \A x \in J : upTo[x] = {j \in J : j <= x}
       /\ A = J \ Capped(ordered)
       /\ \A x, j : j \in same(x) <=>
             j \in 1..(x-1) /\ Fact[ordered[j]].site = Fact[ordered[x]].site
  BY DEF Capped, Above
<1> HIDE DEF J, upTo, L, A, site, same
<1>10. ASSUME NEW k \in 1..MaxPerSource
       PROVE  L[k] \in A
  <2>1. k \in 1..Cardinality(J)
    BY <1>1, <1>2, <1>5
  <2>2. L[k] \in J /\ Cardinality(upTo[L[k]]) = k
    BY <1>9, <2>1
  <2> DEFINE x == L[k]
  <2>3. x \in J /\ x \in 1..(p-1) /\ Fact[ordered[x]].site = site
    BY <1>14, <2>2
  <2>4. upTo[x] = {j \in J : j <= x} /\ Cardinality(upTo[x]) = k
    BY <1>14, <2>2
  <2> HIDE DEF x
  <2>5. ASSUME NEW j
        PROVE  j \in same(x) <=> j \in upTo[x] \ {x}
    <3>1. j \in 1..(x-1) <=> j \in 1..(p-1) /\ j <= x /\ j # x
      BY <1>1, <2>3
    <3>2. j \in upTo[x] <=> j \in J /\ j <= x
      BY <2>4
    <3> QED
      BY <1>14, <2>3, <3>1, <3>2
  <2>6. same(x) = upTo[x] \ {x}
    BY <2>5
  <2>7. upTo[x] \in SUBSET J /\ x \in upTo[x]
    BY <1>3, <2>3, <2>4
  <2>8. IsFiniteSet(upTo[x])
    BY <1>4, <2>7, FS_Subset
  <2>9. Cardinality(same(x)) = k - 1
    BY <2>4, <2>6, <2>7, <2>8, FS_RemoveElement
  <2>10. ~(Cardinality(same(x)) >= MaxPerSource)
    BY <1>2, <2>9
  <2>11. x \notin Capped(ordered)
    BY <1>14, <2>10
  <2>12. x \in A
    BY <1>14, <2>3, <2>11
  <2> QED
    BY <2>12 DEF x
<1> DEFINE f == [k \in 1..MaxPerSource |-> L[k]]
<1>11. f \in Injection(1..MaxPerSource, A)
  <2>1. f \in [1..MaxPerSource -> A]
    BY <1>10
  <2>2. ASSUME NEW j \in 1..MaxPerSource, NEW k \in 1..MaxPerSource, f[j] = f[k]
        PROVE  j = k
    <3>1. j \in 1..Cardinality(J) /\ k \in 1..Cardinality(J)
      BY <1>1, <1>2, <1>5
    <3>2. L[j] = L[k]
      BY <2>2
    <3> QED
      BY <1>9, <3>1, <3>2
  <2> HIDE DEF f
  <2>3. DOMAIN f = 1..MaxPerSource
    BY <2>1
  <2> QED
    BY <2>1, <2>2, <2>3 DEF Injection, IsInjective
<1>12. Cardinality(1..MaxPerSource) <= Cardinality(A)
  BY <1>7, <1>11, FS_Injection
<1>13. Cardinality(1..MaxPerSource) = MaxPerSource
  BY <1>2, FS_Interval
<1>15. Cardinality(A) >= MaxPerSource /\ A \subseteq 1..(p-1)
  BY <1>2, <1>3, <1>6, <1>7, <1>12, <1>13
<1> QED
  BY <1>1, <1>7, <1>15 DEF A, site

\* What is kept of a list: its undropped rows in its order, the strongest of all
\* of them first.
KeptWell(kept, ordered, rows, b) ==
    /\ kept \in Seq(rows) /\ Len(kept) <= Cardinality(rows)
    /\ \A p \in Stay(ordered) : \E i \in 1..Len(kept) : kept[i] = ordered[p]
    /\ \A i, j \in 1..Len(kept) : i <= j => b[kept[i]] >= b[kept[j]]
    /\ rows # {} => Len(kept) >= 1 /\ \A r \in rows : b[kept[1]] >= b[r]

LEMMA KeptIsWell ==
    ASSUME NEW rows, IsFiniteSet(rows), NEW b, NEW ordered, ByStrength(ordered, rows, b)
    PROVE  KeptWell(Kept(ordered), ordered, rows, b)
<1> DEFINE S == Stay(ordered)
           stay == InOrder(S)
           m == Cardinality(S)
           n == Cardinality(rows)
           kept == Kept(ordered)
<1>1. /\ ordered \in [1..n -> rows]
      /\ \A r \in rows : \E k \in 1..n : ordered[k] = r
      /\ \A j, k \in 1..n : j <= k => b[ordered[j]] >= b[ordered[k]]
  BY DEF ByStrength
<1>2. /\ S \in SUBSET Nat /\ S \subseteq 1..n /\ IsFiniteSet(S)
      /\ m \in Nat /\ m <= n
  BY <1>1, StayFinite
<1>3. n \in Nat
  BY FS_CardinalityType
<1>4. Enumerates(stay, S)
  BY <1>2, InOrderEnumerates
<1>5. /\ stay \in [1..m -> S]
      /\ \A i \in S : \E k \in 1..m : stay[k] = i
      /\ \A j, k \in 1..m : j <= k <=> stay[j] <= stay[k]
  BY <1>4 DEF Enumerates
<1>6. kept = [i \in DOMAIN stay |-> ordered[stay[i]]]
  BY DEF Kept, Stay
<1>7. DOMAIN ordered = 1..n
  BY <1>1
<1>13. 1 \in 1..n => 1 \in S
  <2>1. SUFFICES ASSUME 1 \in 1..n, 1 \in Capped(ordered)
                 PROVE  FALSE
    BY <1>7 DEF Stay
  <2>2. 1..(1-1) = {}
    OBVIOUS
  <2>3. Cardinality({j \in 1..(1-1) : Fact[ordered[j]].site = Fact[ordered[1]].site})
           >= MaxPerSource
    BY <2>1 DEF Capped
  <2>4. {j \in 1..(1-1) : Fact[ordered[j]].site = Fact[ordered[1]].site} = {}
    BY <2>2
  <2>5. 0 >= MaxPerSource
    BY <2>3, <2>4, FS_EmptySet
  <2> QED
    BY <2>5, DeckAssumption
<1> HIDE DEF S, stay, m, n, kept
<1>8. \A i \in 1..m : kept[i] = ordered[stay[i]] /\ stay[i] \in S /\ kept[i] \in rows
  BY <1>1, <1>2, <1>5, <1>6
<1>9. kept \in [1..m -> rows]
  BY <1>5, <1>6, <1>8
<1>10. kept \in Seq(rows) /\ Len(kept) = m
  BY <1>2, <1>9, LenProperties, SeqDef
<1>11. \A p \in S : \E i \in 1..m : kept[i] = ordered[p]
  BY <1>5, <1>8
<1>12. ASSUME NEW i \in 1..m, NEW j \in 1..m, i <= j
       PROVE  b[kept[i]] >= b[kept[j]]
  <2>1. stay[i] <= stay[j] /\ stay[i] \in 1..n /\ stay[j] \in 1..n
    BY <1>2, <1>5, <1>8, <1>12
  <2> QED
    BY <1>1, <1>8, <2>1
<1>14. rows # {} => m >= 1 /\ \A r \in rows : b[kept[1]] >= b[r]
  <2>1. SUFFICES ASSUME rows # {}
                 PROVE  m >= 1 /\ \A r \in rows : b[kept[1]] >= b[r]
    OBVIOUS
  <2>2. 1 \in 1..n
    BY <1>1, <1>3, <2>1
  <2>3. 1 \in S
    BY <1>13, <2>2
  <2>4. PICK k \in 1..m : stay[k] = 1
    BY <1>5, <2>3
  <2>5. m >= 1 /\ 1 \in 1..m
    BY <1>2, <2>4
  <2>6. stay[1] <= stay[k] /\ stay[1] \in 1..n
    <3>1. 1 <= k
      BY <1>2, <2>4
    <3> QED
      BY <1>2, <1>5, <1>8, <2>4, <2>5, <3>1
  <2>7. stay[1] = 1
    BY <1>3, <2>4, <2>6
  <2>8. kept[1] = ordered[1]
    BY <1>8, <2>5, <2>7
  <2>9. ASSUME NEW r \in rows
        PROVE  b[kept[1]] >= b[r]
    <3>1. PICK p \in 1..n : ordered[p] = r
      BY <1>1
    <3>2. 1 <= p
      BY <1>3
    <3> QED
      BY <1>1, <2>2, <2>8, <3>1, <3>2
  <2> QED
    BY <2>5, <2>9
<1>15. KeptWell(kept, ordered, rows, b)
  BY <1>2, <1>10, <1>11, <1>12, <1>14 DEF KeptWell, S, n
<1> QED
  BY <1>15 DEF kept

\* What the bar leaves out, it leaves out of a prompt that is broad enough.
Barred(ranked, b, cut) ==
    /\ cut \in 0..Len(ranked)
    /\ \A i \in 1..Len(ranked) : i > cut =>
          /\ ~Strong(b[ranked[i]], b[ranked[1]])
          /\ cut >= MinRows /\ Apart({ranked[j] : j \in 1..cut}) >= MinSources

LEMMA StrongIsUpward ==
    ASSUME NEW s \in Nat, NEW t \in Nat, NEW top \in Nat, t >= s, Strong(s, top)
    PROVE  Strong(t, top)
<1> DEFINE bar == Relative * top
<1>1. Absolute \in Nat /\ bar \in Nat
  BY DeckAssumption
<1>2. s >= Absolute /\ 100 * s >= bar
  BY DEF Strong
<1> HIDE DEF bar
<1>3. t >= Absolute /\ 100 * t >= bar
  BY <1>1, <1>2
<1> QED
  BY <1>3 DEF Strong, bar

LEMMA BarIsFair ==
    ASSUME NEW rows, NEW b, \A r \in rows : b[r] \in Nat, NEW ranked \in Seq(rows),
           \A i, j \in 1..Len(ranked) : i <= j => b[ranked[i]] >= b[ranked[j]]
    PROVE  Barred(ranked, b, Admitted(ranked, b))
<1> DEFINE n == Len(ranked)
           D == {i \in DOMAIN ranked : Strong(b[ranked[i]], b[ranked[1]])}
           strong == Cardinality(D)
           broad == {k \in strong..n :
                        k >= MinRows /\ Apart({ranked[i] : i \in 1..k}) >= MinSources}
           cut == Admitted(ranked, b)
<1>1. n \in Nat /\ DOMAIN ranked = 1..n /\ \A i \in 1..n : ranked[i] \in rows
  BY LenProperties
<1>2. IsFiniteSet(1..n) /\ Cardinality(1..n) = n /\ D \in SUBSET (1..n)
  BY <1>1, FS_Interval
<1>3. IsFiniteSet(D) /\ strong \in Nat /\ strong <= n
  BY <1>2, FS_Subset, FS_CardinalityType
<1>4. ASSUME NEW i \in 1..n, i > strong
      PROVE  ~Strong(b[ranked[i]], b[ranked[1]])
  <2>1. SUFFICES ASSUME Strong(b[ranked[i]], b[ranked[1]])
                 PROVE  FALSE
    OBVIOUS
  <2>2. ASSUME NEW j \in 1..i
        PROVE  j \in D
    <3>1. j \in 1..n /\ j <= i /\ 1 \in 1..n
      BY <1>1
    <3>2. /\ b[ranked[j]] \in Nat /\ b[ranked[i]] \in Nat /\ b[ranked[1]] \in Nat
          /\ b[ranked[j]] >= b[ranked[i]]
      BY <1>1, <3>1
    <3>3. Strong(b[ranked[j]], b[ranked[1]])
      BY <2>1, <3>2, StrongIsUpward
    <3> QED
      BY <1>1, <3>1, <3>3
  <2>3. IsFiniteSet(1..i) /\ Cardinality(1..i) = i
    <3>1. i \in Int /\ 1 \in Int /\ i >= 1
      BY <1>1
    <3>2. IsFiniteSet(1..i) /\ Cardinality(1..i) = IF 1 > i THEN 0 ELSE i - 1 + 1
      BY <3>1, FS_Interval, Zenon
    <3> QED
      BY <3>1, <3>2
  <2>4. 1..i \in SUBSET D
    BY <2>2
  <2>5. Cardinality(1..i) <= strong
    BY <1>3, <2>4, FS_Subset
  <2> QED
    BY <1>1, <1>3, <1>4, <2>3, <2>5
<1>5. cut = IF broad = {} THEN n ELSE Min(broad)
  BY DEF Admitted
<1>6. \A k \in broad : /\ k \in strong..n /\ k >= MinRows
                       /\ Apart({ranked[i] : i \in 1..k}) >= MinSources
  OBVIOUS
<1> HIDE DEF strong, broad, cut
<1>7. CASE broad = {}
  <2>1. cut = n /\ cut \in 0..n
    BY <1>1, <1>5, <1>7
  <2>2. \A i \in 1..n : ~(i > cut)
    BY <1>1, <2>1
  <2> QED
    BY <2>1, <2>2 DEF Barred, cut
<1>8. CASE broad # {}
  <2>1. broad \in SUBSET Nat
    <3>1. ASSUME NEW k \in broad  PROVE  k \in Nat
      <4>1. k \in strong..n
        BY <1>6
      <4> QED
        BY <1>1, <1>3, <4>1
    <3> QED
      BY <3>1
  <2>2. cut \in broad
    BY <1>5, <1>8, <2>1, Least
  <2>3. /\ cut \in strong..n /\ cut >= MinRows
        /\ Apart({ranked[j] : j \in 1..cut}) >= MinSources
    BY <1>6, <2>2
  <2>4. cut \in 0..n /\ \A i \in 1..n : i > cut => i > strong
    BY <1>1, <1>3, <2>3
  <2> QED
    BY <1>4, <2>3, <2>4 DEF Barred, cut
<1> QED
  BY <1>7, <1>8

-----------------------------------------------------------------------------
\* The prompt, as the cap and the bar leave it.

\* A row below the bar of a prompt broad enough without it.
BelowBar(r, rows, b, prompt) ==
    /\ ~Strong(b[r], Max({b[s] : s \in rows}))
    /\ Len(prompt) >= MinRows /\ Apart(Range(prompt)) >= MinSources
    /\ \A s \in Range(prompt) : b[s] >= b[r]

\* A row that gave way to those of its own source.
GaveWay(r, b, prompt) ==
    /\ Fact[r].site # Null
    /\ Cardinality({s \in Range(prompt) : Fact[s].site = Fact[r].site /\ b[s] >= b[r]})
          >= MaxPerSource

LEMMA TopOf ==
    ASSUME NEW rows, NEW b, \A r \in rows : b[r] \in Nat,
           NEW t \in rows, \A r \in rows : b[t] >= b[r]
    PROVE  Max({b[s] : s \in rows}) = b[t]
<1> DEFINE S == {b[s] : s \in rows}
<1>1. S \in SUBSET Nat /\ b[t] \in S /\ \A i \in S : i <= b[t]
  OBVIOUS
<1> HIDE DEF S
<1>2. b[t] \in Nat /\ S # {}
  BY <1>1
<1>3. Max(S) \in S /\ \A i \in S : i <= Max(S)
  BY <1>1, <1>2, Greatest
<1>4. Max(S) = b[t]
  <2>1. Max(S) <= b[t] /\ b[t] <= Max(S) /\ Max(S) \in Nat
    BY <1>1, <1>3
  <2> QED
    BY <1>2, <2>1
<1> QED
  BY <1>4 DEF S

\* The prompt is a head of the rows kept.
Heads(prompt, kept, cut) ==
    /\ cut \in 0..Len(kept)
    /\ Len(prompt) = cut /\ DOMAIN prompt = 1..cut
    /\ \A i \in 1..cut : prompt[i] = kept[i]
    /\ Range(prompt) = {kept[i] : i \in 1..cut}

LEMMA PromptHeads ==
    ASSUME NEW rows, NEW kept \in Seq(rows), NEW cut \in 0..Len(kept)
    PROVE  SubSeq(kept, 1, cut) \in Seq(rows) /\ Heads(SubSeq(kept, 1, cut), kept, cut)
<1> DEFINE prompt == SubSeq(kept, 1, cut)
<1>1. Len(kept) \in Nat /\ \A i \in 1..Len(kept) : kept[i] \in rows
  BY LenProperties
<1>2. cut \in Nat /\ 1 \in Int /\ cut \in Int /\ \A i \in 1..cut : kept[i] \in rows
  BY <1>1
<1>3. /\ prompt \in Seq(rows)
      /\ Len(prompt) = IF 1 <= cut THEN cut - 1 + 1 ELSE 0
      /\ \A i \in 1..(cut - 1 + 1) : prompt[i] = kept[1 + i - 1]
  BY <1>2, SubSeqProperties
<1> HIDE DEF prompt
<1>4. Len(prompt) = cut /\ \A i \in 1..cut : prompt[i] = kept[i]
  BY <1>2, <1>3
<1>5. DOMAIN prompt = 1..cut
  BY <1>3, <1>4, LenProperties
<1>6. Range(prompt) = {kept[i] : i \in 1..cut}
  BY <1>4, <1>5 DEF Range
<1>7. prompt \in Seq(rows) /\ Heads(prompt, kept, cut)
  BY <1>3, <1>4, <1>5, <1>6 DEF Heads
<1> QED
  BY <1>7 DEF prompt

PromptWell(prompt, rows, b) ==
    /\ prompt \in Seq(rows) /\ Len(prompt) <= Cardinality(rows)
    /\ \A r \in rows \ Range(prompt) : GaveWay(r, b, prompt) \/ BelowBar(r, rows, b, prompt)

\* Whoever is left out gave way to its own source, every row of which is in, or
\* is no stronger than a row the bar left out.
LEMMA PromptIsWell ==
    ASSUME NEW rows \in SUBSET Rows, IsFiniteSet(rows), NEW b, \A r \in rows : b[r] \in Nat,
           NEW ordered, ByStrength(ordered, rows, b)
    PROVE  PromptWell(Prompt(ordered, b), rows, b)
<1> DEFINE n == Cardinality(rows)
           kept == Kept(ordered)
           cut == Admitted(kept, b)
           prompt == Prompt(ordered, b)
           inside == Range(prompt)
<1>1. /\ ordered \in [1..n -> rows]
      /\ \A r \in rows : \E k \in 1..n : ordered[k] = r
      /\ \A j, k \in 1..n : j <= k => b[ordered[j]] >= b[ordered[k]]
      /\ \A j, k \in 1..n : ordered[j] = ordered[k] => j = k
  BY DEF ByStrength
<1>2. n \in Nat
  BY FS_CardinalityType
<1>3. /\ kept \in Seq(rows) /\ Len(kept) <= n
      /\ \A p \in Stay(ordered) : \E i \in 1..Len(kept) : kept[i] = ordered[p]
      /\ \A i, j \in 1..Len(kept) : i <= j => b[kept[i]] >= b[kept[j]]
      /\ rows # {} => Len(kept) >= 1 /\ \A r \in rows : b[kept[1]] >= b[r]
  BY KeptIsWell DEF KeptWell
<1>4. Len(kept) \in Nat /\ \A i \in 1..Len(kept) : kept[i] \in rows
  BY <1>3, LenProperties
<1>5. Barred(kept, b, cut)
  BY <1>3, BarIsFair
<1>6. cut \in 0..Len(kept)
  BY <1>5 DEF Barred
<1>7. prompt = SubSeq(kept, 1, cut)
  BY DEF Prompt
<1>18. /\ DOMAIN ordered = 1..n
       /\ \A p : p \in Stay(ordered) <=> p \in 1..n /\ p \notin Capped(ordered)
  BY <1>1 DEF Stay
<1> HIDE DEF kept, cut, prompt, n
<1>8. prompt \in Seq(rows) /\ Heads(prompt, kept, cut)
  BY <1>3, <1>6, <1>7, PromptHeads
<1>9. /\ Len(prompt) = cut
      /\ inside = {kept[i] : i \in 1..cut}
  BY <1>8 DEF Heads
<1>10. inside \in SUBSET rows /\ IsFiniteSet(inside)
  <2>1. inside \in SUBSET rows
    BY <1>4, <1>6, <1>9
  <2> QED
    BY <2>1, FS_Subset
<1> HIDE DEF inside
<1>11. ASSUME NEW p \in Stay(ordered), ordered[p] \notin inside, NEW r \in rows,
              b[ordered[p]] >= b[r]
       PROVE  BelowBar(r, rows, b, prompt)
  <2>1. PICK i \in 1..Len(kept) : kept[i] = ordered[p]
    BY <1>3
  <2>2. i > cut
    BY <1>4, <1>6, <1>9, <1>11, <2>1
  <2>3. /\ ~Strong(b[kept[i]], b[kept[1]])
        /\ cut >= MinRows /\ Apart({kept[j] : j \in 1..cut}) >= MinSources
    BY <1>5, <2>2 DEF Barred
  <2>4. 1 \in 1..Len(kept) /\ kept[1] \in rows /\ kept[i] \in rows
    BY <1>4, <2>1
  <2>5. \A s \in rows : b[kept[1]] >= b[s]
    BY <1>3
  <2>6. Max({b[s] : s \in rows}) = b[kept[1]]
    BY <2>4, <2>5, TopOf
  <2>7. ~Strong(b[r], b[kept[1]])
    <3>1. b[kept[i]] \in Nat /\ b[kept[1]] \in Nat /\ b[r] \in Nat /\ b[kept[i]] >= b[r]
      BY <1>11, <2>1, <2>4
    <3> QED
      BY <2>3, <3>1, StrongIsUpward
  <2>8. ASSUME NEW s \in inside
        PROVE  b[s] >= b[r]
    <3>1. PICK j \in 1..cut : kept[j] = s
      BY <1>9
    <3>2. j \in 1..Len(kept) /\ j <= i
      BY <1>4, <1>6, <2>2
    <3>3. b[kept[j]] >= b[kept[i]] /\ kept[j] \in rows
      BY <1>3, <1>4, <3>2
    <3>4. b[s] \in Nat /\ b[kept[i]] \in Nat /\ b[r] \in Nat
      BY <2>4, <3>1, <3>3
    <3> QED
      BY <1>11, <2>1, <3>1, <3>3, <3>4
  <2>9. Len(prompt) >= MinRows /\ Apart(inside) >= MinSources
    BY <1>9, <2>3
  <2> QED
    BY <2>6, <2>7, <2>8, <2>9 DEF BelowBar, inside
<1>12. ASSUME NEW r \in rows \ inside
       PROVE  GaveWay(r, b, prompt) \/ BelowBar(r, rows, b, prompt)
  <2>1. PICK p \in 1..n : ordered[p] = r
    BY <1>1
  <2>2. CASE p \notin Capped(ordered)
    <3>1. p \in Stay(ordered) /\ b[ordered[p]] >= b[r]
      BY <1>18, <2>1, <2>2
    <3> QED
      BY <1>11, <2>1, <3>1
  <2>3. CASE p \in Capped(ordered)
    <3> DEFINE A == Above(ordered, p)
               W == {s \in inside : Fact[s].site = Fact[r].site /\ b[s] >= b[r]}
    <3>1. /\ Fact[r].site # Null
          /\ A \subseteq 1..(p-1) /\ IsFiniteSet(A)
          /\ Cardinality(A) \in Nat /\ Cardinality(A) >= MaxPerSource
      BY <1>2, <1>18, <2>1, <2>3, CapLeavesEnough
    <3>2. ASSUME NEW j \in A
          PROVE  /\ j \in Stay(ordered) /\ j \in 1..n /\ ordered[j] \in rows
                 /\ b[ordered[j]] >= b[r]
                 /\ Fact[ordered[j]].site = Fact[r].site
      <4>1. j \in 1..n /\ j <= p
        BY <1>2, <2>1, <3>1
      <4>2. j \notin Capped(ordered) /\ Fact[ordered[j]].site = Fact[ordered[p]].site
        BY DEF Above
      <4> QED
        BY <1>1, <1>18, <2>1, <4>1, <4>2
    <3>3. CASE \E j \in A : ordered[j] \notin inside
      BY <1>11, <3>2, <3>3
    <3>4. CASE \A j \in A : ordered[j] \in inside
      <4> DEFINE f == [j \in A |-> ordered[j]]
      <4> HIDE DEF A
      <4>1. f \in [A -> W]
        BY <3>2, <3>4
      <4>2. IsFiniteSet(W) /\ Cardinality(W) \in Nat
        BY <1>10, FS_Subset, FS_CardinalityType
      <4>3. \A i, j \in A : f[i] = f[j] => i = j
        BY <1>1, <3>2
      <4> HIDE DEF W, f
      <4>4. f \in Injection(A, W)
        BY <4>1, <4>3 DEF Injection, IsInjective
      <4>5. Cardinality(A) <= Cardinality(W)
        BY <4>2, <4>4, FS_Injection
      <4>6. Cardinality(W) >= MaxPerSource
        BY <3>1, <4>2, <4>5, DeckAssumption
      <4> QED
        BY <3>1, <4>6 DEF GaveWay, W, inside
    <3> QED
      BY <3>3, <3>4
  <2> QED
    BY <2>2, <2>3
<1>13. Len(prompt) <= n
  BY <1>2, <1>3, <1>4, <1>6, <1>9
<1>14. PromptWell(prompt, rows, b)
  BY <1>8, <1>12, <1>13 DEF PromptWell, inside, n
<1> QED
  BY <1>14 DEF prompt

-----------------------------------------------------------------------------
\* The inductive invariant.

Claims == {"current_state", "pattern", "opportunity", "listing_fact"}
CardRows == [cites : SUBSET Rows, asserts : BOOLEAN, tier : Claims \cup {Null}, cents : Nat]
Judgements == [action : {"publish", "demote", "withhold"}, checked : BOOLEAN]
Costs == {0, 1, Null}
Verdict == Verdicts \cup {"silence"}
Price == {"free", "paid", "unusable", "silence"}
Finds == [status : {"withheld", "proposed"}, cents : Nat, cost : Costs]

Types ==
    /\ memory \in SUBSET Rows
    /\ pc \in {"retrieve", "propose", "refute", "cost", "store", "done"}
    /\ best \in [Rows -> Nat \cup {Null}] /\ hits \in Seq(Rows)
    /\ receipt \in [raw : Nat, unique : Nat, capped : Nat, floored : Int]
    /\ cards \in Seq(CardRows)
    /\ judged \in [DOMAIN cards -> Judgements \cup {Null}]
    /\ priced \in [DOMAIN cards -> Costs]
    /\ said \in [DOMAIN cards -> [verdict : Verdict, cost : Price]]
    /\ board \in Seq(Finds) /\ Len(board) <= Len(cards)
    /\ run \in {"running", "ok", "failed", "refused"}

\* Nothing is proposed before the model is asked, nothing stored before both of
\* the other models were.
NothingYet ==
    /\ pc \in {"retrieve", "propose"} => cards = <<>>
    /\ pc \in {"retrieve", "propose", "refute", "cost"} => board = <<>>
    /\ pc # "done" => run = "running"

\* A claim that passed has the evidence its standard asks for.
Stands(card) ==
    card.tier # Null =>
        /\ card.asserts \/ card.tier = "current_state" => CurrentStateSupported(card.cites)
        /\ card.tier = "pattern" => Cardinality(Sites(card.cites)) >= 2

ClaimsStand == \A i \in DOMAIN cards : Stands(cards[i])

\* A card carries the judgement it was given under the number it was shown under,
\* and a card nobody was asked about carries none.
Asked(i) == cards[i].tier # Null /\ "refuter" \in wired /\ pc \notin {"retrieve", "propose", "refute"}

JudgedAsTold ==
    \A i \in DOMAIN cards :
        /\ Asked(i) => judged[i] = Judgement(said[i].verdict)
        /\ ~Asked(i) => judged[i] = Null /\ said[i].verdict = "silence"

PricedAsTold == \A i \in DOMAIN cards : priced[i] # Null => priced[i] = Cents(said[i].cost)

BoardAsDecided == \A i \in DOMAIN board : board[i] = Stored(i)

\* What was counted covers what may be cited, and what was.
CountsHold ==
    /\ receipt.unique <= receipt.raw
    /\ receipt.unique + receipt.capped + receipt.floored <= receipt.raw
    /\ pc = "propose" => Cardinality(Range(hits)) <= receipt.unique
    /\ Cited <= receipt.unique

IInv == /\ Types /\ NothingYet /\ ClaimsStand /\ JudgedAsTold /\ PricedAsTold
        /\ BoardAsDecided /\ CountsHold /\ FailedForCause /\ PromptIsFair

-----------------------------------------------------------------------------
\* What retrieval leaves behind.

LEMMA TopIsLevel ==
    ASSUME NEW sim \in [Queries -> [Rows -> Levels]], NEW found \in [Queries -> SUBSET Rows]
    PROVE  /\ Strengths(sim, found) \in [Rows -> Nat \cup {Null}]
           /\ \A r \in Rows : Strengths(sim, found)[r] # Null <=> r \in Union(found)
           /\ \A r \in Union(found) : r \in Rows /\ Strengths(sim, found)[r] \in Nat
<1> DEFINE top == Strengths(sim, found)
           union == Union(found)
<1>1. ASSUME NEW r \in Rows, r \in union
      PROVE  top[r] \in Nat
  <2> DEFINE S == {sim[q][r] : q \in {p \in Queries : r \in found[p]}}
  <2>1. \A q \in Queries : sim[q][r] \in Levels
    OBVIOUS
  <2>2. \A x \in Levels : x \in Nat /\ x <= 100
    BY DeckAssumption
  <2>3. S \in SUBSET Nat /\ S # {} /\ \A i \in S : i <= 100
    BY <1>1, <2>1, <2>2 DEF Union
  <2>4. top[r] = Max(S)
    BY <1>1 DEF Strengths
  <2> HIDE DEF S
  <2>5. Max(S) \in S
    BY <2>3, Greatest
  <2> QED
    BY <2>3, <2>4, <2>5
<1>2. \A r \in Rows : r \notin union => top[r] = Null
  BY DEF Strengths
<1>3. Null \notin Nat
  BY DeckAssumption
<1>4. DOMAIN top = Rows /\ top = [r \in Rows |-> top[r]]
  BY DEF Strengths
<1>5. \A r \in union : r \in Rows
  BY DEF Union
<1> HIDE DEF top, union
<1>6. top \in [Rows -> Nat \cup {Null}]
  BY <1>1, <1>2, <1>4
<1>7. \A r \in Rows : top[r] # Null <=> r \in union
  BY <1>1, <1>2, <1>3
<1>8. \A r \in union : r \in Rows /\ top[r] \in Nat
  BY <1>1, <1>5
<1> QED
  BY <1>6, <1>7, <1>8 DEF top, union

\* A row found by several questions is counted by each of them.
LEMMA UnionWithinMatches ==
    ASSUME NEW mem \in SUBSET Rows, NEW found \in [Queries -> SUBSET mem]
    PROVE  /\ IsFiniteSet(Union(found))
           /\ Cardinality(Union(found)) \in Nat
           /\ Cardinality({m \in Queries \X mem : m[2] \in found[m[1]]}) \in Nat
           /\ Cardinality(Union(found))
                 <= Cardinality({m \in Queries \X mem : m[2] \in found[m[1]]})
<1> DEFINE union == Union(found)
           pairs == {m \in Queries \X mem : m[2] \in found[m[1]]}
           f == [m \in pairs |-> m[2]]
<1>1. IsFiniteSet(mem) /\ IsFiniteSet(Queries)
  BY DeckAssumption, FS_Subset
<1>2. IsFiniteSet(Queries \X mem)
  BY <1>1, FS_Product
<1>3. pairs \in SUBSET (Queries \X mem)
  OBVIOUS
<1>4. IsFiniteSet(pairs)
  BY <1>2, <1>3, FS_Subset
<1>5. f \in Surjection(pairs, union)
  <2>1. f \in [pairs -> union]
    BY DEF Union
  <2>2. ASSUME NEW r \in union
        PROVE  \E m \in pairs : f[m] = r
    <3>1. PICK q \in Queries : r \in found[q]
      BY DEF Union
    <3>2. r \in mem
      BY <3>1
    <3>3. <<q, r>> \in pairs /\ f[<<q, r>>] = r
      BY <3>1, <3>2
    <3> QED
      BY <3>3
  <2> HIDE DEF f, pairs, union
  <2> QED
    BY <2>1, <2>2 DEF Surjection
<1> HIDE DEF f, pairs, union
<1>6. IsFiniteSet(union) /\ Cardinality(union) <= Cardinality(pairs)
  BY <1>4, <1>5, FS_Surjection
<1>7. Cardinality(union) \in Nat /\ Cardinality(pairs) \in Nat
  BY <1>4, <1>6, FS_CardinalityType
<1> QED
  BY <1>6, <1>7 DEF pairs, union

LEMMA SeqRange ==
    ASSUME NEW S, NEW s \in Seq(S)
    PROVE  /\ Range(s) \in SUBSET S /\ IsFiniteSet(Range(s))
           /\ Cardinality(Range(s)) \in Nat /\ Cardinality(Range(s)) <= Len(s)
<1>1. Len(s) \in Nat /\ s \in [1..Len(s) -> S]
  BY LenProperties
<1>2. Range(s) = {s[i] : i \in 1..Len(s)}
  BY <1>1 DEF Range
<1>3. s \in Surjection(1..Len(s), Range(s))
  BY <1>1, <1>2 DEF Surjection
<1>4. ExistsSurjection(1..Len(s), Range(s))
  BY <1>3 DEF ExistsSurjection
<1>5. IsFiniteSet(Range(s)) /\ Cardinality(Range(s)) <= Len(s)
  BY <1>1, <1>4, FS_NatSurjection, FS_SurjCardinalityBound
<1> QED
  BY <1>1, <1>2, <1>5, FS_CardinalityType

LEMMA CappedCount ==
    ASSUME NEW n \in Nat, NEW ordered, DOMAIN ordered = 1..n
    PROVE  Cardinality(Capped(ordered)) \in Nat
<1>1. Capped(ordered) \in SUBSET (1..n)
  BY DEF Capped
<1>2. IsFiniteSet(1..n)
  BY FS_Interval
<1> QED
  BY <1>1, <1>2, FS_Subset, FS_CardinalityType

\* One retrieval: types, counts, and a prompt no row is missing from for nothing.
LEMMA RetrieveLeaves ==
    ASSUME memory \in SUBSET Rows, Retrieve
    PROVE  /\ best' \in [Rows -> Nat \cup {Null}] /\ hits' \in Seq(Rows)
           /\ receipt' \in [raw : Nat, unique : Nat, capped : Nat, floored : Int]
           /\ receipt'.unique <= receipt'.raw
           /\ receipt'.unique + receipt'.capped + receipt'.floored <= receipt'.raw
           /\ Cardinality(Range(hits')) <= receipt'.unique
           /\ PromptIsFair'
<1>1. PICK sim \in [Queries -> [Rows -> Levels]], tie \in Ties, found \in [Queries -> SUBSET memory] :
        LET top == Strengths(sim, found)
            ordered == Ordered(Union(found), top, tie)
            capped == Cardinality(Capped(ordered))
        IN /\ best' = top
           /\ hits' = Prompt(ordered, top)
           /\ receipt' =
                [raw |-> Cardinality({m \in Queries \X memory : m[2] \in found[m[1]]}),
                 unique |-> Len(hits'), capped |-> capped,
                 floored |-> Len(ordered) - capped - Len(hits')]
  BY Zenon DEF Retrieve
<1> DEFINE union == Union(found)
           top == Strengths(sim, found)
           ordered == Ordered(union, top, tie)
           capped == Cardinality(Capped(ordered))
           raw == Cardinality({m \in Queries \X memory : m[2] \in found[m[1]]})
<1>2. /\ best' = top /\ hits' = Prompt(ordered, top)
      /\ receipt' = [raw |-> raw, unique |-> Len(hits'), capped |-> capped,
                     floored |-> Len(ordered) - capped - Len(hits')]
  BY <1>1
<1>3. found \in [Queries -> SUBSET Rows] /\ union \in SUBSET Rows
  BY DEF Union
<1>4. /\ top \in [Rows -> Nat \cup {Null}]
      /\ \A r \in Rows : top[r] # Null <=> r \in union
      /\ \A r \in union : r \in Rows /\ top[r] \in Nat
  BY <1>3, TopIsLevel
<1>5. /\ IsFiniteSet(union) /\ Cardinality(union) \in Nat
      /\ raw \in Nat /\ Cardinality(union) <= raw
  BY UnionWithinMatches
<1> HIDE DEF union, top, raw
<1>6. ByStrength(ordered, union, top)
  BY <1>3, <1>4, <1>5, OrderedByStrength
<1>7. ordered \in [1..Cardinality(union) -> union]
  BY <1>6 DEF ByStrength
<1>8. DOMAIN ordered = 1..Cardinality(union) /\ Len(ordered) = Cardinality(union)
  <2>1. DOMAIN ordered = 1..Cardinality(union)
    BY <1>7
  <2> HIDE DEF ordered
  <2>2. ordered \in Seq(union)
    BY <1>5, <1>7, SeqDef
  <2>3. DOMAIN ordered = 1..Len(ordered) /\ Len(ordered) \in Nat
    BY <2>2, LenProperties
  <2> QED
    BY <1>5, <2>1, <2>3
<1>9. capped \in Nat
  BY <1>5, <1>8, CappedCount
<1> HIDE DEF ordered, capped
<1>10. PromptWell(hits', union, top)
  BY <1>2, <1>3, <1>4, <1>5, <1>6, PromptIsWell
<1>11. hits' \in Seq(union) /\ Len(hits') <= Cardinality(union)
  BY <1>10 DEF PromptWell
<1>12. hits' \in Seq(Rows) /\ Len(hits') \in Nat
  BY <1>3, <1>11, SeqMonotonic, LenProperties
<1>13. Cardinality(Range(hits')) <= Len(hits')
  BY <1>12, SeqRange
<1>14. /\ receipt'.raw = raw /\ receipt'.unique = Len(hits') /\ receipt'.capped = capped
       /\ receipt'.floored = Cardinality(union) - capped - Len(hits')
  BY <1>2, <1>8
<1>15. /\ receipt' \in [raw : Nat, unique : Nat, capped : Nat, floored : Int]
       /\ receipt'.unique <= receipt'.raw
       /\ receipt'.unique + receipt'.capped + receipt'.floored <= receipt'.raw
  <2>1. Cardinality(union) - capped - Len(hits') \in Int
    BY <1>5, <1>9, <1>12
  <2>2. receipt' \in [raw : Nat, unique : Nat, capped : Nat, floored : Int]
    BY <1>2, <1>5, <1>8, <1>9, <1>12, <2>1
  <2> QED
    BY <1>5, <1>9, <1>11, <1>12, <1>14, <2>2
<1>16. PromptIsFair'
  <2>1. {r \in Rows : best'[r] # Null} = union
    BY <1>2, <1>3, <1>4
  <2>2. \A r \in union \ Range(hits') : GaveWay(r, best', hits') \/ BelowBar(r, union, best', hits')
    BY <1>2, <1>10 DEF PromptWell
  <2> QED
    BY <2>1, <2>2 DEF PromptIsFair, GaveWay, BelowBar
<1> QED
  BY <1>2, <1>4, <1>12, <1>13, <1>14, <1>15, <1>16

-----------------------------------------------------------------------------
\* The operators of the two answers and of the claim standards.

Proposals == [asks : Claims, asserts : BOOLEAN, cites : SUBSET Rows, cents : Nat]

LEMMA ParsedStands ==
    ASSUME NEW card \in Proposals
    PROVE  Parsed(card) \in CardRows /\ Stands(Parsed(card)) /\ Parsed(card).cites = card.cites
<1> DEFINE tier == Tier(card)
           fit == {i \in Start(card)..3 : Carries(Ladder[i], card)}
<1>1. /\ card.asks \in Claims /\ card.asserts \in BOOLEAN
      /\ card.cites \in SUBSET Rows /\ card.cents \in Nat
  BY DEF Proposals
<1>2. Start(card) \in 1..3
  <2>1. Ladder[1] = "current_state" /\ Ladder[2] = "pattern" /\ Ladder[3] = "opportunity"
    BY DEF Ladder
  <2>2. CASE card.asserts
    BY <2>2 DEF Start
  <2>3. CASE ~card.asserts /\ card.asks = "listing_fact"
    BY <2>3 DEF Start
  <2>4. CASE ~card.asserts /\ card.asks # "listing_fact"
    <3>1. \E i \in 1..3 : Ladder[i] = card.asks
      BY <1>1, <2>1, <2>4 DEF Claims
    <3>2. (CHOOSE i \in 1..3 : Ladder[i] = card.asks) \in 1..3
      BY <3>1
    <3> QED
      BY <2>4, <3>2 DEF Start
  <2> QED
    BY <1>1, <2>2, <2>3, <2>4
<1>3. fit \in SUBSET Nat /\ \A i \in fit : i \in 1..3 /\ Carries(Ladder[i], card)
  BY <1>2
<1>4. tier = IF card.asks = "listing_fact" /\ OneDurableFact(card.cites) THEN "listing_fact"
             ELSE IF fit = {} THEN Null ELSE Ladder[Min(fit)]
  BY DEF Tier
<1> DEFINE parsed == Parsed(card)
<1>5. /\ parsed = [cites |-> card.cites, asserts |-> card.asserts, tier |-> tier,
                   cents |-> IF tier = "listing_fact" THEN 0 ELSE card.cents]
  BY DEF Parsed
<1> HIDE DEF fit, tier, parsed
<1>6. \/ tier = "listing_fact" /\ OneDurableFact(card.cites)
      \/ tier = Null
      \/ \E i \in 1..3 : tier = Ladder[i] /\ Carries(tier, card)
  <2>1. CASE fit = {}
    BY <1>4, <2>1
  <2>2. CASE fit # {}
    <3>1. Min(fit) \in fit
      BY <1>3, <2>2, Least
    <3> QED
      BY <1>3, <1>4, <2>2, <3>1
  <2> QED
    BY <2>1, <2>2
<1>7. /\ tier \in Claims \cup {Null}
      /\ tier # Null =>
           /\ card.asserts \/ tier = "current_state" => CurrentStateSupported(card.cites)
           /\ tier = "pattern" => Cardinality(Sites(card.cites)) >= 2
  <2>1. CASE tier = "listing_fact" /\ OneDurableFact(card.cites)
    <3>1. CurrentStateSupported(card.cites)
      BY <2>1 DEF OneDurableFact, CurrentStateSupported
    <3> QED
      BY <2>1, <3>1 DEF Claims
  <2>2. CASE tier = Null
    BY <2>2
  <2>3. CASE \E i \in 1..3 : tier = Ladder[i] /\ Carries(tier, card)
    <3>1. tier \in {"current_state", "pattern", "opportunity"} /\ Carries(tier, card)
      BY <2>3 DEF Ladder
    <3>2. CASE tier = "current_state"
      BY <3>1, <3>2 DEF Carries, Claims
    <3>3. CASE tier = "pattern"
      BY <3>1, <3>3 DEF Carries, Claims
    <3>4. CASE tier = "opportunity"
      BY <3>1, <3>4 DEF Carries, Claims
    <3> QED
      BY <3>1, <3>2, <3>3, <3>4
  <2> QED
    BY <1>6, <2>1, <2>2, <2>3
<1>8. parsed \in CardRows
  BY <1>1, <1>5, <1>7 DEF CardRows
<1>9. parsed.cites = card.cites /\ parsed.asserts = card.asserts /\ parsed.tier = tier
  BY <1>5
<1>10. Stands(parsed)
  BY <1>7, <1>9 DEF Stands
<1> QED
  BY <1>8, <1>9, <1>10 DEF parsed

LEMMA WordSaid ==
    ASSUME NEW words, NEW answer \in Answers(words), NEW index
    PROVE  Word(answer, index) \in words \cup {"silence"}
<1> DEFINE named == {k \in DOMAIN answer : answer[k].index = index}
<1>1. \E m \in Nat : answer \in [1..m -> Items(words)]
  <2>1. CASE Shown = <<>>
    <3>1. answer = <<>>
      BY <2>1 DEF Answers
    <3>2. answer \in [1..0 -> Items(words)]
      BY <3>1
    <3> QED
      BY <3>2
  <2>2. CASE Shown # <<>>
    <3>1. answer \in BoundedSeq(Items(words), MaxAnswers)
      BY <2>2 DEF Answers
    <3>2. MaxAnswers \in Nat
      BY DeckAssumption
    <3>3. answer \in UNION {[1..m -> Items(words)] : m \in 0..MaxAnswers}
      BY <3>1 DEF BoundedSeq, SeqOf
    <3> QED
      BY <3>2, <3>3
  <2> QED
    BY <2>1, <2>2
<1>2. PICK m \in Nat : answer \in [1..m -> Items(words)]
  BY <1>1
<1>3. named \in SUBSET Nat /\ \A k \in named : answer[k] \in Items(words)
  BY <1>2
<1>4. Word(answer, index) = IF named = {} THEN "silence" ELSE answer[Min(named)].word
  BY DEF Word
<1> HIDE DEF named
<1>5. CASE named = {}
  BY <1>4, <1>5
<1>6. CASE named # {}
  <2>1. Min(named) \in named
    BY <1>3, <1>6, Least
  <2>2. answer[Min(named)].word \in words
    BY <1>3, <2>1 DEF Items
  <2> QED
    BY <1>4, <1>6, <2>2
<1> QED
  BY <1>5, <1>6

\* Where a card was shown, and that it was shown at all, counted or looked up.
LEMMA ShownPlace ==
    ASSUME cards \in Seq(CardRows), NEW i \in DOMAIN cards
    PROVE  /\ cards[i].tier = Null => ~\E k \in DOMAIN Shown : Shown[k] = i
           /\ cards[i].tier # Null =>
                /\ \E k \in DOMAIN Shown : Shown[k] = i
                /\ (CHOOSE k \in DOMAIN Shown : Shown[k] = i) = Place(i)
<1> DEFINE S == {j \in DOMAIN cards : cards[j].tier # Null}
           upTo == [j \in S |-> {k \in S : k <= j}]
           n == Len(cards)
<1>1. n \in Nat /\ DOMAIN cards = 1..n
  BY LenProperties
<1>2. S \in SUBSET (1..n) /\ S \in SUBSET Nat /\ IsFiniteSet(1..n)
  <2>1. 1 \in Int /\ n \in Int /\ S \in SUBSET (1..n) /\ S \in SUBSET Nat
    BY <1>1
  <2> HIDE DEF S, n
  <2> QED
    BY <2>1, FS_Interval
<1>3. IsFiniteSet(S)
  BY <1>2, FS_Subset
<1>4. Lists(Shown, S, upTo)
  BY <1>2, <1>3, NumbersInOrder DEF Shown
<1>5. /\ Shown \in [1..Cardinality(S) -> S]
      /\ \A x \in S : /\ Cardinality(upTo[x]) \in 1..Cardinality(S)
                      /\ Shown[Cardinality(upTo[x])] = x
      /\ \A k \in 1..Cardinality(S) : Cardinality(upTo[Shown[k]]) = k
  BY <1>4 DEF Lists
<1>6. DOMAIN Shown = 1..Cardinality(S)
  BY <1>5
<1>7. cards[i].tier = Null => ~\E k \in DOMAIN Shown : Shown[k] = i
  BY <1>5, <1>6
<1>8. ASSUME cards[i].tier # Null
      PROVE  /\ \E k \in DOMAIN Shown : Shown[k] = i
             /\ (CHOOSE k \in DOMAIN Shown : Shown[k] = i) = Place(i)
  <2>1. i \in S
    BY <1>8
  <2>2. upTo[i] = {k \in S : k <= i}
    BY <2>1
  <2>3. upTo[i] = {j \in 1..i : cards[j].tier # Null}
    <3>1. ASSUME NEW j
          PROVE  j \in upTo[i] <=> j \in 1..i /\ cards[j].tier # Null
      <4>1. j \in 1..i <=> j \in 1..n /\ j <= i
        BY <1>1
      <4> QED
        BY <1>1, <2>2, <4>1
    <3> QED
      BY <3>1
  <2>4. Place(i) = Cardinality(upTo[i])
    BY <2>3 DEF Place
  <2> HIDE DEF S, upTo
  <2>5. Place(i) \in DOMAIN Shown /\ Shown[Place(i)] = i
    BY <1>5, <1>6, <2>1, <2>4
  <2>6. \A k \in DOMAIN Shown : Shown[k] = i => k = Place(i)
    BY <1>5, <1>6, <2>4
  <2> QED
    BY <2>5, <2>6
<1> QED
  BY <1>7, <1>8

LEMMA Judged ==
    ASSUME NEW word \in Verdict
    PROVE  /\ Judgement(word) \in Judgements /\ Judgement(word) # Null
           /\ Judgement(word).action = "withhold" <=> word = "withhold"
           /\ Judgement(word).checked /\ Judgement(word).action = "publish" <=> word = "publish"
<1>1. word \in {"publish", "demote", "withhold", "withhold_bare", "unknown", "silence"}
  BY DEF Verdict, Verdicts
<1>2. Null \notin Judgements
  BY DeckAssumption DEF Judgements
<1>3. CASE word \in {"silence", "unknown"}
  <2>1. Judgement(word) = [action |-> "publish", checked |-> FALSE]
    BY <1>3 DEF Judgement
  <2>2. Judgement(word).action = "publish" /\ Judgement(word).checked = FALSE
    BY <2>1
  <2>3. Judgement(word) \in Judgements
    BY <1>3, <2>1 DEF Judgements
  <2>4. Judgement(word) # Null
    BY <1>2, <2>3
  <2> QED
    BY <1>3, <2>2, <2>3, <2>4
<1>4. CASE word = "withhold_bare"
  <2>1. Judgement(word) = [action |-> "demote", checked |-> TRUE]
    BY <1>4 DEF Judgement
  <2>2. Judgement(word).action = "demote" /\ Judgement(word).checked = TRUE
    BY <2>1
  <2>3. Judgement(word) \in Judgements
    BY <2>1 DEF Judgements
  <2>4. Judgement(word) # Null
    BY <1>2, <2>3
  <2> QED
    BY <1>4, <2>2, <2>3, <2>4
<1>5. CASE word \in {"publish", "demote", "withhold"}
  <2>1. Judgement(word) = [action |-> word, checked |-> TRUE]
    BY <1>5 DEF Judgement
  <2>2. Judgement(word).action = word /\ Judgement(word).checked = TRUE
    BY <2>1
  <2>3. Judgement(word) \in Judgements
    BY <1>5, <2>1 DEF Judgements
  <2>4. Judgement(word) # Null
    BY <1>2, <2>3
  <2> QED
    BY <1>5, <2>2, <2>3, <2>4
<1> QED
  BY <1>1, <1>3, <1>4, <1>5

LEMMA Priced ==
    ASSUME NEW word \in Price
    PROVE  /\ Cents(word) \in Costs
           /\ Cents(word) # Null => word = IF Cents(word) = 0 THEN "free" ELSE "paid"
<1> QED
  BY DEF Cents, Costs, Price

-----------------------------------------------------------------------------
\* The invariant holds at first, and after every step.

LEMMA NothingCited == ASSUME cards = <<>> PROVE Cited = 0
<1>1. UNION {cards[i].cites : i \in DOMAIN cards} = {}
  OBVIOUS
<1> QED
  BY <1>1, FS_EmptySet DEF Cited

LEMMA NothingCitedNext == ASSUME cards' = <<>> PROVE Cited' = 0
<1>1. UNION {cards'[i].cites : i \in DOMAIN cards'} = {}
  OBVIOUS
<1> QED
  BY <1>1, FS_EmptySet DEF Cited

LEMMA NoneRetrieved == (\A r \in Rows : best[r] = Null) => PromptIsFair
<1> SUFFICES ASSUME \A r \in Rows : best[r] = Null
             PROVE  PromptIsFair
  OBVIOUS
<1>1. {r \in Rows : best[r] # Null} \ Range(hits) = {}
  OBVIOUS
<1> QED
  BY <1>1 DEF PromptIsFair

LEMMA NoneRetrievedNext == (\A r \in Rows : best'[r] = Null) => PromptIsFair'
<1> SUFFICES ASSUME \A r \in Rows : best'[r] = Null
             PROVE  PromptIsFair'
  OBVIOUS
<1>1. {r \in Rows : best'[r] # Null} \ Range(hits') = {}
  OBVIOUS
<1> QED
  BY <1>1 DEF PromptIsFair

LEMMA PromptStays == ASSUME PromptIsFair, UNCHANGED <<best, hits>> PROVE PromptIsFair'
BY DEF PromptIsFair

LEMMA CountsStay ==
    ASSUME CountsHold, UNCHANGED <<receipt, hits, cards>>, pc' # "propose" \/ pc' = pc
    PROVE  CountsHold'
<1>1. Cited' = Cited
  BY DEF Cited
<1> QED
  BY <1>1 DEF CountsHold

LEMMA EmptyDeck ==
    /\ <<>> \in Seq(CardRows) /\ <<>> \in Seq(Finds) /\ <<>> \in Seq(Rows)
    /\ Len(<<>>) = 0 /\ DOMAIN <<>> = {}
    /\ \A S : <<>> \in [DOMAIN <<>> -> S]
OBVIOUS

LEMMA InitIInv == Init => IInv
<1> SUFFICES ASSUME Init
             PROVE  IInv
  OBVIOUS
<1> USE DEF Init
<1>1. Types
  <2>1. receipt \in [raw : Nat, unique : Nat, capped : Nat, floored : Int]
    OBVIOUS
  <2>2. best \in [Rows -> Nat \cup {Null}] /\ memory \in SUBSET Rows
    OBVIOUS
  <2>3. /\ cards \in Seq(CardRows) /\ board \in Seq(Finds) /\ hits \in Seq(Rows)
        /\ Len(board) <= Len(cards)
        /\ judged \in [DOMAIN cards -> Judgements \cup {Null}]
        /\ priced \in [DOMAIN cards -> Costs]
        /\ said \in [DOMAIN cards -> [verdict : Verdict, cost : Price]]
    BY EmptyDeck
  <2> QED
    BY <2>1, <2>2, <2>3 DEF Types
<1>2. NothingYet
  BY DEF NothingYet
<1>3. ClaimsStand /\ JudgedAsTold /\ PricedAsTold /\ BoardAsDecided
  BY EmptyDeck DEF ClaimsStand, JudgedAsTold, PricedAsTold, BoardAsDecided
<1>4. CountsHold
  BY NothingCited DEF CountsHold
<1>5. FailedForCause
  BY DEF FailedForCause
<1>6. PromptIsFair
  BY NoneRetrieved
<1> QED
  BY <1>1, <1>2, <1>3, <1>4, <1>5, <1>6 DEF IInv

LEMMA RetrieveKeeps == ASSUME IInv, Retrieve PROVE IInv'
<1>1. /\ Types /\ NothingYet
      /\ pc = "retrieve" /\ cards = <<>> /\ board = <<>>
  BY DEF IInv, Retrieve, NothingYet
<1>2. /\ UNCHANGED <<memory, wired, cards, judged, priced, said, board>>
      /\ \/ pc' = "done" /\ run' = "ok"
         \/ pc' = "propose" /\ run' = run
  BY DEF Retrieve
<1>3. memory \in SUBSET Rows
  BY <1>1 DEF Types
<1>4. /\ best' \in [Rows -> Nat \cup {Null}] /\ hits' \in Seq(Rows)
      /\ receipt' \in [raw : Nat, unique : Nat, capped : Nat, floored : Int]
      /\ receipt'.unique <= receipt'.raw
      /\ receipt'.unique + receipt'.capped + receipt'.floored <= receipt'.raw
      /\ Cardinality(Range(hits')) <= receipt'.unique
      /\ PromptIsFair'
  BY <1>3, RetrieveLeaves
<1>5. Types'
  BY <1>1, <1>2, <1>4 DEF Types
<1>6. NothingYet'
  BY <1>1, <1>2 DEF NothingYet
<1>7. cards' = <<>> /\ board' = <<>>
  BY <1>1, <1>2
<1>8. ClaimsStand' /\ JudgedAsTold' /\ PricedAsTold' /\ BoardAsDecided'
  BY <1>7, EmptyDeck DEF ClaimsStand, JudgedAsTold, PricedAsTold, BoardAsDecided
<1>9. CountsHold'
  <2>1. Cited' = 0 /\ receipt'.unique \in Nat
    BY <1>4, <1>7, NothingCitedNext
  <2> QED
    BY <1>4, <2>1 DEF CountsHold
<1>10. FailedForCause'
  BY <1>7 DEF FailedForCause
<1> QED
  BY <1>4, <1>5, <1>6, <1>8, <1>9, <1>10 DEF IInv

LEMMA ModelFailsKeeps == ASSUME IInv, ModelFails PROVE IInv'
<1>1. /\ Types /\ NothingYet /\ CountsHold /\ pc = "propose" /\ cards = <<>> /\ board = <<>>
  BY DEF IInv, ModelFails, NothingYet
<1>2. /\ UNCHANGED <<memory, wired, receipt, cards, judged, priced, said, board>>
      /\ pc' = "done" /\ run' = "failed"
      /\ best' = [r \in Rows |-> Null] /\ hits' = <<>>
  BY DEF ModelFails, Fail
<1>3. Types'
  BY <1>1, <1>2, EmptyDeck DEF Types
<1>4. NothingYet' /\ FailedForCause'
  BY <1>1, <1>2 DEF NothingYet, FailedForCause
<1>5. cards' = <<>> /\ board' = <<>>
  BY <1>1, <1>2
<1>6. ClaimsStand' /\ JudgedAsTold' /\ PricedAsTold' /\ BoardAsDecided'
  BY <1>5, EmptyDeck DEF ClaimsStand, JudgedAsTold, PricedAsTold, BoardAsDecided
<1>7. CountsHold'
  <2>1. Cited' = 0 /\ receipt'.unique \in Nat
    BY <1>1, <1>2, <1>5, NothingCitedNext DEF Types
  <2> QED
    BY <1>1, <1>2, <2>1 DEF CountsHold
<1>8. PromptIsFair'
  BY <1>2, NoneRetrievedNext
<1> QED
  BY <1>3, <1>4, <1>6, <1>7, <1>8 DEF IInv

\* A deck the ledger can inherit: every card stands on rows that were retrieved.
LEMMA ProposeKeeps == ASSUME IInv, Propose PROVE IInv'
<1>1. /\ Types /\ NothingYet /\ CountsHold /\ FailedForCause
      /\ pc = "propose" /\ cards = <<>> /\ board = <<>>
  BY DEF IInv, Propose, NothingYet
<1>2. /\ UNCHANGED <<memory, wired, receipt, board>>
      /\ best' = [r \in Rows |-> Null] /\ hits' = <<>>
  BY DEF Propose
<1>3. PICK deck \in Decks :
        LET shown == SubSeq(deck, 1, Min({MaxFinds, Len(deck)})) IN
        IF \A i \in DOMAIN shown : Valid(shown[i])
        THEN /\ cards' = [i \in DOMAIN shown |-> Parsed(shown[i])]
             /\ said' = [i \in DOMAIN shown |-> [verdict |-> "silence", cost |-> "silence"]]
             /\ judged' = [i \in DOMAIN shown |-> Null]
             /\ priced' = [i \in DOMAIN shown |-> Null]
             /\ pc' = "refute" /\ run' = run
        ELSE Fail /\ UNCHANGED <<cards, said, judged, priced>>
  BY Zenon DEF Propose
<1> DEFINE shown == SubSeq(deck, 1, Min({MaxFinds, Len(deck)}))
<1>4. shown \in Seq(Proposals)
  <2>1. deck \in Seq(Proposals) /\ MaxFinds \in Nat
    BY DeckAssumption DEF Proposals, Claims
  <2>2. Len(deck) \in Nat /\ \A i \in 1..Len(deck) : deck[i] \in Proposals
    BY <2>1, LenProperties
  <2>3. {MaxFinds, Len(deck)} \in SUBSET Nat /\ {MaxFinds, Len(deck)} # {}
    BY <2>1, <2>2
  <2> DEFINE m == Min({MaxFinds, Len(deck)})
  <2>4. m \in {MaxFinds, Len(deck)} /\ \A i \in {MaxFinds, Len(deck)} : m <= i
    BY <2>3, Least
  <2> HIDE DEF m
  <2>5. m \in Nat /\ m <= Len(deck)
    BY <2>1, <2>2, <2>4
  <2>6. 1 \in Int /\ m \in Int /\ \A i \in 1..m : deck[i] \in Proposals
    BY <2>2, <2>5
  <2>7. SubSeq(deck, 1, m) \in Seq(Proposals)
    BY <2>6, SubSeqProperties
  <2> QED
    BY <2>7 DEF m
<1> HIDE DEF shown
<1>5. /\ DOMAIN shown = 1..Len(shown) /\ Len(shown) \in Nat
      /\ \A i \in DOMAIN shown : shown[i] \in Proposals
  BY <1>4, LenProperties
<1>6. PromptIsFair'
  BY <1>2, NoneRetrievedNext
<1>7. CASE \A i \in DOMAIN shown : Valid(shown[i])
  <2>1. /\ cards' = [i \in DOMAIN shown |-> Parsed(shown[i])]
        /\ said' = [i \in DOMAIN shown |-> [verdict |-> "silence", cost |-> "silence"]]
        /\ judged' = [i \in DOMAIN shown |-> Null]
        /\ priced' = [i \in DOMAIN shown |-> Null]
        /\ pc' = "refute" /\ run' = run
    BY <1>3, <1>7 DEF shown
  <2>2. /\ DOMAIN cards' = DOMAIN shown
        /\ \A i \in DOMAIN shown : /\ cards'[i] \in CardRows /\ Stands(cards'[i])
                                   /\ cards'[i].cites = shown[i].cites
    BY <1>5, <2>1, ParsedStands
  <2>3. cards' \in Seq(CardRows)
    <3>1. cards' \in [1..Len(shown) -> CardRows]
      BY <1>5, <2>1, <2>2
    <3> QED
      BY <1>5, <3>1, SeqDef
  <2>4. Types'
    <3>1. said' \in [DOMAIN cards' -> [verdict : Verdict, cost : Price]]
      BY <2>1, <2>2 DEF Verdict, Price
    <3>2. judged' \in [DOMAIN cards' -> Judgements \cup {Null}] /\ priced' \in [DOMAIN cards' -> Costs]
      BY <2>1, <2>2 DEF Costs
    <3>3. board' \in Seq(Finds) /\ Len(board') <= Len(cards')
      <4>1. Len(cards') \in Nat
        BY <2>3, LenProperties
      <4> QED
        BY <1>1, <1>2, <4>1, EmptyDeck
    <3>4. hits' \in Seq(Rows) /\ best' \in [Rows -> Nat \cup {Null}]
      BY <1>2, EmptyDeck
    <3> QED
      BY <1>1, <1>2, <2>1, <2>3, <3>1, <3>2, <3>3, <3>4 DEF Types
  <2>5. NothingYet'
    BY <1>1, <1>2, <2>1 DEF NothingYet
  <2>6. ClaimsStand'
    BY <2>2 DEF ClaimsStand
  <2>7. JudgedAsTold' /\ PricedAsTold'
    BY <2>1, <2>2 DEF JudgedAsTold, PricedAsTold, Asked
  <2>8. BoardAsDecided'
    BY <1>1, <1>2 DEF BoardAsDecided
  <2>9. CountsHold'
    <3> DEFINE cited == UNION {cards'[i].cites : i \in DOMAIN cards'}
    <3>1. /\ Range(hits) \in SUBSET Rows /\ IsFiniteSet(Range(hits))
          /\ Cardinality(Range(hits)) \in Nat
      BY <1>1, SeqRange DEF Types
    <3>2. cited \in SUBSET Range(hits)
      BY <1>7, <2>2 DEF Valid
    <3>3. /\ IsFiniteSet(cited) /\ Cardinality(cited) \in Nat
          /\ Cardinality(cited) <= Cardinality(Range(hits))
      BY <3>1, <3>2, FS_Subset, FS_CardinalityType
    <3>4. Cited' = Cardinality(cited)
      BY DEF Cited
    <3>5. Cardinality(Range(hits)) <= receipt.unique /\ receipt.unique \in Nat
      BY <1>1 DEF CountsHold, Types
    <3> HIDE DEF cited
    <3>6. Cited' <= receipt'.unique
      BY <1>2, <3>1, <3>3, <3>4, <3>5
    <3> QED
      BY <1>1, <1>2, <2>1, <3>6 DEF CountsHold
  <2>10. FailedForCause'
    BY <1>1, <1>2, <2>1 DEF FailedForCause, NothingYet
  <2> QED
    BY <1>6, <2>4, <2>5, <2>6, <2>7, <2>8, <2>9, <2>10 DEF IInv
<1>8. CASE ~\A i \in DOMAIN shown : Valid(shown[i])
  <2>1. UNCHANGED <<cards, said, judged, priced>> /\ pc' = "done" /\ run' = "failed"
    BY <1>3, <1>8 DEF shown, Fail
  <2>2. Types'
    BY <1>1, <1>2, <2>1, EmptyDeck DEF Types
  <2>3. cards' = <<>> /\ board' = <<>>
    BY <1>1, <1>2, <2>1
  <2>4. NothingYet' /\ FailedForCause'
    BY <2>1, <2>3 DEF NothingYet, FailedForCause
  <2>5. ClaimsStand' /\ JudgedAsTold' /\ PricedAsTold' /\ BoardAsDecided'
    BY <2>3, EmptyDeck DEF ClaimsStand, JudgedAsTold, PricedAsTold, BoardAsDecided
  <2>6. CountsHold'
    <3>1. Cited' = 0 /\ receipt'.unique \in Nat
      BY <1>1, <1>2, <2>3, NothingCitedNext DEF Types
    <3> QED
      BY <1>1, <1>2, <2>1, <3>1 DEF CountsHold
  <2> QED
    BY <1>6, <2>2, <2>4, <2>5, <2>6 DEF IInv
<1> QED
  BY <1>7, <1>8

\* What a card is noted to have been told is what its judgement was read from.
LEMMA RefuteKeeps == ASSUME IInv, Refute PROVE IInv'
<1>1. /\ Types /\ NothingYet /\ ClaimsStand /\ JudgedAsTold /\ PricedAsTold /\ CountsHold
      /\ pc = "refute" /\ board = <<>> /\ run = "running" /\ PromptIsFair
  BY DEF IInv, Refute, NothingYet
<1>2. /\ pc' = "cost"
      /\ UNCHANGED <<memory, wired, best, hits, receipt, cards, priced, board, run>>
  BY DEF Refute
<1>3. cards \in Seq(CardRows) /\ \A i \in DOMAIN cards : ~Asked(i)
  BY <1>1 DEF Types, Asked
<1>4. NothingYet' /\ ClaimsStand' /\ BoardAsDecided' /\ CountsHold' /\ FailedForCause' /\ PromptIsFair'
  <2>1. NothingYet' /\ ClaimsStand' /\ FailedForCause'
    BY <1>1, <1>2 DEF NothingYet, ClaimsStand, FailedForCause
  <2>2. BoardAsDecided'
    BY <1>1, <1>2 DEF BoardAsDecided
  <2>3. CountsHold' /\ PromptIsFair'
    BY <1>1, <1>2, CountsStay, PromptStays
  <2> QED
    BY <2>1, <2>2, <2>3
<1>5. CASE "refuter" \notin wired
  <2>1. UNCHANGED <<judged, said>>
    BY <1>5 DEF Refute
  <2>2. Types'
    BY <1>1, <1>2, <2>1 DEF Types
  <2>3. JudgedAsTold' /\ PricedAsTold'
    BY <1>1, <1>2, <1>3, <1>5, <2>1 DEF JudgedAsTold, PricedAsTold, Asked
  <2> QED
    BY <1>4, <2>2, <2>3 DEF IInv
<1>6. CASE "refuter" \in wired
  <2>1. PICK answer \in Answers(Verdicts) :
          /\ judged' = [i \in DOMAIN cards |-> IF cards[i].tier = Null THEN Null
                           ELSE Judgement(Word(answer, Place(i)))]
          /\ said' = [i \in DOMAIN cards |-> [said[i] EXCEPT !.verdict =
                         IF \E k \in DOMAIN Shown : Shown[k] = i
                         THEN Word(answer, CHOOSE k \in DOMAIN Shown : Shown[k] = i)
                         ELSE "silence"]]
    BY <1>6, Zenon DEF Refute
  <2>2. ASSUME NEW i \in DOMAIN cards
        PROVE  /\ judged'[i] \in Judgements \cup {Null}
               /\ said'[i] \in [verdict : Verdict, cost : Price]
               /\ said'[i].cost = said[i].cost
               /\ Asked(i)' => judged'[i] = Judgement(said'[i].verdict)
               /\ ~Asked(i)' => judged'[i] = Null /\ said'[i].verdict = "silence"
    <3>1. said[i] \in [verdict : Verdict, cost : Price]
      BY <1>1 DEF Types
    <3>2. Asked(i)' <=> cards[i].tier # Null
      BY <1>2, <1>6 DEF Asked
    <3>3. CASE cards[i].tier = Null
      <4>1. ~\E k \in DOMAIN Shown : Shown[k] = i
        BY <1>3, <3>3, ShownPlace
      <4>2. judged'[i] = Null /\ said'[i] = [said[i] EXCEPT !.verdict = "silence"]
        BY <2>1, <3>3, <4>1
      <4> QED
        BY <3>1, <3>2, <3>3, <4>2 DEF Verdict
    <3>4. CASE cards[i].tier # Null
      <4> DEFINE word == Word(answer, Place(i))
      <4>1. /\ \E k \in DOMAIN Shown : Shown[k] = i
            /\ (CHOOSE k \in DOMAIN Shown : Shown[k] = i) = Place(i)
        BY <1>3, <3>4, ShownPlace
      <4>2. judged'[i] = Judgement(word)
        BY <2>1, <3>4
      <4>3. said'[i] = [said[i] EXCEPT !.verdict =
                          Word(answer, CHOOSE k \in DOMAIN Shown : Shown[k] = i)]
        BY <2>1, <4>1
      <4>4. said'[i] = [said[i] EXCEPT !.verdict = word]
        BY <4>1, <4>3
      <4>5. word \in Verdict
        BY WordSaid DEF Verdict
      <4> HIDE DEF word
      <4>6. Judgement(word) \in Judgements
        BY <4>5, Judged
      <4>7. /\ said'[i] \in [verdict : Verdict, cost : Price]
            /\ said'[i].verdict = word /\ said'[i].cost = said[i].cost
        BY <3>1, <4>4, <4>5
      <4> QED
        BY <3>2, <3>4, <4>2, <4>6, <4>7
    <3> QED
      BY <3>3, <3>4
  <2>3. DOMAIN judged' = DOMAIN cards /\ DOMAIN said' = DOMAIN cards
    BY <2>1
  <2>4. /\ judged' \in [DOMAIN cards' -> Judgements \cup {Null}]
        /\ said' \in [DOMAIN cards' -> [verdict : Verdict, cost : Price]]
    <3>1. /\ judged' = [i \in DOMAIN cards |-> judged'[i]]
          /\ said' = [i \in DOMAIN cards |-> said'[i]]
      BY <2>1
    <3>2. /\ judged' \in [DOMAIN cards -> Judgements \cup {Null}]
          /\ said' \in [DOMAIN cards -> [verdict : Verdict, cost : Price]]
      BY <2>2, <3>1
    <3> QED
      BY <1>2, <3>2
  <2>5. Types'
    BY <1>1, <1>2, <2>4 DEF Types
  <2>6. JudgedAsTold' /\ PricedAsTold'
    BY <1>1, <1>2, <2>2 DEF JudgedAsTold, PricedAsTold
  <2> QED
    BY <1>4, <2>5, <2>6 DEF IInv
<1> QED
  BY <1>5, <1>6

LEMMA CostKeeps == ASSUME IInv, Cost PROVE IInv'
<1>1. /\ Types /\ NothingYet /\ ClaimsStand /\ JudgedAsTold /\ PricedAsTold /\ CountsHold
      /\ pc = "cost" /\ board = <<>> /\ run = "running" /\ PromptIsFair
  BY DEF IInv, Cost, NothingYet
<1>2. /\ pc' = "store"
      /\ UNCHANGED <<memory, wired, best, hits, receipt, cards, judged, board, run>>
  BY DEF Cost
<1>3. cards \in Seq(CardRows) /\ \A i \in DOMAIN cards : Asked(i)' <=> Asked(i)
  BY <1>1, <1>2 DEF Types, Asked
<1>4. NothingYet' /\ ClaimsStand' /\ BoardAsDecided' /\ CountsHold' /\ FailedForCause' /\ PromptIsFair'
  <2>1. NothingYet' /\ ClaimsStand' /\ FailedForCause'
    BY <1>1, <1>2 DEF NothingYet, ClaimsStand, FailedForCause
  <2>2. BoardAsDecided'
    BY <1>1, <1>2 DEF BoardAsDecided
  <2>3. CountsHold' /\ PromptIsFair'
    BY <1>1, <1>2, CountsStay, PromptStays
  <2> QED
    BY <2>1, <2>2, <2>3
<1>5. CASE "coster" \notin wired
  <2>1. UNCHANGED <<priced, said>>
    BY <1>5 DEF Cost
  <2>2. Types'
    BY <1>1, <1>2, <2>1 DEF Types
  <2>3. JudgedAsTold' /\ PricedAsTold'
    BY <1>1, <1>2, <1>3, <2>1 DEF JudgedAsTold, PricedAsTold
  <2> QED
    BY <1>4, <2>2, <2>3 DEF IInv
<1>6. CASE "coster" \in wired
  <2>1. PICK answer \in Answers({"free", "paid", "unusable"}) :
          /\ priced' = [i \in DOMAIN cards |-> IF cards[i].tier = Null THEN Null
                           ELSE Cents(Word(answer, Place(i)))]
          /\ said' = [i \in DOMAIN cards |-> [said[i] EXCEPT !.cost =
                         IF \E k \in DOMAIN Shown : Shown[k] = i
                         THEN Word(answer, CHOOSE k \in DOMAIN Shown : Shown[k] = i)
                         ELSE "silence"]]
    BY <1>6, Zenon DEF Cost
  <2>2. ASSUME NEW i \in DOMAIN cards
        PROVE  /\ priced'[i] \in Costs
               /\ said'[i] \in [verdict : Verdict, cost : Price]
               /\ said'[i].verdict = said[i].verdict
               /\ priced'[i] # Null => priced'[i] = Cents(said'[i].cost)
    <3>1. said[i] \in [verdict : Verdict, cost : Price]
      BY <1>1 DEF Types
    <3>2. CASE cards[i].tier = Null
      <4>1. ~\E k \in DOMAIN Shown : Shown[k] = i
        BY <1>3, <3>2, ShownPlace
      <4>2. priced'[i] = Null /\ said'[i] = [said[i] EXCEPT !.cost = "silence"]
        BY <2>1, <3>2, <4>1
      <4> QED
        BY <3>1, <3>2, <4>2 DEF Price, Costs
    <3>3. CASE cards[i].tier # Null
      <4> DEFINE word == Word(answer, Place(i))
      <4>1. /\ \E k \in DOMAIN Shown : Shown[k] = i
            /\ (CHOOSE k \in DOMAIN Shown : Shown[k] = i) = Place(i)
        BY <1>3, <3>3, ShownPlace
      <4>2. priced'[i] = Cents(word)
        BY <2>1, <3>3
      <4>3. said'[i] = [said[i] EXCEPT !.cost =
                          Word(answer, CHOOSE k \in DOMAIN Shown : Shown[k] = i)]
        BY <2>1, <4>1
      <4>4. said'[i] = [said[i] EXCEPT !.cost = word]
        BY <4>1, <4>3
      <4>5. word \in Price
        BY WordSaid DEF Price
      <4> HIDE DEF word
      <4>6. Cents(word) \in Costs
        BY <4>5, Priced
      <4>7. /\ said'[i] \in [verdict : Verdict, cost : Price]
            /\ said'[i].cost = word /\ said'[i].verdict = said[i].verdict
        BY <3>1, <4>4, <4>5
      <4> QED
        BY <4>2, <4>6, <4>7
    <3> QED
      BY <3>2, <3>3
  <2>4. /\ priced' \in [DOMAIN cards' -> Costs]
        /\ said' \in [DOMAIN cards' -> [verdict : Verdict, cost : Price]]
    <3>1. /\ priced' = [i \in DOMAIN cards |-> priced'[i]]
          /\ said' = [i \in DOMAIN cards |-> said'[i]]
      BY <2>1
    <3>2. /\ priced' \in [DOMAIN cards -> Costs]
          /\ said' \in [DOMAIN cards -> [verdict : Verdict, cost : Price]]
      BY <2>2, <3>1
    <3> QED
      BY <1>2, <3>2
  <2>5. Types'
    BY <1>1, <1>2, <2>4 DEF Types
  <2>6. JudgedAsTold' /\ PricedAsTold'
    BY <1>1, <1>2, <1>3, <2>2 DEF JudgedAsTold, PricedAsTold
  <2> QED
    BY <1>4, <2>5, <2>6 DEF IInv
<1> QED
  BY <1>5, <1>6

\* What is stored is what the judgement and the cost of the card come to.
LEMMA StoreKeeps == ASSUME IInv, Store PROVE IInv'
<1>1. /\ Types /\ NothingYet /\ ClaimsStand /\ JudgedAsTold /\ PricedAsTold /\ BoardAsDecided
      /\ CountsHold /\ FailedForCause /\ PromptIsFair
      /\ pc = "store" /\ Len(board) < Len(cards) /\ run = "running"
  BY DEF IInv, Store, NothingYet
<1>2. UNCHANGED <<memory, wired, best, hits, receipt, cards, judged, priced, said>>
  BY DEF Store
<1> DEFINE i == Len(board) + 1
<1>3. \/ board' = Append(board, Stored(i)) /\ UNCHANGED <<pc, run>>
      \/ ~(cards[i].cites \subseteq memory) /\ pc' = "done" /\ run' = "failed" /\ board' = board
  BY DEF Store, Fail
<1>4. /\ cards \in Seq(CardRows) /\ board \in Seq(Finds) /\ memory \in SUBSET Rows
      /\ Len(board) \in Nat /\ Len(cards) \in Nat
      /\ DOMAIN board = 1..Len(board) /\ DOMAIN cards = 1..Len(cards)
  BY <1>1, LenProperties DEF Types
<1>5. i \in DOMAIN cards /\ cards[i] \in CardRows
  <2>1. i \in 1..Len(cards)
    BY <1>1, <1>4
  <2> QED
    BY <1>4, <2>1, ElementOfSeq
<1>6. Stored(i) \in Finds
  <2>1. /\ cards[i].cents \in Nat /\ priced[i] \in Costs
    BY <1>1, <1>5 DEF Types, CardRows
  <2> HIDE DEF i
  <2>2. /\ (IF Held(i) THEN "withheld" ELSE "proposed") \in {"withheld", "proposed"}
        /\ (IF MoneyAllowed(i) THEN cards[i].cents ELSE 0) \in Nat
    BY <2>1
  <2> QED
    BY <2>1, <2>2 DEF Stored, Finds
<1> HIDE DEF i
<1>7. pc' # "propose" \/ pc' = pc
  BY <1>1, <1>3
<1>8. CountsHold' /\ PromptIsFair'
  BY <1>1, <1>2, <1>7, CountsStay, PromptStays
<1>9. ClaimsStand' /\ PricedAsTold'
  BY <1>1, <1>2 DEF ClaimsStand, PricedAsTold
<1>10. NothingYet'
  BY <1>1, <1>2, <1>3 DEF NothingYet
<1>11. JudgedAsTold'
  <2>1. pc' \in {"store", "done"}
    BY <1>1, <1>3
  <2>2. \A j \in DOMAIN cards : Asked(j)' <=> Asked(j)
    BY <1>1, <1>2, <2>1 DEF Asked
  <2> QED
    BY <1>1, <1>2, <2>2 DEF JudgedAsTold
<1>12. \A j : Stored(j)' = Stored(j)
  BY <1>2 DEF Stored, Held, MoneyAllowed
<1>13. CASE board' = Append(board, Stored(i)) /\ UNCHANGED <<pc, run>>
  <2>1. /\ board' \in Seq(Finds) /\ Len(board') = Len(board) + 1
        /\ \A j \in 1..Len(board) : board'[j] = board[j]
        /\ board'[Len(board) + 1] = Stored(i)
    BY <1>4, <1>6, <1>13, AppendProperties
  <2>2. DOMAIN board' = 1..(Len(board) + 1)
    BY <2>1, LenProperties
  <2>3. Types'
    BY <1>1, <1>2, <1>4, <1>13, <2>1 DEF Types
  <2>4. ASSUME NEW j \in DOMAIN board'
        PROVE  board'[j] = Stored(j)'
    <3>1. CASE j = Len(board) + 1
      BY <1>12, <2>1, <3>1 DEF i
    <3>2. CASE j # Len(board) + 1
      <4>1. j \in 1..Len(board)
        BY <1>4, <2>2, <3>2
      <4> QED
        BY <1>1, <1>4, <1>12, <2>1, <4>1 DEF BoardAsDecided
    <3> QED
      BY <3>1, <3>2
  <2>5. BoardAsDecided'
    BY <2>4 DEF BoardAsDecided
  <2>6. FailedForCause'
    BY <1>1, <1>13 DEF FailedForCause
  <2> QED
    BY <1>8, <1>9, <1>10, <1>11, <2>3, <2>5, <2>6 DEF IInv
<1>14. CASE ~(cards[i].cites \subseteq memory) /\ pc' = "done" /\ run' = "failed" /\ board' = board
  <2>1. Types'
    BY <1>1, <1>2, <1>14 DEF Types
  <2>2. BoardAsDecided'
    BY <1>1, <1>12, <1>14 DEF BoardAsDecided
  <2>3. FailedForCause'
    <3>1. cards[i].cites \in SUBSET Rows
      BY <1>5 DEF CardRows
    <3>2. memory' # Rows
      BY <1>2, <1>14, <3>1
    <3>3. Len(board') < Len(cards')
      BY <1>1, <1>2, <1>14
    <3> QED
      BY <3>2, <3>3 DEF FailedForCause
  <2> QED
    BY <1>8, <1>9, <1>10, <1>11, <2>1, <2>2, <2>3 DEF IInv
<1> QED
  BY <1>3, <1>13, <1>14

\* The receipt of a night always encodes.
LEMMA FinishKeeps == ASSUME IInv, Finish PROVE IInv'
<1>1. /\ Types /\ NothingYet /\ ClaimsStand /\ JudgedAsTold /\ PricedAsTold /\ BoardAsDecided
      /\ CountsHold /\ FailedForCause /\ PromptIsFair /\ pc = "store"
  BY DEF IInv, Finish
<1>2. UNCHANGED <<memory, wired, best, hits, receipt, cards, judged, priced, said, board>>
  BY DEF Finish
<1>3. pc' = "done" /\ run' = "ok"
  <2>1. Encodes
    BY <1>1 DEF CountsHold, Encodes
  <2> QED
    BY <2>1 DEF Finish
<1>4. Types'
  BY <1>1, <1>2, <1>3 DEF Types
<1>5. NothingYet' /\ ClaimsStand' /\ PricedAsTold' /\ FailedForCause'
  BY <1>1, <1>2, <1>3 DEF NothingYet, ClaimsStand, PricedAsTold, FailedForCause
<1>6. JudgedAsTold'
  <2>1. \A j \in DOMAIN cards : Asked(j)' <=> Asked(j)
    BY <1>1, <1>2, <1>3 DEF Asked
  <2> QED
    BY <1>1, <1>2, <2>1 DEF JudgedAsTold
<1>7. BoardAsDecided'
  <2>1. \A j : Stored(j)' = Stored(j)
    BY <1>2 DEF Stored, Held, MoneyAllowed
  <2> QED
    BY <1>1, <1>2, <2>1 DEF BoardAsDecided
<1>8. CountsHold' /\ PromptIsFair'
  BY <1>1, <1>2, <1>3, CountsStay, PromptStays
<1> QED
  BY <1>4, <1>5, <1>6, <1>7, <1>8 DEF IInv

LEMMA DatabaseFailsKeeps == ASSUME IInv, DatabaseFails PROVE IInv'
<1>1. /\ Types /\ NothingYet /\ ClaimsStand /\ JudgedAsTold /\ PricedAsTold /\ BoardAsDecided
      /\ CountsHold /\ PromptIsFair /\ pc \in {"retrieve", "propose", "store"}
  BY DEF IInv, DatabaseFails
<1>2. /\ pc' = "done" /\ run' \in {"refused", "running"}
      /\ UNCHANGED <<memory, wired, best, hits, receipt, cards, judged, priced, said, board>>
  BY DEF DatabaseFails
<1>3. Types'
  BY <1>1, <1>2 DEF Types
<1>4. NothingYet' /\ ClaimsStand' /\ PricedAsTold' /\ FailedForCause'
  BY <1>1, <1>2 DEF NothingYet, ClaimsStand, PricedAsTold, FailedForCause
<1>5. JudgedAsTold'
  <2>1. CASE pc = "store"
    <3>1. \A j \in DOMAIN cards : Asked(j)' <=> Asked(j)
      BY <1>2, <2>1 DEF Asked
    <3> QED
      BY <1>1, <1>2, <3>1 DEF JudgedAsTold
  <2>2. CASE pc # "store"
    <3>1. cards' = <<>>
      BY <1>1, <1>2, <2>2 DEF NothingYet
    <3> QED
      BY <3>1, EmptyDeck DEF JudgedAsTold
  <2> QED
    BY <2>1, <2>2
<1>6. BoardAsDecided'
  <2>1. \A j : Stored(j)' = Stored(j)
    BY <1>2 DEF Stored, Held, MoneyAllowed
  <2> QED
    BY <1>1, <1>2, <2>1 DEF BoardAsDecided
<1>7. CountsHold' /\ PromptIsFair'
  BY <1>1, <1>2, CountsStay, PromptStays
<1> QED
  BY <1>3, <1>4, <1>5, <1>6, <1>7 DEF IInv

LEMMA PurgeKeeps == ASSUME IInv, NEW r \in Rows, Purge(r) PROVE IInv'
<1>1. /\ Types /\ NothingYet /\ ClaimsStand /\ JudgedAsTold /\ PricedAsTold /\ BoardAsDecided
      /\ CountsHold /\ FailedForCause /\ PromptIsFair
  BY DEF IInv
<1>2. /\ memory' = memory \ {r} /\ r \in memory
      /\ UNCHANGED <<wired, pc, best, hits, receipt, cards, judged, priced, said, board, run>>
  BY DEF Purge
<1>3. memory' \in SUBSET Rows /\ memory' # Rows
  BY <1>1, <1>2 DEF Types
<1>4. Types'
  BY <1>1, <1>2, <1>3 DEF Types
<1>5. NothingYet' /\ ClaimsStand' /\ PricedAsTold'
  BY <1>1, <1>2 DEF NothingYet, ClaimsStand, PricedAsTold
<1>6. FailedForCause'
  BY <1>1, <1>2, <1>3 DEF FailedForCause
<1>7. JudgedAsTold'
  <2>1. \A j \in DOMAIN cards : Asked(j)' <=> Asked(j)
    BY <1>2 DEF Asked
  <2> QED
    BY <1>1, <1>2, <2>1 DEF JudgedAsTold
<1>8. BoardAsDecided'
  <2>1. \A j : Stored(j)' = Stored(j)
    BY <1>2 DEF Stored, Held, MoneyAllowed
  <2> QED
    BY <1>1, <1>2, <2>1 DEF BoardAsDecided
<1>9. CountsHold' /\ PromptIsFair'
  BY <1>1, <1>2, CountsStay, PromptStays
<1> QED
  BY <1>4, <1>5, <1>6, <1>7, <1>8, <1>9 DEF IInv

LEMMA StutterKeeps == ASSUME IInv, UNCHANGED vars PROVE IInv'
<1>1. /\ Types /\ NothingYet /\ ClaimsStand /\ JudgedAsTold /\ PricedAsTold /\ BoardAsDecided
      /\ CountsHold /\ FailedForCause /\ PromptIsFair
  BY DEF IInv
<1>2. UNCHANGED <<memory, wired, pc, best, hits, receipt, cards, judged, priced, said, board, run>>
  BY DEF vars
<1>3. Types'
  BY <1>1, <1>2 DEF Types
<1>4. NothingYet' /\ ClaimsStand' /\ PricedAsTold' /\ FailedForCause'
  BY <1>1, <1>2 DEF NothingYet, ClaimsStand, PricedAsTold, FailedForCause
<1>5. JudgedAsTold'
  BY <1>1, <1>2 DEF JudgedAsTold, Asked
<1>6. BoardAsDecided'
  <2>1. \A j : Stored(j)' = Stored(j)
    BY <1>2 DEF Stored, Held, MoneyAllowed
  <2> QED
    BY <1>1, <1>2, <2>1 DEF BoardAsDecided
<1>7. CountsHold' /\ PromptIsFair'
  BY <1>1, <1>2, CountsStay, PromptStays
<1> QED
  BY <1>3, <1>4, <1>5, <1>6, <1>7 DEF IInv

LEMMA StepIInv == IInv /\ [Next]_vars => IInv'
<1> SUFFICES ASSUME IInv, [Next]_vars
             PROVE  IInv'
  OBVIOUS
<1>1. CASE Retrieve
  BY <1>1, RetrieveKeeps
<1>2. CASE Propose
  BY <1>2, ProposeKeeps
<1>3. CASE ModelFails
  BY <1>3, ModelFailsKeeps
<1>4. CASE Refute
  BY <1>4, RefuteKeeps
<1>5. CASE Cost
  BY <1>5, CostKeeps
<1>6. CASE Store
  BY <1>6, StoreKeeps
<1>7. CASE Finish
  BY <1>7, FinishKeeps
<1>8. CASE DatabaseFails
  BY <1>8, DatabaseFailsKeeps
<1>9. CASE \E r \in Rows : Purge(r)
  BY <1>9, PurgeKeeps
<1>10. CASE UNCHANGED vars
  BY <1>10, StutterKeeps
<1> QED
  BY <1>1, <1>2, <1>3, <1>4, <1>5, <1>6, <1>7, <1>8, <1>9, <1>10 DEF Next

LEMMA Invariance == Spec => []IInv
  BY InitIInv, StepIInv, PTL DEF Spec

-----------------------------------------------------------------------------
\* The theorems.

\* The night keeps the types of its state (agents/analyst.py:1179-1491): whatever
\* the models answer, what is carried from one call to the next is of one shape.
THEOREM NightWellTyped == Spec => []Types
<1>1. IInv => Types
  BY DEF IInv
<1> QED
  BY <1>1, Invariance, PTL

\* No row loses its place in the prompt for nothing (agents/analyst.py:454, 517),
\* whatever the similarities, the ties between them and the limits are.
THEOREM PlacesAreEarned == Spec => []PromptIsFair
<1>1. IInv => PromptIsFair
  BY DEF IInv
<1> QED
  BY <1>1, Invariance, PTL

\* No receipt fails a night that stored its deck (agents/analyst.py:1449,
\* analyst_trace.py:78): where the database answers, only a row purged before the
\* deck was stored can fail it once anything was proposed.
THEOREM ReceiptsNeverFail == Spec => []FailedForCause
<1>1. IInv => FailedForCause
  BY DEF IInv
<1> QED
  BY <1>1, Invariance, PTL

LEMMA OnBoard ==
    ASSUME IInv, NEW i \in DOMAIN board
    PROVE  i \in DOMAIN cards /\ board[i] = Stored(i) /\ cards[i] \in CardRows
<1>1. Types /\ BoardAsDecided
  BY DEF IInv
<1>2. /\ cards \in Seq(CardRows) /\ DOMAIN board = 1..Len(board) /\ DOMAIN cards = 1..Len(cards)
      /\ Len(board) \in Nat /\ Len(cards) \in Nat /\ Len(board) <= Len(cards)
  BY <1>1, LenProperties DEF Types
<1>3. i \in DOMAIN cards
  BY <1>2
<1> QED
  BY <1>1, <1>2, <1>3, ElementOfSeq DEF BoardAsDecided

\* What the owner is told stands on its rows (finds.py:283), for every deck a
\* model may answer and any rows it may cite.
THEOREM ClaimsStandUp == Spec => []BoardStandsUp
<1>1. ASSUME IInv
      PROVE  BoardStandsUp
  <2>1. SUFFICES ASSUME NEW i \in DOMAIN board, board[i].status = "proposed"
                 PROVE  LET card == cards[i] IN
                        /\ card.asserts \/ card.tier = "current_state" =>
                              \/ \A r \in card.cites : ~Fact[r].page
                              \/ \E r \in card.cites : Fact[r].page /\ Fact[r].open = "open"
                        /\ card.tier = "pattern" =>
                              \E r, s \in card.cites :
                                  Null # Fact[r].site /\ Fact[r].site # Fact[s].site
                                  /\ Fact[s].site # Null
    BY DEF BoardStandsUp
  <2> DEFINE card == cards[i]
  <2>2. i \in DOMAIN cards /\ board[i] = Stored(i) /\ cards[i] \in CardRows
    BY <1>1, OnBoard
  <2>3. ~Held(i)
    BY <2>1, <2>2 DEF Stored
  <2>4. card.tier # Null /\ Stands(card)
    BY <1>1, <2>2, <2>3 DEF Held, IInv, ClaimsStand
  <2> HIDE DEF card
  <2>5. /\ card.asserts \/ card.tier = "current_state" => CurrentStateSupported(card.cites)
        /\ card.tier = "pattern" => Cardinality(Sites(card.cites)) >= 2
    BY <2>4 DEF Stands
  <2>6. ASSUME CurrentStateSupported(card.cites)
        PROVE  \/ \A r \in card.cites : ~Fact[r].page
               \/ \E r \in card.cites : Fact[r].page /\ Fact[r].open = "open"
    BY <2>6 DEF CurrentStateSupported, Perishable
  <2>7. ASSUME Cardinality(Sites(card.cites)) >= 2
        PROVE  \E r, s \in card.cites :
                   Null # Fact[r].site /\ Fact[r].site # Fact[s].site /\ Fact[s].site # Null
    <3> DEFINE S == Sites(card.cites)
    <3>1. S # {}
      BY <2>7, FS_EmptySet
    <3>2. PICK a \in S : TRUE
      BY <3>1
    <3>3. S # {a}
      BY <2>7, FS_Singleton
    <3>4. PICK c \in S : c # a
      BY <3>2, <3>3
    <3>5. /\ \E r \in card.cites : Fact[r].site = a
          /\ \E s \in card.cites : Fact[s].site = c
          /\ a # Null /\ c # Null
      BY <3>2, <3>4 DEF Sites
    <3> QED
      BY <3>4, <3>5
  <2> QED
    BY <2>5, <2>6, <2>7 DEF card
<1> QED
  BY <1>1, Invariance, PTL

LEMMA ToldOnBoard ==
    ASSUME IInv, NEW i \in DOMAIN board
    PROVE  /\ said[i].verdict \in Verdict /\ said[i].cost \in Price
           /\ judged[i] = Null => said[i].verdict = "silence"
           /\ judged[i] # Null => judged[i] = Judgement(said[i].verdict)
           /\ priced[i] # Null => priced[i] = Cents(said[i].cost)
           /\ cards[i].tier # Null /\ "refuter" \in wired => judged[i] # Null
<1>1. Types /\ NothingYet /\ JudgedAsTold /\ PricedAsTold
  BY DEF IInv
<1>2. i \in DOMAIN cards
  BY OnBoard
<1>3. said[i] \in [verdict : Verdict, cost : Price]
  BY <1>1, <1>2 DEF Types
<1>4. pc \in {"store", "done"}
  <2>1. DOMAIN <<>> = {}
    BY EmptyDeck
  <2> QED
    BY <1>1, <2>1 DEF NothingYet, Types
<1>5. Asked(i) <=> cards[i].tier # Null /\ "refuter" \in wired
  BY <1>4 DEF Asked
<1>6. /\ Asked(i) => judged[i] = Judgement(said[i].verdict)
      /\ ~Asked(i) => judged[i] = Null /\ said[i].verdict = "silence"
      /\ priced[i] # Null => priced[i] = Cents(said[i].cost)
  BY <1>1, <1>2 DEF JudgedAsTold, PricedAsTold
<1>7. said[i].verdict \in Verdict /\ said[i].cost \in Price
  BY <1>3
<1>8. Judgement(said[i].verdict) # Null
  BY <1>7, Judged
<1> QED
  BY <1>5, <1>6, <1>7, <1>8

\* A move is held back for a cause that can be named (agents/refuter.py:412),
\* however many cards there are and in whatever order the answers come.
THEOREM NothingHeldBackUnasked == Spec => []HeldForCause
<1>1. ASSUME IInv
      PROVE  HeldForCause
  <2>1. SUFFICES ASSUME NEW i \in DOMAIN board
                 PROVE  board[i].status = "withheld"
                           <=> cards[i].tier = Null \/ said[i].verdict = "withhold"
    BY DEF HeldForCause
  <2>2. board[i] = Stored(i)
    BY <1>1, OnBoard
  <2>3. board[i].status = "withheld" <=> Held(i)
    BY <2>2 DEF Stored
  <2>4. /\ said[i].verdict \in Verdict
        /\ judged[i] = Null => said[i].verdict = "silence"
        /\ judged[i] # Null => judged[i] = Judgement(said[i].verdict)
    BY <1>1, ToldOnBoard
  <2>5. judged[i] # Null /\ judged[i].action = "withhold" <=> said[i].verdict = "withhold"
    BY <2>4, Judged
  <2> QED
    BY <2>3, <2>5 DEF Held
<1> QED
  BY <1>1, Invariance, PTL

\* No figure without an answer that earned it (agents/analyst.py:1330), to that
\* card and to no other.
THEOREM FiguresEarned == Spec => []FiguresAreEarned
<1>1. ASSUME IInv
      PROVE  FiguresAreEarned
  <2>1. SUFFICES ASSUME NEW i \in DOMAIN board
                 PROVE  /\ board[i].status = "proposed" /\ board[i].cents > 0 /\ "refuter" \in wired
                              => said[i].verdict = "publish"
                        /\ board[i].cost # Null =>
                              said[i].cost = IF board[i].cost = 0 THEN "free" ELSE "paid"
    BY DEF FiguresAreEarned
  <2>2. board[i] = Stored(i)
    BY <1>1, OnBoard
  <2>3. /\ board[i].status = "proposed" <=> ~Held(i)
        /\ board[i].cents = IF MoneyAllowed(i) THEN cards[i].cents ELSE 0
        /\ board[i].cost = priced[i]
    BY <2>2 DEF Stored
  <2>4. /\ said[i].verdict \in Verdict /\ said[i].cost \in Price
        /\ judged[i] # Null => judged[i] = Judgement(said[i].verdict)
        /\ priced[i] # Null => priced[i] = Cents(said[i].cost)
        /\ cards[i].tier # Null /\ "refuter" \in wired => judged[i] # Null
    BY <1>1, ToldOnBoard
  <2>5. ASSUME board[i].status = "proposed", board[i].cents > 0, "refuter" \in wired
        PROVE  said[i].verdict = "publish"
    <3>1. ~Held(i) /\ MoneyAllowed(i)
      BY <2>3, <2>5
    <3>2. judged[i] # Null
      BY <2>4, <2>5, <3>1 DEF Held
    <3>3. judged[i].checked /\ judged[i].action = "publish"
      BY <3>1, <3>2 DEF MoneyAllowed
    <3> QED
      BY <2>4, <3>2, <3>3, Judged
  <2>6. ASSUME board[i].cost # Null
        PROVE  said[i].cost = IF board[i].cost = 0 THEN "free" ELSE "paid"
    BY <2>3, <2>4, <2>6, Priced
  <2> QED
    BY <2>5, <2>6
<1> QED
  BY <1>1, Invariance, PTL
=============================================================================
