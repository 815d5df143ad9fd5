------------------------ MODULE StoreAgreementProofs ------------------------
(***************************************************************************)
(* Theorems about the two implementations of the repository: whatever the  *)
(* owners and the agents call, in any order and any number of times, the   *)
(* in-memory double holds the rows the database holds and answers every    *)
(* question the same, for any accounts, texts, days and limits, as far as  *)
(* AccountsAgree, MemoriesAgree and WorkAgrees say: the time of a second   *)
(* connection, the citations of what was purged and the order of the       *)
(* observations of one day are where the two part.                         *)
(*                                                                         *)
(* Both list rows in an order: the database with ORDER BY, the double by   *)
(* sorting what it filtered.  The module begins with what such lists are:  *)
(* a finite set put along a total order is one list (OnlyListing), so two  *)
(* ways to the same order are the same answer.  What is inductive is that  *)
(* the rows are the same, up to those differences, and what the tables     *)
(* keep to (AccountsHeld, MemoryHeld, WorkHeld): a token has one session,  *)
(* a business has one connection, and an observation a larger id than      *)
(* those before it and than any citation, and a text its business did not  *)
(* have.  Of a recommendation at work, a task still to be done belongs to  *)
(* the approval in force, which is logged; an approval has one task and a  *)
(* revision one draft; nothing was published for a task whose approval was *)
(* taken back.                                                             *)
(***************************************************************************)
EXTENDS StoreAgreement, SequenceTheorems, FiniteSetTheorems, TLAPS

\* upTo[x] is the set of those up to x in a total order of S.
IsOrder(S, upTo) ==
    /\ upTo \in [S -> SUBSET S]
    /\ \A x \in S : x \in upTo[x]
    /\ \A x, y \in S : x \in upTo[y] \/ y \in upTo[x]
    /\ \A x, y \in S : x \in upTo[y] => upTo[x] \subseteq upTo[y]
    /\ \A x, y \in S : x \in upTo[y] /\ y \in upTo[x] => x = y

\* list names every member of S once in n places, along the order.
Lists(list, n, S, upTo) ==
    /\ list \in [1..n -> S]
    /\ \A x \in S : \E k \in 1..n : list[k] = x
    /\ \A j, k \in 1..n : j <= k <=> list[j] \in upTo[list[k]]

\* Every member has a rank of its own, and every rank up to the size of the set
\* is somebody's: Along finds the member it asks for.
LEMMA AlongLists ==
    ASSUME NEW S, IsFiniteSet(S), NEW upTo, IsOrder(S, upTo)
    PROVE  /\ Lists(Along(S, upTo), Cardinality(S), S, upTo)
           /\ \A k \in 1..Cardinality(S) : Cardinality(upTo[Along(S, upTo)[k]]) = k
<1> DEFINE n == Cardinality(S)
           T == 1..n
           rank == [x \in S |-> Cardinality(upTo[x])]
<1>1. n \in Nat
  BY FS_CardinalityType
<1>2. IsFiniteSet(T) /\ Cardinality(T) = n
  BY <1>1, FS_Interval
<1>3. ASSUME NEW x \in S
      PROVE  IsFiniteSet(upTo[x]) /\ Cardinality(upTo[x]) \in T
  <2>1. upTo[x] \in SUBSET S /\ x \in upTo[x]
    BY DEF IsOrder
  <2>2. IsFiniteSet(upTo[x]) /\ Cardinality(upTo[x]) <= n
    BY <2>1, FS_Subset
  <2>3. Cardinality(upTo[x]) \in Nat
    BY <2>2, FS_CardinalityType
  <2>4. Cardinality(upTo[x]) # 0
    BY <2>1, <2>2, FS_EmptySet
  <2> QED
    BY <1>1, <2>2, <2>3, <2>4
<1>4. ASSUME NEW x \in S, NEW y \in S, x \in upTo[y], x # y
      PROVE  Cardinality(upTo[x]) < Cardinality(upTo[y])
  <2>1. upTo[x] \in SUBSET upTo[y] /\ y \notin upTo[x] /\ y \in upTo[y]
    BY <1>4 DEF IsOrder
  <2>2. /\ Cardinality(upTo[x]) <= Cardinality(upTo[y])
        /\ Cardinality(upTo[x]) # Cardinality(upTo[y])
    BY <1>3, <2>1, FS_Subset
  <2> QED
    BY <1>1, <1>3, <2>2
<1>5. rank \in Injection(S, T)
  <2>1. rank \in [S -> T]
    BY <1>3
  <2>2. ASSUME NEW x \in S, NEW y \in S, rank[x] = rank[y]
        PROVE  x = y
    <3>1. x \in upTo[y] \/ y \in upTo[x]
      BY DEF IsOrder
    <3>2. Cardinality(upTo[x]) = Cardinality(upTo[y]) /\ Cardinality(upTo[x]) \in Nat
      BY <1>3, <2>2, <1>1
    <3> QED
      BY <1>4, <3>1, <3>2
  <2> QED
    BY <2>1, <2>2 DEF Injection, IsInjective
<1>6. rank \in Surjection(S, T)
  BY <1>2, <1>5, FS_Injection
<1>7. \A k \in T : \E x \in S : Cardinality(upTo[x]) = k
  BY <1>6 DEF Surjection
<1> DEFINE list == Along(S, upTo)
<1>8. ASSUME NEW k \in T
      PROVE  list[k] \in S /\ Cardinality(upTo[list[k]]) = k
  BY <1>7 DEF Along
<1>9. list \in [T -> S]
  BY <1>8 DEF Along
<1>10. ASSUME NEW x \in S
       PROVE  \E k \in T : list[k] = x
  <2>1. Cardinality(upTo[x]) \in T
    BY <1>3
  <2>2. /\ list[Cardinality(upTo[x])] \in S
        /\ rank[list[Cardinality(upTo[x])]] = rank[x]
    BY <1>8, <2>1
  <2> QED
    BY <1>5, <2>1, <2>2 DEF Injection, IsInjective
<1>11. ASSUME NEW j \in T, NEW k \in T
       PROVE  j <= k <=> list[j] \in upTo[list[k]]
  <2>1. /\ list[j] \in S /\ Cardinality(upTo[list[j]]) = j
        /\ list[k] \in S /\ Cardinality(upTo[list[k]]) = k
    BY <1>8
  <2>2. list[j] \in upTo[list[k]] => j <= k
    BY <1>1, <1>4, <2>1
  <2>3. list[j] \notin upTo[list[k]] => k < j
    <3>1. list[k] \in upTo[list[k]] /\ (list[j] \in upTo[list[k]] \/ list[k] \in upTo[list[j]])
      BY <2>1 DEF IsOrder
    <3> QED
      BY <1>4, <2>1, <3>1
  <2> QED
    BY <1>1, <2>2, <2>3
<1> HIDE DEF list
<1> QED
  BY <1>8, <1>9, <1>10, <1>11 DEF Lists, list

\* A list that names every member once along an order is the list along it.
LEMMA OnlyListing ==
    ASSUME NEW S, NEW upTo, IsOrder(S, upTo),
           NEW n \in Nat, NEW list, Lists(list, n, S, upTo)
    PROVE  /\ IsFiniteSet(S) /\ Cardinality(S) = n
           /\ Along(S, upTo) = list
<1> USE DEF Lists
<1>1. ASSUME NEW j \in 1..n, NEW k \in 1..n, list[j] = list[k]
      PROVE  j = k
  <2>1. list[j] \in S /\ list[j] \in upTo[list[j]]
    BY DEF IsOrder
  <2>2. j <= k /\ k <= j
    BY <1>1, <2>1
  <2> QED
    BY <2>2
<1>2. IsFiniteSet(1..n) /\ Cardinality(1..n) = n
  BY FS_Interval
<1>3. list \in Bijection(1..n, S)
  BY <1>1 DEF Bijection, Injection, Surjection, IsInjective
<1>4. IsFiniteSet(S) /\ Cardinality(S) = n
  BY <1>2, <1>3, FS_Bijection DEF ExistsBijection
<1>5. ASSUME NEW k \in 1..n
      PROVE  Cardinality(upTo[list[k]]) = k
  <2> DEFINE g == [j \in 1..k |-> list[j]]
             U == upTo[list[k]]
  <2>1. U \in SUBSET S /\ list[k] \in S
    BY DEF IsOrder
  <2>2. \A j \in 1..k : j \in 1..n /\ j <= k
    OBVIOUS
  <2>3. g \in [1..k -> U]
    BY <2>2
  <2>4. \A i, j \in 1..k : g[i] = g[j] => i = j
    BY <1>1, <2>2
  <2>5. ASSUME NEW x \in U
        PROVE  \E j \in 1..k : g[j] = x
    <3>1. PICK j \in 1..n : list[j] = x
      BY <2>1
    <3>2. j <= k
      BY <3>1
    <3> QED
      BY <3>1, <3>2
  <2>6. g \in Bijection(1..k, U)
    BY <2>3, <2>4, <2>5 DEF Bijection, Injection, Surjection, IsInjective
  <2>7. IsFiniteSet(1..k) /\ Cardinality(1..k) = k
    BY FS_Interval
  <2> QED
    BY <2>6, <2>7, FS_Bijection DEF ExistsBijection
<1>6. ASSUME NEW k \in 1..n
      PROVE  (CHOOSE x \in S : Cardinality(upTo[x]) = k) = list[k]
  <2>1. list[k] \in S /\ Cardinality(upTo[list[k]]) = k
    BY <1>5
  <2>2. ASSUME NEW x \in S, Cardinality(upTo[x]) = k
        PROVE  x = list[k]
    <3>1. PICK j \in 1..n : list[j] = x
      OBVIOUS
    <3>2. j = k
      BY <1>5, <2>2, <3>1
    <3> QED
      BY <3>1, <3>2
  <2> QED
    BY <2>1, <2>2
<1>7. Along(S, upTo) = [k \in 1..n |-> list[k]]
  BY <1>4, <1>6 DEF Along
<1> QED
  BY <1>4, <1>7

-----------------------------------------------------------------------------
\* Numbers by size.

UpTo(S) == [i \in S |-> {j \in S : j <= i}]
DownTo(S) == [i \in S |-> {j \in S : j >= i}]

\* Numbers are ordered upwards and downwards.
LEMMA NumbersOrdered ==
    ASSUME NEW S \in SUBSET Nat
    PROVE  IsOrder(S, UpTo(S)) /\ IsOrder(S, DownTo(S))
<1>1. /\ \A x \in S : UpTo(S)[x] = {j \in S : j <= x}
      /\ UpTo(S) \in [S -> SUBSET S]
  BY DEF UpTo
<1>2. /\ \A x \in S : DownTo(S)[x] = {j \in S : j >= x}
      /\ DownTo(S) \in [S -> SUBSET S]
  BY DEF DownTo
<1>3. \A x, y \in S : x \in UpTo(S)[y] => UpTo(S)[x] \subseteq UpTo(S)[y]
  <2> SUFFICES ASSUME NEW x \in S, NEW y \in S, x \in UpTo(S)[y], NEW z \in UpTo(S)[x]
               PROVE  z \in UpTo(S)[y]
    OBVIOUS
  <2>1. x \in Nat /\ y \in Nat /\ z \in Nat /\ z \in S /\ z <= x /\ x <= y
    BY <1>1
  <2> QED
    BY <1>1, <2>1
<1>4. \A x, y \in S : x \in DownTo(S)[y] => DownTo(S)[x] \subseteq DownTo(S)[y]
  <2> SUFFICES ASSUME NEW x \in S, NEW y \in S, x \in DownTo(S)[y], NEW z \in DownTo(S)[x]
               PROVE  z \in DownTo(S)[y]
    OBVIOUS
  <2>1. x \in Nat /\ y \in Nat /\ z \in Nat /\ z \in S /\ z >= x /\ x >= y
    BY <1>2
  <2> QED
    BY <1>2, <2>1
<1>5. /\ \A x \in S : x \in UpTo(S)[x] /\ x \in DownTo(S)[x]
      /\ \A x, y \in S : /\ x \in UpTo(S)[y] \/ y \in UpTo(S)[x]
                         /\ x \in DownTo(S)[y] \/ y \in DownTo(S)[x]
                         /\ x \in UpTo(S)[y] /\ y \in UpTo(S)[x] => x = y
                         /\ x \in DownTo(S)[y] /\ y \in DownTo(S)[x] => x = y
  BY <1>1, <1>2
<1> QED
  BY <1>1, <1>2, <1>3, <1>4, <1>5 DEF IsOrder

\* What InOrder comes to: an increasing enumeration, and a sequence.
Increasing(list, S) ==
    /\ list \in [1..Cardinality(S) -> S] /\ list \in Seq(S)
    /\ Len(list) = Cardinality(S) /\ Cardinality(S) \in Nat
    /\ DOMAIN list = 1..Cardinality(S)
    /\ \A i \in S : \E k \in 1..Cardinality(S) : list[k] = i
    /\ \A j, k \in 1..Cardinality(S) : j <= k <=> list[j] <= list[k]

\* A function on 1..n is a sequence of length n.
LEMMA SeqOfMap ==
    ASSUME NEW S, NEW n \in Nat, NEW f \in [1..n -> S]
    PROVE  f \in Seq(S) /\ Len(f) = n /\ DOMAIN f = 1..n
<1>1. f \in Seq(S)
  BY SeqDef
<1>2. Len(f) \in Nat /\ DOMAIN f = 1..Len(f)
  BY <1>1, LenProperties
<1> QED
  BY <1>1, <1>2

\* InOrder lists a finite set of numbers upwards.
LEMMA InOrderIncreases ==
    ASSUME NEW S \in SUBSET Nat, IsFiniteSet(S)
    PROVE  Increasing(InOrder(S), S)
<1> DEFINE list == InOrder(S)
           n == Cardinality(S)
<1>1. n \in Nat
  BY FS_CardinalityType
<1>2. Lists(Along(S, UpTo(S)), n, S, UpTo(S))
  BY NumbersOrdered, AlongLists
<1>3. list = Along(S, UpTo(S))
  BY DEF InOrder, UpTo
<1> HIDE DEF list
<1>4. /\ list \in [1..n -> S]
      /\ \A x \in S : \E k \in 1..n : list[k] = x
      /\ \A j, k \in 1..n : j <= k <=> list[j] \in UpTo(S)[list[k]]
  BY <1>2, <1>3 DEF Lists
<1>5. \A j, k \in 1..n : j <= k <=> list[j] <= list[k]
  BY <1>4 DEF UpTo
<1>6. list \in Seq(S) /\ Len(list) = n /\ DOMAIN list = 1..n
  BY <1>1, <1>4, SeqOfMap
<1>7. Increasing(list, S)
  BY <1>1, <1>4, <1>5, <1>6 DEF Increasing
<1> QED
  BY <1>7 DEF list

\* Newest first is oldest first, read backwards.
LEMMA NewestReversed ==
    ASSUME NEW S \in SUBSET Nat, IsFiniteSet(S)
    PROVE  Newest(S) = Reverse(InOrder(S))
<1> DEFINE list == InOrder(S)
           n == Cardinality(S)
<1>1. Increasing(list, S)
  BY InOrderIncreases
<1> HIDE DEF list
<1>2. /\ n \in Nat /\ Len(list) = n /\ list \in [1..n -> S]
      /\ \A i \in S : \E k \in 1..n : list[k] = i
      /\ \A j, k \in 1..n : j <= k <=> list[j] <= list[k]
  BY <1>1 DEF Increasing
<1> DEFINE back == [k \in 1..n |-> list[(n - k) + 1]]
<1>3. \A k \in 1..n : (n - k) + 1 \in 1..n /\ (n - ((n - k) + 1)) + 1 = k
  BY <1>2
<1>4. back \in [1..n -> S]
  BY <1>2, <1>3
<1>5. \A x \in S : \E k \in 1..n : back[k] = x
  BY <1>2, <1>3
<1>6. ASSUME NEW j \in 1..n, NEW k \in 1..n
      PROVE  j <= k <=> back[j] \in DownTo(S)[back[k]]
  <2>1. j <= k <=> (n - k) + 1 <= (n - j) + 1
    BY <1>2
  <2>2. j <= k <=> list[(n - k) + 1] <= list[(n - j) + 1]
    BY <1>2, <1>3, <2>1
  <2>3. back[j] \in S /\ back[k] \in S /\ back[j] \in Nat /\ back[k] \in Nat
    BY <1>4
  <2> QED
    BY <2>2, <2>3 DEF DownTo
<1> HIDE DEF back
<1>7. Lists(back, n, S, DownTo(S))
  BY <1>4, <1>5, <1>6 DEF Lists
<1>70. Along(S, DownTo(S)) = back
  BY <1>2, <1>7, NumbersOrdered, OnlyListing
<1>8. Newest(S) = Along(S, DownTo(S))
  BY DEF Newest, DownTo
<1>9. Reverse(list) = back
  BY <1>2 DEF Reverse, back
<1> QED
  BY <1>70, <1>8, <1>9 DEF list

\* All the positions of a list, in order.
LEMMA AllInOrder ==
    ASSUME NEW n \in Nat
    PROVE  InOrder(1..n) = [k \in 1..n |-> k]
<1> DEFINE list == [k \in 1..n |-> k]
<1>1. \A j, k \in 1..n : j <= k <=> list[j] \in UpTo(1..n)[list[k]]
  BY DEF UpTo
<1>2. list \in [1..n -> 1..n] /\ \A x \in 1..n : \E k \in 1..n : list[k] = x
  OBVIOUS
<1> HIDE DEF list
<1>3. Lists(list, n, 1..n, UpTo(1..n))
  BY <1>1, <1>2 DEF Lists
<1>4. IsOrder(1..n, UpTo(1..n))
  <2>1. 1..n \in SUBSET Nat
    OBVIOUS
  <2> QED
    BY <2>1, NumbersOrdered
<1>5. Along(1..n, UpTo(1..n)) = list
  BY <1>3, <1>4, OnlyListing
<1> QED
  BY <1>5 DEF InOrder, UpTo, list

\* The first of a list of numbers is the least of them, the last the greatest.
LEMMA Ends ==
    ASSUME NEW S \in SUBSET Nat, IsFiniteSet(S)
    PROVE  /\ Len(InOrder(S)) = 0 <=> S = {}
           /\ S # {} => /\ InOrder(S)[1] \in S
                        /\ InOrder(S)[1] = CHOOSE i \in S : \A j \in S : i <= j
                        /\ \A j \in S : InOrder(S)[1] <= j
                        /\ InOrder(S)[Len(InOrder(S))] \in S
                        /\ \A j \in S : j <= InOrder(S)[Len(InOrder(S))]
<1> DEFINE list == InOrder(S)
           n == Cardinality(S)
<1>1. Increasing(list, S)
  BY InOrderIncreases
<1> HIDE DEF list
<1>2. /\ n \in Nat /\ Len(list) = n /\ list \in [1..n -> S]
      /\ \A i \in S : \E k \in 1..n : list[k] = i
      /\ \A j, k \in 1..n : j <= k <=> list[j] <= list[k]
  BY <1>1 DEF Increasing
<1>3. n = 0 <=> S = {}
  BY FS_EmptySet
<1>4. ASSUME S # {}
      PROVE  /\ list[1] \in S /\ \A j \in S : list[1] <= j
             /\ list[n] \in S /\ \A j \in S : j <= list[n]
  <2>3. n \in Nat /\ n # 0
    BY <1>2, <1>3, <1>4
  <2>1. 1 \in 1..n /\ n \in 1..n
    BY <2>3
  <2>2. ASSUME NEW j \in S
        PROVE  list[1] <= j /\ j <= list[n]
    <3>1. PICK k \in 1..n : list[k] = j
      BY <1>2
    <3> QED
      BY <1>2, <2>1, <3>1
  <2> QED
    BY <1>2, <2>1, <2>2
<1>5. ASSUME S # {}
      PROVE  list[1] = CHOOSE i \in S : \A j \in S : i <= j
  <2>1. ASSUME NEW i \in S, \A j \in S : i <= j
        PROVE  i = list[1]
    <3>1. i <= list[1] /\ list[1] <= i /\ i \in Nat /\ list[1] \in Nat
      BY <1>4, <1>5, <2>1
    <3> QED
      BY <3>1
  <2> QED
    BY <1>4, <1>5, <2>1
<1> QED
  BY <1>2, <1>3, <1>4, <1>5 DEF list

\* LIMIT n and [:n].
LEMMA LimitIsSlice ==
    ASSUME NEW S, NEW list \in Seq(S), NEW n \in Nat
    PROVE  Limit(list, n) = Slice(list, n)
<1> DEFINE m == IF n < Len(list) THEN n ELSE Len(list)
<1>1. Len(list) \in Nat /\ DOMAIN list = 1..Len(list) /\ \A i \in 1..Len(list) : list[i] \in S
  BY LenProperties, ElementOfSeq
<1>2. m \in Nat /\ \A i \in 1..m : i \in 1..Len(list)
  BY <1>1
<1>3. m = IF Len(list) <= n THEN Len(list) ELSE n
  BY <1>1
<1> HIDE DEF m
<1>4. /\ SubSeq(list, 1, m) \in Seq(S)
      /\ Len(SubSeq(list, 1, m)) = IF 1 <= m THEN (m - 1) + 1 ELSE 0
      /\ \A i \in 1..((m - 1) + 1) : SubSeq(list, 1, m)[i] = list[(1 + i) - 1]
  BY <1>1, <1>2, SubSeqProperties
<1>5. Len(SubSeq(list, 1, m)) = m
  BY <1>2, <1>4
<1>6. \A i \in 1..m : SubSeq(list, 1, m)[i] = list[i]
  BY <1>2, <1>4
<1>7. SubSeq(list, 1, m) = [i \in 1..m |-> list[i]]
  BY <1>4, <1>5, <1>6, LenProperties, <1>2
<1> QED
  BY <1>3, <1>7 DEF Limit, Slice, m

\* A table has as many positions as rows.
LEMMA Counted ==
    ASSUME NEW R, NEW rows \in Seq(R)
    PROVE  IsFiniteSet(DOMAIN rows) /\ Cardinality(DOMAIN rows) = Len(rows)
<1> DEFINE length == Len(rows)
<1>1. length \in Nat /\ DOMAIN rows = 1..length
  BY LenProperties
<1> HIDE DEF length
<1>2. IsFiniteSet(1..length) /\ Cardinality(1..length) = length
  BY <1>1, FS_Interval
<1> QED
  BY <1>1, <1>2 DEF length

\* The rows a condition leaves, in a sequence of them.
LEMMA Picked ==
    ASSUME NEW R, NEW rows \in Seq(R), NEW S \in SUBSET (DOMAIN rows)
    PROVE  /\ S \in SUBSET Nat /\ IsFiniteSet(S) /\ Cardinality(S) \in Nat
           /\ Increasing(InOrder(S), S)
           /\ Pick(rows, S) \in Seq(R)
           /\ Len(Pick(rows, S)) = Cardinality(S)
           /\ Pick(rows, S) = [k \in 1..Cardinality(S) |-> rows[InOrder(S)[k]]]
<1>1. DOMAIN rows = 1..Len(rows) /\ Len(rows) \in Nat /\ \A i \in DOMAIN rows : rows[i] \in R
  BY LenProperties, ElementOfSeq
<1>2. IsFiniteSet(DOMAIN rows)
  BY <1>1, FS_Interval
<1>3. IsFiniteSet(S) /\ S \in SUBSET Nat /\ Cardinality(S) \in Nat
  BY <1>1, <1>2, FS_Subset, FS_CardinalityType
<1>4. Increasing(InOrder(S), S)
  BY <1>3, InOrderIncreases
<1>5. Pick(rows, S) = [k \in 1..Cardinality(S) |-> rows[InOrder(S)[k]]]
  BY <1>4 DEF Pick, RowsAt, Increasing
<1>6. \A k \in 1..Cardinality(S) : rows[InOrder(S)[k]] \in R
  BY <1>1, <1>4 DEF Increasing
<1>7. [k \in 1..Cardinality(S) |-> rows[InOrder(S)[k]]] \in [1..Cardinality(S) -> R]
  BY <1>6
<1> HIDE DEF Increasing
<1>8. Pick(rows, S) \in Seq(R) /\ Len(Pick(rows, S)) = Cardinality(S)
  BY <1>3, <1>5, <1>7, SeqOfMap
<1> QED
  BY <1>3, <1>4, <1>5, <1>8

\* rank[k] are the places of the list that come before its place k.
IsRank(rank, S, upTo) ==
    rank = [k \in 1..Cardinality(S) |->
               {j \in 1..Cardinality(S) : InOrder(S)[j] \in upTo[InOrder(S)[k]]}]

\* Sorting what a condition leaves is listing it along the order.
LEMMA PickedThenSorted ==
    ASSUME NEW S \in SUBSET Nat, IsFiniteSet(S), NEW upTo, IsOrder(S, upTo), NEW rank,
           IsRank(rank, S, upTo)
    PROVE  /\ Along(S, upTo) \in [1..Cardinality(S) -> S] 
           /\ Along(1..Cardinality(S), rank) \in [1..Cardinality(S) -> 1..Cardinality(S)]
           /\ \A k \in 1..Cardinality(S) :
                 InOrder(S)[Along(1..Cardinality(S), rank)[k]] = Along(S, upTo)[k]
<1> DEFINE list == InOrder(S)
           n == Cardinality(S)
           sorted == Along(1..n, rank)
<1>1. Increasing(list, S)
  BY InOrderIncreases
<1> HIDE DEF list
<1>2. /\ n \in Nat /\ list \in [1..n -> S]
      /\ \A i \in S : \E k \in 1..n : list[k] = i
      /\ \A j, k \in 1..n : j <= k <=> list[j] <= list[k]
  BY <1>1 DEF Increasing
<1>3. \A j, k \in 1..n : list[j] = list[k] => j = k
  BY <1>2
<1>4. /\ rank \in [1..n -> SUBSET (1..n)]
      /\ \A j, k \in 1..n : j \in rank[k] <=> list[j] \in upTo[list[k]]
  BY DEF list, IsRank
<1>5. IsOrder(1..n, rank)
  <2>1. \A j \in 1..n : list[j] \in S
    BY <1>2
  <2>3. \A j \in 1..n : j \in rank[j]
    BY <2>1, <1>4 DEF IsOrder
  <2>4. \A j, k \in 1..n : j \in rank[k] \/ k \in rank[j]
    BY <2>1, <1>4 DEF IsOrder
  <2>5. \A j, k \in 1..n : j \in rank[k] /\ k \in rank[j] => j = k
    BY <2>1, <1>3, <1>4 DEF IsOrder
  <2>2. ASSUME NEW j \in 1..n, NEW k \in 1..n, j \in rank[k], NEW i \in rank[j]
        PROVE  i \in rank[k]
    <3>1. i \in 1..n /\ list[j] \in upTo[list[k]] /\ list[i] \in upTo[list[j]]
      BY <1>4, <2>2
    <3>2. list[i] \in upTo[list[k]]
      BY <1>2, <3>1 DEF IsOrder
    <3> QED
      BY <1>4, <3>1, <3>2
  <2> QED
    BY <1>4, <2>2, <2>3, <2>4, <2>5 DEF IsOrder
<1>6. IsFiniteSet(1..n) /\ Cardinality(1..n) = n
  BY <1>2, FS_Interval
<1>7. Lists(sorted, n, 1..n, rank)
  BY <1>5, <1>6, AlongLists
<1> HIDE DEF sorted
<1>8. /\ sorted \in [1..n -> 1..n]
      /\ \A k \in 1..n : \E j \in 1..n : sorted[j] = k
      /\ \A j, k \in 1..n : j <= k <=> sorted[j] \in rank[sorted[k]]
  BY <1>6, <1>7 DEF Lists
<1> DEFINE along == [k \in 1..n |-> list[sorted[k]]]
<1>9. along \in [1..n -> S]
  BY <1>2, <1>8
<1>10. \A x \in S : \E k \in 1..n : along[k] = x
  BY <1>2, <1>8
<1>11. \A j, k \in 1..n : j <= k <=> along[j] \in upTo[along[k]]
  BY <1>4, <1>8
<1> HIDE DEF along
<1>12. Along(S, upTo) = along
  <2>1. Lists(along, n, S, upTo)
    BY <1>9, <1>10, <1>11 DEF Lists
  <2> QED
    BY <1>2, <2>1, OnlyListing
<1>13. \A k \in 1..n : along[k] = list[sorted[k]]
  BY DEF along
<1> QED
  BY <1>8, <1>9, <1>12, <1>13 DEF sorted, list


-----------------------------------------------------------------------------
\* Accounts.

AccountRow == [username : Names \cup {"owner"}, password : BOOLEAN, email : {Null, "e1", "e2"},
               business : Nat \cup Ids \cup Edited \cup {Null}, admin : {FALSE},
               provider : {Null, "google"}, subject : Subjects \cup {Null}]
BusinessRow == [status : {"active", "paused"}, profile : {Null, "p1"}, located : BOOLEAN]
SessionRow == [token : Tokens, account : Ids,
               business : Nat \cup Ids \cup Edited \cup {Null}, fresh : BOOLEAN]
HandoffRow == [code : Codes, account : Ids, fresh : BOOLEAN]
FactRows == [business : Edited, text : {"f1", "f2"}, managed : BOOLEAN,
             replacedBy : Nat \cup Ids \cup {Null}]
RuleRow == [business : Edited, enabled : BOOLEAN]
ConnectionRow == [business : Ids, account : Ids, offered : SUBSET Ids,
                  location : Ids \cup {Null}, since : Days \cup {Null}]

AccountTables ==
    [account : Seq(AccountRow), business : Seq(BusinessRow), session : SUBSET SessionRow,
     handoff : SUBSET HandoffRow, fact : Seq(FactRows), rule : Seq(RuleRow),
     connection : SUBSET ConnectionRow]

AccountsHeld(d) ==
    /\ d \in AccountTables
    /\ \A s \in d.session : s.account \in DOMAIN d.account
    /\ \A s, u \in d.session : s.token = u.token => s = u
    /\ \A h, g \in d.handoff : h.code = g.code => h = g
    /\ \A c, e \in d.connection : c.business = e.business => c = e

\* Each module has its own copy of Listing; they are one.
LEMMA SameLists ==
    /\ \A S : PA!Cardinality(S) = Cardinality(S) /\ MA!Cardinality(S) = Cardinality(S)
    /\ \A S, upTo : PA!Along(S, upTo) = Along(S, upTo) /\ MA!Along(S, upTo) = Along(S, upTo)
    /\ \A S : PA!InOrder(S) = InOrder(S) /\ MA!InOrder(S) = InOrder(S)
    /\ \A S : PA!Newest(S) = Newest(S)
    /\ \A rows, S : MA!Pick(rows, S) = Pick(rows, S)
    /\ \A rows, n : PA!Limit(rows, n) = Limit(rows, n)
    /\ \A rows, n : MA!Slice(rows, n) = Slice(rows, n)
<1>1. \A S : PA!Cardinality(S) = Cardinality(S) /\ MA!Cardinality(S) = Cardinality(S)
  BY DEF PA!Cardinality, MA!Cardinality, Cardinality
<1>2. \A S, upTo : PA!Along(S, upTo) = Along(S, upTo) /\ MA!Along(S, upTo) = Along(S, upTo)
  BY <1>1 DEF PA!Along, MA!Along, Along
<1>3. \A S : /\ PA!InOrder(S) = InOrder(S) /\ MA!InOrder(S) = InOrder(S)
             /\ PA!Newest(S) = Newest(S)
  BY <1>2 DEF PA!InOrder, MA!InOrder, InOrder, PA!Newest, Newest
<1>4. \A rows, S : MA!Pick(rows, S) = Pick(rows, S)
  BY <1>3 DEF MA!Pick, Pick, MA!RowsAt, RowsAt
<1>5. /\ \A rows, n : PA!Limit(rows, n) = Limit(rows, n)
      /\ \A rows, n : MA!Slice(rows, n) = Slice(rows, n)
  BY DEF PA!Limit, Limit, MA!Slice, Slice
<1> QED
  BY <1>1, <1>2, <1>3, <1>4, <1>5

LeastOf(S) == CHOOSE i \in S : \A j \in S : i <= j

\* What a condition leaves of the ids of a table.
LEMMA Hits ==
    ASSUME NEW R, NEW rows \in Seq(R), NEW S, S \subseteq DOMAIN rows
    PROVE  /\ S \in SUBSET Nat /\ IsFiniteSet(S)
           /\ Len(InOrder(S)) = 0 <=> S = {}
           /\ S # {} => /\ InOrder(S)[1] \in S
                        /\ InOrder(S)[1] = LeastOf(S)
<1>1. S \in SUBSET Nat /\ IsFiniteSet(S)
  BY Picked
<1> QED
  BY <1>1, Ends DEF LeastOf

\* The account with a name: the oldest row of those there are, the first the double meets.
LEMMA SameFindAccount ==
    ASSUME NEW d, d.account \in Seq(AccountRow), NEW name
    PROVE  PA!FindAccount(d, name) = MA!FindAccount(d, name)
<1> DEFINE S == {i \in DOMAIN d.account : d.account[i].username = name}
<1>2. PA!FindAccount(d, name) = IF S = {} THEN Null ELSE LeastOf(S)
  BY DEF PA!FindAccount, PA!Oldest, PA!Rows, LeastOf
<1>3. MA!FindAccount(d, name) = IF Len(InOrder(S)) = 0 THEN Null ELSE InOrder(S)[1]
  BY SameLists DEF MA!FindAccount, MA!First, MA!Rows
<1>4. S \subseteq DOMAIN d.account
  OBVIOUS
<1> HIDE DEF S
<1>5. /\ Len(InOrder(S)) = 0 <=> S = {}
      /\ S # {} => InOrder(S)[1] = LeastOf(S)
  BY <1>4, Hits
<1> QED
  BY <1>2, <1>3, <1>5

\* The account of an identity at Google, the same way.
LEMMA SameFindAccountByProvider ==
    ASSUME NEW d, d.account \in Seq(AccountRow), NEW provider, NEW subject
    PROVE  PA!FindAccountByProvider(d, provider, subject)
             = MA!FindAccountByProvider(d, provider, subject)
<1> DEFINE S == {i \in DOMAIN d.account : /\ d.account[i].provider = provider
                                          /\ d.account[i].subject = subject}
           T == {i \in DOMAIN d.account : <<d.account[i].provider, d.account[i].subject>>
                                            = <<provider, subject>>}
<1>1. S = T
  OBVIOUS
<1>2. PA!FindAccountByProvider(d, provider, subject)
        = IF subject = Null THEN Null
          ELSE IF S = {} THEN Null ELSE LeastOf(S)
  BY DEF PA!FindAccountByProvider, PA!Oldest, PA!Rows, LeastOf
<1>3. MA!FindAccountByProvider(d, provider, subject)
        = IF subject = Null THEN Null
          ELSE IF Len(InOrder(T)) = 0 THEN Null ELSE InOrder(T)[1]
  BY SameLists DEF MA!FindAccountByProvider, MA!First, MA!Rows
<1>4. S \subseteq DOMAIN d.account
  OBVIOUS
<1> HIDE DEF S, T
<1>5. /\ Len(InOrder(S)) = 0 <=> S = {}
      /\ S # {} => InOrder(S)[1] = LeastOf(S)
  BY <1>4, Hits
<1> QED
  BY <1>1, <1>2, <1>3, <1>5

-----------------------------------------------------------------------------
\* Rows that are added and rows that are changed.

\* u is t with the row e behind it.
IsAppend(S, t, e, u) ==
    /\ u \in Seq(S)
    /\ DOMAIN u = DOMAIN t \cup {Len(t) + 1}
    /\ Len(t) + 1 \notin DOMAIN t /\ Len(t) + 1 \in Nat
    /\ u[Len(t) + 1] = e
    /\ \A i \in DOMAIN t : u[i] = t[i]

\* What appending a row to a table comes to.
LEMMA Appended ==
    ASSUME NEW S, NEW t \in Seq(S), NEW e \in S
    PROVE  IsAppend(S, t, e, Append(t, e))
<1>1. /\ Append(t, e) \in Seq(S) /\ Len(Append(t, e)) = Len(t) + 1
      /\ Append(t, e)[Len(t) + 1] = e
      /\ \A i \in 1..Len(t) : Append(t, e)[i] = t[i]
  BY AppendProperties
<1>2. DOMAIN Append(t, e) = 1..(Len(t) + 1)
  BY <1>1, LenProperties
<1>3. DOMAIN t = 1..Len(t) /\ Len(t) \in Nat
  BY LenProperties
<1> QED
  BY <1>1, <1>2, <1>3 DEF IsAppend

\* u is t with the row i replaced by e.
IsChange(S, t, i, e, u) ==
    /\ u \in Seq(S)
    /\ DOMAIN u = DOMAIN t
    /\ \A j \in DOMAIN t : u[j] = IF j = i THEN e ELSE t[j]

\* What changing a row of a table comes to.
LEMMA Changed ==
    ASSUME NEW S, NEW t \in Seq(S), NEW i \in DOMAIN t, NEW e \in S
    PROVE  IsChange(S, t, i, e, [t EXCEPT ![i] = e])
<1>1. DOMAIN t = 1..Len(t)
  BY LenProperties
<1> QED
  BY <1>1, ExceptSeq DEF IsChange

\* The positions of a table are numbers, its rows of the type of its rows.
LEMMA RowsOf ==
    ASSUME NEW S, NEW t \in Seq(S)
    PROVE  /\ DOMAIN t = 1..Len(t) /\ Len(t) \in Nat
           /\ \A i \in DOMAIN t : t[i] \in S
           /\ DOMAIN t \subseteq Nat /\ Null \notin DOMAIN t
  BY LenProperties, ElementOfSeq, AgreementAssumption

\* Newest first is the rows a condition leaves, read backwards.
LEMMA NewestRows ==
    ASSUME NEW R, NEW rows \in Seq(R), NEW S, S \subseteq DOMAIN rows
    PROVE  RowsAt(rows, Newest(S)) = [k \in 1..Len(Pick(rows, S)) |->
                                         Pick(rows, S)[Len(Pick(rows, S)) + 1 - k]]
<1> DEFINE list == InOrder(S)
           n == Cardinality(S)
<1>1. /\ S \in SUBSET Nat /\ IsFiniteSet(S) /\ n \in Nat /\ Increasing(list, S)
      /\ Len(Pick(rows, S)) = n /\ Pick(rows, S) = [k \in 1..n |-> rows[list[k]]]
  BY Picked
<1>2. Newest(S) = Reverse(list)
  BY <1>1, NewestReversed
<1> HIDE DEF list, n
<1>3. Len(list) = n
  BY <1>1 DEF Increasing, n
<1>4. Reverse(list) = [k \in 1..n |-> list[(n - k) + 1]]
  BY <1>3 DEF Reverse
<1>5. RowsAt(rows, Newest(S)) = [k \in 1..n |-> rows[list[(n - k) + 1]]]
  BY <1>2, <1>4 DEF RowsAt
<1>6. \A k \in 1..n : n + 1 - k \in 1..n /\ n + 1 - k = (n - k) + 1
  BY <1>1
<1>7. \A k \in 1..n : Pick(rows, S)[n + 1 - k] = rows[list[(n - k) + 1]]
  BY <1>1, <1>6
<1> QED
  BY <1>1, <1>5, <1>7

\* A listing and its limit.
LEMMA LimitedHits ==
    ASSUME NEW R, NEW rows \in Seq(R), NEW S, S \subseteq DOMAIN rows, NEW n \in Nat
    PROVE  Limit(InOrder(S), n) = Slice(InOrder(S), n)
<1>1. InOrder(S) \in Seq(S)
  BY Picked DEF Increasing
<1> QED
  BY <1>1, LimitIsSlice

-----------------------------------------------------------------------------
\* Questions about accounts.

\* Where an owner's mail goes: the preferred account first, then the oldest with an address.
LEMMA SameOwnerEmail ==
    ASSUME NEW d, d.account \in Seq(AccountRow), NEW b, NEW preferred
    PROVE  PA!OwnerEmail(d, b, preferred) = MA!OwnerEmail(d, b, preferred)
<1> DEFINE S == {i \in DOMAIN d.account : d.account[i].business = b /\ d.account[i].email # Null}
           F == {i \in S : i = preferred}
           T == {i \in S : i # preferred}
           a == IF preferred \in S THEN preferred ELSE IF S = {} THEN Null ELSE LeastOf(S)
           list == InOrder(F) \o InOrder(T)
<1>1. PA!OwnerEmail(d, b, preferred) = IF a = Null THEN Null ELSE d.account[a].email
  BY DEF PA!OwnerEmail, PA!Oldest, PA!Rows, LeastOf
<1>2. MA!OwnerEmail(d, b, preferred) = IF Len(list) = 0 THEN Null ELSE d.account[list[1]].email
  BY SameLists DEF MA!OwnerEmail, MA!Rows
<1>3. S \subseteq DOMAIN d.account /\ F \subseteq S /\ T \subseteq S
  OBVIOUS
<1>4. F = IF preferred \in S THEN {preferred} ELSE {}
  OBVIOUS
<1>5. preferred \notin S => T = S
  OBVIOUS
<1> HIDE DEF S, F, T
<1>6. /\ F \in SUBSET Nat /\ T \in SUBSET Nat /\ Null \notin S
      /\ IsFiniteSet(F) /\ IsFiniteSet(T) /\ IsFiniteSet(S) /\ S \in SUBSET Nat
  BY <1>3, RowsOf, Hits
<1>7. InOrder(F) \in Seq(Nat) /\ InOrder(T) \in Seq(Nat)
  <2>1. Increasing(InOrder(F), F) /\ Increasing(InOrder(T), T)
    BY <1>6, InOrderIncreases
  <2>2. /\ Cardinality(F) \in Nat /\ InOrder(F) \in [1..Cardinality(F) -> Nat]
        /\ Cardinality(T) \in Nat /\ InOrder(T) \in [1..Cardinality(T) -> Nat]
    BY <1>6, <2>1 DEF Increasing
  <2> QED
    BY <2>2, SeqOfMap
<1>8. /\ Len(InOrder(F)) \in Nat /\ Len(InOrder(T)) \in Nat
      /\ Len(list) = Len(InOrder(F)) + Len(InOrder(T))
      /\ \A i \in 1..(Len(InOrder(F)) + Len(InOrder(T))) :
            list[i] = IF i <= Len(InOrder(F)) THEN InOrder(F)[i]
                      ELSE InOrder(T)[i - Len(InOrder(F))]
  BY <1>7, ConcatProperties, LenProperties
<1> HIDE DEF list
<1>9. CASE preferred \in S
  <2>1. Len(InOrder(F)) # 0 /\ InOrder(F)[1] \in F
    BY <1>4, <1>6, <1>9, Ends
  <2>2. InOrder(F)[1] = preferred
    BY <1>4, <1>9, <2>1
  <2>3. 1 \in 1..(Len(InOrder(F)) + Len(InOrder(T))) /\ 1 <= Len(InOrder(F)) /\ Len(list) # 0
    BY <1>8, <2>1
  <2>4. list[1] = preferred
    BY <1>8, <2>2, <2>3
  <2>5. a = preferred /\ a # Null
    BY <1>6, <1>9
  <2> QED
    BY <1>1, <1>2, <2>3, <2>4, <2>5
<1>10. CASE preferred \notin S
  <2>1. Len(InOrder(F)) = 0 /\ T = S
    BY <1>4, <1>5, <1>6, <1>10, Ends
  <2>2. /\ Len(InOrder(S)) = 0 <=> S = {}
        /\ S # {} => InOrder(S)[1] \in S /\ InOrder(S)[1] = LeastOf(S)
    BY <1>6, Ends DEF LeastOf
  <2>3. CASE S = {}
    <3>1. Len(list) = 0
      BY <1>8, <2>1, <2>2, <2>3
    <3>2. a = Null
      BY <1>10, <2>3
    <3> QED
      BY <1>1, <1>2, <3>1, <3>2
  <2>4. CASE S # {}
    <3>1. 1 \in 1..(Len(InOrder(F)) + Len(InOrder(T))) /\ ~(1 <= Len(InOrder(F))) /\ Len(list) # 0
      BY <1>8, <2>1, <2>2, <2>4
    <3>2. list[1] = InOrder(S)[1]
      BY <1>8, <2>1, <3>1
    <3>3. a = LeastOf(S) /\ a # Null
      BY <1>6, <1>10, <2>2, <2>4
    <3> QED
      BY <1>1, <1>2, <2>2, <2>4, <3>1, <3>2, <3>3
  <2> QED
    BY <2>3, <2>4
<1> QED
  BY <1>9, <1>10

\* The businesses to work for at night, the facts and the rules, in the same order.
LEMMA SameListings ==
    ASSUME NEW d, d.business \in Seq(BusinessRow), d.fact \in Seq(FactRows),
           d.rule \in Seq(RuleRow), NEW b, NEW n \in Nat
    PROVE  /\ PA!ActiveBusinessIds(d, n) = MA!ActiveBusinessIds(d, n)
           /\ PA!GetOwnerRules(d, b) = MA!GetOwnerRules(d, b)
           /\ PA!GetBusinessFacts(d, b) = MA!GetBusinessFacts(d, b)
<1>1. PA!ActiveBusinessIds(d, n) = MA!ActiveBusinessIds(d, n)
  <2> DEFINE S == {i \in DOMAIN d.business : d.business[i].status = "active"}
  <2>1. PA!ActiveBusinessIds(d, n) = Limit(InOrder(S), n)
    BY SameLists DEF PA!ActiveBusinessIds, PA!Rows
  <2>2. MA!ActiveBusinessIds(d, n) = Slice(InOrder(S), n)
    BY SameLists DEF MA!ActiveBusinessIds, MA!Rows
  <2>3. S \subseteq DOMAIN d.business
    OBVIOUS
  <2> HIDE DEF S
  <2> QED
    BY <2>1, <2>2, <2>3, LimitedHits
<1>2. PA!GetOwnerRules(d, b) = MA!GetOwnerRules(d, b)
  <2>1. {i \in DOMAIN d.rule : d.rule[i].business = b /\ d.rule[i].enabled}
          = {i \in DOMAIN d.rule : d.rule[i].enabled /\ d.rule[i].business = b}
    OBVIOUS
  <2> QED
    BY <2>1, SameLists DEF PA!GetOwnerRules, MA!GetOwnerRules, PA!Rows, MA!Rows
<1>3. PA!GetBusinessFacts(d, b) = MA!GetBusinessFacts(d, b)
  <2> DEFINE S == {i \in DOMAIN d.fact : d.fact[i].business = b /\ d.fact[i].replacedBy = Null}
             rows == RowsAt(d.fact, Newest(S))
             current == Pick(d.fact, S)
  <2>1. PA!GetBusinessFacts(d, b) = [i \in DOMAIN rows |-> rows[i].text]
    BY SameLists DEF PA!GetBusinessFacts, PA!Rows, PA!CurrentFacts, PA!RowsAt, RowsAt
  <2>2. MA!GetBusinessFacts(d, b)
          = [i \in DOMAIN current |-> current[Len(current) + 1 - i].text]
    BY SameLists DEF MA!GetBusinessFacts, MA!Rows
  <2>3. S \subseteq DOMAIN d.fact
    OBVIOUS
  <2> HIDE DEF S, rows, current
  <2>4. rows = [k \in 1..Len(current) |-> current[Len(current) + 1 - k]]
    BY <2>3, NewestRows, SMTT(30) DEF rows, current
  <2>5. current \in Seq(FactRows)
    BY <2>3, Picked DEF current
  <2>6. DOMAIN current = 1..Len(current)
    BY <2>5, LenProperties
  <2> QED
    BY <2>1, <2>2, <2>4, <2>6
<1> QED
  BY <1>1, <1>2, <1>3

\* A cookie is worth the same account and the same business in both, and so is the
\* session alone if it was minted with the business its account has.
LEMMA SameSessions ==
    ASSUME NEW d, AccountsHeld(d), NEW token
    PROVE  /\ PA!AccountForSession(d, token) = MA!AccountForSession(d, token)
           /\ (\A s \in d.session : s.token = token =>
                    d.account[s.account].business \in {Null, s.business})
              => PA!BusinessForSession(d, token) = MA!BusinessForSession(d, token)
<1> DEFINE live == PA!LiveSessions(d, token)
           mine == MA!SessionOf(d, token)
<1>1. /\ live = {s \in d.session : s.token = token /\ s.fresh}
      /\ mine = {s \in d.session : s.token = token}
  BY DEF PA!LiveSessions, MA!SessionOf
<1> HIDE DEF live, mine
<1>2. \A s, u \in mine : s = u
  BY <1>1 DEF AccountsHeld
<1>3. CASE live = {}
  <2>1. ~\E s \in mine : s.fresh
    BY <1>1, <1>3
  <2>2. PA!AccountForSession(d, token) = Null /\ PA!BusinessForSession(d, token) = Null
    BY <1>3 DEF PA!AccountForSession, PA!BusinessForSession, live
  <2>3. MA!AccountForSession(d, token) = Null /\ MA!BusinessForSession(d, token) = Null
    BY <2>1 DEF MA!AccountForSession, MA!BusinessForSession, mine
  <2> QED
    BY <2>2, <2>3
<1>4. CASE live # {}
  <2>1. PICK s \in live : TRUE
    BY <1>4
  <2>2. live = {s} /\ mine = {s} /\ \E u \in mine : u.fresh
    BY <1>1, <1>2, <2>1
  <2>3. (CHOOSE u \in live : TRUE) = s /\ (CHOOSE u \in mine : TRUE) = s
    BY <2>2
  <2> DEFINE a == d.account[s.account]
             b == IF a.business = Null THEN s.business ELSE a.business
             who == [account |-> s.account, business |-> b, admin |-> a.admin]
  <2>4. PA!Coalesce(a.business, s.business) = b
    BY DEF PA!Coalesce
  <2>5. PA!AccountForSession(d, token) = who
    BY <1>4, <2>3, <2>4 DEF PA!AccountForSession, live
  <2>6. /\ MA!AccountForSession(d, token) = who
        /\ MA!BusinessForSession(d, token) = s.business
    BY <2>2, <2>3 DEF MA!AccountForSession, MA!BusinessForSession, mine
  <2>7. /\ s \in SessionRow /\ s.account \in DOMAIN d.account /\ s \in d.session
        /\ a \in AccountRow /\ s.account \in Nat /\ s.token = token
    BY <1>1, <2>1, RowsOf DEF AccountsHeld, AccountTables
  <2>8. who # Null
    <3>1. who \in [account : Nat, business : Nat \cup Ids \cup Edited \cup {Null}, admin : BOOLEAN]
      BY <2>7 DEF SessionRow, AccountRow
    <3> QED
      BY <3>1, AgreementAssumption
  <2>9. PA!BusinessForSession(d, token) = b
    BY <2>5, <2>8 DEF PA!BusinessForSession
  <2>10. a.business \in {Null, s.business} => b = s.business
    OBVIOUS
  <2> QED
    BY <2>5, <2>6, <2>7, <2>9, <2>10
<1> QED
  BY <1>3, <1>4

\* What is looked up by its id is the same.
LEMMA SameLookups ==
    ASSUME NEW d, NEW a, NEW b
    PROVE  /\ PA!FindAccountById(d, a) = MA!FindAccountById(d, a)
           /\ PA!GetOwnerProfile(d, a, b) = MA!GetOwnerProfile(d, a, b)
           /\ PA!GetBusiness(d, b) = MA!GetBusiness(d, b)
           /\ PA!GetConnection(d, b) = MA!GetConnection(d, b)
<1>1. PA!FindAccountById(d, a) = MA!FindAccountById(d, a)
  BY DEF PA!FindAccountById, MA!FindAccountById, PA!Rows, MA!Rows
<1>2. PA!GetOwnerProfile(d, a, b) = MA!GetOwnerProfile(d, a, b)
  BY DEF PA!GetOwnerProfile, MA!GetOwnerProfile, PA!Rows, MA!Rows
<1>3. PA!GetBusiness(d, b) = MA!GetBusiness(d, b)
  BY DEF PA!GetBusiness, MA!GetBusiness, PA!Rows, MA!Rows
<1>4. PA!GetConnection(d, b) = MA!GetConnection(d, b)
  BY DEF PA!GetConnection, MA!GetConnection, PA!ConnectionsOf
<1> QED
  BY <1>1, <1>2, <1>3, <1>4

-----------------------------------------------------------------------------
\* Calls on accounts: the double leaves the rows and gives the answer the
\* database does, and the rows stay what AccountsHeld says of them.

\* What a call of one implementation and of the other came to, from d.
SameCall(d, p, m) == p = m /\ AccountsHeld(p.db)

\* A refused call leaves both as they were.
LEMMA SameRefusal ==
    ASSUME NEW d, AccountsHeld(d)
    PROVE  SameCall(d, PA!Refused(d), MA!Refused(d))
BY DEF SameCall, PA!Refused, MA!Refused

\* What AccountsHeld says of accounts and sessions, of a changed table of accounts.
LEMMA AccountsGrow ==
    ASSUME NEW d, AccountsHeld(d), NEW accounts \in Seq(AccountRow),
           \A i \in DOMAIN d.account : /\ i \in DOMAIN accounts
                                       /\ accounts[i].business = d.account[i].business
    PROVE  AccountsHeld([d EXCEPT !.account = accounts])
<1> DEFINE e == [d EXCEPT !.account = accounts]
<1>1. e \in AccountTables /\ e.account = accounts /\ e.session = d.session
      /\ e.handoff = d.handoff /\ e.connection = d.connection
  BY DEF AccountsHeld, AccountTables
<1> QED
  BY <1>1 DEF AccountsHeld

\* create_account: both refuse a taken name and a taken identity; the business is
\* one there is, which the double does not look at.
LEMMA SameCreateAccount ==
    ASSUME NEW d, AccountsHeld(d), NEW new \in AccountRow,
           new.business = Null \/ new.business \in DOMAIN d.business
    PROVE  SameCall(d, PA!CreateAccount(d, new), MA!CreateAccount(d, new))
<1>1. d.account \in Seq(AccountRow)
  BY DEF AccountsHeld, AccountTables
<1>2. PA!CreateAccount(d, new) = MA!CreateAccount(d, new)
  <2>1. PA!FindAccount(d, new.username) = MA!FindAccount(d, new.username)
    BY <1>1, SameFindAccount
  <2>2. PA!FindAccountByProvider(d, new.provider, new.subject)
          = MA!FindAccountByProvider(d, new.provider, new.subject)
    BY <1>1, SameFindAccountByProvider
  <2>3. new.subject = Null => PA!FindAccountByProvider(d, new.provider, new.subject) = Null
    BY DEF PA!FindAccountByProvider
  <2>4. PA!NullOr(d.business, new.business)
    BY DEF PA!NullOr, PA!Exists, PA!Rows
  <2> QED
    BY <2>1, <2>2, <2>3, <2>4 DEF PA!CreateAccount, MA!CreateAccount, PA!Refused, MA!Refused,
                            PA!Answer, MA!Answer
<1>3. AccountsHeld([d EXCEPT !.account = Append(@, new)])
  <2>1. IsAppend(AccountRow, d.account, new, Append(d.account, new))
    BY <1>1, Appended
  <2> QED
    BY <2>1, AccountsGrow DEF IsAppend
<1>4. PA!CreateAccount(d, new).db = d
      \/ PA!CreateAccount(d, new).db = [d EXCEPT !.account = Append(@, new)]
  BY DEF PA!CreateAccount, PA!Refused, PA!Answer
<1> QED
  BY <1>2, <1>3, <1>4 DEF SameCall

\* update_account_profile: both refuse an unknown account.
LEMMA SameUpdateAccountProfile ==
    ASSUME NEW d, AccountsHeld(d), NEW a, NEW email \in {Null, "e1", "e2"}
    PROVE  SameCall(d, PA!UpdateAccountProfile(d, a, email), MA!UpdateAccountProfile(d, a, email))
<1>1. PA!UpdateAccountProfile(d, a, email) = MA!UpdateAccountProfile(d, a, email)
  BY DEF PA!UpdateAccountProfile, MA!UpdateAccountProfile, PA!Rows, MA!Rows,
         PA!Answer, MA!Answer, PA!Refused, MA!Refused
<1>2. CASE a \in DOMAIN d.account
  <2> DEFINE row == [d.account[a] EXCEPT !.email = email]
             accounts == [d.account EXCEPT ![a] = row]
  <2>1. d.account \in Seq(AccountRow) /\ d.account[a] \in AccountRow
    BY <1>2, RowsOf DEF AccountsHeld, AccountTables
  <2>2. row \in AccountRow /\ row.business = d.account[a].business
    BY <2>1 DEF AccountRow
  <2> HIDE DEF row
  <2>3. IsChange(AccountRow, d.account, a, row, accounts)
    BY <1>2, <2>1, <2>2, Changed
  <2> HIDE DEF accounts
  <2>4. AccountsHeld([d EXCEPT !.account = accounts])
    BY <2>2, <2>3, AccountsGrow DEF IsChange
  <2>5. PA!UpdateAccountProfile(d, a, email).db = [d EXCEPT !.account = accounts]
    BY <1>2 DEF PA!UpdateAccountProfile, PA!Answer, PA!Rows, accounts, row
  <2> QED
    BY <1>1, <2>4, <2>5 DEF SameCall
<1>3. CASE a \notin DOMAIN d.account
  BY <1>1, <1>3 DEF SameCall, PA!UpdateAccountProfile, PA!Refused, PA!Rows
<1> QED
  BY <1>2, <1>3

\* attach_business: the account and every session of it have the business, in both,
\* if there is that business.
LEMMA SameAttachBusiness ==
    ASSUME NEW d, AccountsHeld(d), NEW a, NEW b \in Ids, b \in DOMAIN d.business
    PROVE  SameCall(d, PA!AttachBusiness(d, a, b), MA!AttachBusiness(d, a, b))
<1>1. PA!AttachBusiness(d, a, b) = MA!AttachBusiness(d, a, b)
  BY DEF PA!AttachBusiness, MA!AttachBusiness, PA!Exists, PA!Rows, MA!Rows,
         PA!Answer, MA!Answer, PA!Refused, MA!Refused
<1>2. CASE a \in DOMAIN d.account
  <2> DEFINE row == [d.account[a] EXCEPT !.business = b]
             accounts == [d.account EXCEPT ![a] = row]
             moved(s) == IF s.account = a THEN [s EXCEPT !.business = b] ELSE s
             sessions == {moved(s) : s \in d.session}
             e == [d EXCEPT !.account = accounts, !.session = sessions]
  <2>1. d.account \in Seq(AccountRow) /\ d.account[a] \in AccountRow
    BY <1>2, RowsOf DEF AccountsHeld, AccountTables
  <2>2. row \in AccountRow /\ row.business = b
    BY <2>1 DEF AccountRow
  <2> HIDE DEF row
  <2>3. IsChange(AccountRow, d.account, a, row, accounts)
    BY <1>2, <2>1, <2>2, Changed
  <2> HIDE DEF accounts
  <2>4. ASSUME NEW s \in d.session
        PROVE  /\ moved(s) \in SessionRow
               /\ moved(s).account = s.account /\ moved(s).token = s.token
               /\ s.account \in DOMAIN accounts
    <3>1. s \in SessionRow /\ s.account \in DOMAIN d.account
      BY DEF AccountsHeld, AccountTables
    <3> QED
      BY <2>3, <3>1 DEF IsChange, SessionRow
  <2>5. \A s, u \in d.session : moved(s).token = moved(u).token => s = u
    BY <2>4 DEF AccountsHeld
  <2>6. sessions \subseteq SessionRow
    BY <2>4
  <2> HIDE DEF moved
  <2>7. /\ \A s \in sessions : s.account \in DOMAIN accounts
        /\ \A s, u \in sessions : s.token = u.token => s = u
    <3>1. ASSUME NEW s \in sessions
          PROVE  s.account \in DOMAIN accounts
      <4>1. PICK r \in d.session : s = moved(r)
        OBVIOUS
      <4> QED
        BY <2>4, <4>1
    <3>2. ASSUME NEW s \in sessions, NEW u \in sessions, s.token = u.token
          PROVE  s = u
      <4>1. PICK r \in d.session : s = moved(r)
        OBVIOUS
      <4>2. PICK q \in d.session : u = moved(q)
        OBVIOUS
      <4> QED
        BY <2>5, <3>2, <4>1, <4>2
    <3> QED
      BY <3>1, <3>2
  <2> HIDE DEF sessions
  <2>8. /\ e \in AccountTables /\ e.account = accounts /\ e.session = sessions
        /\ e.handoff = d.handoff /\ e.connection = d.connection
    BY <2>3, <2>6 DEF AccountsHeld, AccountTables, IsChange
  <2>9. AccountsHeld(e)
    BY <2>7, <2>8 DEF AccountsHeld
  <2>10. PA!AttachBusiness(d, a, b).db = e
    BY <1>2 DEF PA!AttachBusiness, PA!Answer, PA!Exists, PA!Rows, accounts, row,
                sessions, moved
  <2> QED
    BY <1>1, <2>9, <2>10 DEF SameCall
<1>3. CASE a \notin DOMAIN d.account
  BY <1>1, <1>3 DEF SameCall, PA!AttachBusiness, PA!Refused, PA!Exists, PA!Rows
<1> QED
  BY <1>2, <1>3

\* Other tables may change while accounts, sessions, codes and connections do not.
LEMMA OthersChange ==
    ASSUME NEW d, AccountsHeld(d), NEW e \in AccountTables,
           e.account = d.account, e.session = d.session,
           e.handoff = d.handoff, e.connection = d.connection
    PROVE  AccountsHeld(e)
BY DEF AccountsHeld

\* create_session and delete_session, for a token that is new, an account there is and
\* a business there is, or none.
LEMMA SameSessionCalls ==
    ASSUME NEW d, AccountsHeld(d)
    PROVE  /\ \A token \in Tokens, a \in Ids : \A b :
                 (/\ ~\E s \in d.session : s.token = token
                  /\ a \in DOMAIN d.account /\ b \in Ids \cup {Null}
                  /\ b = Null \/ b \in DOMAIN d.business)
                 => SameCall(d, PA!CreateSession(d, token, a, b), MA!CreateSession(d, token, a, b))
           /\ \A token : SameCall(d, PA!DeleteSession(d, token), MA!DeleteSession(d, token))
<1>1. ASSUME NEW token \in Tokens, NEW a \in Ids, NEW b,
             ~\E s \in d.session : s.token = token,
             a \in DOMAIN d.account, b \in Ids \cup {Null},
             b = Null \/ b \in DOMAIN d.business
      PROVE  SameCall(d, PA!CreateSession(d, token, a, b), MA!CreateSession(d, token, a, b))
  <2> DEFINE new == [token |-> token, account |-> a, business |-> b, fresh |-> TRUE]
             e == [d EXCEPT !.session = @ \cup {new}]
  <2>1. MA!SessionOf(d, token) = {}
    BY <1>1 DEF MA!SessionOf
  <2>2. d.session \ {} = d.session
    OBVIOUS
  <2>3. /\ PA!CreateSession(d, token, a, b) = PA!Answer(e, Null)
        /\ MA!CreateSession(d, token, a, b) = MA!Answer(e, Null)
    BY <1>1, <2>1, <2>2 DEF PA!CreateSession, MA!CreateSession, PA!NullOr, PA!Exists, PA!Rows
  <2>5. new \in SessionRow
    BY <1>1 DEF SessionRow
  <2>6. /\ e \in AccountTables /\ e.account = d.account /\ e.session = d.session \cup {new}
        /\ e.handoff = d.handoff /\ e.connection = d.connection
    BY <2>5 DEF AccountsHeld, AccountTables
  <2>7. new.account \in DOMAIN d.account /\ new.token = token
    BY <1>1
  <2> HIDE DEF new, e
  <2>8. AccountsHeld(e)
    BY <1>1, <2>6, <2>7 DEF AccountsHeld
  <2> QED
    BY <2>3, <2>8 DEF SameCall, PA!Answer, MA!Answer
<1>2. ASSUME NEW token
      PROVE  SameCall(d, PA!DeleteSession(d, token), MA!DeleteSession(d, token))
  <2> DEFINE rest == {s \in d.session : s.token # token}
             e == [d EXCEPT !.session = rest]
  <2>1. d.session \ MA!SessionOf(d, token) = rest
    BY DEF MA!SessionOf
  <2>2. /\ PA!DeleteSession(d, token) = PA!Answer(e, Null)
        /\ MA!DeleteSession(d, token) = MA!Answer(e, Null)
    BY <2>1 DEF PA!DeleteSession, MA!DeleteSession
  <2>3. /\ e \in AccountTables /\ e.account = d.account /\ e.session = rest
        /\ e.handoff = d.handoff /\ e.connection = d.connection
        /\ rest \subseteq d.session
    BY DEF AccountsHeld, AccountTables
  <2> HIDE DEF rest, e
  <2>4. AccountsHeld(e)
    BY <2>3 DEF AccountsHeld
  <2> QED
    BY <2>2, <2>4 DEF SameCall, PA!Answer, MA!Answer
<1> QED
  BY <1>1, <1>2

\* create_handoff and consume_handoff: a code is worth one account, once, while fresh.
LEMMA SameHandoffCalls ==
    ASSUME NEW d, AccountsHeld(d), NEW code \in Codes
    PROVE  /\ \A a \in Ids :
                 (~\E h \in d.handoff : h.code = code) /\ a \in DOMAIN d.account
                 => SameCall(d, PA!CreateHandoff(d, code, a), MA!CreateHandoff(d, code, a))
           /\ SameCall(d, PA!ConsumeHandoff(d, code), MA!ConsumeHandoff(d, code))
<1> DEFINE rest == {h \in d.handoff : h.code # code}
           found == {h \in d.handoff : h.code = code}
           fresh == {h \in d.handoff : h.code = code /\ h.fresh}
<1>1. ASSUME NEW a \in Ids, ~\E h \in d.handoff : h.code = code, a \in DOMAIN d.account
      PROVE  SameCall(d, PA!CreateHandoff(d, code, a), MA!CreateHandoff(d, code, a))
  <2> DEFINE new == [code |-> code, account |-> a, fresh |-> TRUE]
             e == [d EXCEPT !.handoff = @ \cup {new}]
  <2>1. rest = d.handoff
    BY <1>1
  <2>2. /\ PA!CreateHandoff(d, code, a) = PA!Answer(e, Null)
        /\ MA!CreateHandoff(d, code, a) = MA!Answer(e, Null)
    BY <1>1, <2>1 DEF PA!CreateHandoff, MA!CreateHandoff, PA!Exists, PA!Rows
  <2>3. new \in HandoffRow /\ new.code = code
    BY DEF HandoffRow
  <2>4. /\ e \in AccountTables /\ e.account = d.account /\ e.session = d.session
        /\ e.handoff = d.handoff \cup {new} /\ e.connection = d.connection
    BY <2>3 DEF AccountsHeld, AccountTables
  <2> HIDE DEF new, e
  <2>5. AccountsHeld(e)
    BY <1>1, <2>3, <2>4 DEF AccountsHeld
  <2> QED
    BY <2>2, <2>5 DEF SameCall, PA!Answer, MA!Answer
<1>2. SameCall(d, PA!ConsumeHandoff(d, code), MA!ConsumeHandoff(d, code))
  <2> DEFINE e == [d EXCEPT !.handoff = rest]
  <2>1. d.handoff \ found = rest
    OBVIOUS
  <2>2. \A h, g \in found : h = g
    BY DEF AccountsHeld
  <2>3. fresh # {} => found = fresh
    BY <2>2
  <2>4. (\E h \in found : h.fresh) <=> fresh # {}
    OBVIOUS
  <2>5. PA!ConsumeHandoff(d, code)
          = PA!Answer(e, IF fresh = {} THEN Null ELSE (CHOOSE h \in fresh : TRUE).account)
    BY DEF PA!ConsumeHandoff
  <2> DEFINE f == [d EXCEPT !.handoff = d.handoff \ found]
  <2>60. MA!ConsumeHandoff(d, code)
          = MA!Answer(f, IF \E h \in found : h.fresh
                         THEN (CHOOSE h \in found : TRUE).account ELSE Null)
    BY DEF MA!ConsumeHandoff
  <2>6. f = e
    BY <2>1
  <2>7. /\ e \in AccountTables /\ e.account = d.account /\ e.session = d.session
        /\ e.handoff = rest /\ e.connection = d.connection /\ rest \subseteq d.handoff
    BY DEF AccountsHeld, AccountTables
  <2> HIDE DEF rest, found, fresh, e, f
  <2>8. AccountsHeld(e)
    BY <2>7 DEF AccountsHeld
  <2>9. PA!ConsumeHandoff(d, code) = MA!ConsumeHandoff(d, code)
    <3>1. CASE fresh = {}
      BY <2>4, <2>5, <2>60, <2>6, <3>1 DEF PA!Answer, MA!Answer
    <3>2. CASE fresh # {}
      BY <2>3, <2>4, <2>5, <2>60, <2>6, <3>2 DEF PA!Answer, MA!Answer
    <3> QED
      BY <3>1, <3>2
  <2> QED
    BY <2>5, <2>8, <2>9 DEF SameCall, PA!Answer
<1> QED
  BY <1>1, <1>2

\* Time runs out for what was minted.
LEMMA AgedHeld ==
    ASSUME NEW d, AccountsHeld(d)
    PROVE  AccountsHeld(Aged(d))
<1> DEFINE old(s) == [s EXCEPT !.fresh = FALSE]
           sessions == {old(s) : s \in d.session}
           codes == {old(h) : h \in d.handoff}
           e == Aged(d)
<1>1. ASSUME NEW s \in d.session
      PROVE  /\ old(s) \in SessionRow /\ old(s).account = s.account
             /\ old(s).token = s.token
  <2>1. s \in SessionRow
    BY DEF AccountsHeld, AccountTables
  <2> QED
    BY <2>1 DEF SessionRow
<1>2. ASSUME NEW h \in d.handoff
      PROVE  old(h) \in HandoffRow /\ old(h).code = h.code
  <2>1. h \in HandoffRow
    BY DEF AccountsHeld, AccountTables
  <2> QED
    BY <2>1 DEF HandoffRow
<1>3. sessions \subseteq SessionRow /\ codes \subseteq HandoffRow
  BY <1>1, <1>2
<1>4. /\ e.account = d.account /\ e.session = sessions /\ e.handoff = codes
      /\ e.connection = d.connection /\ e \in AccountTables
  BY <1>3 DEF AccountsHeld, AccountTables, Aged
<1> HIDE DEF old, e
<1>5. \A s \in sessions : s.account \in DOMAIN d.account
  <2> SUFFICES ASSUME NEW r \in d.session
               PROVE  old(r).account \in DOMAIN d.account
    OBVIOUS
  <2> QED
    BY <1>1 DEF AccountsHeld
<1>6. \A s, u \in sessions : s.token = u.token => s = u
  <2> SUFFICES ASSUME NEW r \in d.session, NEW q \in d.session, old(r).token = old(q).token
               PROVE  old(r) = old(q)
    OBVIOUS
  <2>1. r = q
    BY <1>1 DEF AccountsHeld
  <2> QED
    BY <2>1
<1>7. \A h, g \in codes : h.code = g.code => h = g
  <2> SUFFICES ASSUME NEW r \in d.handoff, NEW q \in d.handoff, old(r).code = old(q).code
               PROVE  old(r) = old(q)
    OBVIOUS
  <2>1. r = q
    BY <1>2 DEF AccountsHeld
  <2> QED
    BY <2>1
<1> HIDE DEF sessions, codes
<1>8. \A c, f \in d.connection : c.business = f.business => c = f
  BY DEF AccountsHeld
<1> QED
  BY <1>4, <1>5, <1>6, <1>7, <1>8 DEF AccountsHeld, e

\* Calls on a business's row.
LEMMA SameBusinessCalls ==
    ASSUME NEW d, AccountsHeld(d)
    PROVE  /\ \A located \in BOOLEAN :
                 SameCall(d, PA!CreateBusiness(d, located), MA!CreateBusiness(d, located))
           /\ \A b : \A profile \in {"p1"}, located \in BOOLEAN :
                 SameCall(d, PA!UpdateBusinessProfile(d, b, profile, located),
                             MA!UpdateBusinessProfile(d, b, profile, located))
           /\ \A b : \A status \in {"active", "paused"} :
                 SameCall(d, PA!SetBusinessStatus(d, b, status), MA!SetBusinessStatus(d, b, status))
<1>1. d.business \in Seq(BusinessRow) /\ d \in AccountTables
  BY DEF AccountsHeld, AccountTables
<1>2. ASSUME NEW rows \in Seq(BusinessRow)
      PROVE  AccountsHeld([d EXCEPT !.business = rows])
  <2>1. [d EXCEPT !.business = rows] \in AccountTables
    BY <1>1 DEF AccountTables
  <2> QED
    BY <1>1, <2>1, OthersChange DEF AccountTables
<1>3. ASSUME NEW b, b \in DOMAIN d.business, NEW row \in BusinessRow
      PROVE  AccountsHeld([d EXCEPT !.business[b] = row])
  <2>1. [d.business EXCEPT ![b] = row] \in Seq(BusinessRow)
    BY <1>1, <1>3, Changed DEF IsChange
  <2>2. [d EXCEPT !.business[b] = row] = [d EXCEPT !.business = [d.business EXCEPT ![b] = row]]
    BY <1>1 DEF AccountTables
  <2> QED
    BY <1>2, <2>1, <2>2
<1>4. ASSUME NEW located \in BOOLEAN
      PROVE  SameCall(d, PA!CreateBusiness(d, located), MA!CreateBusiness(d, located))
  <2> DEFINE row == [status |-> "active", profile |-> Null, located |-> located]
  <2>1. row \in BusinessRow
    BY DEF BusinessRow
  <2>2. Append(d.business, row) \in Seq(BusinessRow)
    BY <1>1, <2>1, Appended DEF IsAppend
  <2>3. AccountsHeld([d EXCEPT !.business = Append(d.business, row)])
    BY <1>2, <2>2
  <2> QED
    BY <2>3 DEF SameCall, PA!CreateBusiness, MA!CreateBusiness, PA!Answer, MA!Answer
<1>5. ASSUME NEW b, NEW profile \in {"p1"}, NEW located \in BOOLEAN
      PROVE  SameCall(d, PA!UpdateBusinessProfile(d, b, profile, located),
                         MA!UpdateBusinessProfile(d, b, profile, located))
  <2>1. CASE b \notin DOMAIN d.business
    BY <2>1, SameRefusal DEF PA!UpdateBusinessProfile, MA!UpdateBusinessProfile, PA!Rows, MA!Rows
  <2>2. CASE b \in DOMAIN d.business
    <3> DEFINE old == d.business[b]
               p == [old EXCEPT !.profile = profile, !.located = @ \/ located]
               m == [old EXCEPT !.profile = profile, !.located = IF located THEN TRUE ELSE @]
    <3>1. old \in BusinessRow
      BY <1>1, <2>2, RowsOf
    <3>2. p = m /\ p \in BusinessRow
      <4>1. old.located \in BOOLEAN
        BY <3>1 DEF BusinessRow
      <4>2. (old.located \/ located) = IF located THEN TRUE ELSE old.located
        BY <4>1
      <4>3. (old.located \/ located) \in BOOLEAN
        BY <4>1
      <4> DEFINE l == old.located \/ located
      <4>4. l \in BOOLEAN /\ p = [old EXCEPT !.profile = profile, !.located = l]
            /\ m = [old EXCEPT !.profile = profile, !.located = l]
        BY <3>1, <4>2, <4>3 DEF BusinessRow
      <4> HIDE DEF l, p, m
      <4> QED
        BY <3>1, <4>4 DEF BusinessRow
    <3>3. /\ PA!UpdateBusinessProfile(d, b, profile, located)
               = PA!Answer([d EXCEPT !.business[b] = p], Null)
          /\ MA!UpdateBusinessProfile(d, b, profile, located)
               = MA!Answer([d EXCEPT !.business[b] = m], Null)
      <4>1. /\ [d EXCEPT !.business[b].profile = profile, !.business[b].located = @ \/ located]
                 = [d EXCEPT !.business[b] = p]
            /\ [d EXCEPT !.business[b].profile = profile,
                         !.business[b].located = IF located THEN TRUE ELSE @]
                 = [d EXCEPT !.business[b] = m]
        BY <1>1, <2>2, <3>1 DEF AccountTables, BusinessRow
      <4> QED
        BY <2>2, <4>1 DEF PA!UpdateBusinessProfile, MA!UpdateBusinessProfile, PA!Rows, MA!Rows
    <3> HIDE DEF p, m
    <3>4. AccountsHeld([d EXCEPT !.business[b] = p])
      BY <1>3, <2>2, <3>2
    <3> QED
      BY <3>2, <3>3, <3>4 DEF SameCall, PA!Answer, MA!Answer
  <2> QED
    BY <2>1, <2>2
<1>6. ASSUME NEW b, NEW status \in {"active", "paused"}
      PROVE  SameCall(d, PA!SetBusinessStatus(d, b, status), MA!SetBusinessStatus(d, b, status))
  <2>1. CASE b \notin DOMAIN d.business
    BY <2>1, SameRefusal DEF PA!SetBusinessStatus, MA!SetBusinessStatus, PA!Rows, MA!Rows
  <2>2. CASE b \in DOMAIN d.business
    <3> DEFINE row == [d.business[b] EXCEPT !.status = status]
    <3>1. d.business[b] \in BusinessRow
      BY <1>1, <2>2, RowsOf
    <3>2. row \in BusinessRow
      BY <3>1 DEF BusinessRow
    <3>3. AccountsHeld([d EXCEPT !.business[b] = row])
      BY <1>3, <2>2, <3>2
    <3>4. [d EXCEPT !.business[b].status = status] = [d EXCEPT !.business[b] = row]
      OBVIOUS
    <3> QED
      BY <2>2, <3>3, <3>4 DEF SameCall, PA!SetBusinessStatus, MA!SetBusinessStatus,
                              PA!Rows, MA!Rows, PA!Answer, MA!Answer
  <2> QED
    BY <2>1, <2>2
<1> QED
  BY <1>4, <1>5, <1>6

\* One list behind another.
LEMMA Joined ==
    ASSUME NEW S, NEW t \in Seq(S), NEW u \in Seq(S)
    PROVE  /\ t \o u \in Seq(S) /\ DOMAIN (t \o u) = 1..(Len(t) + Len(u))
           /\ \A j \in 1..(Len(t) + Len(u)) :
                 (t \o u)[j] = IF j <= Len(t) THEN t[j] ELSE u[j - Len(t)]
<1>1. /\ t \o u \in Seq(S) /\ Len(t \o u) = Len(t) + Len(u)
      /\ \A j \in 1..(Len(t) + Len(u)) :
            (t \o u)[j] = IF j <= Len(t) THEN t[j] ELSE u[j - Len(t)]
  BY ConcatProperties
<1>2. DOMAIN (t \o u) = 1..Len(t \o u)
  BY <1>1, LenProperties
<1> QED
  BY <1>1, <1>2

\* Calls on facts and rules, of a business there is.
LEMMA SameFactCalls ==
    ASSUME NEW d, AccountsHeld(d)
    PROVE  /\ \A b \in Edited, text \in {"f1", "f2"} : b \in DOMAIN d.business =>
                 SameCall(d, PA!InsertBusinessFact(d, b, text), MA!InsertBusinessFact(d, b, text))
           /\ \A i : \A by \in Ids : by \in DOMAIN d.fact =>
                 SameCall(d, PA!SupersedeBusinessFact(d, i, by), MA!SupersedeBusinessFact(d, i, by))
           /\ \A b \in Edited, texts \in {<<>>, <<"f2">>} : b \in DOMAIN d.business =>
                 SameCall(d, PA!ReplaceProfileFacts(d, b, texts),
                             MA!ReplaceProfileFacts(d, b, texts))
           /\ \A b \in Edited, enabled \in BOOLEAN : b \in DOMAIN d.business =>
                 SameCall(d, PA!InsertOwnerRule(d, b, enabled), MA!InsertOwnerRule(d, b, enabled))
<1>1. d.fact \in Seq(FactRows) /\ d.rule \in Seq(RuleRow) /\ d \in AccountTables
  BY DEF AccountsHeld, AccountTables
<1>2. ASSUME NEW rows \in Seq(FactRows)
      PROVE  AccountsHeld([d EXCEPT !.fact = rows])
  <2>1. [d EXCEPT !.fact = rows] \in AccountTables
    BY <1>1 DEF AccountTables
  <2> QED
    BY <1>1, <2>1, OthersChange DEF AccountTables
<1>3. ASSUME NEW b \in Edited, NEW text \in {"f1", "f2"}, b \in DOMAIN d.business
      PROVE  SameCall(d, PA!InsertBusinessFact(d, b, text), MA!InsertBusinessFact(d, b, text))
  <2> DEFINE row == [business |-> b, text |-> text, managed |-> FALSE, replacedBy |-> Null]
  <2>1. row \in FactRows
    BY DEF FactRows
  <2>2. Append(d.fact, row) \in Seq(FactRows)
    BY <1>1, <2>1, Appended DEF IsAppend
  <2>3. AccountsHeld([d EXCEPT !.fact = Append(d.fact, row)])
    BY <1>2, <2>2
  <2> QED
    BY <1>3, <2>3 DEF SameCall, PA!InsertBusinessFact, MA!InsertBusinessFact, PA!FactRow,
                      PA!Exists, PA!Rows, PA!Answer, MA!Answer
<1>4. ASSUME NEW i, NEW by \in Ids, by \in DOMAIN d.fact
      PROVE  SameCall(d, PA!SupersedeBusinessFact(d, i, by), MA!SupersedeBusinessFact(d, i, by))
  <2>1. CASE i \notin DOMAIN d.fact
    BY <2>1, SameRefusal DEF PA!SupersedeBusinessFact, MA!SupersedeBusinessFact,
                               PA!Exists, PA!Rows, MA!Rows
  <2>2. CASE i \in DOMAIN d.fact
    <3> DEFINE row == [d.fact[i] EXCEPT !.replacedBy = by]
               rows == [d.fact EXCEPT ![i] = row]
    <3>1. d.fact[i] \in FactRows
      BY <1>1, <2>2, RowsOf
    <3>2. row \in FactRows
      BY <3>1 DEF FactRows
    <3>3. rows \in Seq(FactRows)
      BY <1>1, <2>2, <3>2, Changed DEF IsChange
    <3>4. AccountsHeld([d EXCEPT !.fact = rows])
      BY <1>2, <3>3
    <3>5. [d EXCEPT !.fact[i].replacedBy = by] = [d EXCEPT !.fact = rows]
      OBVIOUS
    <3> QED
      BY <1>4, <2>2, <3>4, <3>5
         DEF SameCall, PA!SupersedeBusinessFact, MA!SupersedeBusinessFact,
                              PA!NullOr, PA!Exists, PA!Rows, MA!Rows, PA!Answer, MA!Answer
  <2> QED
    BY <2>1, <2>2
<1>5. ASSUME NEW b \in Edited, NEW texts \in {<<>>, <<"f2">>}, b \in DOMAIN d.business
      PROVE  SameCall(d, PA!ReplaceProfileFacts(d, b, texts), MA!ReplaceProfileFacts(d, b, texts))
  <2> DEFINE n == Len(d.fact)
             m == Len(texts)
             old == {j \in DOMAIN d.fact : /\ d.fact[j].business = b /\ d.fact[j].managed
                                           /\ d.fact[j].replacedBy = Null}
             new == [j \in DOMAIN texts |-> [business |-> b, text |-> texts[j],
                                             managed |-> TRUE, replacedBy |-> Null]]
             ids == [j \in DOMAIN texts |-> n + j]
             kept == [j \in DOMAIN d.fact |->
                        IF j \in old /\ texts # <<>>
                        THEN [d.fact[j] EXCEPT !.replacedBy = n + 1] ELSE d.fact[j]]
             had == d.fact
             after == had \o new
             marked == [j \in DOMAIN after |->
                          IF j \in old THEN [after[j] EXCEPT !.replacedBy = ids[1]]
                          ELSE after[j]]
             left == IF texts = <<>> THEN after ELSE marked
  <2>1. PA!ReplaceProfileFacts(d, b, texts) = PA!Answer([d EXCEPT !.fact = kept \o new], ids)
    <3>1. {j \in PA!CurrentFacts(d, b) : d.fact[j].managed} = old
      BY DEF PA!CurrentFacts, PA!Rows
    <3> QED
      BY <1>5, <3>1 DEF PA!ReplaceProfileFacts, PA!Exists, PA!Rows, PA!FactRow
  <2>2. MA!ReplaceProfileFacts(d, b, texts) = MA!Answer([d EXCEPT !.fact = left], ids)
    <3>1. MA!OldFacts(d, b) = old
      BY DEF MA!OldFacts, MA!Rows
    <3> QED
      BY <3>1 DEF MA!ReplaceProfileFacts, MA!Rows
  <2>3. DOMAIN d.fact = 1..n /\ n \in Nat /\ \A j \in DOMAIN d.fact : d.fact[j] \in FactRows
    BY <1>1, RowsOf
  <2>4. texts \in Seq({"f1", "f2"})
    <3>1. <<>> \in Seq({"f1", "f2"}) /\ "f2" \in {"f1", "f2"}
      BY EmptySeq
    <3>2. Append(<<>>, "f2") \in Seq({"f1", "f2"})
      BY <3>1, AppendProperties
    <3>3. <<"f2">> = Append(<<>>, "f2")
      OBVIOUS
    <3> QED
      BY <3>1, <3>2, <3>3
  <2>5. m \in Nat /\ DOMAIN texts = 1..m /\ \A j \in 1..m : texts[j] \in {"f1", "f2"}
    BY <2>4, LenProperties, ElementOfSeq
  <2>6. new \in [1..m -> FactRows] /\ kept \in [1..n -> FactRows]
    BY <2>3, <2>5 DEF FactRows
  <2>7. texts # <<>> => m # 0
    BY <2>4, EmptySeq
  <2>8. texts = <<>> => m = 0
    BY <2>4, EmptySeq
  <2>9. old \subseteq 1..n
    BY <2>3
  <2>10. m # 0 => ids[1] = n + 1
    BY <2>5
  <2>11. kept = [j \in 1..n |-> IF j \in old /\ texts # <<>>
                                THEN [d.fact[j] EXCEPT !.replacedBy = n + 1] ELSE d.fact[j]]
    BY <2>3
  <2>20. had \in Seq(FactRows) /\ Len(had) = n
    BY <1>1
  <2> HIDE DEF new, kept, old, ids, n, m, had
  <2>12. new \in Seq(FactRows) /\ Len(new) = m /\ kept \in Seq(FactRows) /\ Len(kept) = n
    BY <2>3, <2>5, <2>6, SeqOfMap
  <2>13. /\ kept \o new \in Seq(FactRows) /\ DOMAIN (kept \o new) = 1..(n + m)
         /\ \A j \in 1..(n + m) : (kept \o new)[j] = IF j <= n THEN kept[j] ELSE new[j - n]
    BY <2>12, Joined
  <2>14. /\ after \in Seq(FactRows) /\ DOMAIN after = 1..(n + m)
         /\ \A j \in 1..(n + m) : after[j] = IF j <= n THEN had[j] ELSE new[j - n]
    <3>1. /\ had \o new \in Seq(FactRows) /\ DOMAIN (had \o new) = 1..(Len(had) + Len(new))
          /\ \A j \in 1..(Len(had) + Len(new)) :
                (had \o new)[j] = IF j <= Len(had) THEN had[j] ELSE new[j - Len(had)]
      BY <2>12, <2>20, Joined
    <3> QED
      BY <2>12, <2>20, <3>1
  <2> HIDE DEF after
  <2>15. DOMAIN left = 1..(n + m)
    BY <2>14
  <2>16. ASSUME NEW j \in 1..(n + m)
         PROVE  left[j] = (kept \o new)[j]
    <3>1. CASE texts = <<>>
      <4>1. j <= n /\ j \in 1..n
        BY <2>3, <2>8, <3>1
      <4>2. kept[j] = d.fact[j]
        BY <2>11, <3>1, <4>1
      <4> QED
        BY <2>13, <2>14, <3>1, <4>1, <4>2 DEF had
    <3>2. CASE texts # <<>>
      <4>1. left[j] = IF j \in old THEN [after[j] EXCEPT !.replacedBy = n + 1] ELSE after[j]
        BY <2>7, <2>10, <2>14, <3>2
      <4>2. CASE j <= n
        <5>1. j \in 1..n
          BY <2>3, <2>5, <4>2
        <5> QED
          BY <2>11, <2>13, <2>14, <3>2, <4>1, <4>2, <5>1 DEF had
      <4>3. CASE ~(j <= n)
        <5>1. j \notin old
          BY <2>9, <4>3
        <5> QED
          BY <2>13, <2>14, <4>1, <4>3, <5>1
      <4> QED
        BY <4>2, <4>3
    <3> QED
      BY <3>1, <3>2
  <2>17. left = kept \o new
    <3>1. left = [j \in 1..(n + m) |-> left[j]]
      <4>1. after = [j \in 1..(n + m) |-> after[j]]
        <5>1. after \in [DOMAIN after -> FactRows]
          BY <2>14, LenProperties
        <5> QED
          BY <2>14, <5>1
      <4>2. marked = [j \in 1..(n + m) |-> marked[j]]
        BY <2>14
      <4> HIDE DEF marked
      <4> QED
        BY <4>1, <4>2
    <3>2. kept \o new = [j \in 1..(n + m) |-> (kept \o new)[j]]
      <4>1. kept \o new \in [DOMAIN (kept \o new) -> FactRows]
        BY <2>13, LenProperties
      <4> QED
        BY <2>13, <4>1
    <3> HIDE DEF left
    <3> QED
      BY <2>16, <3>1, <3>2
  <2> HIDE DEF left
  <2>18. AccountsHeld([d EXCEPT !.fact = kept \o new])
    BY <1>2, <2>13
  <2> QED
    BY <2>1, <2>2, <2>17, <2>18 DEF SameCall, PA!Answer, MA!Answer
<1>6. ASSUME NEW b \in Edited, NEW enabled \in BOOLEAN, b \in DOMAIN d.business
      PROVE  SameCall(d, PA!InsertOwnerRule(d, b, enabled), MA!InsertOwnerRule(d, b, enabled))
  <2> DEFINE row == [business |-> b, enabled |-> enabled]
             e == [d EXCEPT !.rule = Append(@, row)]
  <2>1. row \in RuleRow
    BY DEF RuleRow
  <2>2. Append(d.rule, row) \in Seq(RuleRow)
    BY <1>1, <2>1, Appended DEF IsAppend
  <2>3. e \in AccountTables
    BY <1>1, <2>2 DEF AccountTables
  <2>4. AccountsHeld(e)
    BY <1>1, <2>3, OthersChange DEF AccountTables
  <2> QED
    BY <1>6, <2>4 DEF SameCall, PA!InsertOwnerRule, MA!InsertOwnerRule, PA!Exists, PA!Rows,
                      PA!Answer, MA!Answer
<1> QED
  BY <1>3, <1>4, <1>5, <1>6

-----------------------------------------------------------------------------
\* Calls on a connection, of a workspace whose accounts have a business there is.

Housed(d) == \A i \in DOMAIN d.account : d.account[i].business \in DOMAIN d.business

\* The two stores, but for the time a connection was made.
ButForTimes(d, e) ==
    /\ d \in AccountTables /\ e \in AccountTables
    /\ e.account = d.account /\ e.business = d.business /\ e.session = d.session
    /\ e.handoff = d.handoff /\ e.fact = d.fact /\ e.rule = d.rule
    /\ Faces(e.connection) = Faces(d.connection)

\* The row of a business replaced.
LEMMA ConnectionReplaced ==
    ASSUME NEW d, AccountsHeld(d), NEW new \in ConnectionRow,
           NEW rest, rest = {c \in d.connection : c.business # new.business}
    PROVE  AccountsHeld([d EXCEPT !.connection = rest \cup {new}])
<1> DEFINE e == [d EXCEPT !.connection = rest \cup {new}]
<1>1. /\ e \in AccountTables /\ e.account = d.account /\ e.session = d.session
      /\ e.handoff = d.handoff /\ e.connection = rest \cup {new}
  BY DEF AccountsHeld, AccountTables
<1> HIDE DEF e
<1>2. \A c, f \in e.connection : c.business = f.business => c = f
  BY <1>1 DEF AccountsHeld
<1>3. AccountsHeld(e)
  BY <1>1, <1>2 DEF AccountsHeld
<1> QED
  BY <1>3 DEF e

\* A business has one connection at most, which both find.
LEMMA ConnectionOfOne ==
    ASSUME NEW d, AccountsHeld(d), NEW b, NEW old, old = PA!GetConnection(d, b)
    PROVE  /\ MA!GetConnection(d, b) = old
           /\ old = Null => \A c \in d.connection : c.business # b
           /\ old # Null => /\ old \in d.connection /\ old \in ConnectionRow /\ old.business = b
                            /\ \A c \in d.connection : c.business = b => c = old
           /\ d.connection \ {old} = {c \in d.connection : c.business # b}
<1> DEFINE S == {c \in d.connection : c.business = b}
<1>1. PA!GetConnection(d, b) = IF S = {} THEN Null ELSE CHOOSE c \in S : TRUE
  BY DEF PA!GetConnection, PA!ConnectionsOf
<1>2. MA!GetConnection(d, b) = old
  BY SameLookups
<1>3. \A c \in d.connection : c \in ConnectionRow
  BY DEF AccountsHeld, AccountTables
<1>4. \A c \in d.connection : c # Null
  <2>1. Null \notin ConnectionRow
    BY AgreementAssumption DEF ConnectionRow
  <2> QED
    BY <1>3, <2>1
<1>5. \A c, e \in S : c = e
  BY DEF AccountsHeld
<1>6. CASE S = {}
  <2>1. old = Null /\ \A c \in d.connection : c.business # b
    BY <1>1, <1>6
  <2>2. d.connection \ {old} = {c \in d.connection : c.business # b}
    BY <1>4, <2>1
  <2> QED
    BY <1>2, <2>1, <2>2
<1>7. CASE S # {}
  <2>1. old \in S
    BY <1>1, <1>7
  <2>2. \A c \in d.connection : c.business = b => c = old
    BY <1>5, <2>1
  <2>3. d.connection \ {old} = {c \in d.connection : c.business # b}
    BY <2>1, <2>2
  <2> QED
    BY <1>2, <1>3, <1>4, <2>1, <2>2, <2>3
<1> QED
  BY <1>6, <1>7

\* What is seen of a connection: all but the time, and whether there is one.
LEMMA SeenOfConnection ==
    ASSUME NEW c \in ConnectionRow
    PROVE  /\ c # Null /\ SinceOrNot(c) = [c EXCEPT !.since = (c.since # Null)]
           /\ SinceOrNot(c).business = c.business /\ SinceOrNot(c).account = c.account
           /\ SinceOrNot(c).offered = c.offered /\ SinceOrNot(c).location = c.location
           /\ SinceOrNot(c).since = (c.since # Null)
<1>1. c # Null
  BY AgreementAssumption DEF ConnectionRow
<1> QED
  BY <1>1 DEF ConnectionRow, SinceOrNot

\* Two connections look alike exactly if they differ in the time alone, and have
\* one or have none.
LEMMA LookAlike ==
    ASSUME NEW c \in ConnectionRow, NEW e \in ConnectionRow
    PROVE  SinceOrNot(c) = SinceOrNot(e)
           <=> /\ c.business = e.business /\ c.account = e.account
               /\ c.offered = e.offered /\ c.location = e.location
               /\ (c.since = Null) <=> (e.since = Null)
<1>1. /\ SinceOrNot(c) = [c EXCEPT !.since = (c.since # Null)]
      /\ SinceOrNot(e) = [e EXCEPT !.since = (e.since # Null)]
  BY SeenOfConnection
<1>2. ASSUME SinceOrNot(c) = SinceOrNot(e)
      PROVE  /\ c.business = e.business /\ c.account = e.account
             /\ c.offered = e.offered /\ c.location = e.location
             /\ (c.since = Null) <=> (e.since = Null)
  BY <1>2, SeenOfConnection
<1>3. ASSUME c.business = e.business, c.account = e.account,
             c.offered = e.offered, c.location = e.location,
             (c.since = Null) <=> (e.since = Null)
      PROVE  SinceOrNot(c) = SinceOrNot(e)
  <2>1. (c.since # Null) = (e.since # Null)
    BY <1>3
  <2> DEFINE t == (c.since # Null)
  <2>2. [c EXCEPT !.since = t] = [e EXCEPT !.since = t]
    <3> HIDE DEF t
    <3> QED
      BY <1>3 DEF ConnectionRow
  <2> QED
    BY <1>1, <2>1, <2>2
<1> QED
  BY <1>2, <1>3

\* The connections of the other businesses.
OtherThan(C, b) == {c \in C : c.business # b}

\* What replacing the rows of a business, in two tables that look alike, comes to.
LEMMA FacesReplaced ==
    ASSUME NEW C \in SUBSET ConnectionRow, NEW E \in SUBSET ConnectionRow,
           Faces(C) = Faces(E), NEW b,
           NEW p, NEW m, SinceOrNot(p) = SinceOrNot(m)
    PROVE  Faces(OtherThan(C, b) \cup {p}) = Faces(OtherThan(E, b) \cup {m})
<1>1. ASSUME NEW A \in SUBSET ConnectionRow, NEW B \in SUBSET ConnectionRow,
             Faces(A) = Faces(B), NEW c \in A, c.business # b
      PROVE  \E e \in B : e.business # b /\ SinceOrNot(c) = SinceOrNot(e)
  <2>1. SinceOrNot(c) \in Faces(B)
    BY <1>1 DEF Faces
  <2>2. PICK e \in B : SinceOrNot(c) = SinceOrNot(e)
    BY <2>1 DEF Faces
  <2>3. c.business = e.business
    BY <1>1, <2>2, SeenOfConnection
  <2> QED
    BY <1>1, <2>2, <2>3
<1>2. \A c \in C : c.business # b => \E e \in E : e.business # b /\ SinceOrNot(c) = SinceOrNot(e)
  BY <1>1
<1>3. \A c \in E : c.business # b => \E e \in C : e.business # b /\ SinceOrNot(c) = SinceOrNot(e)
  BY <1>1
<1> QED
  BY <1>2, <1>3 DEF Faces, OtherThan

\* The connection of a business, in two stores that look alike.
LEMMA SameGetConnection ==
    ASSUME NEW d, NEW e, AccountsHeld(d), AccountsHeld(e), ButForTimes(d, e), NEW b
    PROVE  /\ SinceOrNot(PA!GetConnection(d, b)) = SinceOrNot(MA!GetConnection(e, b))
           /\ (PA!GetConnection(d, b) = Null) <=> (MA!GetConnection(e, b) = Null)
<1> DEFINE p == PA!GetConnection(d, b)
           m == PA!GetConnection(e, b)
<1>1. MA!GetConnection(e, b) = m
  BY ConnectionOfOne
<1>2. /\ p = Null => \A c \in d.connection : c.business # b
      /\ p # Null => /\ p \in d.connection /\ p.business = b
                     /\ \A c \in d.connection : c.business = b => c = p
  BY ConnectionOfOne
<1>3. /\ m = Null => \A c \in e.connection : c.business # b
      /\ m # Null => /\ m \in e.connection /\ m.business = b
                     /\ \A c \in e.connection : c.business = b => c = m
  BY ConnectionOfOne
<1>4. d.connection \in SUBSET ConnectionRow /\ e.connection \in SUBSET ConnectionRow
  BY DEF AccountsHeld, AccountTables
<1>5. ASSUME NEW c \in d.connection
      PROVE  \E f \in e.connection : SinceOrNot(f) = SinceOrNot(c) /\ f.business = c.business
  <2>1. PICK f \in e.connection : SinceOrNot(f) = SinceOrNot(c)
    BY DEF ButForTimes, Faces
  <2> QED
    BY <1>4, <2>1, SeenOfConnection
<1>6. ASSUME NEW c \in e.connection
      PROVE  \E f \in d.connection : SinceOrNot(f) = SinceOrNot(c) /\ f.business = c.business
  <2>1. PICK f \in d.connection : SinceOrNot(f) = SinceOrNot(c)
    BY DEF ButForTimes, Faces
  <2> QED
    BY <1>4, <2>1, SeenOfConnection
<1> HIDE DEF p, m
<1>7. CASE p = Null
  <2>1. m = Null
    BY <1>2, <1>3, <1>6, <1>7
  <2> QED
    BY <1>1, <1>7, <2>1 DEF p, m
<1>8. CASE p # Null
  <2>1. PICK f \in e.connection : SinceOrNot(f) = SinceOrNot(p) /\ f.business = b
    BY <1>2, <1>5, <1>8
  <2>2. f = m /\ m # Null
    BY <1>3, <2>1
  <2> QED
    BY <1>1, <1>8, <2>1, <2>2 DEF p, m
<1> QED
  BY <1>7, <1>8

\* What a call of one implementation and of the other came to, but for times.
SameButForTimes(p, m) ==
    /\ AccountsHeld(p.db) /\ AccountsHeld(m.db) /\ ButForTimes(p.db, m.db)
    /\ p.ok = m.ok /\ SinceOrNot(p.ans) = SinceOrNot(m.ans)

\* The row of a business replaced in both by rows that look alike.
LEMMA ReplacedAlike ==
    ASSUME NEW d, NEW e, AccountsHeld(d), AccountsHeld(e), ButForTimes(d, e), NEW b,
           NEW p \in ConnectionRow, NEW m \in ConnectionRow,
           p.business = b, m.business = b, SinceOrNot(p) = SinceOrNot(m),
           NEW C, C = {c \in d.connection : c.business # b} \cup {p},
           NEW E, E = {c \in e.connection : c.business # b} \cup {m}
    PROVE  SameButForTimes(PA!Answer([d EXCEPT !.connection = C], p),
                           MA!Answer([e EXCEPT !.connection = E], m))
<1> DEFINE dd == [d EXCEPT !.connection = C]
           ee == [e EXCEPT !.connection = E]
<1>1. AccountsHeld(dd) /\ AccountsHeld(ee)
  <2>1. AccountsHeld(dd)
    <3> DEFINE rest == {c \in d.connection : c.business # p.business}
    <3>1. C = rest \cup {p}
      OBVIOUS
    <3> HIDE DEF rest
    <3> QED
      BY <3>1, ConnectionReplaced DEF rest
  <2>2. AccountsHeld(ee)
    <3> DEFINE rest == {c \in e.connection : c.business # m.business}
    <3>1. E = rest \cup {m}
      OBVIOUS
    <3> HIDE DEF rest
    <3> QED
      BY <3>1, ConnectionReplaced DEF rest
  <2> QED
    BY <2>1, <2>2
<1>2. Faces(C) = Faces(E)
  <2>1. /\ d.connection \in SUBSET ConnectionRow /\ e.connection \in SUBSET ConnectionRow
        /\ Faces(d.connection) = Faces(e.connection)
    BY DEF AccountsHeld, AccountTables, ButForTimes
  <2>2. Faces(OtherThan(d.connection, b) \cup {p}) = Faces(OtherThan(e.connection, b) \cup {m})
    BY <2>1, FacesReplaced
  <2> QED
    BY <2>2 DEF OtherThan
<1>3. dd.connection = C /\ ee.connection = E
  BY DEF ButForTimes, AccountTables
<1>4. /\ dd.account = d.account /\ dd.business = d.business /\ dd.session = d.session
      /\ dd.handoff = d.handoff /\ dd.fact = d.fact /\ dd.rule = d.rule
      /\ ee.account = e.account /\ ee.business = e.business /\ ee.session = e.session
      /\ ee.handoff = e.handoff /\ ee.fact = e.fact /\ ee.rule = e.rule
  BY DEF ButForTimes, AccountTables
<1> HIDE DEF dd, ee
<1>5. ButForTimes(dd, ee)
  BY <1>1, <1>2, <1>3, <1>4 DEF ButForTimes, AccountsHeld
<1> QED
  BY <1>1, <1>5 DEF SameButForTimes, PA!Answer, MA!Answer, dd, ee

\* Refused by both, neither changes.
LEMMA RefusedAlike ==
    ASSUME NEW d, NEW e, AccountsHeld(d), AccountsHeld(e), ButForTimes(d, e)
    PROVE  SameButForTimes(PA!Refused(d), MA!Refused(e))
BY DEF SameButForTimes, PA!Refused, MA!Refused

\* upsert_connection: both have a time if there is a location or there was a time.
LEMMA SameUpsertConnection ==
    ASSUME NEW d, NEW e, AccountsHeld(d), AccountsHeld(e), ButForTimes(d, e), Housed(d),
           NEW b \in Ids, NEW a \in Ids, NEW offered \in SUBSET Ids,
           NEW location \in Ids \cup {Null}, NEW now \in Days
    PROVE  SameButForTimes(PA!UpsertConnection(d, b, a, offered, location, now),
                           MA!UpsertConnection(e, b, a, offered, location, now))
<1> DEFINE oldP == PA!GetConnection(d, b)
           oldM == MA!GetConnection(e, b)
           sinceP == IF oldP = Null THEN Null ELSE oldP.since
           keptP == IF location = Null THEN sinceP ELSE PA!Coalesce(sinceP, now)
           keptM == IF location # Null THEN now
                    ELSE IF oldM = Null THEN Null ELSE oldM.since
           newP == [business |-> b, account |-> a, offered |-> offered,
                    location |-> location, since |-> keptP]
           newM == [business |-> b, account |-> a, offered |-> offered,
                    location |-> location, since |-> keptM]
           may == a \in DOMAIN d.account /\ d.account[a].business = b
           P == (d.connection \ {oldP}) \cup {newP}
           M == {c \in e.connection : c.business # b} \cup {newM}
<1>1. PA!UpsertConnection(d, b, a, offered, location, now)
        = IF may THEN PA!Answer([d EXCEPT !.connection = P], newP) ELSE PA!Refused(d)
  BY DEF PA!UpsertConnection, PA!Rows
<1>2. MA!UpsertConnection(e, b, a, offered, location, now)
        = IF may THEN MA!Answer([e EXCEPT !.connection = M], newM) ELSE MA!Refused(e)
  <2>1. e.account = d.account /\ e.business = d.business
    BY DEF ButForTimes
  <2>2. may => b \in DOMAIN d.business
    BY DEF Housed
  <2> QED
    BY <2>1, <2>2 DEF MA!UpsertConnection, MA!Rows, MA!Refused
<1>3. /\ oldP # Null => oldP \in ConnectionRow
      /\ d.connection \ {oldP} = {c \in d.connection : c.business # b}
  BY ConnectionOfOne
<1>4. oldM # Null => oldM \in ConnectionRow
  BY ConnectionOfOne
<1>5. SinceOrNot(oldP) = SinceOrNot(oldM)
  BY SameGetConnection
<1>6. (oldP = Null) <=> (oldM = Null)
  BY SameGetConnection
<1> HIDE DEF oldP, oldM
<1>7. oldP # Null => ((oldP.since = Null) <=> (oldM.since = Null))
  BY <1>3, <1>4, <1>5, <1>6, LookAlike
<1>8. (keptP = Null) <=> (keptM = Null)
  <2>1. now # Null
    BY AgreementAssumption
  <2> QED
    BY <1>6, <1>7, <2>1 DEF PA!Coalesce
<1>9. keptP \in Days \cup {Null} /\ keptM \in Days \cup {Null}
  BY <1>3, <1>4 DEF ConnectionRow, PA!Coalesce
<1> HIDE DEF keptP, keptM
<1>10. newP \in ConnectionRow /\ newM \in ConnectionRow /\ newP.business = b /\ newM.business = b
  BY <1>9 DEF ConnectionRow
<1>11. SinceOrNot(newP) = SinceOrNot(newM)
  BY <1>8, <1>10, LookAlike
<1> HIDE DEF newP, newM
<1>12. P = {c \in d.connection : c.business # b} \cup {newP}
  BY <1>3
<1> HIDE DEF P, M, may
<1>13. SameButForTimes(PA!Answer([d EXCEPT !.connection = P], newP),
                       MA!Answer([e EXCEPT !.connection = M], newM))
  BY <1>10, <1>11, <1>12, ReplacedAlike DEF M
<1> QED
  BY <1>1, <1>2, <1>13, RefusedAlike

\* select_connection: a location that was offered.
LEMMA SameSelectConnection ==
    ASSUME NEW d, NEW e, AccountsHeld(d), AccountsHeld(e), ButForTimes(d, e),
           NEW b \in Ids, NEW location \in Ids, NEW now \in Days
    PROVE  SameButForTimes(PA!SelectConnection(d, b, location, now),
                           MA!SelectConnection(e, b, location, now))
<1> DEFINE oldP == PA!GetConnection(d, b)
           oldM == MA!GetConnection(e, b)
           newP == [oldP EXCEPT !.location = location, !.since = PA!Coalesce(@, now)]
           newM == [oldM EXCEPT !.location = location, !.since = IF @ = Null THEN now ELSE @]
           mayP == oldP # Null /\ location \in oldP.offered
           mayM == oldM # Null /\ location \in oldM.offered
           P == (d.connection \ {oldP}) \cup {newP}
           M == {c \in e.connection : c # oldM} \cup {newM}
<1>1. /\ oldP # Null => oldP \in ConnectionRow /\ oldP.business = b
      /\ d.connection \ {oldP} = {c \in d.connection : c.business # b}
  BY ConnectionOfOne
<1>2. /\ oldM # Null => oldM \in ConnectionRow /\ oldM.business = b
      /\ {c \in e.connection : c # oldM} = {c \in e.connection : c.business # b}
  <2>1. PA!GetConnection(e, b) = oldM
    BY ConnectionOfOne
  <2>2. /\ oldM # Null => oldM \in ConnectionRow /\ oldM.business = b
        /\ e.connection \ {oldM} = {c \in e.connection : c.business # b}
    BY <2>1, ConnectionOfOne
  <2>3. {c \in e.connection : c # oldM} = e.connection \ {oldM}
    OBVIOUS
  <2> QED
    BY <2>2, <2>3
<1>3. SinceOrNot(oldP) = SinceOrNot(oldM)
  BY SameGetConnection
<1>6. (oldP = Null) <=> (oldM = Null)
  BY SameGetConnection
<1>4. PA!SelectConnection(d, b, location, now)
        = IF mayP THEN PA!Answer([d EXCEPT !.connection = P], newP) ELSE PA!Refused(d)
  BY DEF PA!SelectConnection
<1>5. MA!SelectConnection(e, b, location, now)
        = IF mayM THEN MA!Answer([e EXCEPT !.connection = M], newM) ELSE MA!Refused(e)
  BY DEF MA!SelectConnection
<1> HIDE DEF oldP, oldM
<1>7. oldP # Null => /\ oldP.account = oldM.account /\ oldP.offered = oldM.offered
                     /\ (oldP.since = Null) <=> (oldM.since = Null)
  BY <1>1, <1>2, <1>3, <1>6, LookAlike
<1>8. mayP <=> mayM
  BY <1>6, <1>7
<1>9. CASE mayP
  <2>1. now # Null
    BY AgreementAssumption
  <2>2. /\ newP \in ConnectionRow /\ newP.business = b /\ newP.account = oldP.account
        /\ newP.offered = oldP.offered /\ newP.location = location
        /\ newP.since # Null
    BY <1>1, <1>9, <2>1 DEF PA!Coalesce, ConnectionRow
  <2>3. /\ newM \in ConnectionRow /\ newM.business = b /\ newM.account = oldM.account
        /\ newM.offered = oldM.offered /\ newM.location = location
        /\ newM.since # Null
    BY <1>2, <1>8, <1>9, <2>1 DEF ConnectionRow
  <2> HIDE DEF newP, newM
  <2>4. SinceOrNot(newP) = SinceOrNot(newM)
    BY <1>7, <1>9, <2>2, <2>3, LookAlike
  <2>5. /\ P = {c \in d.connection : c.business # b} \cup {newP}
        /\ M = {c \in e.connection : c.business # b} \cup {newM}
    BY <1>1, <1>2
  <2> HIDE DEF P, M, mayP, mayM
  <2>6. SameButForTimes(PA!Answer([d EXCEPT !.connection = P], newP),
                        MA!Answer([e EXCEPT !.connection = M], newM))
    BY <2>2, <2>3, <2>4, <2>5, ReplacedAlike
  <2> QED
    BY <1>4, <1>5, <1>8, <1>9, <2>6
<1>10. CASE ~mayP
  BY <1>4, <1>5, <1>8, <1>10, RefusedAlike
<1> QED
  BY <1>9, <1>10

-----------------------------------------------------------------------------
\* Every call keeps the two alike.

AccountAreas == {"signin", "profile", "connect"}

\* Both hold the same rows, which are what AccountsHeld says, where there is a
\* connection but for the times, and then every account has a business that is there.
AccountsInv ==
    area \in AccountAreas =>
    /\ agreed /\ AccountsHeld(pg)
    /\ area # "connect" => pg = mem
    /\ area = "connect" => AccountsHeld(mem) /\ ButForTimes(pg, mem) /\ Housed(pg)

\* A call that answers and leaves the same in both keeps the invariant.
LEMMA AfterCall ==
    ASSUME NEW a \in {"signin", "profile"}, NEW p, NEW m, Accounts(a, p, m), SameCall(pg, p, m)
    PROVE  AccountsInv'
<1>1. /\ area' = a /\ pg' = p.db /\ mem' = m.db /\ agreed' = Alike(p, m)
  BY DEF Accounts, In
<1>2. p = m /\ AccountsHeld(p.db)
  BY DEF SameCall
<1>3. Alike(p, m)
  BY <1>2 DEF Alike
<1>4. agreed'
  BY <1>1, <1>3
<1>5. AccountsHeld(pg')
  BY <1>1, <1>2
<1>6. AccountsHeld(pg)'
  BY <1>5 DEF AccountsHeld
<1> QED
  BY <1>1, <1>2, <1>4, <1>6 DEF AccountsInv

\* A call that leaves the two different in times at most does too.
LEMMA AfterConnected ==
    ASSUME NEW p, NEW m, area' = "connect", pg' = p.db, mem' = m.db, agreed',
           AccountsHeld(p.db), AccountsHeld(m.db), ButForTimes(p.db, m.db), Housed(p.db)
    PROVE  AccountsInv'
<1>1. AccountsHeld(pg') /\ AccountsHeld(mem') /\ ButForTimes(pg', mem') /\ Housed(pg')
  OBVIOUS
<1>2. AccountsHeld(pg)' /\ AccountsHeld(mem)'
  BY <1>1 DEF AccountsHeld
<1>3. ButForTimes(pg, mem)' /\ Housed(pg)'
  BY <1>1 DEF ButForTimes, Housed
<1> QED
  BY <1>2, <1>3 DEF AccountsInv

\* An empty store is one that AccountsHeld describes.
LEMMA EmptyHeld ==
    AccountsHeld(PA!Empty)
<1>1. /\ <<>> \in Seq(AccountRow) /\ <<>> \in Seq(BusinessRow)
      /\ <<>> \in Seq(FactRows) /\ <<>> \in Seq(RuleRow)
  BY EmptySeq
<1> QED
  BY <1>1 DEF AccountsHeld, AccountTables, PA!Empty

\* So is one with a workspace and its owner.
LEMMA WorkspaceHeld ==
    AccountsHeld(Workspace) /\ Housed(Workspace)
<1> DEFINE opened == PA!CreateBusiness(PA!Empty, FALSE).db
           owner == [username |-> "owner", password |-> TRUE, email |-> Null, business |-> 1,
                     admin |-> FALSE, provider |-> Null, subject |-> Null]
           row == [status |-> "active", profile |-> Null, located |-> FALSE]
<1>1. AccountsHeld(opened)
  BY EmptyHeld, SameBusinessCalls DEF SameCall
<1>2. owner \in AccountRow
  BY DEF AccountRow
<1>3. row \in BusinessRow
  BY DEF BusinessRow
<1>4. opened.business = Append(<<>>, row) /\ opened.account = <<>>
  BY DEF PA!CreateBusiness, PA!Answer, PA!Empty
<1>5. /\ IsAppend(BusinessRow, <<>>, row, Append(<<>>, row))
      /\ IsAppend(AccountRow, <<>>, owner, Append(<<>>, owner))
  <2>1. <<>> \in Seq(BusinessRow) /\ <<>> \in Seq(AccountRow)
    BY EmptySeq
  <2> QED
    BY <1>2, <1>3, <2>1, Appended
<1>6. Workspace = PA!CreateAccount(opened, owner).db
  BY DEF Workspace
<1>61. owner.business = 1
  OBVIOUS
<1> HIDE DEF row, owner
<1>62. owner.business \in DOMAIN opened.business
  <2>1. Len(<<>>) + 1 = 1
    BY EmptySeq
  <2> QED
    BY <1>4, <1>5, <1>61, <2>1 DEF IsAppend
<1>7. AccountsHeld(Workspace)
  BY <1>1, <1>2, <1>6, <1>62, SameCreateAccount DEF SameCall
<1>8. \/ PA!CreateAccount(opened, owner).db = opened
      \/ PA!CreateAccount(opened, owner).db = [opened EXCEPT !.account = Append(@, owner)]
  BY DEF PA!CreateAccount, PA!Refused, PA!Answer
<1>9. opened \in AccountTables
  BY <1>1 DEF AccountsHeld
<1> HIDE DEF opened
<1>10. /\ Workspace.business = Append(<<>>, row)
       /\ Workspace.account = <<>> \/ Workspace.account = Append(<<>>, owner)
  BY <1>4, <1>6, <1>8, <1>9 DEF AccountTables
<1>11. DOMAIN <<>> = {} /\ Len(<<>>) = 0
  BY EmptySeq
<1>12. owner.business = 1
  BY DEF owner
<1>13. Housed(Workspace)
  BY <1>5, <1>10, <1>11, <1>12 DEF Housed, IsAppend
<1> QED
  BY <1>7, <1>13

\* Every history starts alike.
LEMMA AccountsStart ==
    Init => AccountsInv
<1> SUFFICES ASSUME Init, area \in AccountAreas  PROVE AccountsInv
  BY DEF AccountsInv
<1>1. agreed /\ pg = mem /\ pg \in Starts[area]
  BY DEF Init
<1>2. area = "connect" \/ area \in {"signin", "profile"}
  BY DEF AccountAreas
<1>3. CASE area = "connect"
  <2>1. pg = Workspace
    BY <1>1, <1>3 DEF Starts
  <2>2. AccountsHeld(pg) /\ AccountsHeld(mem) /\ Housed(pg)
    BY <1>1, <2>1, WorkspaceHeld
  <2>3. ButForTimes(pg, mem)
    BY <1>1, <2>2 DEF ButForTimes, AccountsHeld
  <2> QED
    BY <1>1, <1>3, <2>2, <2>3 DEF AccountsInv
<1>4. CASE area \in {"signin", "profile"}
  <2>1. pg = PA!Empty
    BY <1>1, <1>4 DEF Starts
  <2> QED
    BY <1>1, <1>4, <2>1, EmptyHeld DEF AccountsInv
<1> QED
  BY <1>2, <1>3, <1>4

\* What the handlers pass to create_account is a row of an account.
LEMMA NewAccountRow ==
    ASSUME NEW name \in Names, NEW subject \in Subjects \cup {Null},
           NEW business \in Nat \cup Ids \cup Edited \cup {Null}
    PROVE  NewAccount(name, subject, business) \in AccountRow
BY DEF NewAccount, AccountRow

\* A call that is made keeps the accounts alike.
LEMMA SignInAlike ==
    ASSUME AccountsInv, area = "signin", SignIn, "dangling" \notin Loose
    PROVE  AccountsInv'
<1>1. AccountsHeld(pg) /\ pg = mem /\ "signin" \in {"signin", "profile"}
  BY DEF AccountsInv, AccountAreas
<1>11. ASSUME Accounts("signin", PA!CreateBusiness(pg, FALSE), MA!CreateBusiness(mem, FALSE))
       PROVE  AccountsInv'
  <2>1. SameCall(pg, PA!CreateBusiness(pg, FALSE), MA!CreateBusiness(mem, FALSE))
    BY <1>1, SameBusinessCalls
  <2> QED
    BY <1>1, <1>11, <2>1, AfterCall
<1>2. ASSUME NEW name \in Names, NEW subject \in Subjects \cup {Null},
             CreateAccount(name, subject)
      PROVE  AccountsInv'
  <2> DEFINE new == NewAccount(name, subject, Null)
  <2>1. new \in AccountRow /\ new.business = Null
    BY NewAccountRow DEF NewAccount
  <2> HIDE DEF new
  <2>2. SameCall(pg, PA!CreateAccount(pg, new), MA!CreateAccount(mem, new))
    BY <1>1, <2>1, SameCreateAccount
  <2>3. Accounts("signin", PA!CreateAccount(pg, new), MA!CreateAccount(mem, new))
    BY <1>2 DEF CreateAccount, new
  <2> QED
    BY <1>1, <2>2, <2>3, AfterCall
<1>3. ASSUME NEW a \in Ids, NEW b \in Ids, AttachBusiness(a, b)
      PROVE  AccountsInv'
  <2>1. SameCall(pg, PA!AttachBusiness(pg, a, b), MA!AttachBusiness(mem, a, b))
    BY <1>1, <1>3, SameAttachBusiness DEF AttachBusiness, Known
  <2> QED
    BY <1>1, <1>3, <2>1, AfterCall DEF AttachBusiness
<1>4. ASSUME NEW token \in Tokens, NEW a \in Ids, NEW b \in Ids \cup {Null},
             CreateSession(token, a, b)
      PROVE  AccountsInv'
  <2>1. /\ ~\E s \in pg.session : s.token = token
        /\ a \in DOMAIN pg.account
        /\ b = Null \/ b \in DOMAIN pg.business
        /\ Accounts("signin", PA!CreateSession(pg, token, a, b),
                              MA!CreateSession(mem, token, a, b))
    BY <1>4 DEF CreateSession, Known
  <2>2. SameCall(pg, PA!CreateSession(pg, token, a, b), MA!CreateSession(mem, token, a, b))
    BY <1>1, <2>1, SameSessionCalls
  <2> QED
    BY <1>1, <2>1, <2>2, AfterCall
<1>5. ASSUME NEW token \in Tokens, DeleteSession(token)
      PROVE  AccountsInv'
  <2>1. SameCall(pg, PA!DeleteSession(pg, token), MA!DeleteSession(mem, token))
    BY <1>1, SameSessionCalls
  <2> QED
    BY <1>1, <1>5, <2>1, AfterCall DEF DeleteSession
<1>6. ASSUME NEW code \in Codes, NEW a \in Ids, CreateHandoff(code, a)
      PROVE  AccountsInv'
  <2>1. SameCall(pg, PA!CreateHandoff(pg, code, a), MA!CreateHandoff(mem, code, a))
    BY <1>1, <1>6, SameHandoffCalls DEF CreateHandoff
  <2> QED
    BY <1>1, <1>6, <2>1, AfterCall DEF CreateHandoff
<1>7. ASSUME NEW code \in Codes, ConsumeHandoff(code)
      PROVE  AccountsInv'
  <2>1. SameCall(pg, PA!ConsumeHandoff(pg, code), MA!ConsumeHandoff(mem, code))
    BY <1>1, SameHandoffCalls
  <2> QED
    BY <1>1, <1>7, <2>1, AfterCall DEF ConsumeHandoff
<1>8. ASSUME TimeRunsOut
      PROVE  AccountsInv'
  <2>1. /\ area' = "signin" /\ pg' = Aged(pg) /\ mem' = Aged(mem) /\ agreed'
    BY <1>8 DEF TimeRunsOut, In
  <2>2. AccountsHeld(Aged(pg)) /\ Aged(pg) = Aged(mem)
    BY <1>1, AgedHeld
  <2>3. AccountsHeld(pg')
    BY <2>1, <2>2
  <2>4. AccountsHeld(pg)'
    BY <2>3 DEF AccountsHeld
  <2> QED
    BY <2>1, <2>2, <2>4 DEF AccountsInv
<1> QED
  BY <1>2, <1>3, <1>4, <1>5, <1>6, <1>7, <1>8, <1>11 DEF SignIn

\* The same for the workspace and its profile.
LEMMA ProfileAlike ==
    ASSUME AccountsInv, area = "profile", Profile, "dangling" \notin Loose
    PROVE  AccountsInv'
<1>1. AccountsHeld(pg) /\ pg = mem /\ "profile" \in {"signin", "profile"}
  BY DEF AccountsInv, AccountAreas
<1>12. \A id, table : Known(id, table) <=> id \in DOMAIN table
  BY DEF Known
<1>2. ASSUME NEW l \in BOOLEAN,
             Accounts("profile", PA!CreateBusiness(pg, l), MA!CreateBusiness(mem, l))
      PROVE  AccountsInv'
  <2>1. SameCall(pg, PA!CreateBusiness(pg, l), MA!CreateBusiness(mem, l))
    BY <1>1, SameBusinessCalls
  <2> QED
    BY <1>1, <1>2, <2>1, AfterCall
<1>3. ASSUME NEW b \in Ids, NEW p \in {"p1"}, NEW l \in BOOLEAN,
             Accounts("profile", PA!UpdateBusinessProfile(pg, b, p, l),
                                 MA!UpdateBusinessProfile(mem, b, p, l))
      PROVE  AccountsInv'
  <2>1. SameCall(pg, PA!UpdateBusinessProfile(pg, b, p, l),
                     MA!UpdateBusinessProfile(mem, b, p, l))
    BY <1>1, SameBusinessCalls
  <2> QED
    BY <1>1, <1>3, <2>1, AfterCall
<1>4. ASSUME NEW b \in Ids, NEW s \in {"active", "paused"},
             Accounts("profile", PA!SetBusinessStatus(pg, b, s), MA!SetBusinessStatus(mem, b, s))
      PROVE  AccountsInv'
  <2>1. SameCall(pg, PA!SetBusinessStatus(pg, b, s), MA!SetBusinessStatus(mem, b, s))
    BY <1>1, SameBusinessCalls
  <2> QED
    BY <1>1, <1>4, <2>1, AfterCall
<1>5. ASSUME NEW name \in Names, NEW b \in Edited, b \in DOMAIN pg.business, NEW new,
             new = NewAccount(name, Null, b),
             Accounts("profile", PA!CreateAccount(pg, new), MA!CreateAccount(mem, new))
      PROVE  AccountsInv'
  <2>1. new \in AccountRow /\ new.business = b
    BY <1>5, NewAccountRow DEF NewAccount
  <2>2. SameCall(pg, PA!CreateAccount(pg, new), MA!CreateAccount(mem, new))
    BY <1>1, <1>5, <2>1, SameCreateAccount
  <2> QED
    BY <1>1, <1>5, <2>2, AfterCall
<1>6. ASSUME NEW a \in Ids, NEW e \in {"e1", "e2"},
             Accounts("profile", PA!UpdateAccountProfile(pg, a, e),
                                 MA!UpdateAccountProfile(mem, a, e))
      PROVE  AccountsInv'
  <2>1. SameCall(pg, PA!UpdateAccountProfile(pg, a, e), MA!UpdateAccountProfile(mem, a, e))
    BY <1>1, SameUpdateAccountProfile
  <2> QED
    BY <1>1, <1>6, <2>1, AfterCall
<1>7. ASSUME NEW b \in Edited, b \in DOMAIN pg.business,
             Accounts("profile", PA!InsertBusinessFact(pg, b, "f1"),
                                 MA!InsertBusinessFact(mem, b, "f1"))
      PROVE  AccountsInv'
  <2>1. SameCall(pg, PA!InsertBusinessFact(pg, b, "f1"), MA!InsertBusinessFact(mem, b, "f1"))
    BY <1>1, <1>7, SameFactCalls
  <2> QED
    BY <1>1, <1>7, <2>1, AfterCall
<1>8. ASSUME NEW i \in Ids, NEW by \in Ids, by \in DOMAIN pg.fact,
             Accounts("profile", PA!SupersedeBusinessFact(pg, i, by),
                                 MA!SupersedeBusinessFact(mem, i, by))
      PROVE  AccountsInv'
  <2>1. SameCall(pg, PA!SupersedeBusinessFact(pg, i, by), MA!SupersedeBusinessFact(mem, i, by))
    BY <1>1, <1>8, SameFactCalls
  <2> QED
    BY <1>1, <1>8, <2>1, AfterCall
<1>9. ASSUME NEW b \in Edited, NEW texts \in {<<>>, <<"f2">>}, b \in DOMAIN pg.business,
             Accounts("profile", PA!ReplaceProfileFacts(pg, b, texts),
                                 MA!ReplaceProfileFacts(mem, b, texts))
      PROVE  AccountsInv'
  <2>1. SameCall(pg, PA!ReplaceProfileFacts(pg, b, texts), MA!ReplaceProfileFacts(mem, b, texts))
    BY <1>1, <1>9, SameFactCalls
  <2> QED
    BY <1>1, <1>9, <2>1, AfterCall
<1>10. ASSUME NEW b \in Edited, NEW on \in BOOLEAN, b \in DOMAIN pg.business,
              Accounts("profile", PA!InsertOwnerRule(pg, b, on), MA!InsertOwnerRule(mem, b, on))
       PROVE  AccountsInv'
  <2>1. SameCall(pg, PA!InsertOwnerRule(pg, b, on), MA!InsertOwnerRule(mem, b, on))
    BY <1>1, <1>10, SameFactCalls
  <2> QED
    BY <1>1, <1>10, <2>1, AfterCall
<1> QED
  BY <1>2, <1>3, <1>4, <1>5, <1>6, <1>7, <1>8, <1>9, <1>10, <1>12 DEF Profile

\* The same for the connection to Google.
LEMMA ConnectionAlike ==
    ASSUME AccountsInv, area = "connect", Connection
    PROVE  AccountsInv'
<1>1. /\ AccountsHeld(pg) /\ AccountsHeld(mem) /\ ButForTimes(pg, mem) /\ Housed(pg)
      /\ pg \in AccountTables /\ mem \in AccountTables
      /\ mem.business = pg.business /\ mem.account = pg.account
      /\ pg.business \in Seq(BusinessRow) /\ pg.account \in Seq(AccountRow)
  BY DEF AccountsInv, AccountAreas, AccountsHeld, AccountTables, ButForTimes
<1>2. ASSUME Accounts("connect", PA!CreateBusiness(pg, TRUE), MA!CreateBusiness(mem, TRUE))
      PROVE  AccountsInv'
  <2> DEFINE row == [status |-> "active", profile |-> Null, located |-> TRUE]
             p == PA!CreateBusiness(pg, TRUE)
             m == MA!CreateBusiness(mem, TRUE)
  <2>1. /\ p = PA!Answer([pg EXCEPT !.business = Append(pg.business, row)],
                         Len(pg.business) + 1)
        /\ m = MA!Answer([mem EXCEPT !.business = Append(pg.business, row)],
                         Len(pg.business) + 1)
    BY <1>1 DEF PA!CreateBusiness, MA!CreateBusiness
  <2>2. AccountsHeld(p.db) /\ AccountsHeld(m.db)
    BY <1>1, SameBusinessCalls DEF SameCall
  <2>3. row \in BusinessRow
    BY DEF BusinessRow
  <2> HIDE DEF row
  <2>4. IsAppend(BusinessRow, pg.business, row, Append(pg.business, row))
    BY <1>1, <2>3, Appended
  <2>5. /\ area' = "connect" /\ pg' = p.db /\ mem' = m.db /\ agreed' = Alike(p, m)
    BY <1>2 DEF Accounts, In
  <2> HIDE DEF p, m
  <2>6. /\ p.db = [pg EXCEPT !.business = Append(pg.business, row)]
        /\ m.db = [mem EXCEPT !.business = Append(pg.business, row)]
        /\ Alike(p, m)
    BY <2>1 DEF PA!Answer, MA!Answer, Alike
  <2>7. ButForTimes(p.db, m.db)
    <3>1. /\ p.db.account = pg.account /\ p.db.business = Append(pg.business, row)
          /\ p.db.session = pg.session /\ p.db.handoff = pg.handoff /\ p.db.fact = pg.fact
          /\ p.db.rule = pg.rule /\ p.db.connection = pg.connection
      BY <1>1, <2>6 DEF AccountTables
    <3>2. /\ m.db.account = mem.account /\ m.db.business = Append(pg.business, row)
          /\ m.db.session = mem.session /\ m.db.handoff = mem.handoff
          /\ m.db.fact = mem.fact /\ m.db.rule = mem.rule
          /\ m.db.connection = mem.connection
      BY <1>1, <2>6 DEF AccountTables
    <3> QED
      BY <1>1, <2>2, <3>1, <3>2 DEF ButForTimes, AccountsHeld
  <2>8. Housed(p.db)
    <3>1. p.db.account = pg.account /\ p.db.business = Append(pg.business, row)
      BY <1>1, <2>6 DEF AccountTables
    <3> QED
      BY <1>1, <2>4, <3>1 DEF Housed, IsAppend
  <2>9. agreed'
    BY <2>5, <2>6
  <2> QED
    BY <2>2, <2>5, <2>7, <2>8, <2>9, AfterConnected
<1>3. ASSUME NEW p, NEW m, Connected(p, m), SameButForTimes(p, m),
             p.db.account = pg.account, p.db.business = pg.business
      PROVE  AccountsInv'
  <2>1. /\ area' = "connect" /\ pg' = p.db /\ mem' = m.db
        /\ agreed' = (p.ok = m.ok /\ SinceOrNot(p.ans) = SinceOrNot(m.ans))
    BY <1>3 DEF Connected, In
  <2>2. agreed' /\ AccountsHeld(p.db) /\ AccountsHeld(m.db) /\ ButForTimes(p.db, m.db)
    BY <1>3, <2>1 DEF SameButForTimes
  <2>3. Housed(p.db)
    BY <1>1, <1>3 DEF Housed
  <2> QED
    BY <2>1, <2>2, <2>3, AfterConnected
<1>4. ASSUME NEW b \in Ids, NEW a \in Ids, NEW offered \in SUBSET Ids, NEW now \in Days,
             offered # {}, Connect(b, a, offered, now)
      PROVE  AccountsInv'
  <2> DEFINE location == IF Cardinality(offered) = 1 THEN CHOOSE l \in offered : TRUE ELSE Null
             p == PA!UpsertConnection(pg, b, a, offered, location, now)
             m == MA!UpsertConnection(mem, b, a, offered, location, now)
  <2>1. location \in Ids \cup {Null}
    BY <1>4
  <2>2. Connected(p, m)
    BY <1>4 DEF Connect
  <2> HIDE DEF location
  <2>3. SameButForTimes(p, m)
    BY <1>1, <2>1, SameUpsertConnection
  <2>4. p.db.account = pg.account /\ p.db.business = pg.business
    BY <1>1 DEF PA!UpsertConnection, PA!Answer, PA!Refused, AccountTables
  <2> HIDE DEF p, m
  <2> QED
    BY <1>3, <2>2, <2>3, <2>4
<1>5. ASSUME NEW b \in Ids, NEW l \in Ids, NEW now \in Days, NEW p, NEW m,
             p = PA!SelectConnection(pg, b, l, now), m = MA!SelectConnection(mem, b, l, now),
             Connected(p, m)
      PROVE  AccountsInv'
  <2>1. SameButForTimes(p, m)
    BY <1>1, <1>5, SameSelectConnection
  <2>2. p.db.account = pg.account /\ p.db.business = pg.business
    BY <1>1, <1>5 DEF PA!SelectConnection, PA!Answer, PA!Refused, AccountTables
  <2> QED
    BY <1>3, <1>5, <2>1, <2>2
<1>6. ASSUME NEW name \in Names, NEW b \in DOMAIN pg.business, NEW new,
             new = NewAccount(name, Null, b),
             Accounts("connect", PA!CreateAccount(pg, new), MA!CreateAccount(mem, new))
      PROVE  AccountsInv'
  <2> DEFINE p == PA!CreateAccount(pg, new)
             m == MA!CreateAccount(mem, new)
  <2>1. b \in Nat
    BY <1>1, RowsOf
  <2>2. new \in AccountRow /\ new.business = b
    BY <1>6, <2>1, NewAccountRow DEF NewAccount
  <2>3. SameCall(mem, PA!CreateAccount(mem, new), m)
    BY <1>1, <2>2, SameCreateAccount
  <2>4. SameCall(pg, p, MA!CreateAccount(pg, new))
    BY <1>1, <2>2, SameCreateAccount
  <2> DEFINE may == /\ PA!FindAccount(pg, new.username) = Null
                    /\ PA!FindAccountByProvider(pg, new.provider, new.subject) = Null
                    /\ PA!NullOr(pg.business, new.business)
             then(d) == [d EXCEPT !.account = Append(pg.account, new)]
  <2>5. /\ p = IF may THEN PA!Answer(then(pg), Len(pg.account) + 1) ELSE PA!Refused(pg)
        /\ PA!CreateAccount(mem, new)
             = IF may THEN PA!Answer(then(mem), Len(pg.account) + 1) ELSE PA!Refused(mem)
    <3>1. PA!FindAccount(mem, new.username) = PA!FindAccount(pg, new.username)
      BY <1>1 DEF PA!FindAccount
    <3>2. PA!FindAccountByProvider(mem, new.provider, new.subject)
            = PA!FindAccountByProvider(pg, new.provider, new.subject)
      BY <1>1 DEF PA!FindAccountByProvider
    <3> QED
      BY <1>1, <3>1, <3>2 DEF PA!CreateAccount
  <2>6. IsAppend(AccountRow, pg.account, new, Append(pg.account, new))
    BY <1>1, <2>2, Appended
  <2>7. area' = "connect" /\ pg' = p.db /\ mem' = m.db /\ agreed' = Alike(p, m)
    BY <1>6 DEF Accounts, In
  <2>8. AccountsHeld(p.db) /\ AccountsHeld(m.db) /\ m = PA!CreateAccount(mem, new)
    BY <2>3, <2>4 DEF SameCall
  <2> HIDE DEF p, m, may, then
  <2>9. CASE may
    <3>1. p.db = then(pg) /\ m.db = then(mem) /\ Alike(p, m)
      BY <2>5, <2>8, <2>9 DEF PA!Answer, Alike
    <3>2. /\ p.db.account = Append(pg.account, new) /\ p.db.business = pg.business
          /\ p.db.session = pg.session /\ p.db.handoff = pg.handoff /\ p.db.fact = pg.fact
          /\ p.db.rule = pg.rule /\ p.db.connection = pg.connection
      BY <1>1, <3>1 DEF AccountTables, then
    <3>3. /\ m.db.account = Append(pg.account, new) /\ m.db.business = mem.business
          /\ m.db.session = mem.session /\ m.db.handoff = mem.handoff
          /\ m.db.fact = mem.fact /\ m.db.rule = mem.rule
          /\ m.db.connection = mem.connection
      BY <1>1, <3>1 DEF AccountTables, then
    <3>4. ButForTimes(p.db, m.db)
      BY <1>1, <2>8, <3>2, <3>3 DEF ButForTimes, AccountsHeld
    <3>5. Housed(p.db)
      BY <1>1, <2>2, <2>6, <3>2 DEF Housed, IsAppend
    <3>6. agreed'
      BY <2>7, <3>1
    <3> QED
      BY <2>7, <2>8, <3>4, <3>5, <3>6, AfterConnected
  <2>10. CASE ~may
    <3>1. p.db = pg /\ m.db = mem /\ Alike(p, m)
      BY <2>5, <2>8, <2>10 DEF PA!Refused, Alike
    <3>2. agreed'
      BY <2>7, <3>1
    <3> QED
      BY <1>1, <2>7, <3>1, <3>2, AfterConnected
  <2> QED
    BY <2>9, <2>10
<1> QED
  BY <1>2, <1>4, <1>5, <1>6 DEF Connection

\* The questions, asked of one store in both ways.
LEMMA AccountQuestions ==
    ASSUME NEW d, AccountsHeld(d)
    PROVE  /\ \A name : PA!FindAccount(d, name) = MA!FindAccount(d, name)
           /\ \A s : PA!FindAccountByProvider(d, "google", s)
                       = MA!FindAccountByProvider(d, "google", s)
           /\ \A t : /\ PA!AccountForSession(d, t) = MA!AccountForSession(d, t)
                     /\ (\A s \in d.session : s.token = t =>
                            d.account[s.account].business \in {Null, s.business})
                        => PA!BusinessForSession(d, t) = MA!BusinessForSession(d, t)
           /\ \A a, b : /\ PA!FindAccountById(d, a) = MA!FindAccountById(d, a)
                        /\ PA!GetOwnerProfile(d, a, b) = MA!GetOwnerProfile(d, a, b)
                        /\ PA!OwnerEmail(d, b, a) = MA!OwnerEmail(d, b, a)
           /\ \A b : PA!GetBusiness(d, b) = MA!GetBusiness(d, b)
           /\ \A b : \A n \in Nat :
                 /\ PA!GetBusinessFacts(d, b) = MA!GetBusinessFacts(d, b)
                 /\ PA!GetOwnerRules(d, b) = MA!GetOwnerRules(d, b)
                 /\ PA!ActiveBusinessIds(d, n) = MA!ActiveBusinessIds(d, n)
<1>1. /\ d.account \in Seq(AccountRow) /\ d.business \in Seq(BusinessRow)
      /\ d.fact \in Seq(FactRows) /\ d.rule \in Seq(RuleRow)
  BY DEF AccountsHeld, AccountTables
<1>2. \A name : PA!FindAccount(d, name) = MA!FindAccount(d, name)
  BY <1>1, SameFindAccount
<1>3. \A s : PA!FindAccountByProvider(d, "google", s)
               = MA!FindAccountByProvider(d, "google", s)
  BY <1>1, SameFindAccountByProvider
<1>4. \A t : /\ PA!AccountForSession(d, t) = MA!AccountForSession(d, t)
             /\ (\A s \in d.session : s.token = t =>
                    d.account[s.account].business \in {Null, s.business})
                => PA!BusinessForSession(d, t) = MA!BusinessForSession(d, t)
  BY SameSessions
<1>5. \A a, b : /\ PA!FindAccountById(d, a) = MA!FindAccountById(d, a)
                /\ PA!GetOwnerProfile(d, a, b) = MA!GetOwnerProfile(d, a, b)
                /\ PA!OwnerEmail(d, b, a) = MA!OwnerEmail(d, b, a)
  BY <1>1, SameLookups, SameOwnerEmail
<1>6. \A b : PA!GetBusiness(d, b) = MA!GetBusiness(d, b)
  BY SameLookups
<1>7. \A b : \A n \in Nat :
         /\ PA!GetBusinessFacts(d, b) = MA!GetBusinessFacts(d, b)
         /\ PA!GetOwnerRules(d, b) = MA!GetOwnerRules(d, b)
         /\ PA!ActiveBusinessIds(d, n) = MA!ActiveBusinessIds(d, n)
  BY <1>1, SameListings
<1> QED
  BY <1>2, <1>3, <1>4, <1>5, <1>6, <1>7

\* No question but that for a connection asks after times.
LEMMA ButForTimesAnswer ==
    ASSUME NEW d, NEW e, ButForTimes(d, e)
    PROVE  /\ \A name : PA!FindAccount(d, name) = PA!FindAccount(e, name)
           /\ \A s : PA!FindAccountByProvider(d, "google", s)
                       = PA!FindAccountByProvider(e, "google", s)
           /\ \A t : /\ PA!AccountForSession(d, t) = PA!AccountForSession(e, t)
                     /\ PA!BusinessForSession(d, t) = PA!BusinessForSession(e, t)
           /\ \A a, b : /\ PA!FindAccountById(d, a) = PA!FindAccountById(e, a)
                        /\ PA!GetOwnerProfile(d, a, b) = PA!GetOwnerProfile(e, a, b)
                        /\ PA!OwnerEmail(d, b, a) = PA!OwnerEmail(e, b, a)
           /\ \A b : PA!GetBusiness(d, b) = PA!GetBusiness(e, b)
           /\ \A b : \A n \in Nat :
                 /\ PA!GetBusinessFacts(d, b) = PA!GetBusinessFacts(e, b)
                 /\ PA!GetOwnerRules(d, b) = PA!GetOwnerRules(e, b)
                 /\ PA!ActiveBusinessIds(d, n) = PA!ActiveBusinessIds(e, n)
<1>1. /\ e.account = d.account /\ e.business = d.business /\ e.session = d.session
      /\ e.fact = d.fact /\ e.rule = d.rule
  BY DEF ButForTimes
<1>2. /\ \A name : PA!FindAccount(d, name) = PA!FindAccount(e, name)
      /\ \A s : PA!FindAccountByProvider(d, "google", s)
                  = PA!FindAccountByProvider(e, "google", s)
  BY <1>1 DEF PA!FindAccount, PA!FindAccountByProvider
<1>3. \A t : PA!LiveSessions(d, t) = PA!LiveSessions(e, t)
  BY <1>1 DEF PA!LiveSessions
<1>4. \A t : PA!AccountForSession(d, t) = PA!AccountForSession(e, t)
  BY <1>1, <1>3 DEF PA!AccountForSession
<1>5. \A t : PA!BusinessForSession(d, t) = PA!BusinessForSession(e, t)
  BY <1>4 DEF PA!BusinessForSession
<1>6. \A a, b : /\ PA!FindAccountById(d, a) = PA!FindAccountById(e, a)
                /\ PA!GetOwnerProfile(d, a, b) = PA!GetOwnerProfile(e, a, b)
                /\ PA!OwnerEmail(d, b, a) = PA!OwnerEmail(e, b, a)
  BY <1>1 DEF PA!FindAccountById, PA!GetOwnerProfile, PA!OwnerEmail, PA!Oldest, PA!Rows
<1>7. \A b : PA!GetBusiness(d, b) = PA!GetBusiness(e, b)
  BY <1>1 DEF PA!GetBusiness
<1>8. \A b : \A n \in Nat :
         /\ PA!GetBusinessFacts(d, b) = PA!GetBusinessFacts(e, b)
         /\ PA!GetOwnerRules(d, b) = PA!GetOwnerRules(e, b)
         /\ PA!ActiveBusinessIds(d, n) = PA!ActiveBusinessIds(e, n)
  BY <1>1 DEF PA!GetBusinessFacts, PA!CurrentFacts, PA!GetOwnerRules, PA!ActiveBusinessIds,
              PA!Rows
<1> QED
  BY <1>2, <1>4, <1>5, <1>6, <1>7, <1>8

\* The questions, asked of the two stores.
LEMMA AccountsAnswer ==
    AccountsInv => AccountsAgree
<1> SUFFICES ASSUME AccountsInv, area \in AccountAreas  PROVE AccountsAgree
  BY DEF AccountsAgree, AccountAreas
<1>1. agreed /\ AccountsHeld(pg) /\ AccountsHeld(mem) /\ ButForTimes(pg, mem)
  BY DEF AccountsInv, ButForTimes, AccountsHeld
<1>2. AsConnected(pg) = AsConnected(mem)
  BY <1>1 DEF AsConnected, ButForTimes, AccountTables
<1>3. mem.session = pg.session /\ mem.account = pg.account
  BY <1>1 DEF ButForTimes
<1>4. \A name \in Names : PA!FindAccount(pg, name) = MA!FindAccount(mem, name)
  BY <1>1, AccountQuestions, ButForTimesAnswer
<1>5. \A s \in Subjects \cup {Null} : PA!FindAccountByProvider(pg, "google", s)
                                       = MA!FindAccountByProvider(mem, "google", s)
  BY <1>1, AccountQuestions, ButForTimesAnswer
<1>6. \A t \in Tokens : PA!AccountForSession(pg, t) = MA!AccountForSession(mem, t)
  BY <1>1, AccountQuestions, ButForTimesAnswer
<1>7. \A t \in Tokens :
         MintedWell(t) => PA!BusinessForSession(pg, t) = MA!BusinessForSession(mem, t)
  <2>1. \A t : MintedWell(t) => PA!BusinessForSession(mem, t) = MA!BusinessForSession(mem, t)
    BY <1>1, <1>3, SameSessions DEF MintedWell
  <2>2. \A t : PA!BusinessForSession(pg, t) = PA!BusinessForSession(mem, t)
    BY <1>1, ButForTimesAnswer
  <2> QED
    BY <2>1, <2>2
<1>8. \A a \in Ids, b \in Ids :
         /\ PA!FindAccountById(pg, a) = MA!FindAccountById(mem, a)
         /\ PA!GetOwnerProfile(pg, a, b) = MA!GetOwnerProfile(mem, a, b)
         /\ PA!OwnerEmail(pg, b, a) = MA!OwnerEmail(mem, b, a)
  BY <1>1, AccountQuestions, ButForTimesAnswer
<1>9. \A b \in Ids : PA!GetBusiness(pg, b) = MA!GetBusiness(mem, b)
  BY <1>1, AccountQuestions, ButForTimesAnswer
<1>10. \A b \in Ids : SinceOrNot(PA!GetConnection(pg, b)) = SinceOrNot(MA!GetConnection(mem, b))
  BY <1>1, SameGetConnection
<1>11. \A b : \A n \in Nat :
          /\ PA!GetBusinessFacts(pg, b) = MA!GetBusinessFacts(mem, b)
          /\ PA!GetOwnerRules(pg, b) = MA!GetOwnerRules(mem, b)
          /\ PA!ActiveBusinessIds(pg, n) = MA!ActiveBusinessIds(mem, n)
  BY <1>1, AccountQuestions, ButForTimesAnswer
<1>12. \A b \in Ids : /\ PA!GetBusinessFacts(pg, b) = MA!GetBusinessFacts(mem, b)
                      /\ PA!GetOwnerRules(pg, b) = MA!GetOwnerRules(mem, b)
  <2>1. 0 \in Nat
    OBVIOUS
  <2> QED
    BY <1>11, <2>1
<1>13. \A n \in Limits : PA!ActiveBusinessIds(pg, n) = MA!ActiveBusinessIds(mem, n)
  BY <1>11, AgreementAssumption
<1> QED
  BY <1>1, <1>2, <1>4, <1>5, <1>6, <1>7, <1>8, <1>9, <1>10, <1>12, <1>13 DEF AccountsAgree

\* No call moves to another area.
LEMMA AreaStays ==
    ASSUME Next
    PROVE  area' = area
<1>1. ASSUME NEW a, NEW p, NEW m, NEW rows, NEW same, In(a, p, m, rows, same)
      PROVE  area' = area
  BY <1>1 DEF In
<1>2. ASSUME NEW a, NEW p, NEW m, Accounts(a, p, m) \/ Memory(a, p, m) \/ Work(a, p, m)
      PROVE  area' = area
  BY <1>1, <1>2 DEF Accounts, Memory, Work
<1>3. SignIn => area' = area
  BY <1>1, <1>2 DEF SignIn, CreateAccount, AttachBusiness, CreateSession, DeleteSession,
                    CreateHandoff, ConsumeHandoff, TimeRunsOut
<1>4. Profile => area' = area
  BY <1>2 DEF Profile
<1>5. Connection => area' = area
  <2>1. ASSUME NEW p, NEW m, Connected(p, m)
        PROVE  area' = area
    BY <2>1 DEF Connected, In
  <2> QED
    BY <1>2, <2>1 DEF Connection, Connect
<1>6. Runs \/ Recall => area' = area
  BY <1>2 DEF Runs, Recall, Remember, Chat, Purge, InsertFind
<1>7. Decide => area' = area
  BY <1>2 DEF Decide
<1>8. Board => area' = area
  BY <1>2, <1>7 DEF Board
<1>9. Carry => area' = area
  BY <1>2 DEF Carry, ClaimTask, CompleteTask
<1>10. Draft \/ Revise \/ TimePasses => area' = area
  BY <1>1, <1>2 DEF Draft, Revise, TimePasses
<1>11. Act => area' = area
  BY <1>2 DEF Act
<1>12. Measure => area' = area
  BY <1>2 DEF Measure
<1> QED
  BY <1>3, <1>4, <1>5, <1>6, <1>8, <1>9, <1>10, <1>11, <1>12 DEF Next, Make

\* Whatever an owner did, the two hold the same accounts and answer alike, as long as
\* no caller names a row there is not.
THEOREM AccountsStayAlike ==
    ASSUME "dangling" \notin Loose
    PROVE  Spec => []AccountsAgree
<1>1. Init => AccountsInv
  BY AccountsStart
<1>2. AccountsInv /\ [Next]_vars => AccountsInv'
  <2> SUFFICES ASSUME AccountsInv, [Next]_vars  PROVE AccountsInv'
    OBVIOUS
  <2>1. CASE UNCHANGED vars
    BY <2>1 DEF vars, AccountsInv, AccountsHeld, ButForTimes, Housed
  <2>2. CASE Next
    <3>1. area' = area
      BY <2>2, AreaStays
    <3>2. CASE area = "signin"
      BY <2>2, <3>2, SignInAlike DEF Next, Is
    <3>3. CASE area = "profile"
      BY <2>2, <3>3, ProfileAlike DEF Next, Is
    <3>4. CASE area = "connect"
      BY <2>2, <3>4, ConnectionAlike DEF Next, Is
    <3>5. CASE area \notin AccountAreas
      BY <3>1, <3>5 DEF AccountsInv
    <3> QED
      BY <3>2, <3>3, <3>4, <3>5 DEF AccountAreas
  <2> QED
    BY <2>1, <2>2
<1> QED
  BY <1>1, <1>2, AccountsAnswer, PTL DEF Spec

-----------------------------------------------------------------------------
\* What the agents remember.

\* The copies of Listing and of the sequence operators are one.
LEMMA SameLists2 ==
    /\ \A S : PM!Cardinality(S) = Cardinality(S) /\ MM!Cardinality(S) = Cardinality(S)
    /\ \A S, upTo : PM!Along(S, upTo) = Along(S, upTo) /\ MM!Along(S, upTo) = Along(S, upTo)
    /\ \A S : /\ PM!InOrder(S) = InOrder(S) /\ MM!InOrder(S) = InOrder(S)
              /\ PM!Newest(S) = Newest(S)
    /\ \A rows, list : PM!RowsAt(rows, list) = RowsAt(rows, list)
                       /\ MM!RowsAt(rows, list) = RowsAt(rows, list)
    /\ \A rows, S : PM!Pick(rows, S) = Pick(rows, S) /\ MM!Pick(rows, S) = Pick(rows, S)
    /\ \A rows, n : PM!Limit(rows, n) = Limit(rows, n) /\ MM!Slice(rows, n) = Slice(rows, n)
    /\ \A rows : PM!Reverse(rows) = MM!Reverse(rows)
    /\ \A rows : PM!ToSet(rows) = ToSet(rows)
    /\ \A f : PM!IsInjective(f) = IsInjective(f)
<1>1. \A S : PM!Cardinality(S) = Cardinality(S) /\ MM!Cardinality(S) = Cardinality(S)
  BY DEF PM!Cardinality, MM!Cardinality, Cardinality
<1>2. \A S, upTo : PM!Along(S, upTo) = Along(S, upTo) /\ MM!Along(S, upTo) = Along(S, upTo)
  BY <1>1 DEF PM!Along, MM!Along, Along
<1>3. \A S : /\ PM!InOrder(S) = InOrder(S) /\ MM!InOrder(S) = InOrder(S)
             /\ PM!Newest(S) = Newest(S)
  BY <1>2 DEF PM!InOrder, MM!InOrder, InOrder, PM!Newest, Newest
<1>4. \A rows, list : PM!RowsAt(rows, list) = RowsAt(rows, list)
                      /\ MM!RowsAt(rows, list) = RowsAt(rows, list)
  BY DEF PM!RowsAt, MM!RowsAt, RowsAt
<1>5. \A rows, S : PM!Pick(rows, S) = Pick(rows, S) /\ MM!Pick(rows, S) = Pick(rows, S)
  BY <1>3, <1>4 DEF PM!Pick, MM!Pick, Pick
<1>6. /\ \A rows, n : PM!Limit(rows, n) = Limit(rows, n)
      /\ \A rows, n : MM!Slice(rows, n) = Slice(rows, n)
  BY DEF PM!Limit, Limit, MM!Slice, Slice
<1>7. \A rows : PM!Reverse(rows) = MM!Reverse(rows)
  BY DEF PM!Reverse, MM!Reverse
<1>8. \A rows : PM!ToSet(rows) = ToSet(rows)
  BY DEF PM!ToSet, ToSet
<1>9. \A f : PM!IsInjective(f) = IsInjective(f)
  BY DEF PM!IsInjective, IsInjective
<1> QED
  BY <1>1, <1>2, <1>3, <1>4, <1>5, <1>6, <1>7, <1>8, <1>9

RunRow == [business : Bs, agent : {"radar"}, status : {"running", "succeeded"}]
ChatSources == {"owner_chat", "ask_agent"}
ObsRow == [id : Nat, business : Bs, text : Nat, source : ChatSources \cup {"yelp"}, day : Nat,
           about : Ids \cup {Null}, embedded : BOOLEAN]
FindRow == [business : Bs, status : {"proposed", "accepted", "withheld"}, evidence : Seq(Ids)]

MemoryTables == [run : Seq(RunRow), obs : Seq(ObsRow), find : Seq(FindRow), lastId : Nat]

\* A list of observations is in the order of their ids, holds no text of a
\* business twice outside the conversation, and no two sayings of one side at one
\* moment; what is said is named for its moment.
ObservationsHeld(obs, last) ==
    /\ \A i \in DOMAIN obs : obs[i].id \in 1..last
    /\ \A i, j \in DOMAIN obs : i < j => obs[i].id < obs[j].id
    /\ \A i, j \in DOMAIN obs :
          /\ obs[i].business = obs[j].business /\ obs[i].text = obs[j].text
          /\ obs[i].source \notin ChatSources /\ obs[j].source \notin ChatSources
          => i = j
    /\ \A i, j \in DOMAIN obs :
          /\ obs[i].business = obs[j].business /\ obs[i].day = obs[j].day
          /\ obs[i].source = obs[j].source /\ obs[i].source \in ChatSources
          => i = j
    /\ \A i \in DOMAIN obs : obs[i].source \in ChatSources => obs[i].text = obs[i].day

\* Nothing is cited before it is observed.
CitedHeld(finds, last) ==
    \A f \in DOMAIN finds : \A k \in DOMAIN finds[f].evidence :
        finds[f].evidence[k] \in 1..last

MemoryHeld(m) ==
    /\ m \in MemoryTables /\ m.lastId \in 0..(MaxRows + 1)
    /\ ObservationsHeld(m.obs, m.lastId)
    /\ CitedHeld(m.find, m.lastId)

\* Sorting the rows a condition leaves lists them along the order.
LEMMA RankedPick ==
    ASSUME NEW R, NEW rows \in Seq(R), NEW S, S \subseteq DOMAIN rows,
           NEW upTo, IsOrder(S, upTo), NEW rank, IsRank(rank, S, upTo)
    PROVE  /\ RowsAt(Pick(rows, S), Along(DOMAIN Pick(rows, S), rank))
                = RowsAt(rows, Along(S, upTo))
           /\ RowsAt(rows, Along(S, upTo)) \in Seq(R)
<1> DEFINE n == Cardinality(S)
           list == InOrder(S)
           sorted == Along(1..n, rank)
           along == Along(S, upTo)
<1>1. /\ S \in SUBSET Nat /\ IsFiniteSet(S) /\ n \in Nat
      /\ Pick(rows, S) = [k \in 1..n |-> rows[list[k]]]
  BY Picked
<1>2. DOMAIN Pick(rows, S) = 1..n
  BY <1>1
<1>3. /\ along \in [1..n -> S] /\ sorted \in [1..n -> 1..n]
      /\ \A k \in 1..n : list[sorted[k]] = along[k]
  BY <1>1, PickedThenSorted
<1>4. \A i \in S : rows[i] \in R
  BY RowsOf
<1> HIDE DEF sorted, along, list, n
<1>5. RowsAt(rows, along) = [k \in 1..n |-> rows[along[k]]]
  BY <1>3 DEF RowsAt
<1>6. RowsAt(Pick(rows, S), sorted) = [k \in 1..n |-> rows[along[k]]]
  BY <1>1, <1>3 DEF RowsAt
<1>7. [k \in 1..n |-> rows[along[k]]] \in [1..n -> R]
  BY <1>3, <1>4
<1>8. RowsAt(rows, along) \in Seq(R)
  BY <1>1, <1>5, <1>7, SeqOfMap
<1> QED
  BY <1>2, <1>5, <1>6, <1>8 DEF sorted, along

\* What the search of both comes to: the rows with the texts in order.
Nearer(obs, S) == [i \in S |-> {j \in S : j = i \/ obs[j].text < obs[i].text}]

\* The nearest texts first: nobody stores a text of a business twice, so their order
\* is the same whatever order they were stored in.
LEMMA SameNearest ==
    ASSUME NEW obs \in Seq(ObsRow), NEW S, S \subseteq DOMAIN obs, NEW n \in Nat,
           \A i, j \in S : obs[i].text = obs[j].text => i = j,
           NEW rows, rows = Pick(obs, S), NEW rank,
           rank = [k \in DOMAIN rows |->
                     {j \in DOMAIN rows : \/ rows[j].text < rows[k].text
                                          \/ j <= k /\ ~(rows[k].text < rows[j].text)}]
    PROVE  Slice(RowsAt(rows, Along(DOMAIN rows, rank)), n)
             = Limit(RowsAt(obs, Along(S, Nearer(obs, S))), n)
<1> DEFINE list == InOrder(S)
           m == Cardinality(S)
           upTo == Nearer(obs, S)
<1>1. /\ m \in Nat /\ Increasing(list, S) /\ rows = [k \in 1..m |-> obs[list[k]]]
  BY Picked
<1> HIDE DEF list
<1>2. /\ list \in [1..m -> S]
      /\ \A j, k \in 1..m : j <= k <=> list[j] <= list[k]
      /\ DOMAIN rows = 1..m
  BY <1>1 DEF Increasing
<1>3. \A i \in S : obs[i].text \in Nat
  <2>1. \A i \in S : obs[i] \in ObsRow
    BY RowsOf
  <2> QED
    BY <2>1 DEF ObsRow
<1>4. /\ upTo \in [S -> SUBSET S]
      /\ \A i, j \in S : j \in upTo[i] <=> j = i \/ obs[j].text < obs[i].text
  BY DEF Nearer
<1> HIDE DEF upTo
<1>5. IsOrder(S, upTo)
  <2>1. \A x, y \in S : x \in upTo[y] \/ y \in upTo[x]
    BY <1>3, <1>4
  <2>2. ASSUME NEW x \in S, NEW y \in S, x \in upTo[y], NEW z \in upTo[x]
        PROVE  z \in upTo[y]
    <3>1. z \in S
      BY <1>4, <2>2
    <3> QED
      BY <1>3, <1>4, <2>2, <3>1
  <2>3. \A x, y \in S : x \in upTo[y] /\ y \in upTo[x] => x = y
    BY <1>3, <1>4
  <2> QED
    BY <1>4, <2>1, <2>2, <2>3 DEF IsOrder
<1>6. IsRank(rank, S, upTo)
  <2>1. ASSUME NEW j \in 1..m, NEW k \in 1..m
        PROVE  (\/ rows[j].text < rows[k].text
                \/ j <= k /\ ~(rows[k].text < rows[j].text))
               <=> list[j] \in upTo[list[k]]
    <3>1. /\ list[j] \in S /\ list[k] \in S
          /\ rows[j] = obs[list[j]] /\ rows[k] = obs[list[k]]
          /\ obs[list[j]].text \in Nat /\ obs[list[k]].text \in Nat
      BY <1>1, <1>2, <1>3
    <3>2. obs[list[j]].text = obs[list[k]].text => list[j] = list[k]
      BY <3>1
    <3>3. list[j] = list[k] => j = k
      BY <1>2, <3>1
    <3> QED
      BY <1>4, <3>1, <3>2, <3>3
  <2> QED
    BY <1>2, <2>1 DEF IsRank, list
<1>7. /\ RowsAt(rows, Along(DOMAIN rows, rank)) = RowsAt(obs, Along(S, upTo))
      /\ RowsAt(obs, Along(S, upTo)) \in Seq(ObsRow)
  BY <1>5, <1>6, RankedPick DEF list
<1> QED
  BY <1>7, LimitIsSlice DEF upTo

\* search_observations and search_chat.
LEMMA SameSearches ==
    ASSUME NEW m, MemoryHeld(m), NEW b, NEW n \in Nat
    PROVE  /\ PM!SearchObservations(m, b, n) = MM!SearchObservations(m, b, n)
           /\ PM!SearchChat(m, b, n) = MM!SearchChat(m, b, n)
<1>1. m.obs \in Seq(ObsRow) /\ ObservationsHeld(m.obs, m.lastId)
  BY DEF MemoryHeld, MemoryTables
<1>2. \A row : PM!IsChat(row) <=> row.source \in ChatSources
  BY DEF PM!IsChat, ChatSources
<1>3. PM!SearchObservations(m, b, n) = MM!SearchObservations(m, b, n)
  <2> DEFINE S == {i \in DOMAIN m.obs : /\ m.obs[i].business = b /\ m.obs[i].embedded
                                        /\ m.obs[i].source \notin ChatSources}
             rows == Pick(m.obs, S)
             rank == [k \in DOMAIN rows |->
                        {j \in DOMAIN rows : \/ rows[j].text < rows[k].text
                                             \/ j <= k /\ ~(rows[k].text < rows[j].text)}]
  <2>1. {i \in PM!Signals(m, b) : m.obs[i].embedded} = S
    BY <1>2 DEF PM!Signals
  <2>2. PM!SearchObservations(m, b, n) = Limit(RowsAt(m.obs, Along(S, Nearer(m.obs, S))), n)
    BY <2>1, SameLists2, ZenonT(30) DEF PM!SearchObservations, PM!Nearest, PM!Sorted, Nearer
  <2>3. MM!SearchObservations(m, b, n) = Slice(RowsAt(rows, Along(DOMAIN rows, rank)), n)
    BY SameLists2, ZenonT(30)
       DEF MM!SearchObservations, MM!Where, MM!Ranked, ChatSources, MM!ChatSources
  <2>4. S \subseteq DOMAIN m.obs /\ \A i, j \in S : m.obs[i].text = m.obs[j].text => i = j
    BY <1>1 DEF ObservationsHeld
  <2> HIDE DEF S
  <2> QED
    BY <1>1, <2>2, <2>3, <2>4, SameNearest
<1>4. PM!SearchChat(m, b, n) = MM!SearchChat(m, b, n)
  <2> DEFINE S == {i \in DOMAIN m.obs : /\ m.obs[i].business = b /\ m.obs[i].source = "owner_chat"
                                        /\ m.obs[i].embedded}
             rows == Pick(m.obs, S)
             rank == [k \in DOMAIN rows |->
                        {j \in DOMAIN rows : \/ rows[j].text < rows[k].text
                                             \/ j <= k /\ ~(rows[k].text < rows[j].text)}]
  <2>1. {i \in PM!Said(m, b) : m.obs[i].embedded /\ m.obs[i].source = "owner_chat"} = S
    BY <1>2 DEF PM!Said, ChatSources
  <2>2. PM!SearchChat(m, b, n) = Limit(RowsAt(m.obs, Along(S, Nearer(m.obs, S))), n)
    BY <2>1, SameLists2, ZenonT(30) DEF PM!SearchChat, PM!Nearest, PM!Sorted, Nearer
  <2>3. MM!SearchChat(m, b, n) = Slice(RowsAt(rows, Along(DOMAIN rows, rank)), n)
    BY SameLists2, ZenonT(30) DEF MM!SearchChat, MM!Where, MM!Ranked
  <2>4. S \subseteq DOMAIN m.obs /\ \A i, j \in S : m.obs[i].text = m.obs[j].text => i = j
    BY <1>1 DEF ObservationsHeld, ChatSources
  <2> HIDE DEF S
  <2> QED
    BY <1>1, <2>2, <2>3, <2>4, SameNearest
<1> QED
  BY <1>3, <1>4

\* Of two such listings, neither has a greater key than the other at a place.
LEMMA NotBelow ==
    ASSUME NEW S, IsFiniteSet(S), NEW key, \A x \in S : key[x] \in Nat,
           NEW p, IsOrder(S, p), NEW q, IsOrder(S, q),
           \A x, y \in S : x \in p[y] => key[x] <= key[y],
           \A x, y \in S : x \in q[y] => key[x] <= key[y],
           NEW k \in 1..Cardinality(S)
    PROVE  ~(key[Along(S, p)[k]] < key[Along(S, q)[k]])
<1> DEFINE n == Cardinality(S)
           x == Along(S, p)[k]
           y == Along(S, q)[k]
<1>1. x \in S /\ Cardinality(p[x]) = k /\ y \in S /\ Cardinality(q[y]) = k
  <2>1. /\ Lists(Along(S, p), n, S, p) /\ Cardinality(p[x]) = k
        /\ Lists(Along(S, q), n, S, q) /\ Cardinality(q[y]) = k
    BY AlongLists
  <2>2. Along(S, p) \in [1..n -> S] /\ Along(S, q) \in [1..n -> S]
    BY <2>1 DEF Lists
  <2> QED
    BY <2>1, <2>2
<1> HIDE DEF x, y
<1>2. SUFFICES ASSUME key[x] < key[y]  PROVE FALSE
  BY DEF x, y
<1>3. p[x] \subseteq q[y] \ {y}
  <2> SUFFICES ASSUME NEW z \in p[x]  PROVE z \in q[y] \ {y}
    OBVIOUS
  <2>1. z \in S
    BY <1>1 DEF IsOrder
  <2>2. key[z] < key[y]
    BY <1>1, <1>2, <2>1
  <2>3. y \notin q[z] /\ z # y
    BY <1>1, <2>1, <2>2
  <2> QED
    BY <1>1, <2>1, <2>3 DEF IsOrder
<1>4. IsFiniteSet(q[y]) /\ y \in q[y]
  <2>1. q[y] \in SUBSET S /\ y \in q[y]
    BY <1>1 DEF IsOrder
  <2> QED
    BY <2>1, FS_Subset
<1>5. IsFiniteSet(q[y] \ {y}) /\ Cardinality(q[y] \ {y}) = k - 1
  BY <1>1, <1>4, FS_RemoveElement
<1>6. Cardinality(p[x]) <= k - 1
  BY <1>3, <1>5, FS_Subset
<1>7. k \in Nat
  BY FS_CardinalityType
<1> QED
  BY <1>1, <1>6, <1>7

\* Two listings along orders that both go by a key have the same keys.
LEMMA SameKeys ==
    ASSUME NEW S, IsFiniteSet(S), NEW key, \A x \in S : key[x] \in Nat,
           NEW p, IsOrder(S, p), NEW q, IsOrder(S, q),
           \A x, y \in S : x \in p[y] => key[x] <= key[y],
           \A x, y \in S : x \in q[y] => key[x] <= key[y],
           NEW k \in 1..Cardinality(S)
    PROVE  key[Along(S, p)[k]] = key[Along(S, q)[k]]
<1>1. Along(S, p)[k] \in S /\ Along(S, q)[k] \in S
  <2>1. /\ Lists(Along(S, p), Cardinality(S), S, p)
        /\ Lists(Along(S, q), Cardinality(S), S, q)
    BY AlongLists
  <2>2. /\ Along(S, p) \in [1..Cardinality(S) -> S]
        /\ Along(S, q) \in [1..Cardinality(S) -> S]
    BY <2>1 DEF Lists
  <2> QED
    BY <2>2
<1>2. ~(key[Along(S, p)[k]] < key[Along(S, q)[k]])
  BY NotBelow
<1>3. ~(key[Along(S, q)[k]] < key[Along(S, p)[k]])
  BY NotBelow
<1> QED
  BY <1>1, <1>2, <1>3

\* all_observations: the database sorts by day and by an id drawn at random, the double
\* by day alone: the days are the same in both, and the rows too when all are read.
LEMMA SameAllObservations ==
    ASSUME NEW m, MemoryHeld(m), NEW b, NEW n \in Nat, NEW uuid \in Uuids
    PROVE  /\ Observed(PM!AllObservations(m, b, n, uuid)) = Observed(MM!AllObservations(m, b, n))
           /\ n >= PM!CountObservations(m, b) =>
                 ToSet(PM!AllObservations(m, b, n, uuid)) = ToSet(MM!AllObservations(m, b, n))
<1> DEFINE obs == m.obs
           S == {i \in DOMAIN obs : obs[i].business = b /\ obs[i].source \notin ChatSources}
           rows == Pick(obs, S)
           list == InOrder(S)
           size == Cardinality(S)
           byId == [i \in S |-> {j \in S : \/ j = i
                                           \/ obs[j].day < obs[i].day
                                           \/ /\ obs[j].day = obs[i].day
                                              /\ uuid[obs[j].id] < uuid[obs[i].id]}]
           upTo == [i \in S |-> {j \in S : \/ j = i
                                           \/ obs[j].day < obs[i].day
                                           \/ obs[j].day = obs[i].day /\ obs[j].id < obs[i].id}]
           rank == [k \in DOMAIN rows |->
                      {j \in DOMAIN rows : \/ rows[j].day < rows[k].day
                                           \/ j <= k /\ ~(rows[k].day < rows[j].day)}]
           day == [i \in S |-> obs[i].day]
           drawn == [i \in S |-> uuid[obs[i].id]]
           stored == RowsAt(obs, Along(S, byId))
           double == RowsAt(obs, Along(S, upTo))
           least == IF size <= n THEN size ELSE n
<1>1. obs \in Seq(ObsRow) /\ ObservationsHeld(obs, m.lastId) /\ m.lastId \in 0..(MaxRows + 1)
  BY DEF MemoryHeld, MemoryTables
<1>2. /\ PM!AllObservations(m, b, n, uuid) = Limit(stored, n)
      /\ PM!CountObservations(m, b) = size
  <2>1. PM!Signals(m, b) = S
    BY DEF PM!Signals, PM!IsChat, ChatSources
  <2> QED
    BY <2>1, SameLists2 DEF PM!AllObservations, PM!Sorted, PM!CountObservations
<1>3. MM!AllObservations(m, b, n) = Slice(RowsAt(rows, Along(DOMAIN rows, rank)), n)
  <2>1. MM!Corpus(m, b) = rows
    BY SameLists2 DEF MM!Corpus, MM!Where, ChatSources, MM!ChatSources
  <2> QED
    BY <2>1, SameLists2 DEF MM!AllObservations, MM!Ranked
<1>4. \A i \in DOMAIN obs : i \in Nat /\ obs[i].day \in Nat /\ obs[i].id \in Nat
  <2>1. \A i \in DOMAIN obs : obs[i] \in ObsRow /\ i \in Nat
    BY <1>1, RowsOf
  <2> QED
    BY <2>1 DEF ObsRow
<1> HIDE DEF obs
<1>5. S \subseteq DOMAIN obs
  OBVIOUS
<1> HIDE DEF S
<1>6. /\ S \in SUBSET Nat /\ IsFiniteSet(S)
      /\ size \in Nat /\ Increasing(list, S) /\ rows = [k \in 1..size |-> obs[list[k]]]
  BY <1>1, <1>5, Picked
<1> HIDE DEF rows, list, size
<1>7. /\ list \in [1..size -> S]
      /\ \A j, k \in 1..size : j <= k <=> list[j] <= list[k]
      /\ DOMAIN rows = 1..size
  BY <1>6 DEF Increasing, size
<1>8. \A i, j \in S : i < j <=> obs[i].id < obs[j].id
  <2>1. \A i, j \in S : i < j => obs[i].id < obs[j].id
    BY <1>1, <1>5 DEF ObservationsHeld
  <2> QED
    BY <1>4, <1>5, <2>1
<1>9. /\ \A i \in S : drawn[i] \in Nat /\ drawn[i] = uuid[obs[i].id]
      /\ \A i, j \in S : drawn[i] = drawn[j] => i = j
  <2>1. uuid \in [1..(MaxRows + 1) -> 1..(MaxRows + 1)] /\ IsInjective(uuid)
    BY DEF Uuids
  <2>2. MaxRows \in Nat
    BY AgreementAssumption
  <2>3. \A i \in S : obs[i].id \in 1..(MaxRows + 1)
    <3>1. \A i \in S : obs[i].id \in 1..m.lastId
      BY <1>1, <1>5 DEF ObservationsHeld
    <3> QED
      BY <1>1, <2>2, <3>1
  <2>4. \A i, j \in S : obs[i].id = obs[j].id => i = j
    BY <1>4, <1>5, <1>8
  <2>5. \A i, j \in S : uuid[obs[i].id] = uuid[obs[j].id] => obs[i].id = obs[j].id
    BY <2>1, <2>3 DEF IsInjective
  <2>6. \A i \in S : drawn[i] = uuid[obs[i].id] /\ uuid[obs[i].id] \in 1..(MaxRows + 1)
    BY <2>1, <2>3
  <2> HIDE DEF drawn
  <2>7. \A i, j \in S : drawn[i] = drawn[j] => i = j
    BY <2>4, <2>5, <2>6
  <2> QED
    BY <2>2, <2>6, <2>7
<1>10. /\ upTo \in [S -> SUBSET S]
       /\ \A i, j \in S : j \in upTo[i] <=> \/ j = i
                                            \/ obs[j].day < obs[i].day
                                            \/ obs[j].day = obs[i].day /\ obs[j].id < obs[i].id
  OBVIOUS
<1>11. /\ byId \in [S -> SUBSET S]
       /\ \A i, j \in S : j \in byId[i] <=> \/ j = i
                                            \/ obs[j].day < obs[i].day
                                            \/ obs[j].day = obs[i].day /\ drawn[j] < drawn[i]
  <2> HIDE DEF drawn
  <2> QED
    BY <1>9
<1> HIDE DEF upTo, byId, drawn
<1>12. IsOrder(S, upTo)
  <2>1. \A x, y \in S : x \in upTo[y] \/ y \in upTo[x]
    BY <1>4, <1>5, <1>8, <1>10
  <2>2. ASSUME NEW x \in S, NEW y \in S, x \in upTo[y], NEW z \in upTo[x]
        PROVE  z \in upTo[y]
    <3>1. z \in S
      BY <1>10, <2>2
    <3> QED
      BY <1>4, <1>5, <1>10, <2>2, <3>1
  <2>3. \A x, y \in S : x \in upTo[y] /\ y \in upTo[x] => x = y
    BY <1>4, <1>5, <1>10
  <2> QED
    BY <1>10, <2>1, <2>2, <2>3 DEF IsOrder
<1>13. IsOrder(S, byId)
  <2>1. \A x, y \in S : x \in byId[y] \/ y \in byId[x]
    BY <1>4, <1>5, <1>9, <1>11
  <2>2. ASSUME NEW x \in S, NEW y \in S, x \in byId[y], NEW z \in byId[x]
        PROVE  z \in byId[y]
    <3>1. z \in S
      BY <1>11, <2>2
    <3> QED
      BY <1>4, <1>5, <1>9, <1>11, <2>2, <3>1
  <2>3. \A x, y \in S : x \in byId[y] /\ y \in byId[x] => x = y
    BY <1>4, <1>5, <1>9, <1>11
  <2> QED
    BY <1>11, <2>1, <2>2, <2>3 DEF IsOrder
<1>14. IsRank(rank, S, upTo)
  <2>1. ASSUME NEW j \in 1..size, NEW k \in 1..size
        PROVE  (\/ rows[j].day < rows[k].day
                \/ j <= k /\ ~(rows[k].day < rows[j].day))
               <=> list[j] \in upTo[list[k]]
    <3>1. /\ list[j] \in S /\ list[k] \in S
          /\ rows[j] = obs[list[j]] /\ rows[k] = obs[list[k]]
          /\ j <= k <=> list[j] <= list[k]
      BY <1>6, <1>7
    <3>2. list[j] \in Nat /\ list[k] \in Nat
          /\ obs[list[j]].day \in Nat /\ obs[list[k]].day \in Nat
      BY <1>4, <1>5, <3>1
    <3>3. list[j] <= list[k] <=> list[j] = list[k] \/ obs[list[j]].id < obs[list[k]].id
      BY <1>8, <3>1, <3>2
    <3> QED
      BY <1>10, <3>1, <3>2, <3>3
  <2> QED
    BY <1>7, <2>1 DEF IsRank, list, size
<1>15. RowsAt(rows, Along(DOMAIN rows, rank)) = double
  <2> HIDE DEF rank
  <2> QED
    BY <1>1, <1>5, <1>12, <1>14, RankedPick DEF rows
<1> HIDE DEF rank
<1>16. /\ Along(S, byId) \in [1..size -> S] /\ Along(S, upTo) \in [1..size -> S]
       /\ \A i \in S : \E k \in 1..size : Along(S, byId)[k] = i
       /\ \A i \in S : \E k \in 1..size : Along(S, upTo)[k] = i
  <2>1. Lists(Along(S, byId), size, S, byId) /\ Lists(Along(S, upTo), size, S, upTo)
    BY <1>6, <1>12, <1>13, AlongLists DEF size
  <2> QED
    BY <2>1 DEF Lists
<1>17. \A k \in 1..size : day[Along(S, byId)[k]] = day[Along(S, upTo)[k]]
  <2>1. \A i \in S : day[i] = obs[i].day /\ day[i] \in Nat
    BY <1>4, <1>5
  <2> HIDE DEF day
  <2>2. /\ \A x, y \in S : x \in byId[y] => day[x] <= day[y]
        /\ \A x, y \in S : x \in upTo[y] => day[x] <= day[y]
    BY <1>10, <1>11, <2>1
  <2>3. IsFiniteSet(S) /\ \A x \in S : day[x] \in Nat
    BY <1>6, <2>1
  <2>4. ASSUME NEW k \in 1..Cardinality(S)
        PROVE  day[Along(S, byId)[k]] = day[Along(S, upTo)[k]]
    BY <1>12, <1>13, <2>2, <2>3, SameKeys
  <2> QED
    BY <2>4 DEF size
<1>18. /\ stored = [k \in 1..size |-> obs[Along(S, byId)[k]]]
       /\ double = [k \in 1..size |-> obs[Along(S, upTo)[k]]]
  BY <1>16 DEF RowsAt
<1>19. \A k \in 1..size : stored[k].day = double[k].day
  <2>1. \A k \in 1..size : /\ Along(S, byId)[k] \in S /\ stored[k] = obs[Along(S, byId)[k]]
                           /\ Along(S, upTo)[k] \in S /\ double[k] = obs[Along(S, upTo)[k]]
    BY <1>16, <1>18
  <2>2. \A i \in S : day[i] = obs[i].day
    OBVIOUS
  <2> HIDE DEF day, stored, double
  <2> QED
    BY <1>17, <2>1, <2>2
<1>20. /\ stored \in Seq(ObsRow) /\ Len(stored) = size
       /\ double \in Seq(ObsRow) /\ Len(double) = size
  <2>1. \A i \in S : obs[i] \in ObsRow
    BY <1>1, <1>5, RowsOf
  <2>2. /\ [k \in 1..size |-> obs[Along(S, byId)[k]]] \in [1..size -> ObsRow]
        /\ [k \in 1..size |-> obs[Along(S, upTo)[k]]] \in [1..size -> ObsRow]
    BY <1>16, <2>1
  <2> QED
    BY <1>6, <1>18, <2>2, SeqOfMap, ZenonT(30)
<1>21. ToSet(stored) = ToSet(double)
  <2>1. ToSet(stored) = {obs[i] : i \in S} /\ ToSet(double) = {obs[i] : i \in S}
    BY <1>16, <1>18 DEF ToSet
  <2> QED
    BY <2>1
<1> HIDE DEF stored, double
<1>22. /\ PM!AllObservations(m, b, n, uuid) = [k \in 1..least |-> stored[k]]
       /\ MM!AllObservations(m, b, n) = [k \in 1..least |-> double[k]]
  <2>1. Limit(stored, n) = Slice(stored, n)
    BY <1>20, LimitIsSlice
  <2> QED
    BY <1>2, <1>3, <1>15, <1>20, <2>1 DEF Slice
<1>23. \A k \in 1..least : k \in 1..size
  BY <1>6
<1>24. Observed(PM!AllObservations(m, b, n, uuid)) = Observed(MM!AllObservations(m, b, n))
  <2> HIDE DEF least
  <2> QED
    BY <1>19, <1>22, <1>23 DEF Observed
<1>25. ASSUME n >= size
       PROVE  ToSet(PM!AllObservations(m, b, n, uuid)) = ToSet(MM!AllObservations(m, b, n))
  <2>1. least = size
    BY <1>6, <1>25
  <2>2. stored = [k \in 1..size |-> stored[k]] /\ double = [k \in 1..size |-> double[k]]
    BY <1>20, LenProperties
  <2> QED
    BY <1>21, <1>22, <2>1, <2>2
<1> QED
  BY <1>2, <1>24, <1>25

\* recent_chat: the newest, the answer after its question, oldest first.
LEMMA SameRecentChat ==
    ASSUME NEW m, MemoryHeld(m), NEW b, NEW n \in Nat, NEW about
    PROVE  PM!RecentChat(m, b, n, about) = MM!RecentChat(m, b, n, about)
<1> DEFINE obs == m.obs
           S == {i \in DOMAIN obs : /\ obs[i].business = b /\ obs[i].source \in ChatSources
                                    /\ about = Null \/ obs[i].about = about}
           rows == Pick(obs, S)
           list == InOrder(S)
           size == Cardinality(S)
           upTo == [i \in S |-> {j \in S : \/ j = i
                                           \/ obs[j].day > obs[i].day
                                           \/ /\ obs[j].day = obs[i].day
                                              /\ obs[j].source = "ask_agent"
                                              /\ obs[i].source = "owner_chat"}]
           above(x, y) == \/ x.day > y.day
                          \/ x.day = y.day /\ x.source = "ask_agent" /\ y.source # "ask_agent"
           rank == [k \in DOMAIN rows |->
                      {j \in DOMAIN rows : \/ above(rows[j], rows[k])
                                           \/ j <= k /\ ~above(rows[k], rows[j])}]
<1>1. obs \in Seq(ObsRow) /\ ObservationsHeld(obs, m.lastId)
  BY DEF MemoryHeld, MemoryTables
<1>2. PM!RecentChat(m, b, n, about) = MM!Reverse(Limit(RowsAt(obs, Along(S, upTo)), n))
  <2>1. {i \in PM!Said(m, b) : about = Null \/ m.obs[i].about = about} = S
    BY DEF PM!Said, PM!IsChat, ChatSources
  <2> QED
    BY <2>1, SameLists2, ZenonT(30) DEF PM!RecentChat, PM!Sorted
<1>3. MM!RecentChat(m, b, n, about)
        = MM!Reverse(Slice(RowsAt(rows, Along(DOMAIN rows, rank)), n))
  <2>1. {i \in DOMAIN m.obs : /\ m.obs[i].business = b /\ m.obs[i].source \in MM!ChatSources
                              /\ about = Null \/ m.obs[i].about = about} = S
    BY DEF MM!ChatSources, ChatSources
  <2> QED
    BY <2>1, SameLists2, ZenonT(30) DEF MM!RecentChat, MM!Where, MM!Ranked
<1>4. \A i \in DOMAIN obs : i \in Nat /\ obs[i].day \in Nat
  <2>1. \A i \in DOMAIN obs : obs[i] \in ObsRow /\ i \in Nat
    BY <1>1, RowsOf
  <2> QED
    BY <2>1 DEF ObsRow
<1>5. /\ S \subseteq DOMAIN obs
      /\ \A i \in S : obs[i].source = "owner_chat" \/ obs[i].source = "ask_agent"
      /\ \A i, j \in S : obs[i].day = obs[j].day /\ obs[i].source = obs[j].source => i = j
  BY <1>1 DEF ObservationsHeld, ChatSources
<1> HIDE DEF obs, S
<1>6. /\ size \in Nat /\ Increasing(list, S) /\ rows = [k \in 1..size |-> obs[list[k]]]
  BY <1>1, <1>5, Picked
<1> HIDE DEF rows, list, size
<1>7. /\ list \in [1..size -> S]
      /\ \A j, k \in 1..size : j <= k <=> list[j] <= list[k]
      /\ DOMAIN rows = 1..size
  BY <1>6 DEF Increasing, size
<1>8. /\ upTo \in [S -> SUBSET S]
      /\ \A i, j \in S : j \in upTo[i] <=> \/ j = i
                                           \/ obs[j].day > obs[i].day
                                           \/ /\ obs[j].day = obs[i].day
                                              /\ obs[j].source = "ask_agent"
                                              /\ obs[i].source = "owner_chat"
  OBVIOUS
<1> HIDE DEF upTo
<1>10. IsOrder(S, upTo)
  <2>1. \A x, y \in S : x \in upTo[y] \/ y \in upTo[x]
    BY <1>4, <1>5, <1>8
  <2>2. ASSUME NEW x \in S, NEW y \in S, x \in upTo[y], NEW z \in upTo[x]
        PROVE  z \in upTo[y]
    <3>1. z \in S
      BY <1>8, <2>2
    <3> QED
      BY <1>4, <1>5, <1>8, <2>2, <3>1
  <2>3. \A x, y \in S : x \in upTo[y] /\ y \in upTo[x] => x = y
    BY <1>4, <1>5, <1>8
  <2> QED
    BY <1>8, <2>1, <2>2, <2>3 DEF IsOrder
<1>11. IsRank(rank, S, upTo)
  <2>1. ASSUME NEW j \in 1..size, NEW k \in 1..size
        PROVE  (\/ above(rows[j], rows[k])
                \/ j <= k /\ ~above(rows[k], rows[j]))
               <=> list[j] \in upTo[list[k]]
    <3>1. /\ list[j] \in S /\ list[k] \in S
          /\ rows[j] = obs[list[j]] /\ rows[k] = obs[list[k]]
          /\ list[j] = list[k] => j = k
      BY <1>6, <1>7
    <3>2. obs[list[j]].day \in Nat /\ obs[list[k]].day \in Nat
      BY <1>4, <1>5, <3>1
    <3> QED
      BY <1>5, <1>8, <3>1, <3>2
  <2> HIDE DEF above
  <2> QED
    BY <1>7, <2>1 DEF IsRank, list, size
<1>12. /\ RowsAt(rows, Along(DOMAIN rows, rank)) = RowsAt(obs, Along(S, upTo))
       /\ RowsAt(obs, Along(S, upTo)) \in Seq(ObsRow)
  <2> HIDE DEF rank
  <2> QED
    BY <1>1, <1>5, <1>10, <1>11, RankedPick DEF rows
<1> HIDE DEF rank
<1> QED
  BY <1>2, <1>3, <1>12, LimitIsSlice

\* The same of the ids themselves.
LEMMA RankedIds ==
    ASSUME NEW S \in SUBSET Nat, IsFiniteSet(S), NEW upTo, IsOrder(S, upTo),
           NEW rank, IsRank(rank, S, upTo)
    PROVE  /\ RowsAt(InOrder(S), Along(DOMAIN InOrder(S), rank)) = Along(S, upTo)
           /\ Along(S, upTo) \in Seq(S)
<1> DEFINE n == Cardinality(S)
           list == InOrder(S)
           sorted == Along(1..n, rank)
           along == Along(S, upTo)
<1>1. Increasing(list, S)
  BY InOrderIncreases
<1>2. n \in Nat /\ DOMAIN list = 1..n
  BY <1>1 DEF Increasing
<1>3. /\ along \in [1..n -> S] /\ sorted \in [1..n -> 1..n]
      /\ \A k \in 1..n : list[sorted[k]] = along[k]
  BY PickedThenSorted
<1> HIDE DEF sorted, along, list, n
<1>4. RowsAt(list, sorted) = [k \in 1..n |-> along[k]]
  BY <1>3 DEF RowsAt
<1>5. along \in Seq(S)
  BY <1>2, <1>3, SeqOfMap
<1>6. RowsAt(list, sorted) = along
  BY <1>3, <1>4
<1> QED
  BY <1>2, <1>5, <1>6 DEF sorted, along, list

\* recent_runs: the newest first.
LEMMA SameRecentRuns ==
    ASSUME NEW m, MemoryHeld(m), NEW b, NEW n \in Nat
    PROVE  PM!RecentRuns(m, b, n) = MM!RecentRuns(m, b, n)
<1> DEFINE S == {r \in DOMAIN m.run : m.run[r].business = b}
           list == InOrder(S)
           size == Cardinality(S)
           rank == [k \in DOMAIN list |->
                      {j \in DOMAIN list : \/ list[j] > list[k]
                                           \/ j <= k /\ ~(list[k] > list[j])}]
<1>1. PM!RecentRuns(m, b, n) = Limit(Newest(S), n)
  BY SameLists2 DEF PM!RecentRuns
<1>2. MM!RecentRuns(m, b, n) = Slice(RowsAt(list, Along(DOMAIN list, rank)), n)
  BY SameLists2 DEF MM!RecentRuns, MM!Ranked
<1>3. S \in SUBSET Nat /\ IsFiniteSet(S)
  <2>1. m.run \in Seq(RunRow)
    BY DEF MemoryHeld, MemoryTables
  <2> QED
    BY <2>1, Hits
<1> HIDE DEF S
<1>4. Increasing(list, S)
  BY <1>3, InOrderIncreases
<1> HIDE DEF list, size
<1>5. /\ list \in [1..size -> S] /\ DOMAIN list = 1..size
      /\ \A j, k \in 1..size : j <= k <=> list[j] <= list[k]
  BY <1>4 DEF Increasing, size
<1>6. IsRank(rank, S, DownTo(S))
  <2>1. ASSUME NEW j \in 1..size, NEW k \in 1..size
        PROVE  (list[j] > list[k] \/ (j <= k /\ ~(list[k] > list[j])))
               <=> list[j] \in DownTo(S)[list[k]]
    <3>1. list[j] \in S /\ list[k] \in S /\ list[j] \in Nat /\ list[k] \in Nat
      BY <1>3, <1>5
    <3> QED
      BY <1>5, <3>1 DEF DownTo
  <2> QED
    BY <1>5, <2>1 DEF IsRank, list, size
<1> HIDE DEF rank
<1>7. /\ RowsAt(list, Along(DOMAIN list, rank)) = Along(S, DownTo(S))
      /\ Along(S, DownTo(S)) \in Seq(S)
  BY <1>3, <1>6, NumbersOrdered, RankedIds DEF list
<1>8. Newest(S) = Along(S, DownTo(S))
  BY DEF Newest, DownTo
<1> QED
  BY <1>1, <1>2, <1>7, <1>8, LimitIsSlice

\* recent_finds: in play, seen by the owner, newest; the double adds up two keys.
LEMMA SameRecentFinds ==
    ASSUME NEW m, MemoryHeld(m), NEW b, NEW n \in Nat, NEW unseen \in BOOLEAN
    PROVE  PM!RecentFinds(m, b, n, unseen) = MM!RecentFinds(m, b, n, unseen)
<1> DEFINE inPlay(f) == m.find[f].status \in {"accepted", "live"}
           seen(f) == m.find[f].status \in MM!OwnerSeenStatuses
           S == {f \in DOMAIN m.find : m.find[f].business = b /\ (unseen \/ seen(f))}
           before(f, g) == \/ inPlay(f) /\ ~inPlay(g)
                           \/ /\ inPlay(f) <=> inPlay(g)
                              /\ \/ seen(f) /\ ~seen(g)
                                 \/ (seen(f) <=> seen(g)) /\ f > g
           key(f) == (IF inPlay(f) THEN 0 ELSE 2) + (IF seen(f) THEN 0 ELSE 1)
           above(f, g) == key(f) < key(g) \/ (key(f) = key(g) /\ f > g)
           upTo == [f \in S |-> {g \in S : g = f \/ before(g, f)}]
           list == InOrder(S)
           size == Cardinality(S)
           rank == [k \in DOMAIN list |->
                      {j \in DOMAIN list : \/ above(list[j], list[k])
                                           \/ j <= k /\ ~above(list[k], list[j])}]
<1>1. PM!RecentFinds(m, b, n, unseen) = Limit(Along(S, upTo), n)
  <2>1. PM!SeenByOwner = MM!OwnerSeenStatuses /\ PM!Judgeable = {"accepted", "live"}
    BY SMTT(30) DEF PM!SeenByOwner, MM!OwnerSeenStatuses, PM!Judgeable
  <2> QED
    BY <2>1, SameLists2 DEF PM!RecentFinds, PM!Sorted
<1>2. MM!RecentFinds(m, b, n, unseen) = Slice(RowsAt(list, Along(DOMAIN list, rank)), n)
  <2>1. MM!InOrder(S) = list
    BY SameLists2
  <2>2. MM!RecentFinds(m, b, n, unseen) = MM!Slice(MM!Ranked(MM!InOrder(S), above), n)
    BY DEF MM!RecentFinds
  <2>3. MM!Ranked(list, above) = MM!RowsAt(list, MM!Along(DOMAIN list, rank))
    BY DEF MM!Ranked
  <2> QED
    BY <2>1, <2>2, <2>3, SameLists2, ZenonT(30)
<1> HIDE DEF inPlay, seen
<1>3. S \in SUBSET Nat /\ IsFiniteSet(S)
  <2>1. m.find \in Seq(FindRow)
    BY DEF MemoryHeld, MemoryTables
  <2> QED
    BY <2>1, Hits
<1> HIDE DEF S
<1>4. Increasing(list, S)
  BY <1>3, InOrderIncreases
<1> HIDE DEF list, size
<1>5. /\ list \in [1..size -> S] /\ DOMAIN list = 1..size
      /\ \A j, k \in 1..size : j <= k <=> list[j] <= list[k]
  BY <1>4 DEF Increasing, size
<1>6. \A f, g \in S : above(f, g) <=> before(f, g)
  BY <1>3
<1>7. /\ upTo \in [S -> SUBSET S]
      /\ \A f, g \in S : g \in upTo[f] <=> g = f \/ before(g, f)
  OBVIOUS
<1> HIDE DEF upTo, above
<1>8. IsOrder(S, upTo)
  <2>1. \A x, y \in S : x \in upTo[y] \/ y \in upTo[x]
    BY <1>3, <1>7
  <2>2. ASSUME NEW x \in S, NEW y \in S, x \in upTo[y], NEW z \in upTo[x]
        PROVE  z \in upTo[y]
    <3>1. z \in S
      BY <1>7, <2>2
    <3> QED
      BY <1>3, <1>7, <2>2, <3>1
  <2>3. \A x, y \in S : x \in upTo[y] /\ y \in upTo[x] => x = y
    BY <1>3, <1>7
  <2> QED
    BY <1>7, <2>1, <2>2, <2>3 DEF IsOrder
<1>9. IsRank(rank, S, upTo)
  <2>1. ASSUME NEW j \in 1..size, NEW k \in 1..size
        PROVE  (\/ above(list[j], list[k])
                \/ j <= k /\ ~above(list[k], list[j]))
               <=> list[j] \in upTo[list[k]]
    <3>1. /\ list[j] \in S /\ list[k] \in S /\ list[j] \in Nat /\ list[k] \in Nat
          /\ list[j] = list[k] => j = k
      <4>1. list[j] \in S /\ list[k] \in S
        BY <1>5
      <4>2. list[j] \in Nat /\ list[k] \in Nat
        BY <1>3, <4>1
      <4>3. list[j] = list[k] => j <= k /\ k <= j
        BY <1>5, <4>2
      <4> QED
        BY <4>1, <4>2, <4>3
    <3> HIDE DEF before
    <3>2. /\ above(list[j], list[k]) <=> before(list[j], list[k])
          /\ above(list[k], list[j]) <=> before(list[k], list[j])
      BY <1>6, <3>1
    <3>3. before(list[j], list[k]) \/ before(list[k], list[j]) \/ list[j] = list[k]
      BY <3>1 DEF before
    <3>4. ~(before(list[j], list[k]) /\ before(list[k], list[j]))
      BY <3>1 DEF before
    <3>5. list[j] = list[k] => ~before(list[k], list[j])
      BY <3>1 DEF before
    <3>6. list[j] \in upTo[list[k]] <=> list[j] = list[k] \/ before(list[j], list[k])
      BY <1>7, <3>1 DEF before
    <3> QED
      BY <3>1, <3>2, <3>3, <3>4, <3>5, <3>6
  <2> QED
    BY <1>5, <2>1 DEF IsRank, list, size
<1> HIDE DEF rank
<1>10. /\ RowsAt(list, Along(DOMAIN list, rank)) = Along(S, upTo)
       /\ Along(S, upTo) \in Seq(S)
  BY <1>3, <1>8, <1>9, RankedIds DEF list
<1> QED
  BY <1>1, <1>2, <1>10, LimitIsSlice

\* What is counted, and what is looked up of a recommendation.
LEMMA SameCounts ==
    ASSUME NEW m, MemoryHeld(m), NEW b, NEW f
    PROVE  /\ PM!CountObservations(m, b) = MM!CountObservations(m, b)
           /\ PM!CountChat(m, b) = MM!CountChat(m, b)
           /\ PM!CountFinds(m, b) = MM!CountFinds(m, b)
           /\ PM!LatestFind(m, b) = MM!LatestFind(m, b)
           /\ PM!GetFindContext(m, b, f) = MM!GetFindContext(m, b, f)
           /\ f \in DOMAIN m.find => PM!GetFindEvidence(m, f) = MM!GetFindEvidence(m, f)
<1>1. m.obs \in Seq(ObsRow) /\ m.find \in Seq(FindRow)
  BY DEF MemoryHeld, MemoryTables
<1>2. PM!CountObservations(m, b) = MM!CountObservations(m, b)
  <2> DEFINE S == {i \in DOMAIN m.obs : m.obs[i].business = b /\ m.obs[i].source \notin ChatSources}
  <2>1. PM!CountObservations(m, b) = Cardinality(S)
    BY SameLists2 DEF PM!CountObservations, PM!Signals, PM!IsChat, ChatSources
  <2>2. MM!CountObservations(m, b) = Len(Pick(m.obs, S))
    BY SameLists2 DEF MM!CountObservations, MM!Corpus, MM!Where, ChatSources, MM!ChatSources
  <2>3. S \in SUBSET (DOMAIN m.obs)
    OBVIOUS
  <2> HIDE DEF S
  <2> QED
    BY <1>1, <2>1, <2>2, <2>3, Picked
<1>3. PM!CountChat(m, b) = MM!CountChat(m, b)
  <2> DEFINE S == {i \in DOMAIN m.obs : m.obs[i].business = b /\ m.obs[i].source \in ChatSources}
  <2>1. PM!CountChat(m, b) = Cardinality(S)
    BY SameLists2 DEF PM!CountChat, PM!Said, PM!IsChat, ChatSources
  <2>2. MM!CountChat(m, b) = Len(Pick(m.obs, S))
    BY SameLists2 DEF MM!CountChat, MM!Where, ChatSources, MM!ChatSources
  <2>3. S \in SUBSET (DOMAIN m.obs)
    OBVIOUS
  <2> HIDE DEF S
  <2> QED
    BY <1>1, <2>1, <2>2, <2>3, Picked
<1>4. PM!CountFinds(m, b) = MM!CountFinds(m, b)
  <2> DEFINE S == {i \in DOMAIN m.find : m.find[i].business = b}
  <2>1. PM!CountFinds(m, b) = Cardinality(S)
    BY SameLists2 DEF PM!CountFinds
  <2>2. MM!CountFinds(m, b) = Len(Pick(m.find, S))
    BY SameLists2 DEF MM!CountFinds
  <2>3. S \in SUBSET (DOMAIN m.find)
    OBVIOUS
  <2> HIDE DEF S
  <2> QED
    BY <1>1, <2>1, <2>2, <2>3, Picked
<1>5. PM!LatestFind(m, b) = MM!LatestFind(m, b)
  <2> DEFINE S == {i \in DOMAIN m.find : m.find[i].business = b}
             p == CHOOSE i \in S : \A g \in S : g <= i
             q == CHOOSE i \in S : ~\E g \in S : g > i
  <2>1. /\ PM!LatestFind(m, b) = IF S = {} THEN Null ELSE p
        /\ MM!LatestFind(m, b) = IF S = {} THEN Null ELSE q
    BY DEF PM!LatestFind, MM!LatestFind
  <2>2. S \subseteq Nat
    BY <1>1, RowsOf
  <2> HIDE DEF S
  <2>3. \A i \in S : (\A g \in S : g <= i) <=> ~\E g \in S : g > i
    BY <2>2
  <2>4. p = q
    BY <2>3
  <2> QED
    BY <2>1, <2>4
<1>6. /\ PM!GetFindContext(m, b, f) = MM!GetFindContext(m, b, f)
      /\ f \in DOMAIN m.find => PM!GetFindEvidence(m, f) = MM!GetFindEvidence(m, f)
  BY DEF PM!GetFindContext, MM!GetFindContext, PM!GetFindEvidence, MM!GetFindEvidence
<1> QED
  BY <1>2, <1>3, <1>4, <1>5, <1>6

-----------------------------------------------------------------------------
\* Calls on what the agents remember.

SameMemoryCall(p, m) == p = m /\ MemoryHeld(p.m)

\* An answered call that leaves the same rows is the same call.
LEMMA SameMemoryAnswer ==
    ASSUME NEW p, NEW q, NEW m, NEW v, MemoryHeld(m),
           p = PM!Answer(m, v) /\ q = MM!Answer(m, v)
    PROVE  SameMemoryCall(p, q)
  BY DEF SameMemoryCall, PM!Answer, MM!Answer

\* So is a refused one.
LEMMA SameMemoryRefusal ==
    ASSUME NEW p, NEW q, NEW m, MemoryHeld(m), p = PM!Refused(m) /\ q = MM!Refused(m)
    PROVE  SameMemoryCall(p, q)
  BY DEF SameMemoryCall, PM!Refused, MM!Refused

\* start_run and finish_run.
LEMMA SameRunCalls ==
    ASSUME NEW m, MemoryHeld(m)
    PROVE  /\ SameMemoryCall(PM!StartRun(m, Own, "radar"), MM!StartRun(m, Own, "radar"))
           /\ \A r : SameMemoryCall(PM!FinishRun(m, r, "succeeded"),
                                    MM!FinishRun(m, r, "succeeded"))
<1>1. m.run \in Seq(RunRow) /\ m \in MemoryTables
  BY DEF MemoryHeld, MemoryTables
<1>2. ASSUME NEW runs \in Seq(RunRow)
      PROVE  MemoryHeld([m EXCEPT !.run = runs])
  <2>1. /\ [m EXCEPT !.run = runs] \in MemoryTables
        /\ [m EXCEPT !.run = runs].obs = m.obs /\ [m EXCEPT !.run = runs].lastId = m.lastId
        /\ [m EXCEPT !.run = runs].find = m.find
    BY <1>1 DEF MemoryTables
  <2> QED
    BY <2>1 DEF MemoryHeld
<1>3. SameMemoryCall(PM!StartRun(m, Own, "radar"), MM!StartRun(m, Own, "radar"))
  <2> DEFINE row == [business |-> Own, agent |-> "radar", status |-> "running"]
  <2>1. row \in RunRow
    BY DEF RunRow, Bs
  <2>2. Append(m.run, row) \in Seq(RunRow)
    BY <1>1, <2>1, Appended DEF IsAppend
  <2>3. MemoryHeld([m EXCEPT !.run = Append(m.run, row)])
    BY <1>2, <2>2
  <2> QED
    BY <2>3 DEF SameMemoryCall, PM!StartRun, MM!StartRun, PM!Answer, MM!Answer
<1>4. ASSUME NEW r
      PROVE  SameMemoryCall(PM!FinishRun(m, r, "succeeded"), MM!FinishRun(m, r, "succeeded"))
  <2>1. CASE r \notin DOMAIN m.run
    BY <2>1 DEF SameMemoryCall, PM!FinishRun, MM!FinishRun, PM!Refused, MM!Refused
  <2>2. CASE r \in DOMAIN m.run
    <3> DEFINE row == [m.run[r] EXCEPT !.status = "succeeded"]
               runs == [m.run EXCEPT ![r] = row]
    <3>1. m.run[r] \in RunRow
      BY <1>1, <2>2, RowsOf
    <3>2. row \in RunRow
      BY <3>1 DEF RunRow
    <3>3. runs \in Seq(RunRow)
      BY <1>1, <2>2, <3>2, Changed DEF IsChange
    <3>4. MemoryHeld([m EXCEPT !.run = runs])
      BY <1>2, <3>3
    <3>5. /\ [m EXCEPT !.run[r].status = "succeeded"] = [m EXCEPT !.run = runs]
          /\ [m EXCEPT !.run = [@ EXCEPT ![r].status = "succeeded"]] = [m EXCEPT !.run = runs]
      OBVIOUS
    <3> HIDE DEF runs
    <3> QED
      BY <2>2, <3>4, <3>5 DEF SameMemoryCall, PM!FinishRun, MM!FinishRun, PM!Answer, MM!Answer
  <2> QED
    BY <2>1, <2>2
<1> QED
  BY <1>3, <1>4

\* A row with the next id, told apart from those of its kind.
LEMMA MoreObserved ==
    ASSUME NEW m, MemoryHeld(m), m.lastId < MaxRows + 1,
           NEW row \in ObsRow, row.id = m.lastId + 1,
           row.source \notin ChatSources =>
              \A i \in DOMAIN m.obs : ~(/\ m.obs[i].business = row.business
                                        /\ m.obs[i].text = row.text
                                        /\ m.obs[i].source \notin ChatSources),
           row.source \in ChatSources =>
              /\ row.text = row.day
              /\ \A i \in DOMAIN m.obs : ~(/\ m.obs[i].business = row.business
                                           /\ m.obs[i].day = row.day
                                           /\ m.obs[i].source = row.source)
    PROVE  MemoryHeld([m EXCEPT !.obs = Append(@, row), !.lastId = row.id])
<1> DEFINE e == [m EXCEPT !.obs = Append(@, row), !.lastId = row.id]
           obs == m.obs
           n == Len(obs) + 1
           more == Append(obs, row)
<1>1. m \in MemoryTables /\ obs \in Seq(ObsRow) /\ m.lastId \in Nat
      /\ ObservationsHeld(obs, m.lastId)
  BY DEF MemoryHeld, MemoryTables
<1>2. IsAppend(ObsRow, obs, row, more)
  BY <1>1, Appended
<1>3. e \in MemoryTables /\ e.obs = more /\ e.lastId = row.id /\ e.find = m.find
  BY <1>1, <1>2 DEF MemoryTables, IsAppend, ObsRow
<1>4. DOMAIN obs = 1..Len(obs) /\ Len(obs) \in Nat /\ \A i \in DOMAIN obs : obs[i] \in ObsRow
  BY <1>1, RowsOf
<1> HIDE DEF e, obs, more
<1>5. /\ DOMAIN more = DOMAIN obs \cup {n} /\ n \notin DOMAIN obs
      /\ more[n] = row /\ \A i \in DOMAIN obs : more[i] = obs[i]
      /\ n \in Nat /\ \A i \in DOMAIN obs : i < n /\ i \in Nat
  BY <1>2, <1>4 DEF IsAppend
<1> HIDE DEF n
<1>6. \A i \in DOMAIN obs : obs[i].id \in Nat /\ 1 <= obs[i].id /\ obs[i].id <= m.lastId
  BY <1>1, <1>4 DEF ObservationsHeld
<1>7. /\ \A i \in DOMAIN more : more[i].id \in 1..row.id
      /\ \A i, j \in DOMAIN more : i < j => more[i].id < more[j].id
  <2>1. \A i \in DOMAIN more : more[i].id \in 1..row.id
    BY <1>1, <1>5, <1>6
  <2>2. ASSUME NEW i \in DOMAIN more, NEW j \in DOMAIN more, i < j
        PROVE  more[i].id < more[j].id
    <3>1. i \in DOMAIN obs
      BY <1>5, <2>2
    <3>2. CASE j \in DOMAIN obs
      BY <1>1, <1>5, <2>2, <3>1, <3>2 DEF ObservationsHeld
    <3>3. CASE j = n
      BY <1>1, <1>5, <1>6, <3>1, <3>3
    <3> QED
      BY <1>5, <3>2, <3>3
  <2> QED
    BY <2>1, <2>2
<1>8. \A i, j \in DOMAIN more :
         /\ more[i].business = more[j].business /\ more[i].text = more[j].text
         /\ more[i].source \notin ChatSources /\ more[j].source \notin ChatSources
         => i = j
  BY <1>1, <1>5 DEF ObservationsHeld, obs
<1>9. \A i, j \in DOMAIN more :
         /\ more[i].business = more[j].business /\ more[i].day = more[j].day
         /\ more[i].source = more[j].source /\ more[i].source \in ChatSources
         => i = j
  BY <1>1, <1>5 DEF ObservationsHeld, obs
<1>10. \A i \in DOMAIN more : more[i].source \in ChatSources => more[i].text = more[i].day
  BY <1>1, <1>5 DEF ObservationsHeld
<1>11. MemoryHeld(e)
  <2>1. row.id \in 0..(MaxRows + 1)
    BY <1>1, AgreementAssumption
  <2>2. CitedHeld(e.find, e.lastId)
    <3>1. CitedHeld(m.find, m.lastId)
      BY DEF MemoryHeld
    <3> QED
      BY <1>1, <1>3, <3>1 DEF CitedHeld
  <2> QED
    BY <1>3, <1>7, <1>8, <1>9, <1>10, <2>1, <2>2 DEF MemoryHeld, ObservationsHeld
<1> QED
  BY <1>11 DEF e

\* insert_observation, which drops what a business already has, and insert_chat, which
\* never does.
LEMMA SameRemember ==
    ASSUME NEW m, MemoryHeld(m), m.lastId < MaxRows + 1
    PROVE  /\ \A b \in Bs, text \in Contents, day \in Days :
                 SameMemoryCall(PM!InsertObservation(m, b, text, "yelp", day),
                                MM!InsertObservation(m, b, text, "yelp", day))
           /\ \A role \in {"user", "assistant"}, day \in Days,
                 about \in Ids \cup {Null}, embedded \in BOOLEAN :
                 (~\E i \in DOMAIN m.obs : /\ m.obs[i].business = Own /\ m.obs[i].day = day
                                           /\ m.obs[i].source = PM!ChatSource(role))
                 => SameMemoryCall(PM!InsertChat(m, Own, role, day, day, about, embedded),
                                   MM!InsertChat(m, Own, role, day, day, about, embedded))
<1>1. m \in MemoryTables /\ m.lastId \in Nat
  BY DEF MemoryHeld, MemoryTables
<1>2. Contents \subseteq Nat /\ Days \subseteq Nat
  BY AgreementAssumption
<1>3. ASSUME NEW b \in Bs, NEW text \in Contents, NEW day \in Days
      PROVE  SameMemoryCall(PM!InsertObservation(m, b, text, "yelp", day),
                            MM!InsertObservation(m, b, text, "yelp", day))
  <2> DEFINE row == [id |-> m.lastId + 1, business |-> b, text |-> text, source |-> "yelp",
                     day |-> day, about |-> Null, embedded |-> TRUE]
             e == [m EXCEPT !.obs = Append(@, row), !.lastId = row.id]
             known == \E i \in DOMAIN m.obs : /\ m.obs[i].business = b /\ m.obs[i].text = text
                                              /\ m.obs[i].source \notin ChatSources
  <2>1. PM!InsertObservation(m, b, text, "yelp", day)
          = IF known THEN PM!Answer(m, Null) ELSE PM!Answer(e, m.lastId + 1)
    BY DEF PM!InsertObservation, PM!IsChat, PM!Stored, PM!ObservationRow, ChatSources
  <2>2. MM!InsertObservation(m, b, text, "yelp", day)
          = IF known THEN MM!Answer(m, Null) ELSE MM!Answer(e, m.lastId + 1)
    <3>1. [m EXCEPT !.lastId = @ + 1, !.obs = Append(@, row)] = e
      BY <1>1 DEF MemoryTables
    <3> QED
      BY <3>1 DEF MM!InsertObservation, MM!ChatSources, MM!Remember, ChatSources
  <2>3. ~known => MemoryHeld(e)
    <3>1. row \in ObsRow /\ row.source \notin ChatSources
      BY <1>1, <1>2 DEF ObsRow, ChatSources
    <3>2. row.id = m.lastId + 1 /\ row.business = b /\ row.text = text
      OBVIOUS
    <3> HIDE DEF row
    <3> QED
      BY <3>1, <3>2, MoreObserved
  <2> DEFINE id == m.lastId + 1
  <2> HIDE DEF e, known, id
  <2>4. CASE known
    <3>1. /\ PM!InsertObservation(m, b, text, "yelp", day) = PM!Answer(m, Null)
          /\ MM!InsertObservation(m, b, text, "yelp", day) = MM!Answer(m, Null)
      BY <2>1, <2>2, <2>4
    <3> QED
      BY <3>1, SameMemoryAnswer
  <2>5. CASE ~known
    <3>1. /\ PM!InsertObservation(m, b, text, "yelp", day) = PM!Answer(e, id)
          /\ MM!InsertObservation(m, b, text, "yelp", day) = MM!Answer(e, id)
      BY <2>1, <2>2, <2>5 DEF id
    <3> QED
      BY <2>3, <2>5, <3>1, SameMemoryAnswer
  <2> QED
    BY <2>4, <2>5
<1>4. ASSUME NEW role \in {"user", "assistant"}, NEW day \in Days,
             NEW about \in Ids \cup {Null}, NEW embedded \in BOOLEAN,
             ~\E i \in DOMAIN m.obs : /\ m.obs[i].business = Own /\ m.obs[i].day = day
                                      /\ m.obs[i].source = PM!ChatSource(role)
      PROVE  SameMemoryCall(PM!InsertChat(m, Own, role, day, day, about, embedded),
                            MM!InsertChat(m, Own, role, day, day, about, embedded))
  <2> DEFINE source == PM!ChatSource(role)
             row == [id |-> m.lastId + 1, business |-> Own, text |-> day, source |-> source,
                     day |-> day, about |-> about, embedded |-> embedded]
             e == [m EXCEPT !.obs = Append(@, row), !.lastId = row.id]
  <2>1. PM!InsertChat(m, Own, role, day, day, about, embedded) = PM!Answer(e, m.lastId + 1)
    BY DEF PM!InsertChat, PM!Stored, PM!ObservationRow
  <2>2. MM!InsertChat(m, Own, role, day, day, about, embedded) = MM!Answer(e, m.lastId + 1)
    <3>1. [m EXCEPT !.lastId = @ + 1, !.obs = Append(@, row)] = e
      BY <1>1 DEF MemoryTables
    <3>2. MM!InsertChat(m, Own, role, day, day, about, embedded)
            = MM!Remember(m, Own, day, source, day, about, embedded)
      BY DEF MM!InsertChat, PM!ChatSource
    <3> HIDE DEF source
    <3> QED
      BY <3>1, <3>2 DEF MM!Remember
  <2>3. MemoryHeld(e)
    <3>1. source \in ChatSources
      BY DEF PM!ChatSource, ChatSources
    <3> HIDE DEF source
    <3>2. row \in ObsRow
      BY <1>1, <1>2, <3>1 DEF ObsRow, Bs
    <3>3. /\ row.id = m.lastId + 1 /\ row.business = Own /\ row.text = day /\ row.day = day
          /\ row.source = source
      OBVIOUS
    <3> HIDE DEF row
    <3>4. \A i \in DOMAIN m.obs : ~(/\ m.obs[i].business = Own /\ m.obs[i].day = day
                                    /\ m.obs[i].source = source)
      BY <1>4 DEF source
    <3> QED
      BY <3>1, <3>2, <3>3, <3>4, MoreObserved
  <2> HIDE DEF e
  <2> QED
    BY <2>1, <2>2, <2>3 DEF SameMemoryCall, PM!Answer, MM!Answer
<1> QED
  BY <1>3, <1>4

\* All the rows are the rows.
LEMMA AllPicked ==
    ASSUME NEW R, NEW rows \in Seq(R)
    PROVE  Pick(rows, DOMAIN rows) = rows
<1>1. DOMAIN rows = 1..Len(rows) /\ Len(rows) \in Nat
  BY RowsOf
<1>2. InOrder(DOMAIN rows) = [k \in 1..Len(rows) |-> k]
  BY <1>1, AllInOrder
<1>3. rows = [k \in 1..Len(rows) |-> rows[k]]
  BY <1>1
<1> QED
  BY <1>1, <1>2, <1>3 DEF Pick, RowsAt

\* Rows that a condition leaves keep what holds between rows.
LEMMA PickedHeld ==
    ASSUME NEW obs \in Seq(ObsRow), NEW last, ObservationsHeld(obs, last),
           NEW S \in SUBSET (DOMAIN obs)
    PROVE  Pick(obs, S) \in Seq(ObsRow) /\ ObservationsHeld(Pick(obs, S), last)
<1> DEFINE n == Cardinality(S)
           list == InOrder(S)
           kept == Pick(obs, S)
<1>1. /\ S \in SUBSET Nat /\ n \in Nat /\ Increasing(list, S)
      /\ kept \in Seq(ObsRow) /\ kept = [k \in 1..n |-> obs[list[k]]]
  BY Picked
<1> HIDE DEF n, list, kept
<1>2. /\ list \in [1..n -> S]
      /\ \A j, k \in 1..n : j < k => list[j] < list[k]
  BY <1>1 DEF Increasing, n
<1>3. DOMAIN kept = 1..n /\ \A k \in 1..n : kept[k] = obs[list[k]] /\ list[k] \in DOMAIN obs
  BY <1>1, <1>2
<1>4. \A j, k \in 1..n : list[j] = list[k] => j = k
  BY <1>1, <1>2
<1>5. /\ \A i \in DOMAIN kept : kept[i].id \in 1..last
      /\ \A i, j \in DOMAIN kept : i < j => kept[i].id < kept[j].id
  BY <1>2, <1>3 DEF ObservationsHeld
<1>6. \A i, j \in DOMAIN kept :
         /\ kept[i].business = kept[j].business /\ kept[i].text = kept[j].text
         /\ kept[i].source \notin ChatSources /\ kept[j].source \notin ChatSources
         => i = j
  BY <1>3, <1>4 DEF ObservationsHeld
<1>7. \A i, j \in DOMAIN kept :
         /\ kept[i].business = kept[j].business /\ kept[i].day = kept[j].day
         /\ kept[i].source = kept[j].source /\ kept[i].source \in ChatSources
         => i = j
  BY <1>3, <1>4 DEF ObservationsHeld
<1>8. \A i \in DOMAIN kept : kept[i].source \in ChatSources => kept[i].text = kept[i].day
  BY <1>3 DEF ObservationsHeld
<1>9. ObservationsHeld(kept, last)
  BY <1>5, <1>6, <1>7, <1>8 DEF ObservationsHeld
<1> QED
  BY <1>1, <1>9 DEF kept

\* What of a list lies in a set.
Keep(list, V) == Pick(list, {k \in DOMAIN list : list[k] \in V})

\* What is left of a list after two conditions is what both leave.
LEMMA KeptTwice ==
    ASSUME NEW R, NEW list \in Seq(R), NEW V, NEW W
    PROVE  Keep(list, V) \in Seq(R) /\ Keep(Keep(list, V), W) = Keep(list, V \cap W)
<1> DEFINE A == {k \in DOMAIN list : list[k] \in V}
           a == InOrder(A)
           n == Cardinality(A)
           kept == Pick(list, A)
           B == {k \in DOMAIN kept : kept[k] \in W}
           b == InOrder(B)
           m == Cardinality(B)
           C == {k \in DOMAIN list : list[k] \in V \cap W}
           c == [k \in 1..m |-> a[b[k]]]
<1>1. A \in SUBSET (DOMAIN list) /\ C \subseteq A
  OBVIOUS
<1>2. kept = Keep(list, V) /\ Pick(list, C) = Keep(list, V \cap W)
  BY DEF Keep
<1>3. \A i \in A : i \in C <=> list[i] \in W
  OBVIOUS
<1> HIDE DEF A, C
<1>4. /\ A \in SUBSET Nat /\ n \in Nat /\ Increasing(a, A)
      /\ kept \in Seq(R) /\ kept = [k \in 1..n |-> list[a[k]]]
  BY <1>1, Picked
<1> HIDE DEF a, n, kept
<1>5. /\ a \in [1..n -> A] /\ \A i \in A : \E k \in 1..n : a[k] = i
      /\ \A j, k \in 1..n : j <= k <=> a[j] <= a[k]
  BY <1>4 DEF Increasing, n
<1>6. kept \in Seq(R) /\ DOMAIN kept = 1..n /\ \A k \in 1..n : kept[k] = list[a[k]]
  BY <1>4
<1>7. /\ \A k \in 1..n : k \in B <=> a[k] \in C
      /\ B \subseteq 1..n /\ B \in SUBSET (DOMAIN kept)
  BY <1>3, <1>5, <1>6
<1>8. Pick(kept, B) = Keep(kept, W)
  BY DEF Keep
<1> HIDE DEF B
<1>9. /\ B \in SUBSET Nat /\ m \in Nat /\ Increasing(b, B)
      /\ Pick(kept, B) = [k \in 1..m |-> kept[b[k]]]
  <2>1. kept \in Seq(R) /\ B \in SUBSET (DOMAIN kept)
    BY <1>6, <1>7
  <2> QED
    BY <2>1, Picked
<1> HIDE DEF b, m
<1>10. /\ b \in [1..m -> B] /\ \A i \in B : \E k \in 1..m : b[k] = i
       /\ \A j, k \in 1..m : j <= k <=> b[j] <= b[k]
  BY <1>9 DEF Increasing, m
<1>11. /\ c \in [1..m -> C]
       /\ \A j, k \in 1..m : j <= k <=> c[j] <= c[k]
       /\ \A i \in C : \E k \in 1..m : c[k] = i
  <2>1. ASSUME NEW k \in 1..m
        PROVE  b[k] \in B /\ b[k] \in 1..n /\ c[k] = a[b[k]] /\ c[k] \in C
    BY <1>7, <1>10
  <2>2. \A j, k \in 1..m : j <= k <=> c[j] <= c[k]
    BY <1>5, <1>10, <2>1
  <2>3. ASSUME NEW i \in C
        PROVE  \E k \in 1..m : c[k] = i
    <3>1. PICK j \in 1..n : a[j] = i
      BY <1>1, <1>5
    <3>2. j \in B
      BY <1>7, <3>1
    <3> QED
      BY <1>10, <3>1, <3>2
  <2> QED
    BY <2>1, <2>2, <2>3
<1>12. C \in SUBSET Nat
  BY <1>1, <1>4
<1>13. \A k \in 1..m : kept[b[k]] = list[c[k]]
  BY <1>6, <1>7, <1>10
<1> HIDE DEF c
<1>14. Lists(c, m, C, UpTo(C))
  <2>1. \A j, k \in 1..m : c[j] <= c[k] <=> c[j] \in UpTo(C)[c[k]]
    BY <1>11 DEF UpTo
  <2> QED
    BY <1>11, <2>1 DEF Lists
<1>15. Along(C, UpTo(C)) = c
  BY <1>9, <1>12, <1>14, NumbersOrdered, OnlyListing
<1>16. InOrder(C) = c
  BY <1>15 DEF InOrder, UpTo
<1>17. Pick(list, C) = [k \in 1..m |-> list[c[k]]]
  BY <1>11, <1>16 DEF Pick, RowsAt
<1> QED
  BY <1>2, <1>6, <1>8, <1>9, <1>13, <1>17

StoredIds(m) == {m.obs[i].id : i \in DOMAIN m.obs}

\* The citations still stored, as a condition on the list of them.
LEMMA StoredKept ==
    ASSUME NEW m, NEW cited
    PROVE  StillStored(m, cited) = Keep(cited, StoredIds(m))
<1>1. {k \in DOMAIN cited : \E i \in DOMAIN m.obs : m.obs[i].id = cited[k]}
        = {k \in DOMAIN cited : cited[k] \in StoredIds(m)}
  BY DEF StoredIds
<1> QED
  BY <1>1 DEF StillStored, Keep

\* Citations on which two sets agree are kept by both.
LEMMA KeptAlike ==
    ASSUME NEW list, NEW V, NEW W, \A k \in DOMAIN list : list[k] \in V <=> list[k] \in W
    PROVE  Keep(list, V) = Keep(list, W)
<1>1. {k \in DOMAIN list : list[k] \in V} = {k \in DOMAIN list : list[k] \in W}
  OBVIOUS
<1> QED
  BY <1>1 DEF Keep

\* Citations that are all stored are all kept.
LEMMA AllKept ==
    ASSUME NEW R, NEW list \in Seq(R), NEW V, \A k \in DOMAIN list : list[k] \in V
    PROVE  Keep(list, V) = list
<1>1. {k \in DOMAIN list : list[k] \in V} = DOMAIN list
  OBVIOUS
<1> QED
  BY <1>1, AllPicked DEF Keep

\* A recommendation with the citations of it that lie in a set.
Citing(row, V) == [row EXCEPT !.evidence = Keep(row.evidence, V)]
AllCiting(finds, V) == [f \in DOMAIN finds |-> Citing(finds[f], V)]

\* What the database holds of the memory of the double.
LEMMA CitedIs ==
    ASSUME NEW m, m \in MemoryTables
    PROVE  /\ AsCited(m) = [m EXCEPT !.find = AllCiting(m.find, StoredIds(m))]
           /\ AsCited(m).find = AllCiting(m.find, StoredIds(m))
           /\ AsCited(m).run = m.run /\ AsCited(m).obs = m.obs
           /\ AsCited(m).lastId = m.lastId
           /\ AsCited(m) \in MemoryTables
<1> DEFINE V == StoredIds(m)
           row(f) == [m.find[f] EXCEPT !.evidence = StillStored(m, m.find[f].evidence)]
<1>1. \A f : row(f) = Citing(m.find[f], V)
  BY StoredKept DEF Citing
<1>2. AsCited(m) = [m EXCEPT !.find = [f \in DOMAIN m.find |-> row(f)]]
  BY DEF AsCited
<1> HIDE DEF row
<1>3. [f \in DOMAIN m.find |-> row(f)] = AllCiting(m.find, V)
  BY <1>1 DEF AllCiting
<1>4. AsCited(m) = [m EXCEPT !.find = AllCiting(m.find, V)]
  BY <1>2, <1>3
<1>5. AllCiting(m.find, V) \in Seq(FindRow)
  <2>1. m.find \in Seq(FindRow)
    BY DEF MemoryTables
  <2>2. DOMAIN m.find = 1..Len(m.find) /\ Len(m.find) \in Nat
        /\ \A f \in DOMAIN m.find : m.find[f] \in FindRow
    BY <2>1, RowsOf
  <2>3. ASSUME NEW f \in DOMAIN m.find
        PROVE  Citing(m.find[f], V) \in FindRow
    <3>1. m.find[f] \in FindRow /\ m.find[f].evidence \in Seq(Ids)
      BY <2>2 DEF FindRow
    <3>2. Keep(m.find[f].evidence, V) \in Seq(Ids)
      BY <3>1, KeptTwice
    <3> QED
      BY <3>1, <3>2 DEF FindRow, Citing
  <2>4. AllCiting(m.find, V) \in [1..Len(m.find) -> FindRow]
    BY <2>2, <2>3 DEF AllCiting
  <2> QED
    BY <2>2, <2>4, SeqOfMap
<1> HIDE DEF V
<1> QED
  BY <1>4, <1>5 DEF MemoryTables, V

\* Where the same citations are stored, the database holds the same recommendations.
LEMMA CitedAlike ==
    ASSUME NEW finds, NEW V, NEW W,
           \A f \in DOMAIN finds : \A k \in DOMAIN finds[f].evidence :
              finds[f].evidence[k] \in V <=> finds[f].evidence[k] \in W
    PROVE  AllCiting(finds, V) = AllCiting(finds, W)
<1>1. \A f \in DOMAIN finds : Citing(finds[f], V) = Citing(finds[f], W)
  BY KeptAlike DEF Citing
<1> QED
  BY <1>1 DEF AllCiting

-----------------------------------------------------------------------------
\* Calls on the database, which holds the citations still stored.

\* The database answers as the double and holds what the double holds, save the
\* citations of what was purged.
CitedCall(p, q) == p.ok = q.ok /\ p.ans = q.ans /\ p.m = AsCited(q.m) /\ MemoryHeld(q.m)

\* An answered call that leaves such rows is such a call.
LEMMA CitedAnswer ==
    ASSUME NEW p, NEW q, NEW m, NEW e, NEW v, MemoryHeld(e), m = AsCited(e),
           p = PM!Answer(m, v) /\ q = MM!Answer(e, v)
    PROVE  CitedCall(p, q)
  BY DEF CitedCall, PM!Answer, MM!Answer

\* So is a refused one.
LEMMA CitedRefusal ==
    ASSUME NEW p, NEW q, NEW m, MemoryHeld(m), p = PM!Refused(AsCited(m)) /\ q = MM!Refused(m)
    PROVE  CitedCall(p, q)
  BY DEF CitedCall, PM!Refused, MM!Refused

\* start_run and finish_run, which leave the citations alone.
LEMMA CitedRunCalls ==
    ASSUME NEW m, MemoryHeld(m)
    PROVE  /\ CitedCall(PM!StartRun(AsCited(m), Own, "radar"), MM!StartRun(m, Own, "radar"))
           /\ \A r : CitedCall(PM!FinishRun(AsCited(m), r, "succeeded"),
                               MM!FinishRun(m, r, "succeeded"))
<1> DEFINE db == AsCited(m)
           Ran(t, runs) == [t EXCEPT !.run = runs]
<1>1. m \in MemoryTables
  BY DEF MemoryHeld
<1>2. db = [m EXCEPT !.find = AllCiting(m.find, StoredIds(m))] /\ db.run = m.run
  BY <1>1, CitedIs
<1> HIDE DEF db
<1>3. ASSUME NEW runs, MemoryHeld(Ran(m, runs))
      PROVE  Ran(db, runs) = AsCited(Ran(m, runs))
  <2> DEFINE e == Ran(m, runs)
  <2>1. e \in MemoryTables /\ e.find = m.find /\ e.obs = m.obs
    BY <1>1, <1>3 DEF MemoryHeld, MemoryTables
  <2>2. AsCited(e) = [e EXCEPT !.find = AllCiting(e.find, StoredIds(e))]
    BY <2>1, CitedIs
  <2>3. StoredIds(e) = StoredIds(m)
    BY <2>1 DEF StoredIds
  <2>4. AsCited(e) = [e EXCEPT !.find = AllCiting(m.find, StoredIds(m))]
    BY <2>1, <2>2, <2>3
  <2> DEFINE finds == AllCiting(m.find, StoredIds(m))
  <2> HIDE DEF finds
  <2>5. [e EXCEPT !.find = finds] = Ran([m EXCEPT !.find = finds], runs)
    BY <1>1 DEF MemoryTables
  <2> QED
    BY <1>2, <2>4, <2>5 DEF finds
<1>4. CitedCall(PM!StartRun(db, Own, "radar"), MM!StartRun(m, Own, "radar"))
  <2> DEFINE runs == Append(m.run, [business |-> Own, agent |-> "radar", status |-> "running"])
  <2>1. /\ PM!StartRun(db, Own, "radar") = PM!Answer(Ran(db, runs), Len(m.run) + 1)
        /\ MM!StartRun(m, Own, "radar") = MM!Answer(Ran(m, runs), Len(m.run) + 1)
        /\ PM!StartRun(m, Own, "radar") = PM!Answer(Ran(m, runs), Len(m.run) + 1)
    BY <1>2 DEF PM!StartRun, MM!StartRun
  <2>2. MemoryHeld(PM!StartRun(m, Own, "radar").m)
    BY SameRunCalls DEF SameMemoryCall
  <2> HIDE DEF runs
  <2>3. MemoryHeld(Ran(m, runs))
    BY <2>1, <2>2 DEF PM!Answer
  <2> QED
    BY <1>3, <2>1, <2>3, CitedAnswer
<1>5. ASSUME NEW r
      PROVE  CitedCall(PM!FinishRun(db, r, "succeeded"), MM!FinishRun(m, r, "succeeded"))
  <2> DEFINE runs == [m.run EXCEPT ![r].status = "succeeded"]
  <2>1. CASE r \notin DOMAIN m.run
    <3>1. /\ PM!FinishRun(db, r, "succeeded") = PM!Refused(db)
          /\ MM!FinishRun(m, r, "succeeded") = MM!Refused(m)
      BY <1>2, <2>1 DEF PM!FinishRun, MM!FinishRun
    <3> QED
      BY <3>1, CitedRefusal DEF db
  <2>2. CASE r \in DOMAIN m.run
    <3>1. /\ PM!FinishRun(db, r, "succeeded") = PM!Answer(Ran(db, runs), Null)
          /\ MM!FinishRun(m, r, "succeeded") = MM!Answer(Ran(m, runs), Null)
          /\ PM!FinishRun(m, r, "succeeded") = PM!Answer(Ran(m, runs), Null)
      BY <1>2, <2>2 DEF PM!FinishRun, MM!FinishRun
    <3>2. MemoryHeld(PM!FinishRun(m, r, "succeeded").m)
      BY SameRunCalls DEF SameMemoryCall
    <3> HIDE DEF runs
    <3>3. MemoryHeld(Ran(m, runs))
      BY <3>1, <3>2 DEF PM!Answer
    <3> QED
      BY <1>3, <3>1, <3>3, CitedAnswer
  <2> QED
    BY <2>1, <2>2
<1> QED
  BY <1>4, <1>5 DEF db

\* A new observation is cited by nothing that is there.
LEMMA CitedObserved ==
    ASSUME NEW m, MemoryHeld(m), NEW row, row.id = m.lastId + 1,
           NEW e, e = [m EXCEPT !.obs = Append(@, row), !.lastId = row.id], MemoryHeld(e)
    PROVE  AsCited(e) = [AsCited(m) EXCEPT !.obs = Append(@, row), !.lastId = row.id]
<1> DEFINE V == StoredIds(m)
           W == StoredIds(e)
<1>1. /\ m \in MemoryTables /\ m.obs \in Seq(ObsRow) /\ m.lastId \in Nat
      /\ CitedHeld(m.find, m.lastId)
  BY DEF MemoryHeld, MemoryTables
<1>2. e \in MemoryTables
  BY DEF MemoryHeld
<1>3. /\ e.find = m.find /\ e.obs = Append(m.obs, row)
  BY <1>1 DEF MemoryTables
<1>4. W = V \cup {row.id}
  <2>1. /\ DOMAIN e.obs = DOMAIN m.obs \cup {Len(m.obs) + 1}
        /\ e.obs[Len(m.obs) + 1] = row /\ \A i \in DOMAIN m.obs : e.obs[i] = m.obs[i]
    <3>1. row \in ObsRow
      <4>1. e.obs \in Seq(ObsRow)
        BY <1>2 DEF MemoryTables
      <4>2. Len(m.obs) \in Nat /\ DOMAIN m.obs = 1..Len(m.obs)
        BY <1>1, RowsOf
      <4>3. DOMAIN e.obs = 1..(Len(m.obs) + 1) /\ e.obs[Len(m.obs) + 1] = row
        BY <1>1, <1>3, <4>2
      <4> QED
        BY <4>1, <4>2, <4>3, RowsOf
    <3> QED
      BY <1>1, <1>3, <3>1, Appended DEF IsAppend
  <2> QED
    BY <2>1 DEF StoredIds
<1>5. AllCiting(m.find, W) = AllCiting(m.find, V)
  <2> HIDE DEF V, W
  <2>1. \A f \in DOMAIN m.find : \A k \in DOMAIN m.find[f].evidence :
           m.find[f].evidence[k] \in V <=> m.find[f].evidence[k] \in W
    BY <1>1, <1>4 DEF CitedHeld
  <2> QED
    BY <2>1, CitedAlike
<1>6. /\ AsCited(m) = [m EXCEPT !.find = AllCiting(m.find, V)]
      /\ AsCited(e) = [e EXCEPT !.find = AllCiting(m.find, V)]
      /\ AsCited(m).obs = m.obs
  BY <1>1, <1>2, <1>3, <1>5, CitedIs
<1> DEFINE finds == AllCiting(m.find, V)
           more == Append(m.obs, row)
<1> HIDE DEF finds, more, V
<1>7. [e EXCEPT !.find = finds]
        = [[m EXCEPT !.find = finds] EXCEPT !.obs = more, !.lastId = row.id]
  BY <1>1 DEF MemoryTables, more
<1> QED
  BY <1>6, <1>7 DEF finds, more

\* insert_observation and insert_chat.
LEMMA CitedRemember ==
    ASSUME NEW m, MemoryHeld(m), m.lastId < MaxRows + 1
    PROVE  /\ \A b \in Bs, text \in Contents, day \in Days :
                 CitedCall(PM!InsertObservation(AsCited(m), b, text, "yelp", day),
                           MM!InsertObservation(m, b, text, "yelp", day))
           /\ \A role \in {"user", "assistant"}, day \in Days,
                 about \in Ids \cup {Null}, embedded \in BOOLEAN :
                 (~\E i \in DOMAIN m.obs : /\ m.obs[i].business = Own /\ m.obs[i].day = day
                                           /\ m.obs[i].source = PM!ChatSource(role))
                 => CitedCall(PM!InsertChat(AsCited(m), Own, role, day, day, about, embedded),
                              MM!InsertChat(m, Own, role, day, day, about, embedded))
<1> DEFINE db == AsCited(m)
           Seen(t, row) == [t EXCEPT !.obs = Append(@, row), !.lastId = row.id]
<1>1. m \in MemoryTables
  BY DEF MemoryHeld
<1>2. db.obs = m.obs /\ db.lastId = m.lastId
  BY <1>1, CitedIs
<1>3. ASSUME NEW row, row.id = m.lastId + 1, MemoryHeld(Seen(m, row))
      PROVE  Seen(db, row) = AsCited(Seen(m, row))
  BY <1>3, CitedObserved
<1> HIDE DEF db
<1>4. ASSUME NEW b \in Bs, NEW text \in Contents, NEW day \in Days
      PROVE  CitedCall(PM!InsertObservation(db, b, text, "yelp", day),
                       MM!InsertObservation(m, b, text, "yelp", day))
  <2> DEFINE row == PM!ObservationRow(m.lastId + 1, b, text, "yelp", day, Null, TRUE)
             known == \E i \in DOMAIN m.obs : /\ m.obs[i].business = b /\ m.obs[i].text = text
                                              /\ ~PM!IsChat(m.obs[i])
  <2>1. SameMemoryCall(PM!InsertObservation(m, b, text, "yelp", day),
                       MM!InsertObservation(m, b, text, "yelp", day))
    BY SameRemember
  <2>2. \A t : t.obs = m.obs /\ t.lastId = m.lastId =>
           PM!InsertObservation(t, b, text, "yelp", day)
             = IF known THEN PM!Answer(t, Null) ELSE PM!Answer(Seen(t, row), row.id)
    BY DEF PM!InsertObservation, PM!Stored
  <2>3. row.id = m.lastId + 1
    BY DEF PM!ObservationRow
  <2> HIDE DEF row, known
  <2>4. CASE known
    <3>1. /\ PM!InsertObservation(db, b, text, "yelp", day) = PM!Answer(db, Null)
          /\ MM!InsertObservation(m, b, text, "yelp", day) = PM!Answer(m, Null)
      BY <1>2, <2>1, <2>2, <2>4 DEF SameMemoryCall
    <3>2. PM!Answer(m, Null) = MM!Answer(m, Null)
      BY DEF PM!Answer, MM!Answer
    <3> QED
      BY <3>1, <3>2, CitedAnswer DEF db
  <2>5. CASE ~known
    <3>1. /\ PM!InsertObservation(db, b, text, "yelp", day) = PM!Answer(Seen(db, row), row.id)
          /\ MM!InsertObservation(m, b, text, "yelp", day) = PM!Answer(Seen(m, row), row.id)
          /\ PM!InsertObservation(m, b, text, "yelp", day) = PM!Answer(Seen(m, row), row.id)
      BY <1>2, <2>1, <2>2, <2>5 DEF SameMemoryCall
    <3>2. MemoryHeld(Seen(m, row))
      BY <2>1, <3>1 DEF SameMemoryCall, PM!Answer
    <3>3. Seen(db, row) = AsCited(Seen(m, row))
      BY <1>3, <2>3, <3>2
    <3>4. PM!Answer(Seen(m, row), row.id) = MM!Answer(Seen(m, row), row.id)
      BY DEF PM!Answer, MM!Answer
    <3> DEFINE e == Seen(m, row)
               c == Seen(db, row)
               id == row.id
    <3> HIDE DEF e, c, id
    <3> QED
      BY <3>1, <3>2, <3>3, <3>4, CitedAnswer DEF e, c, id
  <2> QED
    BY <2>4, <2>5
<1>5. ASSUME NEW role \in {"user", "assistant"}, NEW day \in Days,
             NEW about \in Ids \cup {Null}, NEW embedded \in BOOLEAN,
             ~\E i \in DOMAIN m.obs : /\ m.obs[i].business = Own /\ m.obs[i].day = day
                                      /\ m.obs[i].source = PM!ChatSource(role)
      PROVE  CitedCall(PM!InsertChat(db, Own, role, day, day, about, embedded),
                       MM!InsertChat(m, Own, role, day, day, about, embedded))
  <2> DEFINE row == PM!ObservationRow(m.lastId + 1, Own, day, PM!ChatSource(role), day,
                                      about, embedded)
  <2>1. SameMemoryCall(PM!InsertChat(m, Own, role, day, day, about, embedded),
                       MM!InsertChat(m, Own, role, day, day, about, embedded))
    BY <1>5, SameRemember
  <2>2. \A t : t.lastId = m.lastId =>
           PM!InsertChat(t, Own, role, day, day, about, embedded)
             = PM!Answer(Seen(t, row), row.id)
    BY DEF PM!InsertChat, PM!Stored
  <2>3. row.id = m.lastId + 1
    BY DEF PM!ObservationRow
  <2> HIDE DEF row
  <2>4. /\ PM!InsertChat(db, Own, role, day, day, about, embedded)
             = PM!Answer(Seen(db, row), row.id)
        /\ MM!InsertChat(m, Own, role, day, day, about, embedded)
             = PM!Answer(Seen(m, row), row.id)
        /\ PM!InsertChat(m, Own, role, day, day, about, embedded)
             = PM!Answer(Seen(m, row), row.id)
    BY <1>2, <2>1, <2>2 DEF SameMemoryCall
  <2>5. MemoryHeld(Seen(m, row))
    BY <2>1, <2>4 DEF SameMemoryCall, PM!Answer
  <2>6. Seen(db, row) = AsCited(Seen(m, row))
    BY <1>3, <2>3, <2>5
  <2>7. PM!Answer(Seen(m, row), row.id) = MM!Answer(Seen(m, row), row.id)
    BY DEF PM!Answer, MM!Answer
  <2> DEFINE e == Seen(m, row)
             c == Seen(db, row)
             id == row.id
  <2> HIDE DEF e, c, id
  <2> QED
    BY <2>4, <2>5, <2>6, <2>7, CitedAnswer DEF e, c, id
<1> QED
  BY <1>4, <1>5 DEF db

\* purge_observations: as many rows go as the double no longer has, and the citations
\* that go with them are those the double can no longer follow.
LEMMA CitedPurge ==
    ASSUME NEW m, MemoryHeld(m), NEW before \in Days
    PROVE  CitedCall(PM!PurgeObservations(AsCited(m), Own, "yelp", before),
                     MM!PurgeObservations(m, Own, "yelp", before))
<1> DEFINE db == AsCited(m)
           doomed == {i \in DOMAIN m.obs : /\ m.obs[i].business = Own /\ m.obs[i].source = "yelp"
                                           /\ m.obs[i].day < before}
           left == {i \in DOMAIN m.obs : \/ m.obs[i].business # Own
                                         \/ m.obs[i].source # "yelp"
                                         \/ m.obs[i].day >= before}
           gone == {m.obs[i].id : i \in doomed}
           Uncited(row) == [row EXCEPT !.evidence =
                               Pick(@, {k \in DOMAIN @ : @[k] \notin gone})]
           finds == [f \in DOMAIN db.find |-> Uncited(db.find[f])]
           kept == Pick(m.obs, left)
           e == [m EXCEPT !.obs = kept]
           count == Cardinality(doomed)
           V == StoredIds(m)
           W == StoredIds(e)
<1>1. /\ m \in MemoryTables /\ m.obs \in Seq(ObsRow) /\ m.find \in Seq(FindRow)
      /\ m.lastId \in Nat /\ ObservationsHeld(m.obs, m.lastId) /\ CitedHeld(m.find, m.lastId)
  BY DEF MemoryHeld, MemoryTables
<1>2. /\ db = [m EXCEPT !.find = AllCiting(m.find, V)]
      /\ db.find = AllCiting(m.find, V) /\ db.obs = m.obs
  BY <1>1, CitedIs
<1> HIDE DEF db, V
<1>3. left = DOMAIN m.obs \ doomed
  <2>1. before \in Nat
    BY AgreementAssumption
  <2>2. \A i \in DOMAIN m.obs : m.obs[i] \in ObsRow
    BY <1>1, RowsOf
  <2>3. \A i \in DOMAIN m.obs : m.obs[i].day \in Nat
    BY <2>2 DEF ObsRow
  <2> QED
    BY <2>1, <2>3, SMTT(30)
<1>4. PM!PurgeObservations(db, Own, "yelp", before)
        = PM!Answer([db EXCEPT !.obs = Pick(m.obs, DOMAIN m.obs \ doomed), !.find = finds], count)
  <2> DEFINE Doomed(obs) == {i \in DOMAIN obs : /\ obs[i].business = Own /\ obs[i].source = "yelp"
                                                 /\ obs[i].day < before}
             Gone(obs) == {obs[i].id : i \in Doomed(obs)}
             Without(row, ids) == [row EXCEPT !.evidence =
                                      PM!Pick(@, {k \in DOMAIN @ : @[k] \notin ids})]
  <2>1. PM!PurgeObservations(db, Own, "yelp", before)
          = PM!Answer([db EXCEPT !.obs = PM!Pick(@, DOMAIN @ \ Doomed(db.obs)),
                                 !.find = [f \in DOMAIN @ |-> Without(@[f], Gone(db.obs))]],
                      PM!Cardinality(Doomed(db.obs)))
    BY Zenon DEF PM!PurgeObservations
  <2>2. Doomed(db.obs) = doomed /\ Gone(db.obs) = gone
    BY <1>2
  <2>3. \A row : Without(row, gone) = Uncited(row)
    BY SameLists2
  <2> HIDE DEF Doomed, Gone, Without, Uncited, doomed, gone
  <2>4. [f \in DOMAIN db.find |-> Without(db.find[f], gone)] = finds
    BY <2>3
  <2> HIDE DEF finds
  <2>5. PM!Pick(db.obs, DOMAIN db.obs \ doomed) = Pick(m.obs, DOMAIN m.obs \ doomed)
    BY <1>2, SameLists2
  <2>6. PM!Cardinality(doomed) = count
    BY SameLists2
  <2> QED
    BY <2>1, <2>2, <2>4, <2>5, <2>6
<1>5. MM!PurgeObservations(m, Own, "yelp", before)
        = MM!Answer(e, Len(m.obs) - Len(kept))
  BY SameLists2 DEF MM!PurgeObservations
<1>6. \A i, j \in DOMAIN m.obs : m.obs[i].id = m.obs[j].id => i = j
  <2>1. \A i \in DOMAIN m.obs : i \in Nat /\ m.obs[i].id \in Nat
    <3>1. \A i \in DOMAIN m.obs : i \in Nat /\ m.obs[i] \in ObsRow
      BY <1>1, RowsOf
    <3> QED
      BY <3>1 DEF ObsRow
  <2>2. \A i, j \in DOMAIN m.obs : i < j => m.obs[i].id < m.obs[j].id
    BY <1>1 DEF ObservationsHeld
  <2> QED
    BY <2>1, <2>2
<1>7. left \in SUBSET (DOMAIN m.obs) /\ doomed \in SUBSET (DOMAIN m.obs)
  OBVIOUS
<1>8. {m.obs[i].id : i \in left} = V \ gone
  BY <1>3, <1>6, <1>7 DEF V, StoredIds
<1> HIDE DEF doomed, left
<1>9. W = V \ gone
  <2>1. /\ Cardinality(left) \in Nat /\ Increasing(InOrder(left), left)
        /\ kept = [k \in 1..Cardinality(left) |-> m.obs[InOrder(left)[k]]]
    BY <1>1, <1>7, Picked
  <2> DEFINE n == Cardinality(left)
             list == InOrder(left)
  <2> HIDE DEF n, list, kept
  <2>2. list \in [1..n -> left] /\ \A i \in left : \E k \in 1..n : list[k] = i
    BY <2>1 DEF Increasing, n, list
  <2>3. e.obs = kept /\ DOMAIN kept = 1..n /\ \A k \in 1..n : kept[k] = m.obs[list[k]]
    BY <1>1, <2>1 DEF MemoryTables, n, list
  <2>4. W = {m.obs[i].id : i \in left}
    <3> HIDE DEF e
    <3> QED
      BY <2>2, <2>3 DEF StoredIds
  <2> QED
    BY <1>8, <2>4
<1> HIDE DEF W, gone
<1>10. finds = AllCiting(m.find, W)
  <2> DEFINE out == {m.obs[i].id : i \in DOMAIN m.obs} \ gone
  <2>1. ASSUME NEW f \in DOMAIN m.find
        PROVE  Uncited(Citing(m.find[f], V)) = Citing(m.find[f], W)
    <3> DEFINE cited == m.find[f].evidence
               once == Keep(cited, V)
    <3>1. m.find[f] \in FindRow /\ cited \in Seq(Ids)
      <4>1. m.find[f] \in FindRow
        BY <1>1, RowsOf
      <4> QED
        BY <4>1 DEF FindRow
    <3>2. once \in Seq(Ids) /\ Keep(once, W) = Keep(cited, V \cap W)
      BY <3>1, KeptTwice
    <3>3. V \cap W = W
      BY <1>9
    <3>4. \A k \in DOMAIN once : once[k] \in V
      <4> DEFINE S == {k \in DOMAIN cited : cited[k] \in V}
      <4>1. S \in SUBSET (DOMAIN cited) /\ \A k \in S : cited[k] \in V
        OBVIOUS
      <4>2. once = Pick(cited, S)
        BY DEF Keep
      <4> HIDE DEF S, once, cited
      <4>3. /\ Increasing(InOrder(S), S)
            /\ Pick(cited, S) = [k \in 1..Cardinality(S) |-> cited[InOrder(S)[k]]]
        BY <3>1, <4>1, Picked
      <4>4. InOrder(S) \in [1..Cardinality(S) -> S]
        BY <4>3 DEF Increasing
      <4> QED
        BY <4>1, <4>2, <4>3, <4>4
    <3>5. {k \in DOMAIN once : once[k] \notin gone} = {k \in DOMAIN once : once[k] \in W}
      BY <1>9, <3>4
    <3>6. Pick(once, {k \in DOMAIN once : once[k] \notin gone}) = Keep(cited, W)
      BY <3>2, <3>3, <3>5 DEF Keep
    <3>7. Citing(m.find[f], V) = [m.find[f] EXCEPT !.evidence = once]
      BY DEF Citing
    <3>8. [m.find[f] EXCEPT !.evidence = once].evidence = once
      BY <3>1 DEF FindRow
    <3>9. Uncited(Citing(m.find[f], V))
            = [[m.find[f] EXCEPT !.evidence = once] EXCEPT !.evidence =
                  Pick(once, {k \in DOMAIN once : once[k] \notin gone})]
      BY <3>7, <3>8
    <3> HIDE DEF once
    <3>10. Uncited(Citing(m.find[f], V)) = [m.find[f] EXCEPT !.evidence = Keep(cited, W)]
      BY <3>1, <3>6, <3>9 DEF FindRow
    <3> QED
      BY <3>10 DEF Citing
  <2>2. DOMAIN db.find = DOMAIN m.find
        /\ \A f \in DOMAIN m.find : db.find[f] = Citing(m.find[f], V)
    BY <1>2 DEF AllCiting
  <2> HIDE DEF Uncited
  <2>3. \A f \in DOMAIN m.find : Uncited(db.find[f]) = Citing(m.find[f], W)
    BY <2>1, <2>2
  <2> QED
    BY <2>2, <2>3 DEF AllCiting
<1> HIDE DEF finds
<1>11. MemoryHeld(e)
  <2>1. kept \in Seq(ObsRow) /\ ObservationsHeld(kept, m.lastId)
    BY <1>1, <1>7, PickedHeld
  <2> HIDE DEF kept
  <2>2. e \in MemoryTables /\ e.obs = kept /\ e.lastId = m.lastId /\ e.find = m.find
    BY <1>1, <2>1 DEF MemoryTables
  <2>3. m.lastId \in 0..(MaxRows + 1)
    BY DEF MemoryHeld
  <2> QED
    BY <1>1, <2>1, <2>2, <2>3 DEF MemoryHeld
<1>12. [db EXCEPT !.obs = Pick(m.obs, DOMAIN m.obs \ doomed), !.find = finds] = AsCited(e)
  <2>1. e \in MemoryTables /\ e.find = m.find
    BY <1>1, <1>11 DEF MemoryHeld, MemoryTables
  <2>2. AsCited(e) = [e EXCEPT !.find = finds]
    BY <1>10, <2>1, CitedIs DEF W
  <2>3. [db EXCEPT !.obs = Pick(m.obs, DOMAIN m.obs \ doomed), !.find = finds]
          = [db EXCEPT !.obs = kept, !.find = finds]
    BY <1>3
  <2> DEFINE cited == AllCiting(m.find, V)
  <2> HIDE DEF cited, kept
  <2>4. [[m EXCEPT !.find = cited] EXCEPT !.obs = kept, !.find = finds]
          = [e EXCEPT !.find = finds]
    BY <1>1 DEF MemoryTables
  <2> QED
    BY <1>2, <2>2, <2>3, <2>4 DEF cited
<1>13. Len(m.obs) - Len(kept) = count
  <2>1. Len(kept) = Cardinality(left)
    BY <1>1, <1>7, Picked
  <2>2. DOMAIN m.obs = 1..Len(m.obs) /\ Len(m.obs) \in Nat
    BY <1>1, RowsOf
  <2>3. IsFiniteSet(DOMAIN m.obs) /\ Cardinality(DOMAIN m.obs) = Len(m.obs)
    BY <1>1, Counted
  <2>4. IsFiniteSet(doomed) /\ Cardinality(doomed) \in Nat
    BY <1>7, <2>3, FS_Subset, FS_CardinalityType
  <2>5. DOMAIN m.obs \cap doomed = doomed
    BY <1>7
  <2>6. Cardinality(left) = Cardinality(DOMAIN m.obs) - Cardinality(doomed)
    <3> DEFINE all == DOMAIN m.obs
    <3>1. IsFiniteSet(all)
      BY <2>3
    <3> HIDE DEF all
    <3>2. Cardinality(all \ doomed) = Cardinality(all) - Cardinality(all \cap doomed)
      BY <3>1, FS_Difference
    <3> QED
      BY <1>3, <2>5, <3>2 DEF all
  <2> QED
    BY <2>1, <2>2, <2>3, <2>4, <2>6
<1> DEFINE dbLeft == [db EXCEPT !.obs = Pick(m.obs, DOMAIN m.obs \ doomed), !.find = finds]
<1>14. PM!PurgeObservations(db, Own, "yelp", before) = PM!Answer(dbLeft, count)
  BY <1>4
<1>15. MM!PurgeObservations(m, Own, "yelp", before) = MM!Answer(e, count)
  BY <1>5, <1>13
<1> HIDE DEF e, count, kept, dbLeft
<1> QED
  BY <1>11, <1>12, <1>14, <1>15, CitedAnswer DEF dbLeft, db

\* insert_find: a foreign key refuses what is not stored, the double what is not stored
\* for the business; what is cited was retrieved for it.
LEMMA SameInsertFind ==
    ASSUME NEW m, MemoryHeld(m), NEW b \in Bs, NEW status \in {"proposed", "accepted", "withheld"},
           NEW evidence \in Citations,
           \A i \in DOMAIN m.obs : m.obs[i].id \in ToSet(evidence) => m.obs[i].business = b
    PROVE  SameMemoryCall(PM!InsertFind(m, b, status, evidence),
                          MM!InsertFind(m, b, status, evidence))
<1> DEFINE known == {m.obs[i].id : i \in {j \in DOMAIN m.obs : m.obs[j].business = b}}
           stored == {m.obs[i].id : i \in DOMAIN m.obs}
           row == [business |-> b, status |-> status, evidence |-> evidence]
           e == [m EXCEPT !.find = Append(@, row)]
           id == Len(m.find) + 1
           refused == evidence = <<>> \/ ~ToSet(evidence) \subseteq stored
<1>1. m \in MemoryTables /\ m.find \in Seq(FindRow)
  BY DEF MemoryHeld, MemoryTables
<1>2. evidence \in Seq(Ids) /\ IsInjective(evidence)
  <2>1. PICK n \in 0..MaxCited : evidence \in {list \in [1..n -> Ids] : IsInjective(list)}
    BY DEF Citations
  <2>2. n \in Nat /\ evidence \in [1..n -> Ids] /\ IsInjective(evidence)
    BY <2>1
  <2> QED
    BY <2>2, SeqOfMap
<1>3. ToSet(evidence) = {evidence[k] : k \in DOMAIN evidence}
  BY DEF ToSet
<1>4. (\E k \in DOMAIN evidence : evidence[k] \notin known) <=> ~ToSet(evidence) \subseteq stored
  BY <1>3
<1>5. PM!InsertFind(m, b, status, evidence)
        = IF refused THEN PM!Refused(m) ELSE PM!Answer(e, id)
  BY <1>2, SameLists2 DEF PM!InsertFind
<1>6. MM!InsertFind(m, b, status, evidence)
        = IF refused THEN MM!Refused(m) ELSE MM!Answer(e, id)
  BY <1>4 DEF MM!InsertFind
<1>7. ~refused => MemoryHeld(e)
  <2>1. row \in FindRow
    BY <1>2 DEF FindRow
  <2>2. row.evidence = evidence
    OBVIOUS
  <2> HIDE DEF row
  <2>3. Append(m.find, row) \in Seq(FindRow) /\ IsAppend(FindRow, m.find, row, Append(m.find, row))
    BY <1>1, <2>1, Appended DEF IsAppend
  <2>4. e \in MemoryTables /\ e.obs = m.obs /\ e.lastId = m.lastId
        /\ e.find = Append(m.find, row)
    BY <1>1, <2>3 DEF MemoryTables
  <2>5. ~refused => CitedHeld(e.find, e.lastId)
    <3>1. CitedHeld(m.find, m.lastId) /\ ObservationsHeld(m.obs, m.lastId)
      BY DEF MemoryHeld
    <3>2. ~refused => \A k \in DOMAIN evidence : evidence[k] \in 1..m.lastId
      BY <1>3, <3>1 DEF ObservationsHeld
    <3> QED
      BY <2>2, <2>3, <2>4, <3>1, <3>2 DEF CitedHeld, IsAppend
  <2> QED
    BY <2>4, <2>5 DEF MemoryHeld
<1> HIDE DEF e, id, refused
<1>8. CASE refused
  <2>1. /\ PM!InsertFind(m, b, status, evidence) = PM!Refused(m)
        /\ MM!InsertFind(m, b, status, evidence) = MM!Refused(m)
    BY <1>5, <1>6, <1>8
  <2> QED
    BY <2>1, SameMemoryRefusal
<1>9. CASE ~refused
  <2>1. /\ PM!InsertFind(m, b, status, evidence) = PM!Answer(e, id)
        /\ MM!InsertFind(m, b, status, evidence) = MM!Answer(e, id)
    BY <1>5, <1>6, <1>9
  <2> QED
    BY <1>7, <1>9, <2>1, SameMemoryAnswer
<1> QED
  BY <1>8, <1>9

\* insert_find on the database: what is stored is all that it cites.
LEMMA CitedInsertFind ==
    ASSUME NEW m, MemoryHeld(m), NEW b \in Bs, NEW status \in {"proposed", "accepted", "withheld"},
           NEW evidence \in Citations,
           \A i \in DOMAIN m.obs : m.obs[i].id \in ToSet(evidence) => m.obs[i].business = b
    PROVE  CitedCall(PM!InsertFind(AsCited(m), b, status, evidence),
                     MM!InsertFind(m, b, status, evidence))
<1> DEFINE db == AsCited(m)
           V == StoredIds(m)
           row == [business |-> b, status |-> status, evidence |-> evidence]
           Found(t) == [t EXCEPT !.find = Append(@, row)]
           refused == \/ evidence = <<>>
                      \/ ~PM!ToSet(evidence) \subseteq V
                      \/ ~PM!IsInjective(evidence)
           id == Len(m.find) + 1
<1>1. m \in MemoryTables /\ m.find \in Seq(FindRow)
  BY DEF MemoryHeld, MemoryTables
<1>2. /\ db = [m EXCEPT !.find = AllCiting(m.find, V)]
      /\ db.find = AllCiting(m.find, V) /\ db.obs = m.obs /\ db \in MemoryTables
  BY <1>1, CitedIs
<1>3. evidence \in Seq(Ids)
  <2>1. PICK n \in 0..MaxCited : evidence \in {list \in [1..n -> Ids] : IsInjective(list)}
    BY DEF Citations
  <2>2. n \in Nat /\ evidence \in [1..n -> Ids]
    BY <2>1
  <2> QED
    BY <2>2, SeqOfMap
<1> HIDE DEF db
<1>4. SameMemoryCall(PM!InsertFind(m, b, status, evidence),
                     MM!InsertFind(m, b, status, evidence))
  BY SameInsertFind
<1>5. \A t : t.obs = m.obs =>
         PM!InsertFind(t, b, status, evidence)
           = IF refused THEN PM!Refused(t) ELSE PM!Answer(Found(t), Len(t.find) + 1)
  BY DEF PM!InsertFind, StoredIds
<1>6. Len(db.find) = Len(m.find)
  <2>1. DOMAIN db.find = DOMAIN m.find
    BY <1>2 DEF AllCiting
  <2>2. db.find \in Seq(FindRow)
    BY <1>2 DEF MemoryTables
  <2>3. /\ Len(db.find) = Cardinality(DOMAIN db.find)
        /\ Len(m.find) = Cardinality(DOMAIN m.find)
    BY <1>1, <2>2, Counted
  <2> QED
    BY <2>1, <2>3
<1>7. ~refused => Found(db) = AsCited(Found(m))
  <2> SUFFICES ASSUME ~refused  PROVE Found(db) = AsCited(Found(m))
    OBVIOUS
  <2>1. \A k \in DOMAIN evidence : evidence[k] \in V
    BY SameLists2 DEF ToSet
  <2>2. Citing(row, V) = row
    <3>1. Keep(evidence, V) = evidence
      BY <1>3, <2>1, AllKept
    <3> QED
      BY <3>1 DEF Citing
  <2>3. row \in FindRow
    BY <1>3 DEF FindRow
  <2> HIDE DEF row, V, refused
  <2> DEFINE more == Append(m.find, row)
  <2>4. more \in Seq(FindRow) /\ IsAppend(FindRow, m.find, row, more)
    BY <1>1, <2>3, Appended DEF IsAppend
  <2>5. Found(m) \in MemoryTables /\ Found(m).find = more /\ Found(m).obs = m.obs
    <3> HIDE DEF more
    <3>1. Found(m) = [m EXCEPT !.find = more]
      BY DEF more
    <3> HIDE DEF Found
    <3> QED
      BY <1>1, <2>4, <3>1 DEF MemoryTables
  <2>6. AsCited(Found(m)) = [Found(m) EXCEPT !.find = AllCiting(more, V)]
    <3>1. StoredIds(Found(m)) = V
      BY <2>5 DEF StoredIds, V
    <3> QED
      BY <2>5, <3>1, CitedIs
  <2>7. AllCiting(more, V) = Append(AllCiting(m.find, V), row)
    <3> DEFINE s == AllCiting(m.find, V)
    <3>1. s \in Seq(FindRow) /\ DOMAIN s = DOMAIN m.find
          /\ \A f \in DOMAIN m.find : s[f] = Citing(m.find[f], V)
      BY <1>2 DEF MemoryTables, AllCiting
    <3>2. DOMAIN m.find = 1..Len(m.find) /\ Len(m.find) \in Nat
      BY <1>1, RowsOf
    <3>3. Len(s) = Len(m.find)
      BY <1>2, <1>6
    <3>4. IsAppend(FindRow, s, row, Append(s, row))
      BY <2>3, <3>1, Appended
    <3> HIDE DEF s, more
    <3>5. DOMAIN AllCiting(more, V) = DOMAIN more
          /\ \A f \in DOMAIN more : AllCiting(more, V)[f] = Citing(more[f], V)
      BY DEF AllCiting
    <3>6. DOMAIN more = DOMAIN Append(s, row)
      BY <2>4, <3>1, <3>3, <3>4 DEF IsAppend
    <3>7. \A f \in DOMAIN more : Citing(more[f], V) = Append(s, row)[f]
      BY <2>2, <2>4, <3>1, <3>3, <3>4 DEF IsAppend
    <3>8. AllCiting(more, V) = [f \in DOMAIN more |-> Append(s, row)[f]]
      BY <3>7 DEF AllCiting
    <3>9. Append(s, row) \in Seq(FindRow)
      BY <3>4 DEF IsAppend
    <3> DEFINE u == Append(s, row)
    <3> HIDE DEF u
    <3>10. u = [f \in DOMAIN u |-> u[f]]
      <4>1. u \in Seq(FindRow)
        BY <3>9 DEF u
      <4>2. DOMAIN u = 1..Len(u)
        BY <4>1, RowsOf
      <4> QED
        BY <4>1, <4>2
    <3> QED
      BY <3>6, <3>8, <3>10 DEF s, u
  <2> DEFINE finds == AllCiting(m.find, V)
  <2>8. [Found(m) EXCEPT !.find = Append(finds, row)] = Found([m EXCEPT !.find = finds])
    <3> HIDE DEF finds
    <3> QED
      BY <1>1 DEF MemoryTables
  <2> QED
    BY <1>2, <2>6, <2>7, <2>8
<1> HIDE DEF refused
<1>8. CASE refused
  <2>1. /\ PM!InsertFind(db, b, status, evidence) = PM!Refused(db)
        /\ MM!InsertFind(m, b, status, evidence) = PM!Refused(m)
    BY <1>2, <1>4, <1>5, <1>8 DEF SameMemoryCall
  <2>2. PM!Refused(m) = MM!Refused(m)
    BY DEF PM!Refused, MM!Refused
  <2> QED
    BY <2>1, <2>2, CitedRefusal DEF db
<1>9. CASE ~refused
  <2>1. /\ PM!InsertFind(db, b, status, evidence) = PM!Answer(Found(db), id)
        /\ PM!InsertFind(m, b, status, evidence) = PM!Answer(Found(m), id)
    BY <1>2, <1>5, <1>6, <1>9
  <2>2. /\ MM!InsertFind(m, b, status, evidence) = PM!Answer(Found(m), id)
        /\ MemoryHeld(PM!Answer(Found(m), id).m)
    BY <1>4, <2>1 DEF SameMemoryCall
  <2> DEFINE e == Found(m)
             c == Found(db)
  <2>3. c = AsCited(e)
    BY <1>7, <1>9
  <2> HIDE DEF e, c, id
  <2>4. MemoryHeld(e) /\ PM!Answer(e, id) = MM!Answer(e, id)
    BY <2>2 DEF PM!Answer, MM!Answer, e
  <2>5. /\ PM!InsertFind(db, b, status, evidence) = PM!Answer(c, id)
        /\ MM!InsertFind(m, b, status, evidence) = MM!Answer(e, id)
    BY <2>1, <2>2, <2>4 DEF e, c
  <2>6. CitedCall(PM!InsertFind(db, b, status, evidence), MM!InsertFind(m, b, status, evidence))
    BY <2>3, <2>4, <2>5, CitedAnswer
  <2> QED
    BY <2>6 DEF db
<1> QED
  BY <1>8, <1>9 DEF db

\* The database holds what the double holds, save the citations of what was purged.
MemoryAreas == {"runs", "memory"}
MemoryInv == area \in MemoryAreas => agreed /\ pg = AsCited(mem) /\ MemoryHeld(mem)

\* A call that answers alike and leaves such rows keeps the invariant.
LEMMA AfterMemoryCall ==
    ASSUME NEW a, NEW p, NEW m, Memory(a, p, m), CitedCall(p, m)
    PROVE  MemoryInv'
<1>1. /\ pg' = p.m /\ mem' = m.m /\ agreed' = Alike(p, m)
  BY DEF Memory, In
<1>2. p.m = AsCited(m.m) /\ MemoryHeld(m.m) /\ Alike(p, m)
  BY DEF CitedCall, Alike
<1>3. (MemoryHeld(mem))'
  BY <1>1, <1>2 DEF MemoryHeld
<1>4. (pg = AsCited(mem))'
  <2>1. pg' = AsCited(mem')
    BY <1>1, <1>2
  <2> QED
    BY <2>1 DEF AsCited, StillStored
<1> QED
  BY <1>1, <1>2, <1>3, <1>4 DEF MemoryInv

\* Every history starts alike.
LEMMA MemoryStart ==
    Init => MemoryInv
<1> SUFFICES ASSUME Init, area \in {"runs", "memory"}  PROVE MemoryInv
  BY DEF MemoryInv, MemoryAreas
<1> DEFINE none == PM!NoMemory
<1>1. agreed /\ pg = mem /\ pg = none
  BY DEF Init, Starts
<1>2. /\ <<>> \in Seq(RunRow) /\ <<>> \in Seq(ObsRow) /\ <<>> \in Seq(FindRow)
      /\ DOMAIN <<>> = {}
  BY EmptySeq
<1>3. /\ none \in MemoryTables /\ none.obs = <<>> /\ none.find = <<>>
      /\ none.lastId \in 0..(MaxRows + 1)
  BY <1>2, AgreementAssumption DEF MemoryTables, PM!NoMemory
<1>4. MemoryHeld(none)
  BY <1>2, <1>3 DEF MemoryHeld, ObservationsHeld, CitedHeld
<1>5. AsCited(none) = none
  <2> HIDE DEF none
  <2>1. AllCiting(<<>>, StoredIds(none)) = <<>>
    BY <1>2 DEF AllCiting
  <2>2. AsCited(none) = [none EXCEPT !.find = <<>>]
    BY <1>3, <2>1, CitedIs
  <2> QED
    BY <1>3, <2>2 DEF MemoryTables
<1> QED
  BY <1>1, <1>4, <1>5 DEF MemoryInv

\* Every call about the runs keeps the two alike.
LEMMA RunsAlike ==
    ASSUME MemoryInv, area = "runs", Runs
    PROVE  MemoryInv'
<1>1. agreed /\ pg = AsCited(mem) /\ MemoryHeld(mem)
  BY DEF MemoryInv, MemoryAreas
<1>2. CASE Memory("runs", PM!StartRun(pg, Own, "radar"), MM!StartRun(mem, Own, "radar"))
  BY <1>1, <1>2, CitedRunCalls, AfterMemoryCall
<1>3. CASE \E r \in Ids : Memory("runs", PM!FinishRun(pg, r, "succeeded"),
                                 MM!FinishRun(mem, r, "succeeded"))
  <2>1. PICK r \in Ids : Memory("runs", PM!FinishRun(pg, r, "succeeded"),
                                MM!FinishRun(mem, r, "succeeded"))
    BY <1>3
  <2>2. CitedCall(PM!FinishRun(pg, r, "succeeded"), MM!FinishRun(mem, r, "succeeded"))
    BY <1>1, CitedRunCalls
  <2> QED
    BY <2>1, <2>2, AfterMemoryCall
<1> QED
  BY <1>2, <1>3 DEF Runs

\* Every call about the memory keeps the two alike.
LEMMA RecallAlike ==
    ASSUME MemoryInv, area = "memory", Recall
    PROVE  MemoryInv'
<1>1. agreed /\ pg = AsCited(mem) /\ MemoryHeld(mem)
  BY DEF MemoryInv, MemoryAreas
<1>2. pg.obs = mem.obs /\ pg.lastId = mem.lastId
  BY <1>1, CitedIs DEF MemoryHeld
<1>3. CASE Remember
  <2>1. /\ pg.lastId < MaxRows + 1
        /\ \E b \in Bs, text \in Contents, day \in Days :
              Memory("memory", PM!InsertObservation(pg, b, text, "yelp", day),
                               MM!InsertObservation(mem, b, text, "yelp", day))
    BY <1>3 DEF Remember
  <2>2. PICK b \in Bs, text \in Contents, day \in Days :
           Memory("memory", PM!InsertObservation(pg, b, text, "yelp", day),
                            MM!InsertObservation(mem, b, text, "yelp", day))
    BY <2>1
  <2>3. CitedCall(PM!InsertObservation(pg, b, text, "yelp", day),
                  MM!InsertObservation(mem, b, text, "yelp", day))
    BY <1>1, <1>2, <2>1, CitedRemember
  <2> QED
    BY <2>2, <2>3, AfterMemoryCall
<1>4. ASSUME NEW role \in {"user", "assistant"}, NEW day \in Days,
             NEW about \in Ids \cup {Null}, pg.lastId < MaxRows + 1,
             Chat(Own, role, day, day, about, about = Null)
      PROVE  MemoryInv'
  <2> DEFINE embedded == about = Null
  <2>1. embedded \in BOOLEAN
    OBVIOUS
  <2>2. /\ ~\E i \in DOMAIN pg.obs : /\ pg.obs[i].business = Own /\ pg.obs[i].day = day
                                     /\ pg.obs[i].source = PM!ChatSource(role)
        /\ Memory("memory", PM!InsertChat(pg, Own, role, day, day, about, embedded),
                            MM!InsertChat(mem, Own, role, day, day, about, embedded))
    BY <1>4 DEF Chat
  <2> HIDE DEF embedded
  <2>3. CitedCall(PM!InsertChat(pg, Own, role, day, day, about, embedded),
                  MM!InsertChat(mem, Own, role, day, day, about, embedded))
    BY <1>1, <1>2, <1>4, <2>1, <2>2, CitedRemember
  <2> QED
    BY <2>2, <2>3, AfterMemoryCall
<1>5. ASSUME NEW before \in Days, Purge(Own, "yelp", before)
      PROVE  MemoryInv'
  BY <1>1, <1>5, CitedPurge, AfterMemoryCall DEF Purge
<1>6. ASSUME NEW b \in Bs, NEW status \in {"proposed", "accepted", "withheld"},
             NEW evidence \in Citations, InsertFind(b, status, evidence)
      PROVE  MemoryInv'
  BY <1>1, <1>2, <1>6, CitedInsertFind, AfterMemoryCall DEF InsertFind
<1> QED
  BY <1>3, <1>4, <1>5, <1>6 DEF Recall

\* What does not read the citations is answered alike with and without them.
LEMMA CitedQuestions ==
    ASSUME NEW m, MemoryHeld(m), NEW b, NEW n
    PROVE  /\ PM!RecentRuns(AsCited(m), b, n) = PM!RecentRuns(m, b, n)
           /\ PM!SearchObservations(AsCited(m), b, n) = PM!SearchObservations(m, b, n)
           /\ \A uuid : PM!AllObservations(AsCited(m), b, n, uuid)
                          = PM!AllObservations(m, b, n, uuid)
           /\ PM!CountObservations(AsCited(m), b) = PM!CountObservations(m, b)
           /\ \A about : PM!RecentChat(AsCited(m), b, n, about) = PM!RecentChat(m, b, n, about)
           /\ PM!SearchChat(AsCited(m), b, n) = PM!SearchChat(m, b, n)
           /\ PM!CountChat(AsCited(m), b) = PM!CountChat(m, b)
<1>1. m \in MemoryTables
  BY DEF MemoryHeld
<1>2. AsCited(m).run = m.run /\ AsCited(m).obs = m.obs
  BY <1>1, CitedIs
<1>3. /\ PM!Signals(AsCited(m), b) = PM!Signals(m, b)
      /\ PM!Said(AsCited(m), b) = PM!Said(m, b)
  BY <1>2 DEF PM!Signals, PM!Said
<1>4. \A S : PM!Nearest(AsCited(m), S) = PM!Nearest(m, S)
  BY <1>2, Zenon DEF PM!Nearest, PM!Sorted
<1>5. PM!RecentRuns(AsCited(m), b, n) = PM!RecentRuns(m, b, n)
  BY <1>2 DEF PM!RecentRuns
<1>6. PM!SearchObservations(AsCited(m), b, n) = PM!SearchObservations(m, b, n)
  BY <1>2, <1>3, <1>4, Zenon DEF PM!SearchObservations
<1>7. PM!SearchChat(AsCited(m), b, n) = PM!SearchChat(m, b, n)
  BY <1>2, <1>3, <1>4, Zenon DEF PM!SearchChat
<1>8. \A uuid : PM!AllObservations(AsCited(m), b, n, uuid) = PM!AllObservations(m, b, n, uuid)
  BY <1>2, <1>3, Zenon DEF PM!AllObservations, PM!Sorted
<1>9. \A about : PM!RecentChat(AsCited(m), b, n, about) = PM!RecentChat(m, b, n, about)
  BY <1>2, <1>3, Zenon DEF PM!RecentChat, PM!Sorted
<1> QED
  BY <1>3, <1>5, <1>6, <1>7, <1>8, <1>9 DEF PM!CountObservations, PM!CountChat

\* Nor does what is listed, counted and looked up of the recommendations.
LEMMA CitedFinds ==
    ASSUME NEW m, MemoryHeld(m), NEW b
    PROVE  /\ \A n, unseen : PM!RecentFinds(AsCited(m), b, n, unseen)
                               = PM!RecentFinds(m, b, n, unseen)
           /\ PM!CountFinds(AsCited(m), b) = PM!CountFinds(m, b)
           /\ PM!LatestFind(AsCited(m), b) = PM!LatestFind(m, b)
           /\ \A f : PM!GetFindContext(AsCited(m), b, f) = PM!GetFindContext(m, b, f)
           /\ DOMAIN AsCited(m).find = DOMAIN m.find
           /\ \A f \in DOMAIN m.find :
                 AsCited(m).find[f].evidence = StillStored(m, m.find[f].evidence)
<1> DEFINE finds == AsCited(m).find
<1>1. m \in MemoryTables /\ m.find \in Seq(FindRow)
  BY DEF MemoryHeld, MemoryTables
<1>2. finds = AllCiting(m.find, StoredIds(m))
  BY <1>1, CitedIs
<1>3. DOMAIN finds = DOMAIN m.find
  BY <1>2 DEF AllCiting
<1>4. ASSUME NEW f \in DOMAIN m.find
      PROVE  /\ finds[f].business = m.find[f].business
             /\ finds[f].status = m.find[f].status
             /\ finds[f].evidence = StillStored(m, m.find[f].evidence)
  <2>1. m.find[f] \in FindRow
    BY <1>1, RowsOf
  <2>2. finds[f] = Citing(m.find[f], StoredIds(m))
    BY <1>2 DEF AllCiting
  <2> QED
    BY <2>1, <2>2, StoredKept DEF FindRow, Citing
<1> HIDE DEF finds
<1>5. {f \in DOMAIN finds : finds[f].business = b} = {f \in DOMAIN m.find : m.find[f].business = b}
  BY <1>3, <1>4
<1>6. ASSUME NEW n, NEW unseen
      PROVE  PM!RecentFinds(AsCited(m), b, n, unseen) = PM!RecentFinds(m, b, n, unseen)
  <2> DEFINE Shown(t) == {f \in DOMAIN t : /\ t[f].business = b
                                           /\ unseen \/ t[f].status \in PM!SeenByOwner}
             InPlay(t, f) == t[f].status \in PM!Judgeable
             Seen(t, f) == t[f].status \in PM!SeenByOwner
             Before(t, f, g) == \/ InPlay(t, f) /\ ~InPlay(t, g)
                                \/ /\ InPlay(t, f) <=> InPlay(t, g)
                                   /\ \/ Seen(t, f) /\ ~Seen(t, g)
                                      \/ (Seen(t, f) <=> Seen(t, g)) /\ f > g
             UpToOf(t) == [i \in Shown(t) |-> {j \in Shown(t) : j = i \/ Before(t, j, i)}]
  <2>1. \A t : PM!RecentFinds(t, b, n, unseen)
                 = PM!Limit(PM!Along(Shown(t.find), UpToOf(t.find)), n)
    BY Zenon DEF PM!RecentFinds, PM!Sorted
  <2>2. Shown(finds) = Shown(m.find)
    BY <1>3, <1>4
  <2>3. \A f, g \in Shown(m.find) : Before(finds, f, g) <=> Before(m.find, f, g)
    BY <1>4
  <2>4. UpToOf(finds) = UpToOf(m.find)
    <3> HIDE DEF Before, Shown
    <3> QED
      BY <2>2, <2>3
  <2> HIDE DEF UpToOf, Shown
  <2> QED
    BY <2>1, <2>2, <2>4 DEF finds
<1>7. PM!CountFinds(AsCited(m), b) = PM!CountFinds(m, b)
  BY <1>5 DEF PM!CountFinds, finds
<1>8. PM!LatestFind(AsCited(m), b) = PM!LatestFind(m, b)
  <2> DEFINE LastOf(S) == IF S = {} THEN Null ELSE CHOOSE f \in S : \A g \in S : g <= f
  <2>1. \A t : PM!LatestFind(t, b) = LastOf({f \in DOMAIN t.find : t.find[f].business = b})
    BY DEF PM!LatestFind
  <2> HIDE DEF LastOf
  <2> QED
    BY <1>5, <2>1 DEF finds
<1>9. \A f : PM!GetFindContext(AsCited(m), b, f) = PM!GetFindContext(m, b, f)
  BY <1>3, <1>4 DEF PM!GetFindContext, finds
<1> QED
  BY <1>3, <1>4, <1>6, <1>7, <1>8, <1>9 DEF finds

\* Stores that are alike answer every question alike.
LEMMA MemoriesAnswer ==
    MemoryInv => MemoriesAgree
<1> SUFFICES ASSUME MemoryInv, area \in MemoryAreas  PROVE MemoriesAgree
  BY DEF MemoriesAgree, MemoryAreas
<1>1. agreed /\ pg = AsCited(mem) /\ MemoryHeld(mem)
  BY DEF MemoryInv
<1>2. ASSUME NEW b \in Bs, NEW n \in Limits
      PROVE  /\ PM!RecentRuns(pg, b, n) = MM!RecentRuns(mem, b, n)
             /\ Texts(PM!SearchObservations(pg, b, n)) = Texts(MM!SearchObservations(mem, b, n))
             /\ LET double == MM!AllObservations(mem, b, n) IN
                \A uuid \in Uuids :
                   LET stored == PM!AllObservations(pg, b, n, uuid)
                   IN  /\ Observed(stored) = Observed(double)
                       /\ n >= PM!CountObservations(pg, b) => ToSet(stored) = ToSet(double)
             /\ \A about \in Ids \cup {Null} :
                   PM!RecentChat(pg, b, n, about) = MM!RecentChat(mem, b, n, about)
             /\ Texts(PM!SearchChat(pg, b, n)) = Texts(MM!SearchChat(mem, b, n))
             /\ \A unseen \in BOOLEAN : PM!RecentFinds(pg, b, n, unseen)
                                        = MM!RecentFinds(mem, b, n, unseen)
  <2>1. n \in Nat
    BY AgreementAssumption
  <2>2. /\ PM!SearchObservations(pg, b, n) = MM!SearchObservations(mem, b, n)
        /\ PM!SearchChat(pg, b, n) = MM!SearchChat(mem, b, n)
    BY <1>1, <2>1, SameSearches, CitedQuestions
  <2>3. PM!RecentRuns(pg, b, n) = MM!RecentRuns(mem, b, n)
    BY <1>1, <2>1, SameRecentRuns, CitedQuestions
  <2>4. \A uuid \in Uuids :
           LET stored == PM!AllObservations(pg, b, n, uuid)
               double == MM!AllObservations(mem, b, n)
           IN  /\ Observed(stored) = Observed(double)
               /\ n >= PM!CountObservations(pg, b) => ToSet(stored) = ToSet(double)
    BY <1>1, <2>1, SameAllObservations, CitedQuestions
  <2>5. \A about \in Ids \cup {Null} :
           PM!RecentChat(pg, b, n, about) = MM!RecentChat(mem, b, n, about)
    BY <1>1, <2>1, SameRecentChat, CitedQuestions
  <2>6. \A unseen \in BOOLEAN : PM!RecentFinds(pg, b, n, unseen)
                                = MM!RecentFinds(mem, b, n, unseen)
    BY <1>1, <2>1, SameRecentFinds, CitedFinds
  <2> QED
    BY <2>2, <2>3, <2>4, <2>5, <2>6
<1>3. ASSUME NEW b \in Bs
      PROVE  /\ PM!CountObservations(pg, b) = MM!CountObservations(mem, b)
             /\ PM!CountChat(pg, b) = MM!CountChat(mem, b)
             /\ PM!CountFinds(pg, b) = MM!CountFinds(mem, b)
             /\ PM!LatestFind(pg, b) = MM!LatestFind(mem, b)
             /\ \A f \in Ids : PM!GetFindContext(pg, b, f) = MM!GetFindContext(mem, b, f)
  <2>1. \A f : /\ PM!CountObservations(pg, b) = MM!CountObservations(mem, b)
               /\ PM!CountChat(pg, b) = MM!CountChat(mem, b)
               /\ PM!CountFinds(pg, b) = MM!CountFinds(mem, b)
               /\ PM!LatestFind(pg, b) = MM!LatestFind(mem, b)
               /\ PM!GetFindContext(pg, b, f) = MM!GetFindContext(mem, b, f)
    BY <1>1, SameCounts, CitedQuestions, CitedFinds
  <2> QED
    BY <2>1
<1>4. \A f \in DOMAIN pg.find :
         PM!GetFindEvidence(pg, f) = StillStored(mem, MM!GetFindEvidence(mem, f))
  BY <1>1, CitedFinds DEF PM!GetFindEvidence, MM!GetFindEvidence
<1> QED
  BY <1>1, <1>2, <1>3, <1>4 DEF MemoriesAgree

\* Whatever the agents stored and purged, cited or not, the two hold the same memory
\* but for the citations of what was purged, which the database drops and the double
\* keeps without their content; every search and listing is the same, in the same order.
THEOREM MemoriesStayAlike ==
    Spec => []MemoriesAgree
<1>1. Init => MemoryInv
  BY MemoryStart
<1>2. MemoryInv /\ [Next]_vars => MemoryInv'
  <2> SUFFICES ASSUME MemoryInv, [Next]_vars  PROVE MemoryInv'
    OBVIOUS
  <2>1. CASE UNCHANGED vars
    <3>1. (pg = AsCited(mem)) => (pg = AsCited(mem))'
      BY <2>1 DEF vars, AsCited, StillStored
    <3> QED
      BY <2>1, <3>1 DEF vars, MemoryInv, MemoryHeld
  <2>2. CASE Next
    <3>1. area' = area
      BY <2>2, AreaStays
    <3>2. CASE area = "runs"
      BY <2>2, <3>2, RunsAlike DEF Next, Is
    <3>3. CASE area = "memory"
      BY <2>2, <3>3, RecallAlike DEF Next, Is
    <3>4. CASE area \notin MemoryAreas
      BY <3>1, <3>4 DEF MemoryInv
    <3> QED
      BY <3>2, <3>3, <3>4 DEF MemoryAreas
  <2> QED
    BY <2>1, <2>2
<1> QED
  BY <1>1, <1>2, MemoriesAnswer, PTL DEF Spec

-----------------------------------------------------------------------------
\* A recommendation at work.

EventRow == [cycle : Nat,
             type : {"undo_pass", "accepted", "passed", "saved_later", "reopened"}]
TaskRows == [cycle : Nat,
             status : {"queued", "retry", "running", "completed", "failed", "cancelled"},
             attempts : Nat, dispatches : Nat, token : Nat \cup {Null}, expired : BOOLEAN,
             due : BOOLEAN, superseded : BOOLEAN, cancelled : BOOLEAN,
             output : Nat \cup {Null}, revision : Nat, workflow : BOOLEAN]
ArtRow == [task : Nat, key : Nat \X Nat, cycle : Nat, revision : Nat, superseded : BOOLEAN]
ToolNames == {"ses.send_review_email", "post"}
ExecRow == [task : Nat, tool : ToolNames, key : Nat \X ToolNames,
            status : {"running", "succeeded", "failed"}, ref : Nat \cup {Null}]
MailRow == [id : {"e1"}, exec : Nat, type : {"open"}]
LedgerRow == [period : Nat, verdict : {"estimated", "miss", "verified"},
              cents : Figures \cup {Null}, at : Nat]
OutcomeRow == [cents : Figures, at : Nat]

WorkTables ==
    [status : {"proposed", "withheld", "accepted", "rejected", "later", "live"}, cycle : Nat,
     reopened : BOOLEAN, tool : Nat \cup {Null}, executed : Nat \cup {Null},
     event : Seq(EventRow), task : Seq(TaskRows), art : Seq(ArtRow), exec : Seq(ExecRow),
     mail : Seq(MailRow), ledger : Seq(LedgerRow), outcome : Seq(OutcomeRow),
     minted : Nat, tick : Nat]

\* A task still to be done is the approval's in force, a claim goes with the status
\* running, a wait with the status retry, and what a task shows is a draft there is.
TaskHeld(row, cycle, drafts) ==
    /\ row.cycle <= cycle
    /\ ~row.superseded => row.cycle = cycle
    /\ row.status \in {"queued", "retry", "running"} => ~row.superseded /\ ~row.cancelled
    /\ row.cancelled => row.superseded
    /\ row.status = "running" => row.token # Null
    /\ row.status # "running" => row.token = Null /\ ~row.expired
    /\ row.status # "retry" => row.due
    /\ row.output # Null => row.output \in 1..drafts

TasksHeld(task, cycle, drafts) ==
    /\ \A t \in DOMAIN task : TaskHeld(task[t], cycle, drafts)
    /\ \A t, u \in DOMAIN task : task[t].cycle = task[u].cycle => t = u

\* A draft is stored once, for a revision its task had; the draft of the revision in
\* the making is the newest one, and the draft before it is replaced.
DraftsHeld(art, task, cycle) ==
    /\ \A a \in DOMAIN art : /\ art[a].cycle <= cycle
                             /\ art[a].key[1] \in DOMAIN task
                             /\ art[a].key[2] <= task[art[a].key[1]].revision
    /\ \A a, c \in DOMAIN art : art[a].key = art[c].key => a = c
    /\ \A a \in DOMAIN art, t \in DOMAIN task :
          art[a].key = <<t, task[t].revision>> =>
          /\ task[t].cycle = cycle => a = Len(art)
          /\ task[t].revision # 1 /\ task[t].output # Null =>
                task[t].output = a \/ art[task[t].output].superseded

\* Nothing that cannot be taken back was done for a task taken back.
ToolsHeld(exec, task) ==
    /\ \A x \in DOMAIN exec :
          /\ exec[x].task \in DOMAIN task
          /\ exec[x].tool = "post" /\ exec[x].status \in {"running", "succeeded"}
             => ~task[exec[x].task].superseded
    /\ \A x, y \in DOMAIN exec : exec[x].key = exec[y].key => x = y

MailHeld(mail) == \A i, j \in DOMAIN mail : i = j

LedgerHeld(ledger) == \A i, j \in DOMAIN ledger : ledger[i].period = ledger[j].period => i = j

OutcomesHeld(outcome, tick) ==
    /\ \A k \in DOMAIN outcome : outcome[k].at <= tick
    /\ \A j, k \in DOMAIN outcome : j < k => outcome[j].at < outcome[k].at

\* An approval is logged, unless nothing is.
EventsHeld(status, event, cycle) ==
    status = "accepted" /\ event # <<>> =>
    \E i \in DOMAIN event : /\ event[i].cycle = cycle
                            /\ event[i].type \in {"accepted", "undo_pass"}

WorkHeld(w) ==
    /\ w \in WorkTables
    /\ EventsHeld(w.status, w.event, w.cycle)
    /\ TasksHeld(w.task, w.cycle, Len(w.art))
    /\ DraftsHeld(w.art, w.task, w.cycle)
    /\ ToolsHeld(w.exec, w.task)
    /\ MailHeld(w.mail)
    /\ LedgerHeld(w.ledger)
    /\ OutcomesHeld(w.outcome, w.tick)

WorkAreas == {"maker", "tools", "meter"}

WorkInv ==
    area \in WorkAreas =>
    /\ agreed /\ pg = mem /\ WorkHeld(pg)
    /\ area = "meter" => pg.event # <<>>

\* The operators on lists are the same in every instance.
LEMMA SameLists3 ==
    /\ \A S : PW!Cardinality(S) = Cardinality(S) /\ MW!Cardinality(S) = Cardinality(S)
    /\ \A S, upTo : PW!Along(S, upTo) = Along(S, upTo) /\ MW!Along(S, upTo) = Along(S, upTo)
    /\ \A S : /\ PW!InOrder(S) = InOrder(S) /\ MW!InOrder(S) = InOrder(S)
              /\ PW!Newest(S) = Newest(S)
    /\ \A rows, list : MW!RowsAt(rows, list) = RowsAt(rows, list)
    /\ \A rows, n : PW!Limit(rows, n) = Limit(rows, n) /\ MW!Slice(rows, n) = Slice(rows, n)
    /\ \A rows : PW!Reverse(rows) = Reverse(rows) /\ MW!Reverse(rows) = Reverse(rows)
    /\ \A rows : MW!ToSet(rows) = ToSet(rows)
    /\ \A f : PW!SumFunction(f) = MW!SumFunction(f)
<1>1. \A S : PW!Cardinality(S) = Cardinality(S) /\ MW!Cardinality(S) = Cardinality(S)
  BY DEF PW!Cardinality, MW!Cardinality, Cardinality
<1>2. \A S, upTo : PW!Along(S, upTo) = Along(S, upTo) /\ MW!Along(S, upTo) = Along(S, upTo)
  BY <1>1 DEF PW!Along, MW!Along, Along
<1>3. \A S : /\ PW!InOrder(S) = InOrder(S) /\ MW!InOrder(S) = InOrder(S)
             /\ PW!Newest(S) = Newest(S)
  BY <1>2 DEF PW!InOrder, MW!InOrder, InOrder, PW!Newest, Newest
<1>4. \A rows, list : MW!RowsAt(rows, list) = RowsAt(rows, list)
  BY DEF MW!RowsAt, RowsAt
<1>5. \A rows, n : PW!Limit(rows, n) = Limit(rows, n) /\ MW!Slice(rows, n) = Slice(rows, n)
  BY DEF PW!Limit, Limit, MW!Slice, Slice
<1>6. \A rows : PW!Reverse(rows) = Reverse(rows) /\ MW!Reverse(rows) = Reverse(rows)
  BY DEF PW!Reverse, MW!Reverse, Reverse
<1>7. \A rows : MW!ToSet(rows) = ToSet(rows)
  BY DEF MW!ToSet, ToSet
<1>8. \A f : PW!SumFunction(f) = MW!SumFunction(f)
  BY DEF PW!SumFunction, MW!SumFunction, PW!SumFunctionOnSet, MW!SumFunctionOnSet,
         PW!FoldFunctionOnSet, MW!FoldFunctionOnSet, PW!MapThenFoldSet, MW!MapThenFoldSet
<1> QED
  BY <1>1, <1>2, <1>3, <1>4, <1>5, <1>6, <1>7, <1>8

\* A place nothing else has, found by a condition only it meets.
LEMMA OnlyHit ==
    ASSUME NEW R, NEW rows \in Seq(R), NEW S, S \subseteq DOMAIN rows, 
           \A i, j \in S : i = j
    PROVE  /\ S \in SUBSET Nat /\ IsFiniteSet(S) /\ Null \notin S
           /\ MW!Next1(InOrder(S)) = Null <=> S = {}
           /\ S # {} => /\ MW!Next1(InOrder(S)) \in S
                        /\ MW!Next1(InOrder(S)) = CHOOSE i \in S : TRUE
<1>1. /\ S \in SUBSET Nat /\ IsFiniteSet(S)
      /\ Len(InOrder(S)) = 0 <=> S = {}
      /\ S # {} => InOrder(S)[1] \in S
  BY Hits
<1>2. Null \notin S
  BY RowsOf
<1>3. S # {} => (CHOOSE i \in S : TRUE) \in S
  OBVIOUS
<1> QED
  BY <1>1, <1>2, <1>3 DEF MW!Next1

\* The rows of a recommendation at work have their types.
LEMMA WorkRows ==
    ASSUME NEW w, WorkHeld(w)
    PROVE  /\ w \in WorkTables
           /\ w.event \in Seq(EventRow) /\ w.task \in Seq(TaskRows) /\ w.art \in Seq(ArtRow)
           /\ w.exec \in Seq(ExecRow) /\ w.mail \in Seq(MailRow)
           /\ w.ledger \in Seq(LedgerRow) /\ w.outcome \in Seq(OutcomeRow)
           /\ w.cycle \in Nat /\ w.minted \in Nat /\ w.tick \in Nat
           /\ w.tool \in Nat \cup {Null} /\ w.executed \in Nat \cup {Null}
  BY DEF WorkHeld, WorkTables

\* So has a task of it, with what is always so of a task.
LEMMA TaskFields ==
    ASSUME NEW w, WorkHeld(w), NEW t \in DOMAIN w.task
    PROVE  /\ w.task[t] \in TaskRows /\ TaskHeld(w.task[t], w.cycle, Len(w.art))
           /\ t \in Nat /\ t # Null /\ t \in 1..Len(w.task)
<1>1. w.task \in Seq(TaskRows) /\ TasksHeld(w.task, w.cycle, Len(w.art))
  BY WorkRows DEF WorkHeld
<1> QED
  BY <1>1, RowsOf DEF TasksHeld

-----------------------------------------------------------------------------
\* decision_events: the newest entries of the log first.
LEMMA SameDecisionEvents ==
    ASSUME NEW w, WorkHeld(w), NEW n \in Nat
    PROVE  PW!DecisionEvents(w, n) = MW!DecisionEvents(w, n)
<1>1. w.event \in Seq(EventRow)
  BY WorkRows
<1>2. Reverse(w.event) \in Seq(EventRow)
  <2> DEFINE size == Len(w.event)
             back == [k \in 1..size |-> w.event[(size - k) + 1]]
  <2>1. size \in Nat /\ DOMAIN w.event = 1..size /\ \A k \in 1..size : w.event[k] \in EventRow
    BY <1>1, RowsOf
  <2>2. \A k \in 1..size : (size - k) + 1 \in 1..size
    BY <2>1
  <2>3. back \in [1..size -> EventRow]
    BY <2>1, <2>2
  <2> HIDE DEF size
  <2>4. back \in Seq(EventRow)
    BY <2>1, <2>3, SeqOfMap
  <2> QED
    BY <2>4 DEF Reverse, size
<1>3. /\ PW!DecisionEvents(w, n) = Limit(Reverse(w.event), n)
      /\ MW!DecisionEvents(w, n) = Slice(Reverse(w.event), n)
  BY SameLists3 DEF PW!DecisionEvents, MW!DecisionEvents
<1> QED
  BY <1>2, <1>3, LimitIsSlice

\* Newest first, as many as asked for.
LEMMA SameNewest ==
    ASSUME NEW R, NEW rows \in Seq(R), NEW S, S \subseteq DOMAIN rows, NEW n \in Nat
    PROVE  Limit(Newest(S), n) = Slice(Reverse(InOrder(S)), n)
<1>1. S \in SUBSET Nat /\ IsFiniteSet(S)
  BY Hits
<1>2. Increasing(InOrder(S), S)
  BY <1>1, InOrderIncreases
<1>3. Newest(S) = Reverse(InOrder(S))
  BY <1>1, NewestReversed
<1>4. Reverse(InOrder(S)) \in Seq(S)
  <2> DEFINE list == InOrder(S)
             size == Cardinality(S)
             back == [k \in 1..size |-> list[(size - k) + 1]]
  <2>1. size \in Nat /\ Len(list) = size /\ list \in [1..size -> S]
    BY <1>2 DEF Increasing
  <2> HIDE DEF size, list
  <2>2. \A k \in 1..size : (size - k) + 1 \in 1..size
    BY <2>1
  <2>3. back \in [1..size -> S]
    BY <2>1, <2>2
  <2>4. back \in Seq(S)
    BY <2>1, <2>3, SeqOfMap
  <2> QED
    BY <2>1, <2>4 DEF Reverse, list
<1> QED
  BY <1>3, <1>4, LimitIsSlice

\* The tasks with a status, the calls of a task and the tasks to start, newest first or
\* oldest first, are the same.
LEMMA SameTaskLists ==
    ASSUME NEW w, WorkHeld(w), NEW n \in Nat
    PROVE  /\ \A statuses : PW!ListTasks(w, statuses, n) = MW!ListTasks(w, statuses, n)
           /\ \A t : PW!ToolExecutions(w, t, n) = MW!ToolExecutions(w, t, n)
           /\ n > 0 => PW!ListDispatchable(w, 1, n) = MW!ListDispatchable(w, 1, n)
<1>1. w.task \in Seq(TaskRows) /\ w.exec \in Seq(ExecRow)
  BY WorkRows
<1>2. ASSUME NEW statuses
      PROVE  PW!ListTasks(w, statuses, n) = MW!ListTasks(w, statuses, n)
  <2> DEFINE S == {t \in DOMAIN w.task : statuses = {} \/ w.task[t].status \in statuses}
  <2>1. S \subseteq DOMAIN w.task
    OBVIOUS
  <2>2. PW!ListTasks(w, statuses, n) = Limit(Newest(S), n)
    BY SameLists3 DEF PW!ListTasks
  <2>3. MW!ListTasks(w, statuses, n) = Slice(Reverse(InOrder(S)), n)
    BY SameLists3 DEF MW!ListTasks, MW!Matching
  <2> HIDE DEF S
  <2> QED
    BY <1>1, <2>1, <2>2, <2>3, SameNewest
<1>3. ASSUME NEW t
      PROVE  PW!ToolExecutions(w, t, n) = MW!ToolExecutions(w, t, n)
  <2> DEFINE S == {x \in DOMAIN w.exec : w.exec[x].task = t}
  <2>1. S \subseteq DOMAIN w.exec
    OBVIOUS
  <2>2. PW!ToolExecutions(w, t, n) = Limit(Newest(S), n)
    BY SameLists3 DEF PW!ToolExecutions
  <2>3. MW!ToolExecutions(w, t, n) = Slice(Reverse(InOrder(S)), n)
    BY SameLists3 DEF MW!ToolExecutions, MW!Matching
  <2> HIDE DEF S
  <2> QED
    BY <1>1, <2>1, <2>2, <2>3, SameNewest
<1>4. ASSUME n > 0
      PROVE  PW!ListDispatchable(w, 1, n) = MW!ListDispatchable(w, 1, n)
  <2> DEFINE S == {t \in DOMAIN w.task : /\ w.task[t].status \in {"queued", "retry"}
                                         /\ ~w.task[t].superseded /\ ~w.task[t].cancelled
                                         /\ w.task[t].due}
             ready == {t \in DOMAIN w.task : /\ w.task[t].status \in {"queued", "retry"}
                                             /\ PW!Open(w.task[t]) /\ w.task[t].due}
             first == Limit(InOrder(S), 1)
  <2>1. S \subseteq DOMAIN w.task /\ ready = S
    BY DEF PW!Open
  <2>2. PW!ListDispatchable(w, 1, n) = Limit(Limit(InOrder(ready), 1), n)
    BY SameLists3 DEF PW!ListDispatchable
  <2>3. MW!ListDispatchable(w, 1, n) = Slice(Slice(InOrder(S), 1), n)
    BY <1>4, SameLists3 DEF MW!ListDispatchable, MW!Matching
  <2> HIDE DEF S
  <2>4. Increasing(InOrder(S), S)
    BY <1>1, <2>1, Hits, InOrderIncreases
  <2>5. InOrder(S) \in Seq(S)
    BY <2>4 DEF Increasing
  <2>6. first = Slice(InOrder(S), 1) /\ first \in Seq(S)
    BY <2>5, LimitIsSlice, SubSeqProperties DEF Limit
  <2> HIDE DEF first
  <2>7. Limit(first, n) = Slice(first, n)
    BY <2>6, LimitIsSlice
  <2> QED
    BY <2>1, <2>2, <2>3, <2>6, <2>7 DEF first
<1> QED
  BY <1>2, <1>3, <1>4

\* A task is found for its business only, and may go on while its claim holds.
LEMMA SameLookupsOfTasks ==
    ASSUME NEW w, WorkHeld(w), NEW t, NEW b, NEW token
    PROVE  /\ PW!GetTask(w, t, b) = MW!GetTask(w, t, b)
           /\ PW!TaskCanContinue(w, t, token) <=> MW!TaskCanContinue(w, t, token)
<1>1. PW!GetTask(w, t, b) = MW!GetTask(w, t, b)
  BY DEF PW!GetTask, MW!GetTask, MW!Known
<1>2. PW!TaskCanContinue(w, t, token) <=> MW!TaskCanContinue(w, t, token)
  BY DEF PW!TaskCanContinue, MW!TaskCanContinue, PW!Open, MW!Known
<1> QED
  BY <1>1, <1>2

\* A draft is found by its key, which no other has.
LEMMA SameDrafts ==
    ASSUME NEW w, WorkHeld(w)
    PROVE  /\ \A key : PW!ArtifactByKey(w, key) = MW!ArtifactByKey(w, key)
           /\ ToSet(PW!GetArtifacts(w)) = ToSet(MW!GetArtifacts(w))
<1>1. w.art \in Seq(ArtRow) /\ DraftsHeld(w.art, w.task, w.cycle)
  BY WorkRows DEF WorkHeld
<1>2. ASSUME NEW key
      PROVE  PW!ArtifactByKey(w, key) = MW!ArtifactByKey(w, key)
  <2> DEFINE S == {a \in DOMAIN w.art : w.art[a].key = key}
  <2>1. S \subseteq DOMAIN w.art /\ \A a, c \in S : a = c
    BY <1>1 DEF DraftsHeld
  <2>2. PW!ArtifactByKey(w, key) = IF S = {} THEN Null ELSE CHOOSE a \in S : TRUE
    BY DEF PW!ArtifactByKey
  <2>3. MW!ArtifactByKey(w, key) = MW!Next1(InOrder(S))
    BY SameLists3 DEF MW!ArtifactByKey, MW!Matching
  <2> HIDE DEF S
  <2> QED
    BY <1>1, <2>1, <2>2, <2>3, OnlyHit
<1>3. ToSet(PW!GetArtifacts(w)) = ToSet(MW!GetArtifacts(w))
  <2> DEFINE S == DOMAIN w.art
             before(a, c) == \/ w.art[a].revision > w.art[c].revision
                             \/ w.art[a].revision = w.art[c].revision /\ a > c
             upTo == [a \in S |-> {c \in S : c = a \/ before(c, a)}]
             list == Along(S, upTo)
             back == Reverse(InOrder(S))
             size == Cardinality(S)
  <2>1. PW!GetArtifacts(w) = list
    BY SameLists3 DEF PW!GetArtifacts, PW!Sorted
  <2>2. MW!GetArtifacts(w) = back
    BY SameLists3 DEF MW!GetArtifacts
  <2>3. S \in SUBSET Nat /\ IsFiniteSet(S)
    BY <1>1, Hits
  <2>4. \A a \in S : w.art[a].revision \in Nat
    <3>1. \A a \in S : w.art[a] \in ArtRow
      BY <1>1, RowsOf
    <3> QED
      BY <3>1 DEF ArtRow
  <2> HIDE DEF S
  <2>5. upTo \in [S -> SUBSET S] /\ \A a, c \in S : c \in upTo[a] <=> c = a \/ before(c, a)
    OBVIOUS
  <2> HIDE DEF upTo
  <2>6. IsOrder(S, upTo)
    <3>1. \A x, y \in S : x \in upTo[y] \/ y \in upTo[x]
      BY <2>3, <2>4, <2>5
    <3>2. ASSUME NEW x \in S, NEW y \in S, x \in upTo[y], NEW z \in upTo[x]
          PROVE  z \in upTo[y]
      <4>1. z \in S
        BY <2>5, <3>2
      <4> QED
        BY <2>3, <2>4, <2>5, <3>2, <4>1
    <3>3. \A x, y \in S : x \in upTo[y] /\ y \in upTo[x] => x = y
      BY <2>3, <2>4, <2>5
    <3> QED
      BY <2>5, <3>1, <3>2, <3>3 DEF IsOrder
  <2>7. Lists(list, size, S, upTo)
    BY <2>3, <2>6, AlongLists
  <2> HIDE DEF list
  <2>8. ToSet(list) = S
    <3>1. list \in [1..size -> S] /\ \A x \in S : \E k \in 1..size : list[k] = x
      BY <2>7 DEF Lists
    <3> QED
      BY <3>1 DEF ToSet
  <2>9. ToSet(back) = S
    <3>1. Increasing(InOrder(S), S)
      BY <2>3, InOrderIncreases
    <3>2. /\ size \in Nat /\ Len(InOrder(S)) = size /\ InOrder(S) \in [1..size -> S]
          /\ \A i \in S : \E k \in 1..size : InOrder(S)[k] = i
      BY <3>1 DEF Increasing
    <3>3. back = [k \in 1..size |-> InOrder(S)[(size - k) + 1]]
      BY <3>2 DEF Reverse
    <3> HIDE DEF size, back
    <3>4. \A k \in 1..size : (size - k) + 1 \in 1..size /\ (size - ((size - k) + 1)) + 1 = k
      BY <3>2
    <3>5. \A k \in DOMAIN back : back[k] \in S
      BY <3>2, <3>3, <3>4
    <3>6. ASSUME NEW i \in S
          PROVE  \E k \in DOMAIN back : back[k] = i
      <4>1. PICK k \in 1..size : InOrder(S)[k] = i
        BY <3>2
      <4>2. /\ (size - k) + 1 \in DOMAIN back
            /\ back[(size - k) + 1] = InOrder(S)[(size - ((size - k) + 1)) + 1]
        BY <3>3, <3>4
      <4> QED
        BY <3>4, <4>1, <4>2
    <3> QED
      BY <3>5, <3>6 DEF ToSet
  <2> QED
    BY <2>1, <2>2, <2>8, <2>9
<1> QED
  BY <1>2, <1>3

\* A recommendation has one notice here, so the oldest few are the newest few.
LEMMA SameEmailEvents ==
    ASSUME NEW w, WorkHeld(w), NEW x
    PROVE  PW!EmailEvents(w, x, 2) = MW!EmailEvents(w, x, 2)
<1> DEFINE S == {i \in DOMAIN w.mail : w.mail[i].exec = x}
           rows == InOrder(S)
<1>1. w.mail \in Seq(MailRow) /\ \A i, j \in DOMAIN w.mail : i = j
  BY WorkRows DEF WorkHeld, MailHeld
<1>2. PW!EmailEvents(w, x, 2) = Limit(rows, 2)
  BY SameLists3 DEF PW!EmailEvents
<1> DEFINE list == MW!InOrder(S)
           from == IF Len(list) > 2 THEN Len(list) - 2 + 1 ELSE 1
<1>3. MW!EmailEvents(w, x, 2) = SubSeq(list, from, Len(list)) /\ list = rows
  <2>1. MW!EmailEvents(w, x, 2) = IF 2 = 0 THEN <<>> ELSE SubSeq(list, from, Len(list))
    BY DEF MW!EmailEvents, MW!Matching
  <2>2. list = rows
    BY SameLists3
  <2> HIDE DEF from, list
  <2> QED
    BY <2>1, <2>2
<1>4. S \in SUBSET Nat /\ IsFiniteSet(S) /\ \A i, j \in S : i = j
  BY <1>1, Hits
<1> HIDE DEF S
<1>5. Increasing(rows, S)
  BY <1>4, InOrderIncreases
<1> HIDE DEF rows
<1>6. Len(rows) \in Nat /\ Len(rows) <= 1
  <2>1. /\ Len(rows) = Cardinality(S) /\ Cardinality(S) \in Nat
        /\ rows \in [1..Cardinality(S) -> S]
        /\ \A j, k \in 1..Cardinality(S) : j <= k <=> rows[j] <= rows[k]
    BY <1>5 DEF Increasing
  <2>2. ASSUME Cardinality(S) > 1
        PROVE  FALSE
    <3>1. 1 \in 1..Cardinality(S) /\ 2 \in 1..Cardinality(S)
      BY <2>1, <2>2
    <3>2. rows[1] = rows[2] /\ rows[1] \in Nat
      BY <1>4, <2>1, <3>1
    <3> QED
      BY <2>1, <3>1, <3>2
  <2> QED
    BY <2>1, <2>2
<1>7. (IF 2 < Len(rows) THEN 2 ELSE Len(rows)) = Len(rows)
  BY <1>6
<1>8. from = 1
  BY <1>3, <1>6
<1>9. PW!EmailEvents(w, x, 2) = SubSeq(rows, 1, Len(rows))
  BY <1>2, <1>7 DEF Limit
<1> HIDE DEF from, list
<1> QED
  BY <1>3, <1>8, <1>9

\* A day is due for a measurement in both or in neither.
LEMMA SameDue ==
    ASSUME NEW w, WorkHeld(w), NEW today
    PROVE  PW!Due(w, today) <=> MW!Due(w, today)
<1>1. w.ledger \in Seq(LedgerRow)
  BY WorkRows
<1>2. w.ledger = <<>> <=> Len(w.ledger) = 0
  BY <1>1, EmptySeq
<1> QED
  BY <1>2 DEF PW!Due, MW!Due, PW!DueDay, MW!EffectiveDue, PW!Judgeable

\* Reports are made one after the other, so the newest first is the last first.
LEMMA SameOutcomes ==
    ASSUME NEW w, WorkHeld(w)
    PROVE  /\ PW!OutcomeHistory(w) = MW!OutcomeHistory(w)
           /\ PW!OutcomeReports(w) = MW!OutcomeReports(w)
           /\ w.outcome # <<>> => /\ MW!OutcomeReports(w) = <<w.outcome[Len(w.outcome)]>>
                                  /\ Len(w.outcome) \in DOMAIN w.outcome
<1> DEFINE rows == w.outcome
           size == Len(rows)
           S == 1..size
           above(i, j) == rows[i].at > rows[j].at
           rank == [i \in S |-> {j \in S : above(j, i) \/ (j <= i /\ ~above(i, j))}]
           back == [k \in S |-> (size - k) + 1]
<1>1. /\ rows \in Seq(OutcomeRow) /\ DOMAIN rows = S /\ size \in Nat
      /\ rows = <<>> <=> size = 0
  BY WorkRows, RowsOf, EmptySeq
<1>2. /\ \A i \in S : rows[i].at \in Nat
      /\ \A i, j \in S : i < j => rows[i].at < rows[j].at
  <2>1. \A i \in S : rows[i] \in OutcomeRow
    BY <1>1, RowsOf
  <2>2. OutcomesHeld(rows, w.tick)
    BY DEF WorkHeld
  <2> QED
    BY <1>1, <2>1, <2>2 DEF OutcomesHeld, OutcomeRow
<1>3. PW!OutcomeHistory(w) = [k \in S |-> rows[(size - k) + 1]]
  BY SameLists3 DEF PW!OutcomeHistory, Reverse
<1>4. MW!OutcomeHistory(w) = RowsAt(rows, Along(S, rank))
  BY <1>1, SameLists3 DEF MW!OutcomeHistory, MW!Ranked
<1> HIDE DEF rows, size
<1>5. \A i, j \in S : above(i, j) <=> j < i
  BY <1>1, <1>2
<1>6. rank = [i \in S |-> {j \in S : j >= i}]
  <2>1. \A i, j \in S : (above(j, i) \/ (j <= i /\ ~above(i, j))) <=> j >= i
    BY <1>1, <1>5
  <2> QED
    BY <2>1
<1>7. rank = DownTo(S) /\ IsOrder(S, DownTo(S))
  <2>1. rank = DownTo(S)
    BY <1>6 DEF DownTo
  <2>2. S \in SUBSET Nat
    BY <1>1
  <2> QED
    BY <2>1, <2>2, NumbersOrdered
<1> HIDE DEF rank, above
<1>8. \A k \in S : (size - k) + 1 \in S /\ (size - ((size - k) + 1)) + 1 = k
  BY <1>1
<1>9. back \in [S -> S] /\ DOMAIN back = S /\ \A k \in S : back[k] = (size - k) + 1
  BY <1>8
<1> HIDE DEF back
<1>10. Lists(back, size, S, DownTo(S))
  <2>1. \A x \in S : \E k \in 1..size : back[k] = x
    BY <1>8, <1>9
  <2>2. \A j, k \in 1..size : j <= k <=> back[j] \in DownTo(S)[back[k]]
    BY <1>1, <1>9 DEF DownTo
  <2> QED
    BY <1>9, <2>1, <2>2 DEF Lists
<1>11. Along(S, rank) = back
  BY <1>1, <1>7, <1>10, OnlyListing
<1>12. PW!OutcomeHistory(w) = MW!OutcomeHistory(w)
  BY <1>3, <1>4, <1>9, <1>11 DEF RowsAt
<1>13. PW!OutcomeReports(w) = Limit(PW!OutcomeHistory(w), 1)
  BY SameLists3 DEF PW!OutcomeReports
<1>14. MW!OutcomeReports(w) = IF rows = <<>> THEN <<>> ELSE <<rows[size]>>
  BY DEF MW!OutcomeReports, rows, size
<1>15. PW!OutcomeHistory(w) \in Seq(OutcomeRow) /\ Len(PW!OutcomeHistory(w)) = size
  <2>1. \A k \in S : rows[(size - k) + 1] \in OutcomeRow
    BY <1>1, <1>8, RowsOf
  <2>2. PW!OutcomeHistory(w) \in [S -> OutcomeRow]
    BY <1>3, <2>1
  <2> QED
    BY <1>1, <2>2, SeqOfMap
<1>16. CASE rows = <<>>
  <2>1. Slice(PW!OutcomeHistory(w), 1) = <<>>
    BY <1>1, <1>15, <1>16, EmptySeq DEF Slice
  <2> QED
    BY <1>12, <1>13, <1>14, <1>15, <1>16, <2>1, LimitIsSlice DEF rows
<1>17. CASE rows # <<>>
  <2>1. size > 0
    BY <1>1, <1>17
  <2>2. Slice(PW!OutcomeHistory(w), 1) = <<PW!OutcomeHistory(w)[1]>>
    BY <1>1, <1>15, <2>1 DEF Slice
  <2>3. PW!OutcomeHistory(w)[1] = rows[size]
    <3>1. (size - 1) + 1 = size /\ 1 \in S
      BY <1>1, <2>1
    <3> QED
      BY <1>3, <3>1
  <2>4. size \in DOMAIN rows
    BY <1>1, <2>1
  <2> QED
    BY <1>12, <1>13, <1>14, <1>15, <1>17, <2>2, <2>3, <2>4, LimitIsSlice DEF rows, size
<1> QED
  BY <1>16, <1>17

\* A verdict is to be measured again when the last report came after it: the last
\* is the newest.
LEMMA SameRemeasurable ==
    ASSUME NEW w, WorkHeld(w)
    PROVE  PW!Remeasurable(w) = MW!Remeasurable(w)
<1> DEFINE period(i) == w.ledger[i].period
           S == {i \in DOMAIN w.ledger :
                    /\ w.ledger[i].verdict = "estimated"
                    /\ \E k \in DOMAIN w.outcome : w.outcome[k].at > w.ledger[i].at}
           current == MW!OutcomeReports(w)
           due == {i \in DOMAIN w.ledger : /\ w.ledger[i].verdict = "estimated"
                                           /\ current # <<>>
                                           /\ ~(current[1].at <= w.ledger[i].at)}
           before(i, j) == period(i) < period(j)
           upTo == [i \in S |-> {j \in S : j = i \/ before(j, i)}]
           list == InOrder(S)
           size == Cardinality(S)
           rank == [k \in DOMAIN list |->
                      {j \in DOMAIN list : \/ before(list[j], list[k])
                                           \/ j <= k /\ ~before(list[k], list[j])}]
<1>1. /\ w.ledger \in Seq(LedgerRow) /\ w.outcome \in Seq(OutcomeRow)
      /\ LedgerHeld(w.ledger) /\ OutcomesHeld(w.outcome, w.tick)
  BY WorkRows DEF WorkHeld
<1>2. \A i \in DOMAIN w.ledger : w.ledger[i].at \in Nat /\ period(i) \in Nat
  <2>1. \A i \in DOMAIN w.ledger : w.ledger[i] \in LedgerRow
    BY <1>1, RowsOf
  <2> QED
    BY <2>1 DEF LedgerRow
<1>3. \A k \in DOMAIN w.outcome : w.outcome[k].at \in Nat
  <2>1. \A k \in DOMAIN w.outcome : w.outcome[k] \in OutcomeRow
    BY <1>1, RowsOf
  <2> QED
    BY <2>1 DEF OutcomeRow
<1>4. due = S
  <2>1. CASE w.outcome = <<>>
    <3>1. current = <<>> /\ DOMAIN w.outcome = {}
      BY <2>1, EmptySeq DEF MW!OutcomeReports
    <3> QED
      BY <3>1
  <2>2. CASE w.outcome # <<>>
    <3> DEFINE last == Len(w.outcome)
    <3>1. current = <<w.outcome[last]>> /\ last \in DOMAIN w.outcome
      BY <2>2, SameOutcomes
    <3>2. current # <<>> /\ current[1] = w.outcome[last]
      BY <3>1
    <3>3. \A k \in DOMAIN w.outcome : w.outcome[k].at <= w.outcome[last].at
      <4>1. DOMAIN w.outcome = 1..last /\ last \in Nat
        BY <1>1, RowsOf
      <4>2. \A j, k \in DOMAIN w.outcome : j < k => w.outcome[j].at < w.outcome[k].at
        BY <1>1 DEF OutcomesHeld
      <4> HIDE DEF last
      <4>3. ASSUME NEW k \in DOMAIN w.outcome
            PROVE  w.outcome[k].at <= w.outcome[last].at
        <5>1. k = last \/ k < last
          BY <4>1
        <5> QED
          BY <1>3, <3>1, <4>2, <5>1
      <4> QED
        BY <4>3
    <3> HIDE DEF last, current
    <3>4. ASSUME NEW i \in DOMAIN w.ledger
          PROVE  ~(current[1].at <= w.ledger[i].at)
                 <=> \E k \in DOMAIN w.outcome : w.outcome[k].at > w.ledger[i].at
      BY <1>2, <1>3, <3>1, <3>2, <3>3
    <3> QED
      BY <3>2, <3>4
  <2> QED
    BY <2>1, <2>2
<1>5. PW!Remeasurable(w) = Along(S, upTo)
  BY SameLists3, SMTT(30) DEF PW!Remeasurable, PW!Sorted
<1>6. MW!Remeasurable(w) = RowsAt(list, Along(DOMAIN list, rank))
  <2>1. MW!InOrder(due) = list
    BY <1>4, SameLists3
  <2>2. MW!Remeasurable(w) = MW!Ranked(MW!InOrder(due), before)
    BY DEF MW!Remeasurable, MW!Matching
  <2>3. MW!Ranked(list, before) = MW!RowsAt(list, MW!Along(DOMAIN list, rank))
    BY DEF MW!Ranked
  <2> QED
    BY <2>1, <2>2, <2>3, SameLists3, ZenonT(30)
<1>7. S \in SUBSET Nat /\ IsFiniteSet(S)
  BY <1>1, Hits
<1>8. /\ \A i \in S : period(i) \in Nat
      /\ \A i, j \in S : period(i) = period(j) => i = j
  BY <1>1, <1>2 DEF LedgerHeld
<1> HIDE DEF S, period
<1>9. Increasing(list, S)
  BY <1>7, InOrderIncreases
<1> HIDE DEF list, size
<1>10. /\ list \in [1..size -> S] /\ DOMAIN list = 1..size
       /\ \A j, k \in 1..size : j <= k <=> list[j] <= list[k]
  BY <1>9 DEF Increasing, size
<1>11. /\ upTo \in [S -> SUBSET S]
       /\ \A i, j \in S : j \in upTo[i] <=> j = i \/ before(j, i)
  OBVIOUS
<1> HIDE DEF upTo
<1>12. IsOrder(S, upTo)
  <2>1. \A x, y \in S : x \in upTo[y] \/ y \in upTo[x]
    BY <1>8, <1>11
  <2>2. ASSUME NEW x \in S, NEW y \in S, x \in upTo[y], NEW z \in upTo[x]
        PROVE  z \in upTo[y]
    <3>1. z \in S
      BY <1>11, <2>2
    <3> QED
      BY <1>8, <1>11, <2>2, <3>1
  <2>3. \A x, y \in S : x \in upTo[y] /\ y \in upTo[x] => x = y
    BY <1>8, <1>11
  <2> QED
    BY <1>11, <2>1, <2>2, <2>3 DEF IsOrder
<1>13. IsRank(rank, S, upTo)
  <2>1. ASSUME NEW j \in 1..size, NEW k \in 1..size
        PROVE  (\/ before(list[j], list[k])
                \/ j <= k /\ ~before(list[k], list[j]))
               <=> list[j] \in upTo[list[k]]
    <3>1. list[j] \in S /\ list[k] \in S
      BY <1>10
    <3>2. list[j] = list[k] <=> j = k
      <4>1. list[j] \in Nat /\ list[k] \in Nat
        BY <1>7, <3>1
      <4>2. list[j] = list[k] => j <= k /\ k <= j
        BY <1>10, <4>1
      <4> QED
        BY <4>2
    <3>3. period(list[j]) \in Nat /\ period(list[k]) \in Nat
      BY <1>8, <3>1
    <3>4. list[j] \in upTo[list[k]] <=> list[j] = list[k] \/ before(list[j], list[k])
      BY <1>11, <3>1
    <3>5. period(list[j]) = period(list[k]) => list[j] = list[k]
      BY <1>8, <3>1
    <3> QED
      BY <3>2, <3>3, <3>4, <3>5
  <2> QED
    BY <1>10, <2>1 DEF IsRank, list, size
<1> HIDE DEF rank
<1>14. RowsAt(list, Along(DOMAIN list, rank)) = Along(S, upTo)
  BY <1>7, <1>12, <1>13, RankedIds DEF list
<1> QED
  BY <1>5, <1>6, <1>14

\* ledger_summary: the counts of each verdict, and the money of those verified.
LEMMA SameLedgerSummary ==
    ASSUME NEW w, WorkHeld(w)
    PROVE  PW!LedgerSummary(w) = MW!LedgerSummary(w)
<1> DEFINE S(v) == {i \in DOMAIN w.ledger : w.ledger[i].verdict = v}
           paid == {i \in S("verified") : w.ledger[i].cents # Null}
<1>1. w.ledger \in Seq(LedgerRow)
  BY WorkRows
<1>2. ASSUME NEW v
      PROVE  /\ PW!Verdicts(w, v) = S(v)
             /\ MW!Matching(w.ledger, LAMBDA e : e.verdict = v) = InOrder(S(v))
             /\ Len(InOrder(S(v))) = Cardinality(S(v))
             /\ ToSet(InOrder(S(v))) = S(v)
  <2> DEFINE T == S(v)
             size == Cardinality(T)
  <2>1. PW!Verdicts(w, v) = T
    BY DEF PW!Verdicts
  <2>2. MW!Matching(w.ledger, LAMBDA e : e.verdict = v) = InOrder(T)
    BY SameLists3 DEF MW!Matching
  <2>3. T \in SUBSET Nat /\ IsFiniteSet(T)
    BY <1>1, Hits
  <2> HIDE DEF T
  <2>4. Increasing(InOrder(T), T)
    BY <2>3, InOrderIncreases
  <2>5. /\ Len(InOrder(T)) = size /\ InOrder(T) \in [1..size -> T]
        /\ \A i \in T : \E k \in 1..size : InOrder(T)[k] = i
    BY <2>4 DEF Increasing
  <2>6. ToSet(InOrder(T)) = T
    BY <2>5 DEF ToSet
  <2> QED
    BY <2>1, <2>2, <2>5, <2>6 DEF T
<1>3. PW!LedgerSummary(w) = [verified |-> Cardinality(S("verified")),
                             estimated |-> Cardinality(S("estimated")),
                             miss |-> Cardinality(S("miss")),
                             cents |-> PW!SumFunction([i \in paid |-> w.ledger[i].cents])]
  BY <1>2, SameLists3 DEF PW!LedgerSummary
<1>4. MW!LedgerSummary(w) = [verified |-> Len(InOrder(S("verified"))),
                             estimated |-> Len(InOrder(S("estimated"))),
                             miss |-> Len(InOrder(S("miss"))),
                             cents |-> MW!SumFunction([i \in paid |-> w.ledger[i].cents])]
  BY <1>2, SameLists3 DEF MW!LedgerSummary
<1> HIDE DEF S, paid
<1>5. PW!SumFunction([i \in paid |-> w.ledger[i].cents])
        = MW!SumFunction([i \in paid |-> w.ledger[i].cents])
  BY SameLists3
<1>6. /\ Len(InOrder(S("verified"))) = Cardinality(S("verified"))
      /\ Len(InOrder(S("estimated"))) = Cardinality(S("estimated"))
      /\ Len(InOrder(S("miss"))) = Cardinality(S("miss"))
  BY <1>2
<1> QED
  BY <1>3, <1>4, <1>5, <1>6

-----------------------------------------------------------------------------
\* The call is answered alike, leaves the same rows, and what it logs stays.
SameWorkCall(w, p, m) == p = m /\ WorkHeld(p.w) /\ (w.event # <<>> => p.w.event # <<>>)

\* An answered call that leaves the same rows is the same call.
LEMMA SameWorkAnswer ==
    ASSUME NEW w, NEW e, NEW v, NEW p, NEW q, WorkHeld(e), w.event # <<>> => e.event # <<>>,
           p = PW!Answer(e, v) /\ q = MW!Answer(e, v)
    PROVE  SameWorkCall(w, p, q)
  BY DEF SameWorkCall, PW!Answer, MW!Answer

\* So is a refused one.
LEMMA SameWorkRefusal ==
    ASSUME NEW w, NEW p, NEW q, WorkHeld(w), p = PW!Refused(w) /\ q = MW!Refused(w)
    PROVE  SameWorkCall(w, p, q)
  BY DEF SameWorkCall, PW!Refused, MW!Refused

\* set_status: accept, pass, save for later, and undo a pass.
LEMMA SameSetStatus ==
    ASSUME NEW w, WorkHeld(w), NEW b, NEW status \in {"accepted", "rejected", "later"}
    PROVE  SameWorkCall(w, PW!SetStatus(w, b, status), MW!SetStatus(w, b, status))
<1> DEFINE undo == w.status = "rejected" /\ status = "accepted"
           normal == /\ w.status \in {"proposed", "later"}
                     /\ status \in {"accepted", "rejected", "later"}
           type == IF undo THEN "undo_pass" ELSE IF status = "accepted" THEN "accepted"
                   ELSE IF status = "rejected" THEN "passed" ELSE "saved_later"
           p == PW!SetStatus(w, b, status)
           m == MW!SetStatus(w, b, status)
<1>1. w \in WorkTables /\ w.event \in Seq(EventRow) /\ w.cycle \in Nat
  BY WorkRows
<1>2. w.status \in {"proposed", "withheld", "accepted", "rejected", "later", "live"}
  BY <1>1 DEF WorkTables
<1>3. CASE b # Own \/ w.status = "withheld"
  <2>1. p = PW!Refused(w)
    BY <1>3 DEF PW!SetStatus
  <2>2. m = MW!Refused(w)
    BY <1>3 DEF MW!SetStatus
  <2> QED
    BY <2>1, <2>2, SameWorkRefusal
<1>4. CASE ~(b # Own \/ w.status = "withheld") /\ w.status = status
  <2>1. p = PW!Answer(w, FALSE)
    BY <1>4 DEF PW!SetStatus
  <2>2. m = MW!Answer(w, FALSE)
    BY <1>4 DEF MW!SetStatus
  <2> QED
    BY <2>1, <2>2, SameWorkAnswer
<1>5. CASE ~(b # Own \/ w.status = "withheld") /\ w.status # status /\ ~(normal \/ undo)
  <2>1. PW!Decision(w.status, status) = Null
    BY <1>2, <1>5 DEF PW!Decision
  <2>2. p = PW!Refused(w)
    BY <1>5, <2>1 DEF PW!SetStatus
  <2>3. m = MW!Refused(w)
    BY <1>5 DEF MW!SetStatus
  <2> QED
    BY <2>2, <2>3, SameWorkRefusal
<1>6. CASE ~(b # Own \/ w.status = "withheld") /\ w.status # status /\ (normal \/ undo)
  <2> DEFINE row == [cycle |-> w.cycle, type |-> type]
             e == [w EXCEPT !.status = status, !.event = Append(w.event, row)]
  <2>1. /\ PW!Decision(w.status, status) = type
        /\ type \in {"undo_pass", "accepted", "passed", "saved_later"}
        /\ status = "accepted" => type \in {"accepted", "undo_pass"}
    BY <1>2, <1>6 DEF PW!Decision
  <2>2. type # Null
    BY <2>1, AgreementAssumption
  <2>3. p = PW!Answer(e, TRUE)
    BY <1>6, <2>1, <2>2 DEF PW!SetStatus
  <2>4. m = MW!Answer(e, TRUE)
    BY <1>6 DEF MW!SetStatus
  <2> HIDE DEF type
  <2>5. row \in EventRow
    BY <1>1, <2>1 DEF EventRow
  <2>6. IsAppend(EventRow, w.event, row, Append(w.event, row))
    BY <1>1, <2>5, Appended
  <2>7. e \in WorkTables
    BY <1>1, <2>6 DEF WorkTables, IsAppend
  <2>8. /\ e.status = status /\ e.event = Append(w.event, row) /\ e.cycle = w.cycle
        /\ e.task = w.task /\ e.art = w.art /\ e.exec = w.exec /\ e.mail = w.mail
        /\ e.ledger = w.ledger /\ e.outcome = w.outcome /\ e.tick = w.tick
    BY <1>1 DEF WorkTables
  <2> HIDE DEF e
  <2>9. e.event # <<>> /\ EventsHeld(e.status, e.event, e.cycle)
    <3> DEFINE last == Len(w.event) + 1
    <3>1. last \in DOMAIN e.event /\ e.event[last] = row
      BY <2>6, <2>8 DEF IsAppend
    <3>2. e.event # <<>>
      BY <3>1, EmptySeq
    <3> HIDE DEF last
    <3> QED
      BY <2>1, <2>8, <3>1, <3>2 DEF EventsHeld
  <2>10. WorkHeld(e)
    BY <2>7, <2>8, <2>9 DEF WorkHeld
  <2> QED
    BY <2>3, <2>4, <2>9, <2>10, SameWorkAnswer
<1> QED
  BY <1>3, <1>4, <1>5, <1>6

-----------------------------------------------------------------------------
\* Tasks.

\* A row a task's row may become while its approval stands: what it shows is what it
\* showed, or the newest draft, or nothing is drafted yet of its revision.
Follows(old, row, cycle, drafts) ==
    /\ row.cycle = old.cycle /\ row.superseded = old.superseded
    /\ \/ row.revision = old.revision /\ row.output = old.output
       \/ row.revision = old.revision + 1
       \/ /\ row.revision = old.revision /\ row.cycle = cycle
          /\ row.output = IF drafts = 0 THEN Null ELSE drafts

\* Rewriting rows of tasks, claimed or not.
LEMMA TasksRewritten ==
    ASSUME NEW w, WorkHeld(w), NEW rows \in Seq(TaskRows), DOMAIN rows = DOMAIN w.task,
           NEW minted \in Nat,
           \A t \in DOMAIN w.task : /\ Follows(w.task[t], rows[t], w.cycle, Len(w.art))
                                    /\ TaskHeld(rows[t], w.cycle, Len(w.art))
    PROVE  /\ WorkHeld([w EXCEPT !.task = rows, !.minted = minted])
           /\ WorkHeld([w EXCEPT !.task = rows])
<1>1. /\ w \in WorkTables /\ w.art \in Seq(ArtRow) /\ w.exec \in Seq(ExecRow)
      /\ w.task \in Seq(TaskRows)
  BY WorkRows
<1>2. /\ \A t \in DOMAIN rows : TaskHeld(rows[t], w.cycle, Len(w.art))
      /\ \A t \in DOMAIN rows : /\ rows[t].cycle = w.task[t].cycle
                                /\ rows[t].superseded = w.task[t].superseded
  BY DEF Follows
<1>3. TasksHeld(rows, w.cycle, Len(w.art))
  BY <1>2 DEF WorkHeld, TasksHeld
<1>4. \A t \in DOMAIN rows : w.task[t].revision \in Nat /\ rows[t].revision \in Nat
  <2>1. \A t \in DOMAIN rows : w.task[t] \in TaskRows /\ rows[t] \in TaskRows
    BY <1>1, RowsOf
  <2> QED
    BY <2>1 DEF TaskRows
<1>5. DOMAIN w.art = 1..Len(w.art) /\ Len(w.art) \in Nat
      /\ \A a \in DOMAIN w.art : w.art[a].key \in Nat \X Nat
  <2>1. \A a \in DOMAIN w.art : w.art[a] \in ArtRow
    BY <1>1, RowsOf
  <2> QED
    BY <1>1, <2>1, RowsOf DEF ArtRow
<1>6. /\ \A a \in DOMAIN w.art : /\ w.art[a].cycle <= w.cycle
                                 /\ w.art[a].key[1] \in DOMAIN w.task
                                 /\ w.art[a].key[2] <= w.task[w.art[a].key[1]].revision
      /\ \A a, c \in DOMAIN w.art : w.art[a].key = w.art[c].key => a = c
  BY DEF WorkHeld, DraftsHeld
<1>7. \A t \in DOMAIN rows : rows[t].revision >= w.task[t].revision
  BY <1>4 DEF Follows
<1>8. ASSUME NEW a \in DOMAIN w.art
      PROVE  w.art[a].key[2] <= rows[w.art[a].key[1]].revision
  <2> DEFINE k == w.art[a].key
  <2>1. k[2] \in Nat /\ k[1] \in DOMAIN rows /\ k[2] <= w.task[k[1]].revision
    BY <1>5, <1>6
  <2> QED
    BY <1>4, <1>7, <2>1, SMTT(30)
<1>9. ASSUME NEW a \in DOMAIN w.art, NEW t \in DOMAIN rows,
             w.art[a].key = <<t, rows[t].revision>>
      PROVE  /\ rows[t].cycle = w.cycle => a = Len(w.art)
             /\ rows[t].revision # 1 /\ rows[t].output # Null =>
                   rows[t].output = a \/ w.art[rows[t].output].superseded
  <2>1. Follows(w.task[t], rows[t], w.cycle, Len(w.art))
    OBVIOUS
  <2>2. w.art[a].key[2] <= w.task[t].revision /\ w.art[a].key[2] = rows[t].revision
    BY <1>6, <1>9
  <2>3. rows[t].revision = w.task[t].revision
    BY <1>4, <1>7, <2>2
  <2>4. /\ w.task[t].cycle = w.cycle => a = Len(w.art)
        /\ w.task[t].revision # 1 /\ w.task[t].output # Null =>
              w.task[t].output = a \/ w.art[w.task[t].output].superseded
    BY <1>9, <2>3 DEF WorkHeld, DraftsHeld
  <2>5. w.task[t].revision # w.task[t].revision + 1
    BY <1>4
  <2>6. Len(w.art) # 0
    BY <1>5
  <2> QED
    BY <2>1, <2>3, <2>4, <2>5, <2>6 DEF Follows
<1>10. DraftsHeld(w.art, rows, w.cycle)
  BY <1>6, <1>8, <1>9 DEF DraftsHeld
<1>11. ToolsHeld(w.exec, rows)
  BY <1>2 DEF WorkHeld, ToolsHeld
<1>12. ASSUME NEW e \in WorkTables,
             e.task = rows /\ e.status = w.status /\ e.event = w.event /\ e.cycle = w.cycle,
             e.art = w.art /\ e.exec = w.exec /\ e.mail = w.mail,
             e.ledger = w.ledger /\ e.outcome = w.outcome /\ e.tick = w.tick
       PROVE  WorkHeld(e)
  BY <1>3, <1>10, <1>11, <1>12 DEF WorkHeld
<1>13. WorkHeld([w EXCEPT !.task = rows, !.minted = minted])
  <2> DEFINE e == [w EXCEPT !.task = rows, !.minted = minted]
  <2>1. /\ e \in WorkTables /\ e.task = rows /\ e.status = w.status /\ e.event = w.event
        /\ e.cycle = w.cycle /\ e.art = w.art /\ e.exec = w.exec /\ e.mail = w.mail
        /\ e.ledger = w.ledger /\ e.outcome = w.outcome /\ e.tick = w.tick
    BY <1>1 DEF WorkTables
  <2> HIDE DEF e
  <2>2. WorkHeld(e)
    BY <1>12, <2>1
  <2> QED
    BY <2>2 DEF e
<1>14. WorkHeld([w EXCEPT !.task = rows])
  <2> DEFINE e == [w EXCEPT !.task = rows]
  <2>1. /\ e \in WorkTables /\ e.task = rows /\ e.status = w.status /\ e.event = w.event
        /\ e.cycle = w.cycle /\ e.art = w.art /\ e.exec = w.exec /\ e.mail = w.mail
        /\ e.ledger = w.ledger /\ e.outcome = w.outcome /\ e.tick = w.tick
    BY <1>1 DEF WorkTables
  <2> HIDE DEF e
  <2>2. WorkHeld(e)
    BY <1>12, <2>1
  <2> QED
    BY <2>2 DEF e
<1> QED
  BY <1>13, <1>14

\* Rewriting one of them.
MayBecome(w, t, row) ==
    /\ row \in TaskRows /\ TaskHeld(row, w.cycle, Len(w.art))
    /\ Follows(w.task[t], row, w.cycle, Len(w.art))

Rewrites(e, w, t, row) ==
    LET rows == [w.task EXCEPT ![t] = row] IN
    \/ e = [w EXCEPT !.task = rows]
    \/ \E minted \in Nat : e = [w EXCEPT !.task = rows, !.minted = minted]

\* A call that changes one task keeps what is always so, if the new row may follow the
\* old one.
LEMMA TaskRewritten ==
    ASSUME NEW w, WorkHeld(w), NEW t \in DOMAIN w.task, NEW row, MayBecome(w, t, row),
           NEW e, Rewrites(e, w, t, row)
    PROVE  WorkHeld(e) /\ e.event = w.event
<1> DEFINE rows == [w.task EXCEPT ![t] = row]
<1>1. /\ w.task \in Seq(TaskRows) /\ w \in WorkTables /\ row \in TaskRows
      /\ TaskHeld(row, w.cycle, Len(w.art)) /\ Follows(w.task[t], row, w.cycle, Len(w.art))
  BY WorkRows DEF MayBecome
<1>2. IsChange(TaskRows, w.task, t, row, rows)
  BY <1>1, Changed
<1>3. \/ e = [w EXCEPT !.task = rows]
      \/ \E minted \in Nat : e = [w EXCEPT !.task = rows, !.minted = minted]
  BY DEF Rewrites
<1> HIDE DEF rows
<1>4. /\ rows \in Seq(TaskRows) /\ DOMAIN rows = DOMAIN w.task
      /\ \A u \in DOMAIN w.task : rows[u] = IF u = t THEN row ELSE w.task[u]
  BY <1>2 DEF IsChange
<1>5. \A u \in DOMAIN w.task : /\ Follows(w.task[u], w.task[u], w.cycle, Len(w.art))
                               /\ TaskHeld(w.task[u], w.cycle, Len(w.art))
  BY TaskFields DEF Follows
<1>6. \A u \in DOMAIN w.task : /\ Follows(w.task[u], rows[u], w.cycle, Len(w.art))
                               /\ TaskHeld(rows[u], w.cycle, Len(w.art))
  BY <1>1, <1>4, <1>5
<1>7. /\ \A minted \in Nat : WorkHeld([w EXCEPT !.task = rows, !.minted = minted])
      /\ WorkHeld([w EXCEPT !.task = rows])
  BY <1>4, <1>6, TasksRewritten
<1>8. e.event = w.event
  BY <1>1, <1>3 DEF WorkTables
<1> QED
  BY <1>3, <1>7, <1>8

\* prepare_dispatch and record_workflow touch one task.
LEMMA SameDispatchCalls ==
    ASSUME NEW w, WorkHeld(w), NEW t
    PROVE  /\ SameWorkCall(w, PW!PrepareDispatch(w, t), MW!PrepareDispatch(w, t))
           /\ SameWorkCall(w, PW!RecordWorkflow(w, t), MW!RecordWorkflow(w, t))
<1>1. ASSUME NEW row, NEW e, t \in DOMAIN w.task, e = [w EXCEPT !.task[t] = row],
             \/ row = [w.task[t] EXCEPT !.dispatches = @ + 1]
             \/ row = [w.task[t] EXCEPT !.workflow = TRUE]
      PROVE  WorkHeld(e) /\ e.event = w.event
  <2> DEFINE old == w.task[t]
  <2>1. /\ old \in TaskRows /\ TaskHeld(old, w.cycle, Len(w.art)) /\ w.minted \in Nat
    BY <1>1, TaskFields, WorkRows
  <2>2. \/ row = [old EXCEPT !.dispatches = old.dispatches + 1]
        \/ row = [old EXCEPT !.workflow = TRUE]
    BY <1>1
  <2> HIDE DEF old
  <2>3. /\ row \in TaskRows /\ row.cycle = old.cycle /\ row.superseded = old.superseded
        /\ row.revision = old.revision /\ row.output = old.output
        /\ row.status = old.status /\ row.token = old.token /\ row.expired = old.expired
        /\ row.due = old.due /\ row.cancelled = old.cancelled
    <3>1. CASE row = [old EXCEPT !.dispatches = old.dispatches + 1]
      BY <2>1, <3>1 DEF TaskRows
    <3>2. CASE row = [old EXCEPT !.workflow = TRUE]
      BY <2>1, <3>2 DEF TaskRows
    <3> QED
      BY <2>2, <3>1, <3>2
  <2>4. Follows(old, row, w.cycle, Len(w.art)) /\ TaskHeld(row, w.cycle, Len(w.art))
    BY <2>1, <2>3 DEF Follows, TaskHeld
  <2>5. MayBecome(w, t, row)
    BY <2>3, <2>4 DEF MayBecome, old
  <2>6. Rewrites(e, w, t, row)
    BY <1>1 DEF Rewrites
  <2> QED
    BY <1>1, <2>5, <2>6, TaskRewritten
<1>2. SameWorkCall(w, PW!PrepareDispatch(w, t), MW!PrepareDispatch(w, t))
  <2> DEFINE e == [w EXCEPT !.task[t] = [w.task[t] EXCEPT !.dispatches = @ + 1]]
             go == /\ t \in DOMAIN w.task /\ w.task[t].status \in {"queued", "retry"}
                   /\ w.task[t].due
  <2>1. go => PW!Open(w.task[t])
    BY TaskFields DEF TaskHeld, PW!Open
  <2>2. CASE go
    <3>1. PW!PrepareDispatch(w, t) = PW!Answer(e, t)
      BY <2>1, <2>2 DEF PW!PrepareDispatch
    <3>2. MW!PrepareDispatch(w, t) = MW!Answer(e, t)
      BY <2>2 DEF MW!PrepareDispatch, MW!Known
    <3>3. WorkHeld(e) /\ e.event = w.event
      BY <1>1, <2>2
    <3> QED
      BY <3>1, <3>2, <3>3, SameWorkAnswer
  <2>3. CASE ~go
    <3>1. PW!PrepareDispatch(w, t) = PW!Answer(w, Null)
      BY <2>3 DEF PW!PrepareDispatch
    <3>2. MW!PrepareDispatch(w, t) = MW!Answer(w, Null)
      BY <2>3 DEF MW!PrepareDispatch, MW!Known
    <3> QED
      BY <3>1, <3>2, SameWorkAnswer
  <2> QED
    BY <2>2, <2>3
<1>3. SameWorkCall(w, PW!RecordWorkflow(w, t), MW!RecordWorkflow(w, t))
  <2> DEFINE e == [w EXCEPT !.task[t] = [w.task[t] EXCEPT !.workflow = TRUE]]
  <2>1. CASE t \in DOMAIN w.task
    <3>1. PW!RecordWorkflow(w, t) = PW!Answer(e, t)
      BY <2>1 DEF PW!RecordWorkflow
    <3>2. MW!RecordWorkflow(w, t) = MW!Answer(e, t)
      BY <2>1 DEF MW!RecordWorkflow, MW!Known
    <3>3. WorkHeld(e) /\ e.event = w.event
      BY <1>1, <2>1
    <3> QED
      BY <3>1, <3>2, <3>3, SameWorkAnswer
  <2>2. CASE t \notin DOMAIN w.task
    <3>1. PW!RecordWorkflow(w, t) = PW!Answer(w, Null)
      BY <2>2 DEF PW!RecordWorkflow
    <3>2. MW!RecordWorkflow(w, t) = MW!Answer(w, Null)
      BY <2>2 DEF MW!RecordWorkflow, MW!Known
    <3> QED
      BY <3>1, <3>2, SameWorkAnswer
  <2> QED
    BY <2>1, <2>2
<1> QED
  BY <1>2, <1>3

\* claim_task, when its wait is over: the double does not look at the time.
LEMMA SameClaim ==
    ASSUME NEW w, WorkHeld(w), NEW t, t \in DOMAIN w.task => w.task[t].due
    PROVE  SameWorkCall(w, PW!ClaimTask(w, t), MW!ClaimTask(w, t))
<1> DEFINE old == w.task[t]
           token == w.minted + 1
           row == [old EXCEPT !.status = "running", !.token = token, !.expired = FALSE,
                              !.attempts = old.attempts + 1, !.due = TRUE]
           e == [w EXCEPT !.task = [w.task EXCEPT ![t] = row], !.minted = token]
           may == \/ old.status \in {"queued", "retry"}
                  \/ old.status = "running" /\ old.expired
<1>1. CASE t \in DOMAIN w.task /\ may
  <2>1. /\ old \in TaskRows /\ TaskHeld(old, w.cycle, Len(w.art)) /\ old.due
        /\ token \in Nat /\ w \in WorkTables
    BY <1>1, TaskFields, WorkRows
  <2>2. PW!Claimable(old)
    BY <1>1, <2>1 DEF PW!Claimable, PW!Open, TaskHeld
  <2>3. PW!ClaimTask(w, t) = PW!Answer(e, token)
    <3>1. [w EXCEPT !.minted = w.minted + 1,
                    !.task[t] = PW!Claimed(w.task[t], w.minted + 1)] = e
      BY <2>1 DEF WorkTables, PW!Claimed
    <3>2. PW!ClaimTask(w, t)
            = PW!Answer([w EXCEPT !.minted = w.minted + 1,
                                  !.task[t] = PW!Claimed(@, w.minted + 1)], token)
      BY <1>1, <2>2 DEF PW!ClaimTask
    <3> HIDE DEF e
    <3> QED
      BY <3>1, <3>2
  <2>4. MW!ClaimTask(w, t) = MW!Answer(e, token)
    <3>1. [w EXCEPT !.minted = @ + 1,
                    !.task[t] = [@ EXCEPT !.status = "running", !.token = w.minted + 1,
                                          !.expired = FALSE,
                                          !.attempts = w.task[t].attempts + 1, !.due = TRUE]] = e
      BY <2>1 DEF WorkTables
    <3> QED
      BY <1>1, <3>1 DEF MW!ClaimTask, MW!Known
  <2>5. Rewrites(e, w, t, row)
    BY <2>1 DEF Rewrites
  <2>6. token # Null
    BY <2>1, AgreementAssumption
  <2>7. old.status \in {"queued", "retry", "running"}
    BY <1>1
  <2> HIDE DEF e, token, old
  <2> DEFINE count == old.attempts + 1
             claimed == [old EXCEPT !.status = "running", !.token = token, !.expired = FALSE,
                                    !.attempts = count, !.due = TRUE]
  <2>8. row = claimed /\ count \in Nat
    BY <2>1 DEF TaskRows
  <2> HIDE DEF row, count
  <2>9. /\ row \in TaskRows /\ row.cycle = old.cycle /\ row.superseded = old.superseded
        /\ row.revision = old.revision /\ row.output = old.output
        /\ row.status = "running" /\ row.token = token /\ ~row.expired
        /\ row.due /\ row.cancelled = old.cancelled
    BY <2>1, <2>8 DEF TaskRows
  <2>10. Follows(old, row, w.cycle, Len(w.art)) /\ TaskHeld(row, w.cycle, Len(w.art))
    BY <2>1, <2>6, <2>7, <2>9 DEF Follows, TaskHeld
  <2>11. MayBecome(w, t, row)
    BY <2>9, <2>10 DEF MayBecome, old
  <2>12. WorkHeld(e) /\ e.event = w.event
    BY <1>1, <2>5, <2>11, TaskRewritten
  <2> QED
    BY <2>3, <2>4, <2>12, SameWorkAnswer
<1>2. CASE ~(t \in DOMAIN w.task /\ may)
  <2>1. PW!ClaimTask(w, t) = PW!Answer(w, Null)
    BY <1>2 DEF PW!ClaimTask, PW!Claimable
  <2>2. MW!ClaimTask(w, t) = MW!Answer(w, Null)
    BY <1>2 DEF MW!ClaimTask, MW!Known
  <2> QED
    BY <2>1, <2>2, SameWorkAnswer
<1> QED
  BY <1>1, <1>2

\* What a worker lets go of: the task is somebody else's next, or done.
LEMMA LetGo ==
    ASSUME NEW w, WorkHeld(w), NEW t \in DOMAIN w.task, w.task[t].status = "running",
           NEW status \in {"queued", "retry", "failed", "completed"}, NEW due \in BOOLEAN,
           status # "retry" => due,
           NEW row, row = PW!Released(w.task[t], status, due)
    PROVE  /\ row \in TaskRows /\ TaskHeld(row, w.cycle, Len(w.art))
           /\ row.cycle = w.task[t].cycle /\ row.superseded = w.task[t].superseded
           /\ row.revision = w.task[t].revision /\ row.output = w.task[t].output
<1> DEFINE old == w.task[t]
<1>1. old \in TaskRows /\ TaskHeld(old, w.cycle, Len(w.art)) /\ old.status = "running"
  BY TaskFields
<1>2. row = [old EXCEPT !.status = status, !.due = due, !.token = Null, !.expired = FALSE]
  BY DEF PW!Released
<1> HIDE DEF old
<1>3. /\ row \in TaskRows /\ row.cycle = old.cycle /\ row.superseded = old.superseded
      /\ row.revision = old.revision /\ row.output = old.output
      /\ row.status = status /\ row.token = Null /\ ~row.expired
      /\ row.due = due /\ row.cancelled = old.cancelled
  BY <1>1, <1>2 DEF TaskRows
<1>4. TaskHeld(row, w.cycle, Len(w.art))
  BY <1>1, <1>3 DEF TaskHeld
<1> QED
  BY <1>3, <1>4 DEF old

\* fail_task and complete_task: the worker that holds the task, and no other.
LEMMA SameFail ==
    ASSUME NEW w, WorkHeld(w), NEW t, NEW token, NEW retryable \in BOOLEAN
    PROVE  SameWorkCall(w, PW!FailTask(w, t, token, retryable),
                           MW!FailTask(w, t, token, retryable))
<1> DEFINE old == w.task[t]
           status == IF retryable THEN "retry" ELSE "failed"
           due == ~retryable
           row == PW!Released(old, status, due)
           e == [w EXCEPT !.task[t] = row]
           holds == t \in DOMAIN w.task /\ old.status = "running" /\ old.token = token
<1>1. CASE holds
  <2>1. status \in {"queued", "retry", "failed", "completed"} /\ due \in BOOLEAN
        /\ (status # "retry" => due)
    OBVIOUS
  <2>2. PW!FailTask(w, t, token, retryable) = PW!Answer(e, t)
    BY <1>1 DEF PW!FailTask
  <2>3. MW!FailTask(w, t, token, retryable) = MW!Answer(e, t)
    <3>1. [old EXCEPT !.status = status, !.due = due, !.token = Null, !.expired = FALSE] = row
      BY DEF PW!Released
    <3>2. MW!FailTask(w, t, token, retryable)
            = MW!Answer([w EXCEPT !.task[t] = [old EXCEPT !.status = status, !.due = due,
                                                 !.token = Null, !.expired = FALSE]], t)
      BY <1>1 DEF MW!FailTask, MW!Known
    <3> HIDE DEF row, old, status, due
    <3> QED
      BY <3>1, <3>2
  <2>4. e = [w EXCEPT !.task = [w.task EXCEPT ![t] = row]]
    OBVIOUS
  <2> HIDE DEF status, due, row
  <2>5. /\ row \in TaskRows /\ TaskHeld(row, w.cycle, Len(w.art))
        /\ row.cycle = w.task[t].cycle /\ row.superseded = w.task[t].superseded
        /\ row.revision = w.task[t].revision /\ row.output = w.task[t].output
    BY <1>1, <2>1, LetGo DEF row
  <2>6. MayBecome(w, t, row)
    BY <2>5 DEF MayBecome, Follows
  <2> HIDE DEF e
  <2>7. Rewrites(e, w, t, row)
    BY <2>4 DEF Rewrites
  <2>8. WorkHeld(e) /\ e.event = w.event
    BY <1>1, <2>6, <2>7, TaskRewritten
  <2> QED
    BY <2>2, <2>3, <2>8, SameWorkAnswer
<1>2. CASE ~holds
  <2>1. PW!FailTask(w, t, token, retryable) = PW!Refused(w)
    BY <1>2 DEF PW!FailTask
  <2>2. MW!FailTask(w, t, token, retryable) = MW!Refused(w)
    BY <1>2 DEF MW!FailTask, MW!Known
  <2> QED
    BY <2>1, <2>2, SameWorkRefusal
<1> QED
  BY <1>1, <1>2

\* complete_task, of a task not completed yet: of one that is, the database stores what
\* the caller brings and the double does not.
LEMMA SameComplete ==
    ASSUME NEW w, WorkHeld(w), NEW t, NEW token, NEW output,
           output = IF w.art = <<>> THEN Null ELSE Len(w.art),
           t \in DOMAIN w.task => w.task[t].status # "completed"
    PROVE  SameWorkCall(w, PW!CompleteTask(w, t, token, output),
                           MW!CompleteTask(w, t, token, output))
<1> DEFINE old == w.task[t]
           kept == IF output # Null THEN output ELSE old.output
           done == PW!Released(old, "completed", TRUE)
           row == [done EXCEPT !.output = kept]
           e == [w EXCEPT !.task[t] = row]
           holds == t \in DOMAIN w.task /\ old.status = "running" /\ old.token = token
<1>1. CASE holds
  <2>1. old \in TaskRows /\ TaskHeld(old, w.cycle, Len(w.art))
    BY <1>1, TaskFields
  <2>2. /\ Len(w.art) \in Nat /\ (w.art = <<>> <=> Len(w.art) = 0)
        /\ Len(w.art) # Null
    <3>1. w.art \in Seq(ArtRow)
      BY WorkRows
    <3> QED
      BY <3>1, RowsOf, EmptySeq, AgreementAssumption
  <2>3. /\ output = kept /\ kept \in Nat \cup {Null}
        /\ kept = IF Len(w.art) = 0 THEN Null ELSE Len(w.art)
        /\ kept # Null => kept \in 1..Len(w.art)
    <3>1. Len(w.art) = 0 => old.output = Null
      BY <2>1, <2>2 DEF TaskHeld, TaskRows
    <3> HIDE DEF old
    <3> QED
      BY <2>2, <3>1
  <2>4. PW!CompleteTask(w, t, token, output) = PW!Answer(e, t)
    BY <1>1 DEF PW!CompleteTask
  <2>5. MW!CompleteTask(w, t, token, output) = MW!Answer(e, t)
    <3>1. MW!CompleteTask(w, t, token, output)
            = MW!Answer([w EXCEPT !.task[t] = [old EXCEPT !.status = "completed",
                                                 !.output = output, !.token = Null,
                                                 !.expired = FALSE]], t)
      BY <1>1 DEF MW!CompleteTask, MW!Known
    <3>2. done = [old EXCEPT !.status = "completed", !.due = TRUE, !.token = Null,
                             !.expired = FALSE]
      BY DEF PW!Released
    <3>3. old.due = TRUE
      BY <1>1, <2>1 DEF TaskHeld, TaskRows
    <3> HIDE DEF old, done, kept
    <3>4. [old EXCEPT !.status = "completed", !.output = output, !.token = Null,
                      !.expired = FALSE] = row
      BY <2>1, <2>3, <3>2, <3>3 DEF TaskRows
    <3> HIDE DEF row
    <3> QED
      BY <3>1, <3>4
  <2>6. e = [w EXCEPT !.task = [w.task EXCEPT ![t] = row]]
    OBVIOUS
  <2>7. /\ done \in TaskRows /\ TaskHeld(done, w.cycle, Len(w.art))
        /\ done.cycle = old.cycle /\ done.superseded = old.superseded
        /\ done.revision = old.revision /\ done.output = old.output
    <3> DEFINE status == "completed"
               due == TRUE
    <3>1. status \in {"queued", "retry", "failed", "completed"} /\ due \in BOOLEAN
         /\ (status # "retry" => due)
      OBVIOUS
    <3>2. done = PW!Released(w.task[t], status, due)
      OBVIOUS
    <3> HIDE DEF status, due, done
    <3> QED
      BY <1>1, <3>1, <3>2, LetGo
  <2>8. done.cycle = w.cycle
    BY <1>1, <2>1, <2>7 DEF TaskHeld
  <2> HIDE DEF done, old, kept
  <2>9. /\ row \in TaskRows /\ row.cycle = done.cycle /\ row.superseded = done.superseded
        /\ row.revision = done.revision /\ row.output = kept
        /\ row.status = done.status /\ row.token = done.token /\ row.expired = done.expired
        /\ row.due = done.due /\ row.cancelled = done.cancelled
    BY <2>3, <2>7 DEF TaskRows
  <2> HIDE DEF row
  <2>10. TaskHeld(row, w.cycle, Len(w.art))
    BY <2>3, <2>7, <2>9 DEF TaskHeld
  <2>11. Follows(old, row, w.cycle, Len(w.art))
    BY <2>3, <2>7, <2>8, <2>9 DEF Follows
  <2>12. MayBecome(w, t, row)
    BY <2>9, <2>10, <2>11 DEF MayBecome, old
  <2> HIDE DEF e
  <2>13. Rewrites(e, w, t, row)
    BY <2>6 DEF Rewrites
  <2>14. WorkHeld(e) /\ e.event = w.event
    BY <1>1, <2>12, <2>13, TaskRewritten
  <2> QED
    BY <2>4, <2>5, <2>14, SameWorkAnswer
<1>2. CASE ~holds
  <2>1. PW!CompleteTask(w, t, token, output) = PW!Refused(w)
    BY <1>2 DEF PW!CompleteTask
  <2>2. MW!CompleteTask(w, t, token, output) = MW!Refused(w)
    BY <1>2 DEF MW!CompleteTask, MW!Known
  <2> QED
    BY <2>1, <2>2, SameWorkRefusal
<1> QED
  BY <1>1, <1>2

\* The leases that have expired are put back or given up, in both.
LEMMA SameRecovery ==
    ASSUME NEW w, WorkHeld(w)
    PROVE  SameWorkCall(w, PW!RecoverStale(w, 2), MW!RecoverStale(w, 2))
<1> DEFINE stale == {t \in DOMAIN w.task : PW!Stale(w.task[t])}
           after(t) == IF w.task[t].attempts < 2 THEN "retry" ELSE "failed"
           free(t) == PW!Released(w.task[t], after(t), TRUE)
           rows == [t \in DOMAIN w.task |-> IF t \in stale THEN free(t) ELSE w.task[t]]
           e == [w EXCEPT !.task = rows]
<1>1. w.task \in Seq(TaskRows) /\ w \in WorkTables /\ w.minted \in Nat
  BY WorkRows
<1>2. PW!RecoverStale(w, 2) = PW!Answer(e, Cardinality(stale))
  <2>1. [t \in DOMAIN w.task |->
            IF PW!Stale(w.task[t]) THEN free(t) ELSE w.task[t]] = rows
    OBVIOUS
  <2>2. PW!RecoverStale(w, 2)
          = PW!Answer([w EXCEPT !.task = [t \in DOMAIN w.task |->
                          IF PW!Stale(w.task[t]) THEN free(t) ELSE w.task[t]]],
                      PW!Cardinality(stale))
    BY DEF PW!RecoverStale
  <2> HIDE DEF rows, stale, free
  <2> QED
    BY <2>1, <2>2, SameLists3
<1>3. MW!RecoverStale(w, 2) = MW!Answer(e, Cardinality(stale))
  <2> DEFINE expired == {t \in DOMAIN w.task : /\ w.task[t].status = "running"
                                               /\ ~w.task[t].superseded
                                               /\ ~w.task[t].cancelled
                                               /\ w.task[t].expired}
             put(t) == [w.task[t] EXCEPT !.status = after(t), !.due = TRUE,
                                         !.token = Null, !.expired = FALSE]
  <2>1. expired = stale
    <3>1. \A t \in DOMAIN w.task : w.task[t].status = "running" => w.task[t].token # Null
      BY TaskFields DEF TaskHeld
    <3> QED
      BY <3>1 DEF PW!Stale, PW!Open
  <2>2. \A t : put(t) = free(t)
    BY DEF PW!Released
  <2>3. MW!RecoverStale(w, 2)
          = MW!Answer([w EXCEPT !.task = [t \in DOMAIN w.task |->
                          IF t \notin expired THEN w.task[t] ELSE put(t)]],
                      MW!Cardinality(expired))
    BY DEF MW!RecoverStale
  <2> HIDE DEF expired, stale, put, free
  <2>4. [t \in DOMAIN w.task |-> IF t \notin expired THEN w.task[t] ELSE put(t)] = rows
    BY <2>1, <2>2
  <2> HIDE DEF rows
  <2> QED
    BY <2>1, <2>3, <2>4, SameLists3
<1>4. ASSUME NEW t \in DOMAIN w.task
      PROVE  /\ rows[t] \in TaskRows
             /\ TaskHeld(rows[t], w.cycle, Len(w.art))
             /\ Follows(w.task[t], rows[t], w.cycle, Len(w.art))
  <2>1. CASE t \in stale
    <3>1. w.task[t].status = "running" /\ rows[t] = free(t)
      BY <2>1 DEF PW!Stale
    <3> DEFINE row == free(t)
               status == after(t)
               due == TRUE
    <3>2. status \in {"queued", "retry", "failed", "completed"} /\ due \in BOOLEAN
         /\ (status # "retry" => due)
      OBVIOUS
    <3>3. row = PW!Released(w.task[t], status, due) /\ rows[t] = row
      BY <3>1
    <3> HIDE DEF rows, stale, status, due, row
    <3>4. /\ row \in TaskRows /\ TaskHeld(row, w.cycle, Len(w.art))
          /\ row.cycle = w.task[t].cycle /\ row.superseded = w.task[t].superseded
          /\ row.revision = w.task[t].revision /\ row.output = w.task[t].output
      BY <3>1, <3>2, <3>3, LetGo
    <3> QED
      BY <3>3, <3>4 DEF Follows
  <2>2. CASE t \notin stale
    <3>1. rows[t] = w.task[t]
      BY <2>2
    <3> HIDE DEF rows, stale
    <3> QED
      BY <3>1, TaskFields DEF Follows
  <2> QED
    BY <2>1, <2>2
<1>5. DOMAIN rows = DOMAIN w.task
  OBVIOUS
<1> HIDE DEF rows
<1>6. rows \in Seq(TaskRows)
  <2>1. DOMAIN w.task = 1..Len(w.task) /\ Len(w.task) \in Nat
    BY <1>1, RowsOf
  <2>2. rows \in [1..Len(w.task) -> TaskRows]
    <3>1. rows = [t \in DOMAIN w.task |-> rows[t]]
      BY DEF rows
    <3> QED
      BY <1>4, <2>1, <3>1
  <2> QED
    BY <2>1, <2>2, SeqOfMap
<1>7. WorkHeld(e)
  BY <1>1, <1>4, <1>5, <1>6, TasksRewritten
<1>8. e.event = w.event
  BY <1>1 DEF WorkTables
<1> HIDE DEF e
<1> QED
  BY <1>2, <1>3, <1>7, <1>8, SameWorkAnswer

\* create_task: one for each approval, found again by its cycle.
LEMMA SameCreateTask ==
    ASSUME NEW w, WorkHeld(w), NEW b
    PROVE  SameWorkCall(w, PW!CreateTask(w, b), MW!CreateTask(w, b))
<1> DEFINE S == {t \in DOMAIN w.task : w.task[t].cycle = w.cycle}
           existing == MW!Next1(InOrder(S))
           row == PW!TaskRow(w.cycle)
           rows == Append(w.task, row)
           e == [w EXCEPT !.task = rows]
           size == Len(w.task)
           barred == b # Own \/ w.status # "accepted"
<1>1. /\ w.task \in Seq(TaskRows) /\ w.art \in Seq(ArtRow) /\ w.exec \in Seq(ExecRow)
      /\ w \in WorkTables /\ w.cycle \in Nat /\ size \in Nat
      /\ DOMAIN w.task = 1..size
  BY WorkRows, RowsOf
<1>2. /\ TasksHeld(w.task, w.cycle, Len(w.art)) /\ DraftsHeld(w.art, w.task, w.cycle)
      /\ ToolsHeld(w.exec, w.task)
  BY DEF WorkHeld
<1>3. S \subseteq DOMAIN w.task /\ \A t, u \in S : t = u
  BY <1>2 DEF TasksHeld
<1>4. MW!Next1(MW!Matching(w.task, LAMBDA r : r.cycle = w.cycle)) = existing
  BY SameLists3 DEF MW!Matching
<1>5. MW!CreateTask(w, b)
        = IF barred THEN MW!Refused(w)
          ELSE IF existing # Null THEN MW!Answer(w, <<existing, FALSE>>)
          ELSE MW!Answer(e, <<size + 1, TRUE>>)
  BY <1>4 DEF MW!CreateTask, PW!TaskRow
<1>6. PW!CreateTask(w, b)
        = IF barred THEN PW!Refused(w)
          ELSE IF S # {} THEN PW!Answer(w, <<CHOOSE t \in S : TRUE, FALSE>>)
          ELSE PW!Answer(e, <<size + 1, TRUE>>)
  BY DEF PW!CreateTask
<1>7. row = [cycle |-> w.cycle, status |-> "queued", attempts |-> 0, dispatches |-> 0,
             token |-> Null, expired |-> FALSE, due |-> TRUE, superseded |-> FALSE,
             cancelled |-> FALSE, output |-> Null, revision |-> 1, workflow |-> FALSE]
  BY DEF PW!TaskRow
<1>8. row \in TaskRows /\ TaskHeld(row, w.cycle, Len(w.art)) /\ row.cycle = w.cycle
  <2> HIDE DEF row
  <2>1. row \in TaskRows
    BY <1>1, <1>7 DEF TaskRows
  <2> QED
    BY <1>1, <1>7, <2>1 DEF TaskHeld
<1>9. \A t \in DOMAIN w.task : t \notin S => w.task[t].cycle # w.cycle
  OBVIOUS
<1> HIDE DEF S, row, barred
<1>10. /\ existing = Null <=> S = {}
       /\ S # {} => existing = CHOOSE t \in S : TRUE
  BY <1>1, <1>3, OnlyHit
<1>11. IsAppend(TaskRows, w.task, row, rows)
  BY <1>1, <1>8, Appended
<1> HIDE DEF rows, existing
<1>12. /\ rows \in Seq(TaskRows) /\ DOMAIN rows = 1..(size + 1) /\ rows[size + 1] = row
       /\ \A t \in DOMAIN w.task : rows[t] = w.task[t]
  BY <1>1, <1>11 DEF IsAppend
<1> HIDE DEF size
<1>13. /\ DOMAIN w.task \subseteq DOMAIN rows
       /\ \A t \in DOMAIN rows : t \in DOMAIN w.task \/ t = size + 1
       /\ size + 1 \notin DOMAIN w.task
  BY <1>1, <1>12
<1>14. ASSUME S = {}
       PROVE  WorkHeld(e) /\ e.event = w.event
  <2>1. TasksHeld(rows, w.cycle, Len(w.art))
    <3>1. \A t \in DOMAIN rows : TaskHeld(rows[t], w.cycle, Len(w.art))
      BY <1>2, <1>8, <1>12, <1>13 DEF TasksHeld
    <3>2. \A t \in DOMAIN w.task : w.task[t].cycle # w.cycle
      BY <1>9, <1>14
    <3>3. ASSUME NEW t \in DOMAIN rows, NEW u \in DOMAIN rows, rows[t].cycle = rows[u].cycle
          PROVE  t = u
      <4>1. CASE t \in DOMAIN w.task /\ u \in DOMAIN w.task
        BY <1>2, <1>12, <3>3, <4>1 DEF TasksHeld
      <4>2. CASE t = size + 1 \/ u = size + 1
        BY <1>8, <1>12, <1>13, <3>2, <3>3, <4>2
      <4> QED
        BY <1>13, <4>1, <4>2
    <3> QED
      BY <3>1, <3>3 DEF TasksHeld
  <2>2. DraftsHeld(w.art, rows, w.cycle)
    <3>1. ASSUME NEW a \in DOMAIN w.art, NEW t \in DOMAIN rows,
                 w.art[a].key = <<t, rows[t].revision>>
          PROVE  t \in DOMAIN w.task
      BY <1>2, <3>1 DEF DraftsHeld
    <3> QED
      BY <1>2, <1>12, <1>13, <3>1 DEF DraftsHeld
  <2>3. ToolsHeld(w.exec, rows)
    BY <1>2, <1>12, <1>13 DEF ToolsHeld
  <2>4. /\ e \in WorkTables /\ e.task = rows /\ e.status = w.status /\ e.event = w.event
        /\ e.cycle = w.cycle /\ e.art = w.art /\ e.exec = w.exec /\ e.mail = w.mail
        /\ e.ledger = w.ledger /\ e.outcome = w.outcome /\ e.tick = w.tick
    BY <1>1, <1>12 DEF WorkTables
  <2> HIDE DEF e
  <2> QED
    BY <2>1, <2>2, <2>3, <2>4 DEF WorkHeld
<1> HIDE DEF e
<1>15. CASE barred
  BY <1>5, <1>6, <1>15, SameWorkRefusal
<1>16. CASE ~barred /\ S # {}
  <2> DEFINE answer == <<existing, FALSE>>
  <2>1. PW!CreateTask(w, b) = PW!Answer(w, answer) /\ MW!CreateTask(w, b) = MW!Answer(w, answer)
    BY <1>5, <1>6, <1>10, <1>16
  <2> QED
    BY <2>1, SameWorkAnswer
<1>17. CASE ~barred /\ S = {}
  <2> DEFINE answer == <<size + 1, TRUE>>
  <2>1. PW!CreateTask(w, b) = PW!Answer(e, answer) /\ MW!CreateTask(w, b) = MW!Answer(e, answer)
    BY <1>5, <1>6, <1>10, <1>17
  <2> QED
    BY <1>14, <1>17, <2>1, SameWorkAnswer
<1> QED
  BY <1>15, <1>16, <1>17

\* The task handed in, put back in the queue for a revision.
LEMMA SameRequestRevision ==
    ASSUME NEW w, WorkHeld(w), NEW b
    PROVE  SameWorkCall(w, PW!RequestRevision(w, b), MW!RequestRevision(w, b))
<1> DEFINE S == {t \in DOMAIN w.task : /\ w.task[t].cycle = w.cycle
                                       /\ w.task[t].status = "completed"
                                       /\ ~w.task[t].superseded
                                       /\ w.task[t].output # Null}
           list == InOrder(S)
           t == CHOOSE u \in S : TRUE
           old == w.task[t]
           free == PW!Released(old, "queued", TRUE)
           row == [free EXCEPT !.attempts = 0, !.workflow = FALSE, !.revision = @ + 1]
           e == [w EXCEPT !.task[t] = row]
           barred == b # Own \/ w.status # "accepted"
<1>1. w.task \in Seq(TaskRows) /\ w \in WorkTables
  BY WorkRows
<1>2. S \subseteq DOMAIN w.task /\ \A u, v \in S : u = v
  BY DEF WorkHeld, TasksHeld
<1>3. PW!RequestRevision(w, b)
        = IF barred \/ S = {} THEN PW!Refused(w)
          ELSE LET u  == CHOOSE u \in S : \A v \in S : v <= u
                   fr == PW!Released(w.task[u], "queued", TRUE)
               IN PW!Answer([w EXCEPT !.task[u] = [fr EXCEPT !.attempts = 0,
                                        !.workflow = FALSE, !.revision = @ + 1]], u)
  BY DEF PW!RequestRevision
<1>4. MW!RequestRevision(w, b)
        = IF barred \/ Len(list) = 0 THEN MW!Refused(w)
          ELSE LET u == list[Len(list)] IN
               MW!Answer([w EXCEPT !.task[u] =
                  [w.task[u] EXCEPT !.status = "queued", !.attempts = 0, !.due = TRUE,
                                    !.expired = FALSE, !.token = Null, !.workflow = FALSE,
                                    !.revision = w.task[u].revision + 1]], u)
  <2> DEFINE T == {u \in DOMAIN w.task : /\ w.task[u].cycle = w.cycle /\ ~w.task[u].superseded
                                         /\ w.task[u].status = "completed"
                                         /\ w.task[u].output # Null}
  <2>1. MW!RequestRevision(w, b)
          = IF barred \/ Len(MW!InOrder(T)) = 0 THEN MW!Refused(w)
            ELSE LET u == MW!InOrder(T)[Len(MW!InOrder(T))] IN
                 MW!Answer([w EXCEPT !.task[u] =
                    [w.task[u] EXCEPT !.status = "queued", !.attempts = 0, !.due = TRUE,
                                      !.expired = FALSE, !.token = Null, !.workflow = FALSE,
                                      !.revision = w.task[u].revision + 1]], u)
    BY DEF MW!RequestRevision, MW!Matching
  <2>2. T = S
    OBVIOUS
  <2> HIDE DEF T, S
  <2>3. MW!InOrder(T) = list
    BY <2>2, SameLists3
  <2> HIDE DEF list
  <2> QED
    BY <2>1, <2>3
<1>5. S \in SUBSET Nat /\ IsFiniteSet(S)
  BY <1>1, Hits
<1>6. \A u \in S : /\ w.task[u].status = "completed" /\ w.task[u].cycle = w.cycle
                   /\ ~w.task[u].superseded
  OBVIOUS
<1> HIDE DEF S, barred
<1>7. /\ Len(list) = 0 <=> S = {}
      /\ S # {} => list[Len(list)] \in S
  BY <1>5, Ends
<1>8. ASSUME S # {}
      PROVE  t \in S /\ list[Len(list)] = t /\ (CHOOSE u \in S : \A v \in S : v <= u) = t
  <2>1. t \in S
    BY <1>8
  <2>2. list[Len(list)] = t
    BY <1>2, <1>7, <1>8, <2>1
  <2>3. t \in Nat
    BY <1>5, <2>1
  <2> HIDE DEF t
  <2>4. \A v \in S : v <= t
    BY <1>2, <2>1, <2>3
  <2>5. (CHOOSE u \in S : \A v \in S : v <= u) \in S
    BY <2>1, <2>4
  <2> QED
    BY <1>2, <2>1, <2>2, <2>5
<1> HIDE DEF list, t
<1>9. CASE ~barred /\ S # {}
  <2>1. t \in DOMAIN w.task /\ old.status = "completed" /\ t \in S /\ old.cycle = w.cycle
    BY <1>2, <1>6, <1>8, <1>9
  <2>2. old \in TaskRows /\ TaskHeld(old, w.cycle, Len(w.art))
    BY <2>1, TaskFields
  <2>3. PW!RequestRevision(w, b) = PW!Answer(e, t)
    BY <1>3, <1>8, <1>9
  <2>4. free = [old EXCEPT !.status = "queued", !.due = TRUE, !.token = Null,
                           !.expired = FALSE]
    BY DEF PW!Released
  <2>5. MW!RequestRevision(w, b)
          = MW!Answer([w EXCEPT !.task[t] =
                [old EXCEPT !.status = "queued", !.attempts = 0, !.due = TRUE,
                            !.expired = FALSE, !.token = Null, !.workflow = FALSE,
                            !.revision = old.revision + 1]], t)
    BY <1>4, <1>7, <1>8, <1>9
  <2>6. e = [w EXCEPT !.task = [w.task EXCEPT ![t] = row]]
    OBVIOUS
  <2> HIDE DEF free, old
  <2>7. /\ free \in TaskRows /\ free.revision = old.revision
        /\ row = [free EXCEPT !.attempts = 0, !.workflow = FALSE,
                              !.revision = old.revision + 1]
    BY <2>2, <2>4 DEF TaskRows
  <2>8. [old EXCEPT !.status = "queued", !.attempts = 0, !.due = TRUE,
                    !.expired = FALSE, !.token = Null, !.workflow = FALSE,
                    !.revision = old.revision + 1] = row
    BY <2>2, <2>4, <2>7 DEF TaskRows
  <2> DEFINE next == old.revision + 1
  <2>9. next \in Nat /\ row = [free EXCEPT !.attempts = 0, !.workflow = FALSE, !.revision = next]
    BY <2>2, <2>7 DEF TaskRows
  <2>10. row.revision = old.revision + 1
    BY <2>7 DEF TaskRows
  <2> HIDE DEF row, next
  <2>11. MW!RequestRevision(w, b) = MW!Answer(e, t)
    BY <2>5, <2>8
  <2>12. /\ free.status = "queued" /\ free.due = TRUE /\ free.token = Null
         /\ free.expired = FALSE /\ free.superseded = old.superseded
         /\ free.cycle = old.cycle /\ free.output = old.output
         /\ free.cancelled = old.cancelled
    BY <2>2, <2>4 DEF TaskRows
  <2>13. /\ row \in TaskRows /\ row.cycle = old.cycle /\ row.superseded = old.superseded
         /\ row.status = "queued" /\ row.due = TRUE /\ row.token = Null
         /\ row.expired = FALSE /\ row.output = old.output
         /\ row.cancelled = old.cancelled
    <3>1. free \in TaskRows
      BY <2>7
    <3>2. /\ row \in TaskRows /\ row.cycle = free.cycle /\ row.superseded = free.superseded
          /\ row.status = free.status /\ row.due = free.due /\ row.token = free.token
          /\ row.expired = free.expired /\ row.output = free.output
          /\ row.cancelled = free.cancelled
      BY <2>9, <3>1 DEF TaskRows
    <3> QED
      BY <2>12, <3>2
  <2>14. w.status = "accepted" /\ ~old.superseded
    BY <1>6, <1>9, <2>1 DEF barred, old
  <2>15. TaskHeld(row, w.cycle, Len(w.art))
    BY <2>2, <2>13, <2>14 DEF TaskHeld
  <2>16. Follows(old, row, w.cycle, Len(w.art))
    BY <2>10, <2>13 DEF Follows
  <2>17. MayBecome(w, t, row)
    BY <2>13, <2>15, <2>16 DEF MayBecome, old
  <2> HIDE DEF e
  <2>18. Rewrites(e, w, t, row)
    BY <2>6 DEF Rewrites
  <2>19. WorkHeld(e) /\ e.event = w.event
    BY <2>1, <2>17, <2>18, TaskRewritten
  <2> QED
    BY <2>3, <2>11, <2>19, SameWorkAnswer
<1>10. CASE barred \/ S = {}
  BY <1>3, <1>4, <1>7, <1>10, SameWorkRefusal
<1> QED
  BY <1>9, <1>10

\* reconsider_find: a task taken back, whichever way it is.
LEMMA ClosedRow ==
    ASSUME NEW w, WorkHeld(w), NEW t \in DOMAIN w.task, NEW row, row = PW!Superseded(w.task[t])
    PROVE  /\ row = IF w.task[t].superseded THEN w.task[t] ELSE MW!Closed(w.task[t])
           /\ row \in TaskRows /\ TaskHeld(row, w.cycle + 1, Len(w.art))
           /\ row.superseded /\ row.cycle = w.task[t].cycle /\ row.cycle <= w.cycle
           /\ row.revision = w.task[t].revision /\ row.output = w.task[t].output
<1> DEFINE old == w.task[t]
           open == old.status \in PW!Active
<1>1. /\ old \in TaskRows /\ TaskHeld(old, w.cycle, Len(w.art))
      /\ w.cycle \in Nat
  BY TaskFields, WorkRows
<1>2. row = IF old.superseded THEN old
            ELSE [old EXCEPT !.status = IF open THEN "cancelled" ELSE old.status,
                             !.cancelled = old.cancelled \/ open, !.superseded = TRUE,
                             !.token = Null, !.expired = FALSE, !.due = TRUE]
  BY DEF PW!Superseded
<1>3. MW!Closed(old)
        = IF open THEN [old EXCEPT !.superseded = TRUE, !.status = "cancelled",
                                   !.cancelled = TRUE, !.token = Null, !.expired = FALSE,
                                   !.due = TRUE]
          ELSE [old EXCEPT !.superseded = TRUE]
  BY DEF MW!Closed, PW!Active
<1>4. open <=> old.status \in {"queued", "retry", "running"}
  <2>1. old.status \in {"queued", "retry", "running", "completed", "failed", "cancelled"}
    BY <1>1 DEF TaskRows
  <2> HIDE DEF old
  <2> QED
    BY <2>1 DEF PW!Active
<1> SUFFICES /\ row = IF old.superseded THEN old ELSE MW!Closed(old)
             /\ row \in TaskRows /\ TaskHeld(row, w.cycle + 1, Len(w.art))
             /\ row.superseded /\ row.cycle = old.cycle /\ row.cycle <= w.cycle
             /\ row.revision = old.revision /\ row.output = old.output
  OBVIOUS
<1> HIDE DEF old, open
<1>5. old.cycle \in Nat /\ old.cycle <= w.cycle + 1 /\ old.cycle <= w.cycle
  BY <1>1 DEF TaskRows, TaskHeld
<1>6. CASE old.superseded
  <2>1. row = old
    BY <1>2, <1>6
  <2> QED
    BY <1>1, <1>5, <1>6, <2>1 DEF TaskHeld
<1>7. CASE ~old.superseded /\ open
  <2>1. row = [old EXCEPT !.status = "cancelled", !.cancelled = TRUE, !.superseded = TRUE,
                          !.token = Null, !.expired = FALSE, !.due = TRUE]
    BY <1>2, <1>7
  <2>2. row = MW!Closed(old)
    BY <1>3, <1>7, <2>1
  <2>3. /\ row \in TaskRows /\ row.status = "cancelled" /\ row.cancelled = TRUE
        /\ row.superseded = TRUE /\ row.token = Null /\ row.expired = FALSE /\ row.due = TRUE
        /\ row.cycle = old.cycle /\ row.revision = old.revision /\ row.output = old.output
    BY <1>1, <2>1 DEF TaskRows
  <2>4. TaskHeld(row, w.cycle + 1, Len(w.art))
    BY <1>1, <1>5, <2>3 DEF TaskHeld
  <2> QED
    BY <1>5, <1>7, <2>2, <2>3, <2>4
<1>8. CASE ~old.superseded /\ ~open
  <2>1. old.token = Null /\ old.expired = FALSE /\ old.due = TRUE
    BY <1>1, <1>4, <1>8 DEF TaskHeld, TaskRows
  <2>2. row = [old EXCEPT !.superseded = TRUE]
    <3>1. row = [old EXCEPT !.status = old.status, !.cancelled = old.cancelled,
                            !.superseded = TRUE, !.token = Null, !.expired = FALSE, !.due = TRUE]
      <4>1. old.cancelled \/ open <=> old.cancelled
        BY <1>8
      <4>2. (old.cancelled \/ open) = old.cancelled
        BY <1>1, <1>8 DEF TaskRows
      <4> QED
        BY <1>2, <1>8, <4>2
    <3> QED
      BY <1>1, <2>1, <3>1, ZenonT(30) DEF TaskRows
  <2>3. row = MW!Closed(old)
    BY <1>3, <1>8, <2>2
  <2>4. /\ row \in TaskRows /\ row.superseded = TRUE /\ row.status = old.status
        /\ row.cancelled = old.cancelled /\ row.token = old.token /\ row.due = old.due
        /\ row.expired = old.expired
        /\ row.cycle = old.cycle /\ row.revision = old.revision /\ row.output = old.output
    BY <1>1, <2>2 DEF TaskRows
  <2>5. TaskHeld(row, w.cycle + 1, Len(w.art))
    BY <1>1, <1>4, <1>5, <1>8, <2>4 DEF TaskHeld
  <2> QED
    BY <1>5, <1>8, <2>3, <2>4, <2>5
<1> QED
  BY <1>6, <1>7, <1>8

\* What the double is about to close, and what it finds done for it.
LEMMA SameClosing ==
    ASSUME NEW w, WorkHeld(w)
    PROVE  /\ ToSet(MW!TasksToClose(w)) = {t \in DOMAIN w.task : ~w.task[t].superseded}
           /\ MW!Irreversible(w) <=> PW!Published(w)
<1> DEFINE S == {t \in DOMAIN w.task : w.task[t].cycle <= w.cycle /\ ~w.task[t].superseded}
           list == InOrder(S)
           size == Cardinality(S)
<1>1. MW!TasksToClose(w) = list
  BY SameLists3 DEF MW!TasksToClose, MW!Matching
<1>2. w.task \in Seq(TaskRows) /\ w.exec \in Seq(ExecRow)
  BY WorkRows
<1>3. S \in SUBSET Nat /\ IsFiniteSet(S)
  BY <1>2, Hits
<1>4. S = {t \in DOMAIN w.task : ~w.task[t].superseded}
  <2>1. \A t \in DOMAIN w.task : w.task[t].cycle <= w.cycle
    BY TaskFields DEF TaskHeld
  <2> QED
    BY <2>1
<1> HIDE DEF S
<1>5. ToSet(list) = S
  <2>1. Increasing(list, S)
    BY <1>3, InOrderIncreases
  <2> HIDE DEF list
  <2>2. list \in [1..size -> S] /\ \A i \in S : \E k \in 1..size : list[k] = i
    BY <2>1 DEF Increasing
  <2> QED
    BY <2>2 DEF ToSet
<1>6. MW!Irreversible(w)
        <=> \E x \in DOMAIN w.exec : /\ w.exec[x].status \in {"running", "succeeded"}
                                     /\ w.exec[x].tool # "ses.send_review_email"
                                     /\ \E t \in S : w.exec[x].task = t
  <2>1. MW!ToSet(MW!TasksToClose(w)) = S
    BY <1>1, <1>5, SameLists3
  <2> QED
    BY <2>1 DEF MW!Irreversible
<1>7. PW!Published(w)
        <=> \E x \in DOMAIN w.exec : /\ w.exec[x].tool # "ses.send_review_email"
                                     /\ w.exec[x].status \in {"running", "succeeded"}
  BY DEF PW!Published, PW!ReviewTool
<1>8. \A x \in DOMAIN w.exec :
         /\ w.exec[x].status \in {"running", "succeeded"}
         /\ w.exec[x].tool # "ses.send_review_email"
         => w.exec[x].task \in S
  <2>1. \A x \in DOMAIN w.exec : w.exec[x] \in ExecRow
    BY <1>2, RowsOf
  <2>2. \A x \in DOMAIN w.exec : w.exec[x].tool \in ToolNames
    BY <2>1 DEF ExecRow
  <2>3. ToolsHeld(w.exec, w.task)
    BY DEF WorkHeld
  <2> QED
    BY <1>4, <2>2, <2>3 DEF ToolsHeld, ToolNames
<1> HIDE DEF list
<1> QED
  BY <1>1, <1>4, <1>5, <1>6, <1>7, <1>8

\* Tasks and drafts taken back, under the cycle that follows.
LEMMA TakenBack ==
    ASSUME NEW w, WorkHeld(w), ~PW!Published(w), NEW cycle \in Nat, cycle = w.cycle + 1,
           NEW rows \in Seq(TaskRows), DOMAIN rows = DOMAIN w.task,
           NEW arts \in Seq(ArtRow), DOMAIN arts = DOMAIN w.art, Len(arts) = Len(w.art),
           \A t \in DOMAIN w.task :
              /\ TaskHeld(rows[t], cycle, Len(w.art))
              /\ rows[t].cycle = w.task[t].cycle /\ rows[t].cycle <= w.cycle
              /\ rows[t].revision = w.task[t].revision /\ rows[t].output = w.task[t].output,
           \A a \in DOMAIN w.art : /\ arts[a].superseded /\ arts[a].cycle = w.art[a].cycle
                                   /\ arts[a].key = w.art[a].key
    PROVE  /\ TasksHeld(rows, cycle, Len(arts)) /\ DraftsHeld(arts, rows, cycle)
           /\ ToolsHeld(w.exec, rows)
<1> DEFINE size == Len(w.art)
<1>1. /\ w.cycle \in Nat /\ size \in Nat /\ DOMAIN w.art = 1..size
      /\ \A t \in DOMAIN w.task : w.task[t] \in TaskRows
      /\ \A a \in DOMAIN w.art : w.art[a] \in ArtRow
  BY WorkRows, RowsOf
<1>2. /\ \A t, u \in DOMAIN w.task : w.task[t].cycle = w.task[u].cycle => t = u
      /\ ToolsHeld(w.exec, w.task)
  BY DEF WorkHeld, TasksHeld
<1>3. /\ \A a \in DOMAIN w.art : /\ w.art[a].cycle <= w.cycle
                                 /\ w.art[a].key[1] \in DOMAIN w.task
                                 /\ w.art[a].key[2] <= w.task[w.art[a].key[1]].revision
      /\ \A a, c \in DOMAIN w.art : w.art[a].key = w.art[c].key => a = c
  BY DEF WorkHeld, DraftsHeld
<1>4. TasksHeld(rows, cycle, Len(arts))
  <2>1. \A t, u \in DOMAIN rows : rows[t].cycle = rows[u].cycle => t = u
    BY <1>2
  <2>2. \A t \in DOMAIN rows : TaskHeld(rows[t], cycle, Len(arts))
    OBVIOUS
  <2> QED
    BY <2>1, <2>2 DEF TasksHeld
<1>5. /\ \A a \in DOMAIN w.art : w.art[a].cycle \in Nat
      /\ \A t \in DOMAIN w.task : w.task[t].cycle \in Nat
  BY <1>1 DEF ArtRow, TaskRows
<1>6. \A n \in Nat : n <= w.cycle => n <= cycle /\ n # cycle
  BY <1>1
<1>7. \A a \in DOMAIN arts : /\ arts[a].cycle <= cycle
                             /\ arts[a].key[1] \in DOMAIN rows
                             /\ arts[a].key[2] <= rows[arts[a].key[1]].revision
  <2> TAKE a \in DOMAIN arts
  <2>1. /\ arts[a].cycle = w.art[a].cycle /\ arts[a].key = w.art[a].key
        /\ w.art[a].cycle <= w.cycle /\ w.art[a].cycle \in Nat
    BY <1>3, <1>5
  <2>2. /\ w.art[a].key[1] \in DOMAIN w.task
        /\ w.art[a].key[2] <= w.task[w.art[a].key[1]].revision
    BY <1>3
  <2>3. rows[w.art[a].key[1]].revision = w.task[w.art[a].key[1]].revision
    BY <2>2
  <2> QED
    BY <1>6, <2>1, <2>2, <2>3
<1>8. \A a, c \in DOMAIN arts : arts[a].key = arts[c].key => a = c
  BY <1>3
<1>9. \A t \in DOMAIN rows : rows[t].cycle # cycle
  BY <1>5, <1>6
<1>10. \A t \in DOMAIN rows : rows[t].output # Null => arts[rows[t].output].superseded
  <2> TAKE t \in DOMAIN rows
  <2>1. rows[t].output # Null => rows[t].output \in 1..size
    <3>1. TaskHeld(rows[t], cycle, size)
      OBVIOUS
    <3> QED
      BY <3>1 DEF TaskHeld
  <2> QED
    BY <1>1, <2>1
<1>11. DraftsHeld(arts, rows, cycle)
  BY <1>7, <1>8, <1>9, <1>10 DEF DraftsHeld
<1>12. ToolsHeld(w.exec, rows)
  <2>1. \A x \in DOMAIN w.exec : ~(/\ w.exec[x].tool = "post"
                                   /\ w.exec[x].status \in {"running", "succeeded"})
    BY DEF PW!Published, PW!ReviewTool
  <2> QED
    BY <1>2, <2>1 DEF ToolsHeld
<1> QED
  BY <1>4, <1>11, <1>12

\* The rows a reopening leaves.
Reopens(e, w, event, rows, arts) ==
    /\ rows = [t \in DOMAIN w.task |-> PW!Superseded(w.task[t])]
    /\ arts = [a \in DOMAIN w.art |-> PW!Replaced(w.art[a])]
    /\ e = [w EXCEPT !.status = "proposed", !.cycle = w.cycle + 1, !.reopened = TRUE,
                     !.event = event, !.task = rows, !.art = arts]

\* An approval taken back: its tasks and drafts are replaced and none is left to do.
LEMMA Reconsidered ==
    ASSUME NEW w, WorkHeld(w), ~PW!Published(w), w.status = "accepted",
           NEW event \in Seq(EventRow),
           NEW rows, NEW arts, NEW e, Reopens(e, w, event, rows, arts)
    PROVE  WorkHeld(e) /\ e.event = event
<1> DEFINE size == Len(w.art)
           cycle == w.cycle + 1
<1>1. /\ w.task \in Seq(TaskRows) /\ w.art \in Seq(ArtRow) /\ w.exec \in Seq(ExecRow)
      /\ w \in WorkTables /\ w.cycle \in Nat
  BY WorkRows
<1>2. /\ DOMAIN w.task = 1..Len(w.task) /\ Len(w.task) \in Nat
      /\ DOMAIN w.art = 1..size /\ size \in Nat
      /\ \A a \in DOMAIN w.art : w.art[a] \in ArtRow
  BY <1>1, RowsOf
<1>3. ASSUME NEW t \in DOMAIN w.task
      PROVE  /\ rows[t] \in TaskRows /\ TaskHeld(rows[t], cycle, size)
             /\ rows[t].superseded /\ rows[t].cycle = w.task[t].cycle
             /\ rows[t].cycle <= w.cycle
             /\ rows[t].revision = w.task[t].revision /\ rows[t].output = w.task[t].output
  <2> DEFINE row == PW!Superseded(w.task[t])
  <2>1. rows[t] = row
    BY DEF Reopens
  <2> HIDE DEF row
  <2>2. /\ row \in TaskRows /\ TaskHeld(row, w.cycle + 1, Len(w.art))
        /\ row.superseded /\ row.cycle = w.task[t].cycle /\ row.cycle <= w.cycle
        /\ row.revision = w.task[t].revision /\ row.output = w.task[t].output
    BY ClosedRow DEF row
  <2> QED
    BY <2>1, <2>2
<1>4. ASSUME NEW a \in DOMAIN w.art
      PROVE  /\ arts[a] \in ArtRow /\ arts[a].superseded /\ arts[a].cycle = w.art[a].cycle
             /\ arts[a].key = w.art[a].key
  <2> DEFINE row == w.art[a]
  <2>1. arts[a] = [row EXCEPT !.superseded = TRUE]
    BY DEF Reopens, PW!Replaced
  <2>2. row \in ArtRow
    BY <1>2
  <2> HIDE DEF row
  <2>3. arts[a] \in ArtRow /\ arts[a].superseded = TRUE /\ arts[a].cycle = row.cycle
        /\ arts[a].key = row.key
    BY <2>1, <2>2 DEF ArtRow
  <2> QED
    BY <2>3 DEF row
<1>5. rows \in Seq(TaskRows) /\ DOMAIN rows = DOMAIN w.task
  <2>1. rows \in [1..Len(w.task) -> TaskRows]
    BY <1>2, <1>3 DEF Reopens
  <2> QED
    BY <1>2, <2>1, SeqOfMap
<1>6. arts \in Seq(ArtRow) /\ DOMAIN arts = DOMAIN w.art /\ Len(arts) = size
  <2>1. arts \in [1..size -> ArtRow]
    BY <1>2, <1>4 DEF Reopens
  <2> HIDE DEF size
  <2> QED
    BY <1>2, <2>1, SeqOfMap
<1>7. cycle \in Nat
  BY <1>1
<1> HIDE DEF cycle, size
<1>8. TasksHeld(rows, cycle, Len(arts)) /\ DraftsHeld(arts, rows, cycle) /\ ToolsHeld(w.exec, rows)
  <2>1. cycle = w.cycle + 1 /\ size = Len(w.art)
    BY DEF cycle, size
  <2> QED
    BY <1>3, <1>4, <1>5, <1>6, <1>7, <2>1, TakenBack
<1>9. /\ e \in WorkTables /\ e.task = rows /\ e.status = "proposed" /\ e.event = event
       /\ e.cycle = cycle /\ e.art = arts /\ e.exec = w.exec /\ e.mail = w.mail
       /\ e.ledger = w.ledger /\ e.outcome = w.outcome /\ e.tick = w.tick
  <2>1. e = [w EXCEPT !.status = "proposed", !.cycle = cycle, !.reopened = TRUE,
                      !.event = event, !.task = rows, !.art = arts]
    BY DEF cycle, Reopens
  <2> QED
    BY <1>1, <1>5, <1>6, <1>7, <2>1 DEF WorkTables
<1>10. EventsHeld(e.status, e.event, e.cycle)
  BY <1>9 DEF EventsHeld
<1> QED
  BY <1>8, <1>9, <1>10 DEF WorkHeld

\* reconsider_find, where what it keeps on a refusal is logged already.
LEMMA SameReconsider ==
    ASSUME NEW w, WorkHeld(w), NEW b, w.event # <<>> \/ ~PW!Published(w)
    PROVE  SameWorkCall(w, PW!Reconsider(w, b), MW!Reconsider(w, b))
<1> DEFINE p == PW!Reconsider(w, b)
           m == MW!Reconsider(w, b)
           accepted == \E i \in DOMAIN w.event :
                          /\ w.event[i].cycle = w.cycle
                          /\ w.event[i].type \in {"accepted", "undo_pass"}
           approval == [cycle |-> w.cycle, type |-> "accepted"]
           before == IF accepted THEN w.event ELSE Append(w.event, approval)
           logged == IF accepted THEN w ELSE [w EXCEPT !.event = Append(w.event, approval)]
           reopening == [cycle |-> w.cycle + 1, type |-> "reopened"]
           event == Append(before, reopening)
           rows == [t \in DOMAIN w.task |-> PW!Superseded(w.task[t])]
           arts == [a \in DOMAIN w.art |-> PW!Replaced(w.art[a])]
           e == [w EXCEPT !.status = "proposed", !.cycle = w.cycle + 1, !.reopened = TRUE,
                          !.event = event, !.task = rows, !.art = arts]
           closing == ToSet(MW!TasksToClose(w))
           closed == [t \in DOMAIN w.task |-> IF t \in closing THEN MW!Closed(w.task[t])
                                              ELSE w.task[t]]
           replaced == [a \in DOMAIN w.art |->
                           IF ~w.art[a].superseded /\ w.art[a].cycle <= w.cycle
                           THEN [w.art[a] EXCEPT !.superseded = TRUE] ELSE w.art[a]]
           out == w.status # "accepted" \/ w.ledger # <<>>
<1>1. /\ w \in WorkTables /\ w.event \in Seq(EventRow) /\ w.cycle \in Nat
      /\ w.art \in Seq(ArtRow)
  BY WorkRows
<1>2. p = IF b # Own THEN PW!Refused(w)
          ELSE IF w.status = "proposed" /\ w.reopened THEN PW!Answer(w, FALSE)
          ELSE IF out \/ PW!Published(w) THEN PW!Refused(w)
          ELSE PW!Answer(e, TRUE)
  <2>1. PW!Backfilled(w) = before
    BY DEF PW!Backfilled
  <2>2. p = IF b # Own THEN PW!Refused(w)
            ELSE IF w.status = "proposed" /\ w.reopened THEN PW!Answer(w, FALSE)
            ELSE IF out \/ PW!Published(w) THEN PW!Refused(w)
            ELSE PW!Answer([w EXCEPT !.status = "proposed", !.cycle = w.cycle + 1,
                               !.reopened = TRUE,
                               !.event = Append(PW!Backfilled(w), reopening),
                               !.task = rows, !.art = arts], TRUE)
    BY DEF PW!Reconsider
  <2> HIDE DEF p, before, rows, arts
  <2> QED
    BY <2>1, <2>2
<1>3. m = IF b # Own THEN MW!Refused(w)
          ELSE IF w.status = "proposed" /\ w.reopened THEN MW!Answer(w, FALSE)
          ELSE IF out THEN MW!Refused(w)
          ELSE IF MW!Irreversible(w) THEN MW!Refused(logged)
          ELSE MW!Answer([logged EXCEPT !.task = closed, !.art = replaced,
                             !.cycle = w.cycle + 1, !.status = "proposed", !.reopened = TRUE,
                             !.event = event], TRUE)
  <2> DEFINE went == ToSet(MW!TasksToClose(w))
             taken == MW!ToSet(MW!TasksToClose(w))
             gone == [t \in DOMAIN logged.task |-> IF t \in taken THEN MW!Closed(logged.task[t])
                                                   ELSE logged.task[t]]
             drafts == [a \in DOMAIN logged.art |->
                           IF ~w.art[a].superseded /\ w.art[a].cycle <= w.cycle
                           THEN [w.art[a] EXCEPT !.superseded = TRUE] ELSE w.art[a]]
  <2>1. m = IF b # Own THEN MW!Refused(w)
            ELSE IF w.status = "proposed" /\ w.reopened THEN MW!Answer(w, FALSE)
            ELSE IF out THEN MW!Refused(w)
            ELSE IF MW!Irreversible(w) THEN MW!Refused(logged)
            ELSE MW!Answer([logged EXCEPT !.task = gone, !.art = drafts,
                               !.cycle = w.cycle + 1, !.status = "proposed",
                               !.reopened = TRUE,
                               !.event = Append(logged.event, reopening)], TRUE)
    BY DEF MW!Reconsider
  <2>2. /\ logged.task = w.task /\ logged.art = w.art /\ logged.event = before
        /\ taken = closing
    BY <1>1, SameLists3 DEF WorkTables
  <2> HIDE DEF p, m, logged, before, taken, closing
  <2>3. gone = closed /\ drafts = replaced
    BY <2>2
  <2> HIDE DEF gone, drafts, closed, replaced
  <2> QED
    BY <2>1, <2>2, <2>3
<1> HIDE DEF p, m
<1>4. CASE b # Own
  <2>1. p = PW!Refused(w) /\ m = MW!Refused(w)
    BY <1>2, <1>3, <1>4
  <2> QED
    BY <2>1, SameWorkRefusal DEF p, m
<1>5. CASE b = Own /\ w.status = "proposed" /\ w.reopened
  <2>1. p = PW!Answer(w, FALSE) /\ m = MW!Answer(w, FALSE)
    BY <1>2, <1>3, <1>5
  <2> QED
    BY <2>1, SameWorkAnswer DEF p, m
<1>6. CASE b = Own /\ ~(w.status = "proposed" /\ w.reopened) /\ out
  <2>1. p = PW!Refused(w) /\ m = MW!Refused(w)
    BY <1>2, <1>3, <1>6
  <2> QED
    BY <2>1, SameWorkRefusal DEF p, m
<1>7. CASE b = Own /\ ~(w.status = "proposed" /\ w.reopened) /\ ~out /\ PW!Published(w)
  <2>1. EventsHeld(w.status, w.event, w.cycle) /\ w.event # <<>> /\ w.status = "accepted"
    BY <1>7 DEF WorkHeld
  <2>2. accepted
    BY <2>1 DEF EventsHeld
  <2>3. logged = w
    BY <2>2
  <2>4. p = PW!Refused(w) /\ m = MW!Refused(w)
    BY <1>2, <1>3, <1>7, <2>3, SameClosing
  <2> QED
    BY <2>4, SameWorkRefusal DEF p, m
<1>8. CASE b = Own /\ ~(w.status = "proposed" /\ w.reopened) /\ ~out /\ ~PW!Published(w)
  <2>1. approval \in EventRow /\ reopening \in EventRow
    BY <1>1 DEF EventRow
  <2> HIDE DEF approval, reopening, accepted
  <2>2. before \in Seq(EventRow)
    BY <1>1, <2>1, Appended DEF IsAppend
  <2> HIDE DEF before
  <2>3. IsAppend(EventRow, before, reopening, event)
    BY <2>1, <2>2, Appended
  <2>4. event \in Seq(EventRow) /\ event # <<>>
    <3>1. event \in Seq(EventRow) /\ DOMAIN event = 1..(Len(before) + 1) /\ Len(before) \in Nat
      BY <2>2, <2>3, RowsOf DEF IsAppend
    <3> HIDE DEF event
    <3>2. Len(before) + 1 \in DOMAIN event
      BY <3>1
    <3> QED
      BY <3>1, <3>2, EmptySeq
  <2>5. w.status = "accepted"
    BY <1>8
  <2> HIDE DEF event, rows, arts, e
  <2>6. WorkHeld(e) /\ e.event = event
    <3>1. Reopens(e, w, event, rows, arts)
      BY DEF rows, arts, e, Reopens
    <3> QED
      BY <1>8, <2>4, <2>5, <3>1, Reconsidered
  <2>7. closed = rows
    <3> HIDE DEF rows, closing
    <3>1. closing = {t \in DOMAIN w.task : ~w.task[t].superseded}
      BY SameClosing DEF closing
    <3>2. \A t \in DOMAIN w.task : PW!Superseded(w.task[t])
             = IF w.task[t].superseded THEN w.task[t] ELSE MW!Closed(w.task[t])
      BY ClosedRow
    <3> QED
      BY <3>1, <3>2 DEF rows
  <2>8. replaced = arts
    <3>1. ASSUME NEW a \in DOMAIN w.art
          PROVE  PW!Replaced(w.art[a])
                   = IF ~w.art[a].superseded /\ w.art[a].cycle <= w.cycle
                     THEN [w.art[a] EXCEPT !.superseded = TRUE] ELSE w.art[a]
      <4> DEFINE row == w.art[a]
      <4>1. PW!Replaced(row) = [row EXCEPT !.superseded = TRUE]
        BY DEF PW!Replaced
      <4>2. row \in ArtRow /\ row.cycle <= w.cycle
        BY <1>1, RowsOf DEF WorkHeld, DraftsHeld
      <4> HIDE DEF row
      <4>3. row.superseded => [row EXCEPT !.superseded = TRUE] = row
        BY <4>2 DEF ArtRow
      <4>4. PW!Replaced(row) = IF ~row.superseded /\ row.cycle <= w.cycle
                               THEN [row EXCEPT !.superseded = TRUE] ELSE row
        BY <4>1, <4>2, <4>3
      <4> QED
        BY <4>4 DEF row
    <3> QED
      BY <3>1 DEF arts
  <2>9. logged = [w EXCEPT !.event = before]
    <3>1. accepted => before = w.event /\ logged = w
      BY DEF before
    <3>2. ~accepted => before = Append(w.event, approval)
                       /\ logged = [w EXCEPT !.event = Append(w.event, approval)]
      BY DEF before
    <3>3. w = [w EXCEPT !.event = w.event]
      BY <1>1 DEF WorkTables
    <3> HIDE DEF logged
    <3> QED
      BY <3>1, <3>2, <3>3
  <2> HIDE DEF logged, closed, replaced
  <2> DEFINE cycle == w.cycle + 1
  <2>10. [logged EXCEPT !.task = rows, !.art = arts, !.cycle = cycle, !.status = "proposed",
                        !.reopened = TRUE, !.event = event] = e
    <3>1. e = [w EXCEPT !.status = "proposed", !.cycle = cycle, !.reopened = TRUE,
                        !.event = event, !.task = rows, !.art = arts]
      BY DEF e
    <3> HIDE DEF cycle
    <3> QED
      BY <1>1, <2>9, <3>1 DEF WorkTables
  <2>11. p = PW!Answer(e, TRUE)
    BY <1>2, <1>8
  <2>12. ~MW!Irreversible(w)
    BY <1>8, SameClosing
  <2>13. m = MW!Answer(e, TRUE)
    BY <1>3, <1>8, <2>7, <2>8, <2>10, <2>12
  <2> QED
    BY <2>4, <2>6, <2>11, <2>13, SameWorkAnswer DEF p, m
<1> QED
  BY <1>4, <1>5, <1>6, <1>7, <1>8 DEF p, m

-----------------------------------------------------------------------------
\* Drafts.

\* A draft of the revision in the making, stored on top of the others.
LEMMA DraftAdded ==
    ASSUME NEW w, WorkHeld(w), NEW t \in DOMAIN w.task, w.task[t].cycle = w.cycle,
           NEW size \in Nat, size = Len(w.art),
           NEW n, n = w.task[t].revision,
           \A a \in DOMAIN w.art : w.art[a].key # <<t, n>>,
           NEW arts \in Seq(ArtRow), DOMAIN arts = 1..(size + 1), Len(arts) = size + 1,
           arts[size + 1].key = <<t, n>> /\ arts[size + 1].cycle = w.cycle,
           \A a \in DOMAIN w.art : /\ arts[a].key = w.art[a].key
                                   /\ arts[a].cycle = w.art[a].cycle
                                   /\ w.art[a].superseded => arts[a].superseded,
           n # 1 /\ w.task[t].output # Null => arts[w.task[t].output].superseded
    PROVE  DraftsHeld(arts, w.task, w.cycle) /\ TasksHeld(w.task, w.cycle, Len(arts))
<1>1. /\ w.cycle \in Nat /\ DOMAIN w.art = 1..size
      /\ \A u \in DOMAIN w.task : w.task[u] \in TaskRows
  BY WorkRows, RowsOf
<1>2. /\ \A u, v \in DOMAIN w.task : w.task[u].cycle = w.task[v].cycle => u = v
      /\ \A u \in DOMAIN w.task : TaskHeld(w.task[u], w.cycle, size)
  BY DEF WorkHeld, TasksHeld
<1>3. /\ \A a \in DOMAIN w.art : /\ w.art[a].cycle <= w.cycle
                                 /\ w.art[a].key[1] \in DOMAIN w.task
                                 /\ w.art[a].key[2] <= w.task[w.art[a].key[1]].revision
      /\ \A a, c \in DOMAIN w.art : w.art[a].key = w.art[c].key => a = c
  BY DEF WorkHeld, DraftsHeld
<1>4. /\ \A a \in DOMAIN arts : a \in DOMAIN w.art \/ a = size + 1
      /\ size + 1 \notin DOMAIN w.art
      /\ size + 1 \in DOMAIN arts
  BY <1>1
<1>5. \A u \in DOMAIN w.task : TaskHeld(w.task[u], w.cycle, size + 1)
  <2> TAKE u \in DOMAIN w.task
  <2> DEFINE row == w.task[u]
  <2>1. TaskHeld(row, w.cycle, size)
    BY <1>2
  <2> HIDE DEF row
  <2>2. \A k \in 1..size : k \in 1..(size + 1)
    OBVIOUS
  <2>3. TaskHeld(row, w.cycle, size + 1)
    BY <2>1, <2>2 DEF TaskHeld
  <2> QED
    BY <2>3 DEF row
<1>6. TasksHeld(w.task, w.cycle, Len(arts))
  BY <1>2, <1>5 DEF TasksHeld
<1>7. n \in Nat /\ n <= n
  BY <1>1 DEF TaskRows
<1>8. \A a \in DOMAIN arts : /\ arts[a].cycle <= w.cycle
                             /\ arts[a].key[1] \in DOMAIN w.task
                             /\ arts[a].key[2] <= w.task[arts[a].key[1]].revision
  <2> TAKE a \in DOMAIN arts
  <2>1. CASE a \in DOMAIN w.art
    BY <1>3, <2>1
  <2>2. CASE a = size + 1
    <3>1. arts[a].key[1] = t /\ arts[a].key[2] = n
      BY <2>2
    <3> QED
      BY <1>1, <1>7, <2>2, <3>1
  <2> QED
    BY <1>4, <2>1, <2>2
<1>9. \A a, c \in DOMAIN arts : arts[a].key = arts[c].key => a = c
  BY <1>3, <1>4
<1>10. ASSUME NEW a \in DOMAIN arts, NEW u \in DOMAIN w.task,
              arts[a].key = <<u, w.task[u].revision>>
       PROVE  /\ w.task[u].cycle = w.cycle => a = Len(arts)
              /\ w.task[u].revision # 1 /\ w.task[u].output # Null =>
                    w.task[u].output = a \/ arts[w.task[u].output].superseded
  <2>1. CASE a = size + 1
    <3>1. u = t
      BY <1>10, <2>1
    <3> QED
      BY <2>1, <3>1
  <2>2. CASE a \in DOMAIN w.art
    <3>1. u # t
      BY <1>10, <2>2
    <3>2. w.task[u].cycle # w.cycle
      BY <1>2, <3>1
    <3>3. w.art[a].key = <<u, w.task[u].revision>>
      BY <1>10, <2>2
    <3>4. w.task[u].revision # 1 /\ w.task[u].output # Null =>
             w.task[u].output = a \/ w.art[w.task[u].output].superseded
      BY <2>2, <3>3 DEF WorkHeld, DraftsHeld
    <3>5. w.task[u].output # Null => w.task[u].output \in DOMAIN w.art
      BY <1>1, <1>2 DEF TaskHeld
    <3> QED
      BY <3>2, <3>4, <3>5
  <2> QED
    BY <1>4, <2>1, <2>2
<1>11. DraftsHeld(arts, w.task, w.cycle)
  BY <1>8, <1>9, <1>10 DEF DraftsHeld
<1> QED
  BY <1>6, <1>11

\* insert_artifact: a draft stored once, and the draft it replaces marked.
LEMMA SameInsertArtifact ==
    ASSUME NEW w, WorkHeld(w), NEW t \in DOMAIN w.task,
           NEW n, n = w.task[t].revision,
           NEW parent, parent = IF n = 1 THEN Null ELSE w.task[t].output,
           NEW key, key = <<t, n>>
    PROVE  SameWorkCall(w, PW!InsertArtifact(w, t, key, n, parent),
                           MW!InsertArtifact(w, t, key, n, parent))
<1> DEFINE p == PW!InsertArtifact(w, t, key, n, parent)
           m == MW!InsertArtifact(w, t, key, n, parent)
           old == w.task[t]
           size == Len(w.art)
           mayWrite == /\ old.status = "running" /\ ~old.superseded
                       /\ w.status = "accepted" /\ w.cycle = old.cycle
           S == {a \in DOMAIN w.art : w.art[a].key = key}
           only == CHOOSE a \in S : TRUE
           higher == IF parent = Null THEN n
                     ELSE IF w.art[parent].revision + 1 > n
                     THEN w.art[parent].revision + 1 ELSE n
           number == IF parent = Null \/ w.art[parent].revision + 1 <= n
                     THEN n ELSE w.art[parent].revision + 1
           row == [task |-> t, key |-> key, cycle |-> old.cycle, revision |-> higher,
                   superseded |-> FALSE]
           same == [task |-> t, key |-> key, cycle |-> old.cycle, revision |-> number,
                    superseded |-> FALSE]
           stored == IF S = {} THEN Append(w.art, row) ELSE w.art
           id == IF S = {} THEN size + 1 ELSE only
           arts == [a \in DOMAIN stored |->
                       IF a = parent /\ a # id THEN PW!Replaced(stored[a]) ELSE stored[a]]
           marked == [a \in DOMAIN w.art |-> IF a = parent
                                             THEN [w.art[a] EXCEPT !.superseded = TRUE]
                                             ELSE w.art[a]]
<1>1. /\ w \in WorkTables /\ w.art \in Seq(ArtRow) /\ size \in Nat /\ DOMAIN w.art = 1..size
      /\ \A a \in DOMAIN w.art : w.art[a] \in ArtRow
  BY WorkRows, RowsOf
<1>2. /\ old \in TaskRows /\ TaskHeld(old, w.cycle, size) /\ t \in Nat
      /\ n \in Nat /\ old.cycle \in Nat /\ old.output \in Nat \cup {Null}
  <2>1. old \in TaskRows /\ TaskHeld(old, w.cycle, size) /\ t \in Nat
    BY TaskFields
  <2> HIDE DEF size
  <2> QED
    BY <2>1 DEF TaskRows
<1>3. parent # Null => parent \in DOMAIN w.art /\ parent = old.output /\ n # 1
  BY <1>1, <1>2 DEF TaskHeld
<1>4. p = IF ~mayWrite \/ (parent # Null /\ parent \notin DOMAIN w.art) THEN PW!Refused(w)
          ELSE PW!Answer([w EXCEPT !.art = arts], id)
  <2> DEFINE writes == /\ t \in DOMAIN w.task /\ w.task[t].status = "running"
                       /\ ~w.task[t].superseded
                       /\ w.status = "accepted" /\ w.cycle = w.task[t].cycle
  <2>1. p = IF ~writes \/ (parent # Null /\ parent \notin DOMAIN w.art) THEN PW!Refused(w)
            ELSE PW!Answer([w EXCEPT !.art = arts], id)
    BY DEF PW!InsertArtifact
  <2>2. writes <=> mayWrite
    OBVIOUS
  <2> HIDE DEF writes, mayWrite, arts, id, p
  <2> QED
    BY <2>1, <2>2
<1>5. m = IF ~mayWrite THEN MW!Refused(w)
          ELSE IF MW!ArtifactByKey(w, key) # Null THEN MW!Answer(w, MW!ArtifactByKey(w, key))
          ELSE IF parent # Null /\ parent \notin DOMAIN w.art THEN MW!Refused(w)
          ELSE MW!Answer([w EXCEPT !.art = Append(marked, same)], size + 1)
  BY DEF MW!InsertArtifact, MW!Known
<1>6. MW!ArtifactByKey(w, key) = IF S = {} THEN Null ELSE only
  <2>1. PW!ArtifactByKey(w, key) = IF S = {} THEN Null ELSE only
    BY DEF PW!ArtifactByKey
  <2> QED
    BY <2>1, SameDrafts
<1>7. S # {} => only \in S /\ only \in DOMAIN w.art /\ only # Null
  <2>1. S # {} => only \in S
    OBVIOUS
  <2>2. \A a \in S : a \in DOMAIN w.art /\ a # Null
    BY <1>1, AgreementAssumption
  <2> HIDE DEF S, only
  <2> QED
    BY <2>1, <2>2
<1>8. higher = number /\ higher \in Nat
  <2>1. parent # Null => w.art[parent].revision \in Nat
    BY <1>1, <1>3 DEF ArtRow
  <2> QED
    BY <1>2, <2>1, SMTT(30)
<1>9. \A a \in S : w.art[a].key = key
  OBVIOUS
<1>10. S = {} => \A a \in DOMAIN w.art : w.art[a].key # key
  OBVIOUS
<1> HIDE DEF p, m, higher, number, S, only
<1>11. CASE ~mayWrite
  <2>1. p = PW!Refused(w) /\ m = MW!Refused(w)
    BY <1>4, <1>5, <1>11
  <2> QED
    BY <2>1, SameWorkRefusal DEF p, m
<1>12. CASE mayWrite /\ S # {}
  <2>1. stored = w.art /\ id = only
    BY <1>12
  <2>2. ASSUME parent # Null, parent # only
        PROVE  w.art[parent].superseded
    <3>1. w.art[only].key = <<t, w.task[t].revision>>
      BY <1>7, <1>9, <1>12
    <3>2. /\ w.task[t].revision # 1 /\ w.task[t].output # Null =>
                w.task[t].output = only \/ w.art[w.task[t].output].superseded
      BY <1>7, <1>12, <3>1 DEF WorkHeld, DraftsHeld
    <3> QED
      BY <1>3, <2>2, <3>2
  <2>3. ASSUME NEW a \in DOMAIN w.art
        PROVE  (IF a = parent /\ a # only THEN PW!Replaced(w.art[a]) ELSE w.art[a]) = w.art[a]
    <3> DEFINE one == w.art[a]
    <3>1. one \in ArtRow
      BY <1>1
    <3>2. a = parent /\ a # only => one.superseded
      <4>1. a # Null
        BY <1>1, AgreementAssumption
      <4> QED
        BY <2>2, <4>1
    <3>3. PW!Replaced(one) = [one EXCEPT !.superseded = TRUE]
      BY DEF PW!Replaced
    <3> HIDE DEF one
    <3>4. one.superseded => [one EXCEPT !.superseded = TRUE] = one
      BY <3>1 DEF ArtRow
    <3>5. (IF a = parent /\ a # only THEN PW!Replaced(one) ELSE one) = one
      BY <3>2, <3>3, <3>4
    <3> QED
      BY <3>5 DEF one
  <2>4. arts = [a \in DOMAIN w.art |-> w.art[a]]
    <3>1. arts = [a \in DOMAIN w.art |->
                    IF a = parent /\ a # only THEN PW!Replaced(w.art[a]) ELSE w.art[a]]
      <4> HIDE DEF stored, id
      <4> QED
        BY <2>1
    <3> HIDE DEF arts
    <3> QED
      BY <2>3, <3>1
  <2> HIDE DEF arts, id
  <2>5. arts = w.art
    BY <1>1, <2>4
  <2>6. [w EXCEPT !.art = arts] = w
    BY <1>1, <2>5 DEF WorkTables
  <2>7. p = PW!Answer(w, only)
    BY <1>3, <1>4, <1>12, <2>1, <2>6
  <2>8. m = MW!Answer(w, only)
    BY <1>5, <1>6, <1>7, <1>12
  <2> QED
    BY <2>7, <2>8, SameWorkAnswer DEF p, m
<1>13. CASE mayWrite /\ S = {}
  <2> DEFINE e == [w EXCEPT !.art = arts]
             added == Append(w.art, row)
             put == Append(marked, row)
  <2>1. row \in ArtRow /\ row = same /\ row.key = key /\ row.cycle = w.cycle
    <3>1. key \in Nat \X Nat
      BY <1>2
    <3> QED
      BY <1>2, <1>8, <1>13, <3>1 DEF ArtRow
  <2>2. stored = added /\ id = size + 1
    BY <1>13
  <2> HIDE DEF row, same
  <2>3. IsAppend(ArtRow, w.art, row, added)
    BY <1>1, <2>1, Appended
  <2> HIDE DEF added
  <2>4. /\ added \in Seq(ArtRow) /\ DOMAIN added = 1..(size + 1) /\ added[size + 1] = row
        /\ \A a \in DOMAIN w.art : added[a] = w.art[a]
    BY <1>1, <2>3 DEF IsAppend
  <2>5. /\ marked \in Seq(ArtRow) /\ DOMAIN marked = 1..size /\ Len(marked) = size
        /\ \A a \in DOMAIN w.art : /\ marked[a].key = w.art[a].key
                                   /\ marked[a].cycle = w.art[a].cycle
                                   /\ w.art[a].superseded => marked[a].superseded
                                   /\ a = parent => marked[a].superseded
    <3>1. ASSUME NEW a \in DOMAIN w.art
          PROVE  /\ marked[a] \in ArtRow
                 /\ marked[a].key = w.art[a].key /\ marked[a].cycle = w.art[a].cycle
                 /\ w.art[a].superseded => marked[a].superseded
                 /\ a = parent => marked[a].superseded
      <4> DEFINE one == w.art[a]
      <4>1. one \in ArtRow
        BY <1>1
      <4>2. marked[a] = IF a = parent THEN [one EXCEPT !.superseded = TRUE] ELSE one
        OBVIOUS
      <4> HIDE DEF one, marked
      <4>3. /\ marked[a] \in ArtRow
            /\ marked[a].key = one.key /\ marked[a].cycle = one.cycle
            /\ one.superseded => marked[a].superseded
            /\ a = parent => marked[a].superseded
        BY <4>1, <4>2 DEF ArtRow
      <4> QED
        BY <4>3 DEF one
    <3>2. marked \in [1..size -> ArtRow]
      BY <1>1, <3>1
    <3> HIDE DEF size, marked
    <3>3. marked \in Seq(ArtRow) /\ DOMAIN marked = 1..size /\ Len(marked) = size
      BY <1>1, <3>2, SeqOfMap
    <3> QED
      BY <3>1, <3>3
  <2>6. \A a \in DOMAIN w.art :
           marked[a] = IF a = parent THEN PW!Replaced(w.art[a]) ELSE w.art[a]
    BY DEF PW!Replaced
  <2> HIDE DEF marked
  <2>7. IsAppend(ArtRow, marked, row, put)
    BY <2>1, <2>5, Appended
  <2> HIDE DEF put
  <2>8. /\ put \in Seq(ArtRow) /\ DOMAIN put = 1..(size + 1) /\ Len(put) = size + 1
        /\ put[size + 1] = row
        /\ \A a \in DOMAIN w.art : put[a] = marked[a]
    BY <1>1, <2>5, <2>7 DEF IsAppend
  <2>9. arts = put
    <3>1. arts = [a \in 1..(size + 1) |->
                     IF a = parent /\ a # size + 1 THEN PW!Replaced(added[a]) ELSE added[a]]
      <4> HIDE DEF stored, id
      <4> QED
        BY <2>2, <2>4
    <3>2. put = [a \in 1..(size + 1) |-> put[a]]
      BY <2>8
    <3>3. ASSUME NEW a \in 1..(size + 1)
          PROVE  put[a] = IF a = parent /\ a # size + 1 THEN PW!Replaced(added[a])
                          ELSE added[a]
      <4>1. CASE a = size + 1
        BY <2>4, <2>8, <4>1
      <4>2. CASE a # size + 1
        <5>1. a \in DOMAIN w.art
          BY <1>1, <4>2
        <5> QED
          BY <2>4, <2>6, <2>8, <4>2, <5>1
      <4> QED
        BY <4>1, <4>2
    <3> HIDE DEF arts, size
    <3> QED
      BY <3>1, <3>2, <3>3
  <2>10. p = PW!Answer(e, size + 1)
    <3> HIDE DEF arts, id, size
    <3> QED
      BY <1>3, <1>4, <1>13, <2>2
  <2> HIDE DEF arts
  <2>11. m = MW!Answer(e, size + 1)
    <3>1. Append(marked, same) = arts
      BY <2>1, <2>9 DEF put
    <3> HIDE DEF size
    <3> QED
      BY <1>3, <1>5, <1>6, <1>13, <3>1
  <2>12. /\ arts \in Seq(ArtRow) /\ DOMAIN arts = 1..(size + 1) /\ Len(arts) = size + 1
         /\ arts[size + 1].key = <<t, n>> /\ arts[size + 1].cycle = w.cycle
         /\ \A a \in DOMAIN w.art : /\ arts[a].key = w.art[a].key
                                    /\ arts[a].cycle = w.art[a].cycle
                                    /\ w.art[a].superseded => arts[a].superseded
                                    /\ a = parent => arts[a].superseded
    BY <2>1, <2>5, <2>8, <2>9
  <2>13. n # 1 /\ w.task[t].output # Null => arts[w.task[t].output].superseded
    BY <1>3, <2>12
  <2>14. DraftsHeld(arts, w.task, w.cycle) /\ TasksHeld(w.task, w.cycle, Len(arts))
    <3>1. w.task[t].cycle = w.cycle /\ (\A a \in DOMAIN w.art : w.art[a].key # <<t, n>>)
          /\ n = w.task[t].revision
      BY <1>10, <1>13
    <3>2. size = Len(w.art)
      OBVIOUS
    <3> HIDE DEF size
    <3> QED
      BY <1>1, <2>12, <2>13, <3>1, <3>2, DraftAdded
  <2>15. /\ e \in WorkTables /\ e.task = w.task /\ e.status = w.status /\ e.event = w.event
         /\ e.cycle = w.cycle /\ e.art = arts /\ e.exec = w.exec /\ e.mail = w.mail
         /\ e.ledger = w.ledger /\ e.outcome = w.outcome /\ e.tick = w.tick
    BY <1>1, <2>12 DEF WorkTables
  <2> HIDE DEF e
  <2>16. WorkHeld(e)
    BY <2>14, <2>15 DEF WorkHeld
  <2> QED
    BY <2>10, <2>11, <2>15, <2>16, SameWorkAnswer DEF p, m
<1> QED
  BY <1>11, <1>12, <1>13 DEF p, m

-----------------------------------------------------------------------------
\* Tools, notices and the execution.

\* start_tool_execution: the key of a call is used once.
LEMMA SameStartTool ==
    ASSUME NEW w, WorkHeld(w), NEW t, NEW b, NEW tool \in ToolNames,
           NEW key, key = <<t, tool>>
    PROVE  SameWorkCall(w, PW!StartTool(w, t, b, tool, key), MW!StartTool(w, t, b, tool, key))
<1> DEFINE p == PW!StartTool(w, t, b, tool, key)
           m == MW!StartTool(w, t, b, tool, key)
           S == {x \in DOMAIN w.exec : w.exec[x].key = key}
           only == CHOOSE x \in S : TRUE
           existing == MW!Next1(InOrder(S))
           row == [task |-> t, tool |-> tool, key |-> key, status |-> "running", ref |-> Null]
           rows == Append(w.exec, row)
           e == [w EXCEPT !.exec = rows]
           size == Len(w.exec)
           barred == \/ t \notin DOMAIN w.task \/ b # Own
                     \/ w.task[t].superseded \/ w.task[t].cancelled
                     \/ w.task[t].status = "cancelled"
<1>1. /\ w \in WorkTables /\ w.exec \in Seq(ExecRow) /\ size \in Nat
      /\ DOMAIN w.exec = 1..size /\ ToolsHeld(w.exec, w.task)
  BY WorkRows, RowsOf DEF WorkHeld
<1>2. S \subseteq DOMAIN w.exec /\ \A x, y \in S : x = y
  BY <1>1 DEF ToolsHeld
<1>3. p = IF barred THEN PW!Refused(w)
          ELSE IF S # {} THEN PW!Answer(w, <<only, FALSE>>)
          ELSE PW!Answer(e, <<size + 1, TRUE>>)
  BY DEF PW!StartTool, PW!Open
<1>4. m = IF barred THEN MW!Refused(w)
          ELSE IF existing # Null THEN MW!Answer(w, <<existing, FALSE>>)
          ELSE MW!Answer(e, <<size + 1, TRUE>>)
  <2> DEFINE there == MW!Next1(MW!InOrder(S))
  <2>1. m = IF t \notin DOMAIN w.task \/ b # Own THEN MW!Refused(w)
            ELSE IF \/ w.task[t].superseded \/ w.task[t].cancelled
                    \/ w.task[t].status = "cancelled"
            THEN MW!Refused(w)
            ELSE IF there # Null THEN MW!Answer(w, <<there, FALSE>>)
            ELSE MW!Answer(e, <<size + 1, TRUE>>)
    BY DEF MW!StartTool, MW!Matching, MW!Known
  <2> HIDE DEF S
  <2>2. there = existing
    BY SameLists3
  <2> HIDE DEF there, existing, m, e
  <2> QED
    BY <2>1, <2>2
<1>5. \A x \in DOMAIN w.exec : x \notin S => w.exec[x].key # key
  OBVIOUS
<1> HIDE DEF p, m, S
<1>6. existing = Null <=> S = {}
  BY <1>1, <1>2, OnlyHit
<1>7. S # {} => existing = only
  BY <1>1, <1>2, OnlyHit
<1> HIDE DEF existing, only
<1>8. CASE barred
  <2>1. p = PW!Refused(w) /\ m = MW!Refused(w)
    BY <1>3, <1>4, <1>8
  <2> QED
    BY <2>1, SameWorkRefusal DEF p, m
<1>9. CASE ~barred /\ S # {}
  <2> DEFINE answer == <<only, FALSE>>
  <2>1. p = PW!Answer(w, answer) /\ m = MW!Answer(w, answer)
    BY <1>3, <1>4, <1>6, <1>7, <1>9
  <2> QED
    BY <2>1, SameWorkAnswer DEF p, m
<1>10. CASE ~barred /\ S = {}
  <2> DEFINE answer == <<size + 1, TRUE>>
  <2>1. p = PW!Answer(e, answer) /\ m = MW!Answer(e, answer)
    BY <1>3, <1>4, <1>6, <1>10
  <2>2. t \in DOMAIN w.task /\ ~w.task[t].superseded /\ t \in Nat
    BY <1>10, TaskFields
  <2>3. row \in ExecRow /\ row.task = t /\ row.key = key
    BY <2>2 DEF ExecRow
  <2> HIDE DEF row
  <2>4. IsAppend(ExecRow, w.exec, row, rows)
    BY <1>1, <2>3, Appended
  <2> HIDE DEF rows
  <2>5. /\ rows \in Seq(ExecRow) /\ DOMAIN rows = 1..(size + 1) /\ rows[size + 1] = row
        /\ \A x \in DOMAIN w.exec : rows[x] = w.exec[x]
    BY <1>1, <2>4 DEF IsAppend
  <2>6. \A x \in DOMAIN rows : x \in DOMAIN w.exec \/ x = size + 1
    BY <1>1, <2>5
  <2> HIDE DEF size
  <2>7. ToolsHeld(rows, w.task)
    <3>1. \A x \in DOMAIN w.exec : w.exec[x].key # key
      BY <1>5, <1>10
    <3>2. \A x, y \in DOMAIN rows : rows[x].key = rows[y].key => x = y
      BY <1>1, <2>3, <2>5, <2>6, <3>1 DEF ToolsHeld
    <3>3. \A x \in DOMAIN rows :
             /\ rows[x].task \in DOMAIN w.task
             /\ rows[x].tool = "post" /\ rows[x].status \in {"running", "succeeded"}
                => ~w.task[rows[x].task].superseded
      BY <1>1, <2>2, <2>3, <2>5, <2>6 DEF ToolsHeld
    <3> QED
      BY <3>2, <3>3 DEF ToolsHeld
  <2>8. /\ e \in WorkTables /\ e.task = w.task /\ e.status = w.status /\ e.event = w.event
        /\ e.cycle = w.cycle /\ e.art = w.art /\ e.exec = rows /\ e.mail = w.mail
        /\ e.ledger = w.ledger /\ e.outcome = w.outcome /\ e.tick = w.tick
    BY <1>1, <2>5 DEF WorkTables
  <2> HIDE DEF e
  <2>9. WorkHeld(e)
    BY <2>7, <2>8 DEF WorkHeld
  <2> QED
    BY <2>1, <2>8, <2>9, SameWorkAnswer DEF p, m
<1> QED
  BY <1>8, <1>9, <1>10 DEF p, m

\* finish_tool_execution, a publication settled once.
LEMMA SameFinishTool ==
    ASSUME NEW w, WorkHeld(w), NEW x, NEW status \in {"succeeded", "failed"},
           x \in DOMAIN w.exec => \/ w.exec[x].tool = ReviewTool
                                  \/ w.exec[x].status = "running"
    PROVE  SameWorkCall(w, PW!FinishTool(w, x, status, x), MW!FinishTool(w, x, status, x))
<1> DEFINE old == w.exec[x]
           row == [old EXCEPT !.status = status, !.ref = x]
           rows == [w.exec EXCEPT ![x] = row]
           e == [w EXCEPT !.exec = rows]
<1>1. w \in WorkTables /\ w.exec \in Seq(ExecRow) /\ ToolsHeld(w.exec, w.task)
  BY WorkRows DEF WorkHeld
<1>2. CASE x \notin DOMAIN w.exec
  <2>1. PW!FinishTool(w, x, status, x) = PW!Refused(w)
    BY <1>2 DEF PW!FinishTool
  <2>2. MW!FinishTool(w, x, status, x) = MW!Refused(w)
    BY <1>2 DEF MW!FinishTool, MW!Known
  <2> QED
    BY <2>1, <2>2, SameWorkRefusal
<1>3. CASE x \in DOMAIN w.exec
  <2>1. old \in ExecRow /\ x \in Nat
    BY <1>1, <1>3, RowsOf
  <2>2. PW!FinishTool(w, x, status, x) = PW!Answer(e, x)
    <3>1. PW!FinishTool(w, x, status, x)
            = PW!Answer([w EXCEPT !.exec[x].status = status, !.exec[x].ref = x], x)
      BY <1>3 DEF PW!FinishTool
    <3>2. [w EXCEPT !.exec[x].status = status, !.exec[x].ref = x] = e
      <4> DEFINE settled == [old EXCEPT !.status = status]
                 once == [w.exec EXCEPT ![x] = settled]
                 one == [w EXCEPT !.exec = once]
      <4>1. [w EXCEPT !.exec[x].status = status, !.exec[x].ref = x]
              = [one EXCEPT !.exec = [one.exec EXCEPT ![x] = [one.exec[x] EXCEPT !.ref = x]]]
        OBVIOUS
      <4> HIDE DEF one
      <4>2. one.exec = once
        BY <1>1 DEF one, WorkTables
      <4> HIDE DEF once
      <4>3. once[x] = settled
        BY <1>3 DEF once
      <4>4. [settled EXCEPT !.ref = x] = row
        OBVIOUS
      <4> HIDE DEF settled, row
      <4>5. [once EXCEPT ![x] = row] = rows
        BY <1>1, <1>3 DEF once
      <4> HIDE DEF rows
      <4>6. [one EXCEPT !.exec = rows] = e
        BY <1>1 DEF one, WorkTables
      <4> QED
        BY <4>1, <4>2, <4>3, <4>4, <4>5, <4>6
    <3> HIDE DEF e
    <3> QED
      BY <3>1, <3>2
  <2>3. MW!FinishTool(w, x, status, x) = MW!Answer(e, x)
    BY <1>3 DEF MW!FinishTool, MW!Known
  <2>4. old.tool = "post" => old.status = "running"
    BY <1>3 DEF ReviewTool
  <2> HIDE DEF old
  <2>5. /\ row \in ExecRow /\ row.task = old.task /\ row.tool = old.tool
        /\ row.key = old.key /\ row.status = status
    BY <2>1 DEF ExecRow
  <2> HIDE DEF row
  <2>6. IsChange(ExecRow, w.exec, x, row, rows)
    BY <1>1, <1>3, <2>5, Changed
  <2> HIDE DEF rows
  <2>7. /\ rows \in Seq(ExecRow) /\ DOMAIN rows = DOMAIN w.exec
        /\ \A y \in DOMAIN w.exec : rows[y] = IF y = x THEN row ELSE w.exec[y]
    BY <2>6 DEF IsChange
  <2>8. ToolsHeld(rows, w.task)
    <3>1. \A y \in DOMAIN w.exec : /\ rows[y].task = w.exec[y].task
                                   /\ rows[y].tool = w.exec[y].tool
                                   /\ rows[y].key = w.exec[y].key
      BY <2>5, <2>7 DEF old
    <3>2. \A y \in DOMAIN w.exec :
             /\ rows[y].tool = "post" /\ rows[y].status \in {"running", "succeeded"}
             => w.exec[y].status \in {"running", "succeeded"}
      BY <2>4, <2>7, <3>1 DEF old
    <3> QED
      BY <1>1, <2>7, <3>1, <3>2 DEF ToolsHeld
  <2>9. /\ e \in WorkTables /\ e.task = w.task /\ e.status = w.status /\ e.event = w.event
        /\ e.cycle = w.cycle /\ e.art = w.art /\ e.exec = rows /\ e.mail = w.mail
        /\ e.ledger = w.ledger /\ e.outcome = w.outcome /\ e.tick = w.tick
    BY <1>1, <2>7 DEF WorkTables
  <2> HIDE DEF e
  <2>10. WorkHeld(e)
    BY <2>8, <2>9 DEF WorkHeld
  <2> QED
    BY <2>2, <2>3, <2>9, <2>10, SameWorkAnswer
<1> QED
  BY <1>2, <1>3

\* mark_executed: the first tool and the first day stay.
LEMMA SameMarkExecuted ==
    ASSUME NEW w, WorkHeld(w), NEW b, NEW x, NEW day \in Nat
    PROVE  SameWorkCall(w, PW!MarkExecuted(w, b, x, day), MW!MarkExecuted(w, b, x, day))
<1> DEFINE barred == b # Own \/ x \notin DOMAIN w.exec \/ (w.tool # Null /\ w.tool # x)
           when == IF w.executed = Null THEN day ELSE w.executed
           e == [w EXCEPT !.status = "live", !.tool = x, !.executed = when]
<1>1. w \in WorkTables /\ w.exec \in Seq(ExecRow) /\ w.executed \in Nat \cup {Null}
  BY WorkRows
<1>2. CASE barred
  <2>1. PW!MarkExecuted(w, b, x, day) = PW!Refused(w)
    BY <1>2 DEF PW!MarkExecuted
  <2>2. MW!MarkExecuted(w, b, x, day) = MW!Refused(w)
    BY <1>2 DEF MW!MarkExecuted, MW!Known
  <2> QED
    BY <2>1, <2>2, SameWorkRefusal
<1>3. CASE ~barred
  <2>1. PW!MarkExecuted(w, b, x, day) = PW!Answer(e, Null)
    BY <1>3 DEF PW!MarkExecuted
  <2>2. MW!MarkExecuted(w, b, x, day) = MW!Answer(e, Null)
    <3>1. [w EXCEPT !.tool = x, !.status = "live", !.executed = when] = e
      <4> HIDE DEF when
      <4> QED
        BY <1>1 DEF WorkTables
    <3>2. MW!MarkExecuted(w, b, x, day)
            = MW!Answer([w EXCEPT !.tool = x, !.status = "live", !.executed = when], Null)
      <4>1. (IF w.executed # Null THEN w.executed ELSE day) = when
        OBVIOUS
      <4>2. MW!MarkExecuted(w, b, x, day)
              = MW!Answer([w EXCEPT !.tool = x, !.status = "live",
                             !.executed = IF w.executed # Null THEN w.executed ELSE day], Null)
        BY <1>3 DEF MW!MarkExecuted, MW!Known
      <4> HIDE DEF when
      <4> QED
        BY <4>1, <4>2
    <3> HIDE DEF e, when
    <3> QED
      BY <3>1, <3>2
  <2>3. x \in Nat /\ when \in Nat
    BY <1>1, <1>3, RowsOf
  <2> HIDE DEF when
  <2>4. /\ e \in WorkTables /\ e.task = w.task /\ e.status = "live" /\ e.event = w.event
        /\ e.cycle = w.cycle /\ e.art = w.art /\ e.exec = w.exec /\ e.mail = w.mail
        /\ e.ledger = w.ledger /\ e.outcome = w.outcome /\ e.tick = w.tick
    BY <1>1, <2>3 DEF WorkTables
  <2> HIDE DEF e
  <2>5. EventsHeld(e.status, e.event, e.cycle)
    BY <2>4 DEF EventsHeld
  <2>6. WorkHeld(e)
    BY <2>4, <2>5 DEF WorkHeld
  <2> QED
    BY <2>1, <2>2, <2>4, <2>6, SameWorkAnswer
<1> QED
  BY <1>2, <1>3

\* record_email_event, of a mail there is.
LEMMA SameRecordEmailEvent ==
    ASSUME NEW w, WorkHeld(w), NEW x \in DOMAIN w.exec, w.exec[x].tool = ReviewTool
    PROVE  SameWorkCall(w, PW!RecordEmailEvent(w, "e1", x, x, "open"),
                           MW!RecordEmailEvent(w, "e1", x, x, "open"))
<1> DEFINE p == PW!RecordEmailEvent(w, "e1", x, x, "open")
           m == MW!RecordEmailEvent(w, "e1", x, x, "open")
           S == {i \in DOMAIN w.mail : w.mail[i].id = "e1"}
           stored == MW!Next1(InOrder(S))
           only == CHOOSE i \in S : TRUE
           row == [id |-> "e1", exec |-> x, type |-> "open"]
           rows == Append(w.mail, row)
           e == [w EXCEPT !.mail = rows]
           size == Len(w.mail)
<1>1. /\ w \in WorkTables /\ w.mail \in Seq(MailRow) /\ size \in Nat
      /\ DOMAIN w.mail = 1..size /\ \A i, j \in DOMAIN w.mail : i = j
      /\ \A i \in DOMAIN w.mail : w.mail[i] \in MailRow
      /\ x \in Nat /\ x # Null
  BY WorkRows, RowsOf, AgreementAssumption DEF WorkHeld, MailHeld
<1>2. S = DOMAIN w.mail
  <2>1. \A i \in DOMAIN w.mail : w.mail[i].id = "e1"
    BY <1>1 DEF MailRow
  <2> QED
    BY <2>1
<1>3. PW!MailOf(w, x, x) = x
  <2> DEFINE hits == {y \in DOMAIN w.exec :
                         /\ w.exec[y].tool = PW!ReviewTool
                         /\ IF x # Null THEN y = x
                            ELSE w.exec[y].ref # Null /\ w.exec[y].ref = x}
             mail == CHOOSE y \in hits : \A z \in hits : z <= y
  <2>1. hits = {x}
    BY <1>1 DEF PW!ReviewTool, ReviewTool
  <2>2. PW!MailOf(w, x, x) = IF hits = {} THEN Null ELSE mail
    BY DEF PW!MailOf
  <2> HIDE DEF hits
  <2>3. mail = x
    BY <1>1, <2>1
  <2> HIDE DEF mail
  <2> QED
    BY <2>1, <2>2, <2>3
<1>4. p = IF S # {} THEN PW!Answer(w, <<only, FALSE>>) ELSE PW!Answer(e, <<size + 1, TRUE>>)
  <2> DEFINE mail == PW!MailOf(w, x, x)
  <2>1. p = IF mail = Null THEN PW!Answer(w, Null)
            ELSE IF S # {} THEN PW!Answer(w, <<only, FALSE>>)
            ELSE PW!Answer([w EXCEPT !.mail = Append(w.mail,
                              [id |-> "e1", exec |-> mail, type |-> "open"])],
                           <<size + 1, TRUE>>)
    BY DEF PW!RecordEmailEvent
  <2>2. mail = x
    BY <1>3
  <2> HIDE DEF mail, S, only, p
  <2> QED
    BY <1>1, <2>1, <2>2
<1>5. m = IF stored # Null THEN MW!Answer(w, <<stored, FALSE>>)
          ELSE MW!Answer(e, <<size + 1, TRUE>>)
  <2> DEFINE there == MW!Next1(MW!InOrder(S))
             byRef == MW!Next1(MW!InOrder({i \in DOMAIN w.exec :
                         /\ w.exec[i].tool = "ses.send_review_email" /\ w.exec[i].ref = x}))
             tool == IF x # Null /\ x \in DOMAIN w.exec THEN x ELSE byRef
  <2>1. m = IF there # Null THEN MW!Answer(w, <<there, FALSE>>)
            ELSE IF tool = Null THEN MW!Answer(w, Null)
            ELSE MW!Answer([w EXCEPT !.mail = Append(w.mail,
                              [id |-> "e1", exec |-> tool, type |-> "open"])],
                           <<size + 1, TRUE>>)
    BY DEF MW!RecordEmailEvent, MW!Matching, MW!Known
  <2> HIDE DEF byRef, S
  <2>2. there = stored
    BY SameLists3
  <2>3. tool = x
    BY <1>1
  <2> HIDE DEF tool, there, stored, m
  <2> QED
    BY <1>1, <2>1, <2>2, <2>3
<1> HIDE DEF p, m, S
<1>6. /\ stored = Null <=> S = {}
      /\ S # {} => stored = only
  BY <1>1, <1>2, OnlyHit
<1> HIDE DEF stored, only
<1>7. CASE S # {}
  <2> DEFINE answer == <<only, FALSE>>
  <2>1. p = PW!Answer(w, answer) /\ m = MW!Answer(w, answer)
    BY <1>4, <1>5, <1>6, <1>7
  <2> QED
    BY <2>1, SameWorkAnswer DEF p, m
<1>8. CASE S = {}
  <2> DEFINE answer == <<size + 1, TRUE>>
  <2>1. p = PW!Answer(e, answer) /\ m = MW!Answer(e, answer)
    BY <1>4, <1>5, <1>6, <1>8
  <2>2. size = 0
    BY <1>1, <1>2, <1>8
  <2>3. row \in MailRow
    BY <1>1 DEF MailRow
  <2> HIDE DEF row
  <2>4. IsAppend(MailRow, w.mail, row, rows)
    BY <1>1, <2>3, Appended
  <2> HIDE DEF rows
  <2>5. rows \in Seq(MailRow) /\ DOMAIN rows = 1..(size + 1)
    BY <1>1, <2>4 DEF IsAppend
  <2>6. MailHeld(rows)
    BY <2>2, <2>5 DEF MailHeld
  <2>7. /\ e \in WorkTables /\ e.task = w.task /\ e.status = w.status /\ e.event = w.event
        /\ e.cycle = w.cycle /\ e.art = w.art /\ e.exec = w.exec /\ e.mail = rows
        /\ e.ledger = w.ledger /\ e.outcome = w.outcome /\ e.tick = w.tick
    BY <1>1, <2>5 DEF WorkTables
  <2> HIDE DEF e
  <2>8. WorkHeld(e)
    BY <2>6, <2>7 DEF WorkHeld
  <2> QED
    BY <2>1, <2>7, <2>8, SameWorkAnswer DEF p, m
<1> QED
  BY <1>7, <1>8 DEF p, m

-----------------------------------------------------------------------------
\* Verdicts and reports.

\* insert_ledger: a period has one row, a second one is refused.
LEMMA SameInsertLedger ==
    ASSUME NEW w, WorkHeld(w), NEW period \in Nat,
           NEW verdict \in {"estimated", "miss", "verified"}, NEW cents \in Figures \cup {Null}
    PROVE  SameWorkCall(w, PW!InsertLedger(w, period, verdict, cents),
                           MW!InsertLedger(w, period, verdict, cents))
<1> DEFINE p == PW!InsertLedger(w, period, verdict, cents)
           m == MW!InsertLedger(w, period, verdict, cents)
           S == {i \in DOMAIN w.ledger : w.ledger[i].period = period}
           stored == MW!Next1(InOrder(S))
           tick == w.tick + 1
           row == [period |-> period, verdict |-> verdict, cents |-> cents, at |-> tick]
           rows == Append(w.ledger, row)
           e == [w EXCEPT !.tick = tick, !.ledger = rows]
           size == Len(w.ledger)
<1>1. /\ w \in WorkTables /\ w.ledger \in Seq(LedgerRow) /\ size \in Nat
      /\ DOMAIN w.ledger = 1..size /\ LedgerHeld(w.ledger) /\ OutcomesHeld(w.outcome, w.tick)
      /\ w.tick \in Nat /\ tick \in Nat /\ w.outcome \in Seq(OutcomeRow)
  BY WorkRows, RowsOf DEF WorkHeld
<1>2. S \subseteq DOMAIN w.ledger /\ \A i, j \in S : i = j
  BY <1>1 DEF LedgerHeld
<1>3. p = IF S # {} THEN PW!Refused(w) ELSE PW!Answer(e, size + 1)
  <2>1. p = IF \E i \in DOMAIN w.ledger : w.ledger[i].period = period THEN PW!Refused(w)
            ELSE PW!Answer(e, size + 1)
    BY DEF PW!InsertLedger, PW!Entry
  <2>2. (\E i \in DOMAIN w.ledger : w.ledger[i].period = period) <=> S # {}
    OBVIOUS
  <2> HIDE DEF p, e, S
  <2> QED
    BY <2>1, <2>2
<1>4. m = IF stored # Null THEN MW!Refused(w) ELSE MW!Answer(e, size + 1)
  <2> DEFINE there == MW!Next1(MW!InOrder(S))
  <2>1. m = IF there # Null THEN MW!Refused(w) ELSE MW!Answer(e, size + 1)
    BY DEF MW!InsertLedger, MW!Matching
  <2> HIDE DEF S
  <2>2. there = stored
    BY SameLists3
  <2> HIDE DEF there, stored, m, e
  <2> QED
    BY <2>1, <2>2
<1>5. \A i \in DOMAIN w.ledger : i \notin S => w.ledger[i].period # period
  OBVIOUS
<1> HIDE DEF p, m, S
<1>6. stored = Null <=> S = {}
  BY <1>1, <1>2, OnlyHit
<1> HIDE DEF stored
<1>7. CASE S # {}
  <2>1. p = PW!Refused(w) /\ m = MW!Refused(w)
    BY <1>3, <1>4, <1>6, <1>7
  <2> QED
    BY <2>1, SameWorkRefusal DEF p, m
<1>8. CASE S = {}
  <2> DEFINE answer == size + 1
  <2>1. p = PW!Answer(e, answer) /\ m = MW!Answer(e, answer)
    BY <1>3, <1>4, <1>6, <1>8
  <2>2. \A k \in DOMAIN w.outcome : w.outcome[k].at \in Nat
    <3>1. \A k \in DOMAIN w.outcome : w.outcome[k] \in OutcomeRow
      BY <1>1, RowsOf
    <3> QED
      BY <3>1 DEF OutcomeRow
  <2>3. OutcomesHeld(w.outcome, tick)
    BY <1>1, <2>2 DEF OutcomesHeld
  <2>4. tick \in Nat
    BY <1>1
  <2> HIDE DEF tick
  <2>5. row \in LedgerRow /\ row.period = period
    BY <2>4 DEF LedgerRow
  <2> HIDE DEF row
  <2>6. IsAppend(LedgerRow, w.ledger, row, rows)
    BY <1>1, <2>5, Appended
  <2> HIDE DEF rows
  <2>7. /\ rows \in Seq(LedgerRow) /\ DOMAIN rows = 1..(size + 1) /\ rows[size + 1] = row
        /\ \A i \in DOMAIN w.ledger : rows[i] = w.ledger[i]
    BY <1>1, <2>6 DEF IsAppend
  <2>8. \A i \in DOMAIN rows : i \in DOMAIN w.ledger \/ i = size + 1
    BY <1>1, <2>7
  <2> HIDE DEF size
  <2>9. LedgerHeld(rows)
    <3>1. \A i \in DOMAIN w.ledger : w.ledger[i].period # period
      BY <1>5, <1>8
    <3> QED
      BY <1>1, <2>5, <2>7, <2>8, <3>1 DEF LedgerHeld
  <2>10. /\ e \in WorkTables /\ e.task = w.task /\ e.status = w.status /\ e.event = w.event
         /\ e.cycle = w.cycle /\ e.art = w.art /\ e.exec = w.exec /\ e.mail = w.mail
         /\ e.ledger = rows /\ e.outcome = w.outcome /\ e.tick = tick
    BY <1>1, <2>4, <2>7 DEF WorkTables
  <2> HIDE DEF e
  <2>11. WorkHeld(e)
    BY <2>3, <2>9, <2>10 DEF WorkHeld
  <2> QED
    BY <2>1, <2>10, <2>11, SameWorkAnswer DEF p, m
<1> QED
  BY <1>7, <1>8 DEF p, m

\* update_ledger_verdict: an estimate becomes a measurement, nothing else does.
LEMMA SameUpdateLedger ==
    ASSUME NEW w, WorkHeld(w), NEW b, NEW period \in Nat,
           NEW verdict \in {"estimated", "miss", "verified"}, NEW cents \in Figures \cup {Null}
    PROVE  SameWorkCall(w, PW!UpdateLedger(w, b, period, verdict, cents),
                           MW!UpdateLedger(w, b, period, verdict, cents))
<1> DEFINE p == PW!UpdateLedger(w, b, period, verdict, cents)
           m == MW!UpdateLedger(w, b, period, verdict, cents)
           hits == {i \in DOMAIN w.ledger : /\ w.ledger[i].period = period
                                            /\ w.ledger[i].verdict = "estimated"}
           S == {i \in DOMAIN w.ledger : b = Own /\ w.ledger[i].period = period}
           found == MW!Next1(InOrder(S))
           i0 == CHOOSE i \in hits : TRUE
           tick == w.tick + 1
           row == [period |-> period, verdict |-> verdict, cents |-> cents, at |-> tick]
           changed(i) == [w EXCEPT !.tick = tick, !.ledger = [w.ledger EXCEPT ![i] = row]]
<1>1. /\ w \in WorkTables /\ w.ledger \in Seq(LedgerRow)
      /\ LedgerHeld(w.ledger) /\ OutcomesHeld(w.outcome, w.tick)
      /\ w.tick \in Nat /\ tick \in Nat /\ w.outcome \in Seq(OutcomeRow)
  BY WorkRows DEF WorkHeld
<1>2. S \subseteq DOMAIN w.ledger /\ \A i, j \in S : i = j
  BY <1>1 DEF LedgerHeld
<1>3. p = IF b # Own \/ hits = {} THEN PW!Refused(w) ELSE PW!Answer(changed(i0), i0)
  BY DEF PW!UpdateLedger, PW!Entry
<1>4. m = IF found = Null THEN MW!Refused(w)
          ELSE IF w.ledger[found].verdict # "estimated" THEN MW!Refused(w)
          ELSE MW!Answer([w EXCEPT !.tick = tick, !.ledger = [w.ledger EXCEPT ![found] =
                            [w.ledger[found] EXCEPT !.verdict = verdict, !.cents = cents,
                                                    !.at = tick]]], found)
  <2> DEFINE there == MW!Next1(MW!InOrder(S))
  <2>1. m = IF there = Null THEN MW!Refused(w)
            ELSE IF w.ledger[there].verdict # "estimated" THEN MW!Refused(w)
            ELSE MW!Answer([w EXCEPT !.tick = tick, !.ledger = [w.ledger EXCEPT ![there] =
                              [w.ledger[there] EXCEPT !.verdict = verdict, !.cents = cents,
                                                      !.at = tick]]], there)
    BY DEF MW!UpdateLedger, MW!Matching
  <2> HIDE DEF S
  <2>2. there = found
    BY SameLists3
  <2> HIDE DEF there, found, m
  <2> QED
    BY <2>1, <2>2
<1>5. /\ \A i \in DOMAIN w.ledger : i \in S <=> b = Own /\ w.ledger[i].period = period
      /\ \A i \in hits : /\ i \in DOMAIN w.ledger /\ w.ledger[i].period = period
                         /\ w.ledger[i].verdict = "estimated"
      /\ \A i \in DOMAIN w.ledger : w.ledger[i].period = period
            /\ w.ledger[i].verdict = "estimated" => i \in hits
  OBVIOUS
<1>6. hits # {} => i0 \in hits
  OBVIOUS
<1> HIDE DEF p, m, S, hits, changed
<1>7. /\ found = Null <=> S = {}
      /\ S # {} => found \in S
  BY <1>1, <1>2, OnlyHit
<1> HIDE DEF found, i0
<1>8. CASE b # Own \/ hits = {}
  <2>1. p = PW!Refused(w)
    BY <1>3, <1>8
  <2>2. found # Null => w.ledger[found].verdict # "estimated"
    BY <1>2, <1>5, <1>7, <1>8
  <2>3. m = MW!Refused(w)
    BY <1>4, <2>2
  <2> QED
    BY <2>1, <2>3, SameWorkRefusal DEF p, m
<1>9. CASE b = Own /\ hits # {}
  <2> DEFINE old == w.ledger[i0]
             rows == [w.ledger EXCEPT ![i0] = row]
             e == [w EXCEPT !.tick = tick, !.ledger = rows]
  <2>1. i0 \in DOMAIN w.ledger /\ old.period = period /\ old.verdict = "estimated" /\ i0 \in S
    BY <1>5, <1>6, <1>9
  <2>2. found = i0 /\ found # Null
    BY <1>2, <1>7, <2>1
  <2>3. old \in LedgerRow
    BY <1>1, <2>1, RowsOf
  <2>4. [old EXCEPT !.verdict = verdict, !.cents = cents, !.at = tick] = row
    <3> DEFINE new == [old EXCEPT !.verdict = verdict, !.cents = cents, !.at = tick]
    <3>1. tick \in Nat
      BY <1>1
    <3> HIDE DEF old, tick
    <3>2. /\ new \in LedgerRow /\ new.period = period /\ new.verdict = verdict
          /\ new.cents = cents /\ new.at = tick
      BY <2>1, <2>3, <3>1 DEF LedgerRow
    <3> HIDE DEF new
    <3>3. new = [period |-> new.period, verdict |-> new.verdict, cents |-> new.cents,
                 at |-> new.at]
      BY <3>2 DEF LedgerRow
    <3> QED
      BY <3>2, <3>3 DEF new
  <2>5. p = PW!Answer(e, i0)
    <3>1. p = PW!Answer(changed(i0), i0)
      BY <1>3, <1>9
    <3> QED
      BY <3>1 DEF changed
  <2>6. m = MW!Answer(e, i0)
    <3>1. m = MW!Answer([w EXCEPT !.tick = tick, !.ledger = [w.ledger EXCEPT ![i0] =
                           [old EXCEPT !.verdict = verdict, !.cents = cents, !.at = tick]]], i0)
      BY <1>4, <2>1, <2>2
    <3> HIDE DEF old, row, tick
    <3> QED
      BY <2>4, <3>1
  <2>7. \A k \in DOMAIN w.outcome : w.outcome[k].at \in Nat
    <3>1. \A k \in DOMAIN w.outcome : w.outcome[k] \in OutcomeRow
      BY <1>1, RowsOf
    <3> QED
      BY <3>1 DEF OutcomeRow
  <2>8. OutcomesHeld(w.outcome, tick) /\ tick \in Nat
    BY <1>1, <2>7 DEF OutcomesHeld
  <2> HIDE DEF tick, old
  <2>9. row \in LedgerRow /\ row.period = period
    BY <2>8 DEF LedgerRow
  <2> HIDE DEF row
  <2>10. IsChange(LedgerRow, w.ledger, i0, row, rows)
    BY <1>1, <2>1, <2>9, Changed
  <2> HIDE DEF rows
  <2>11. /\ rows \in Seq(LedgerRow) /\ DOMAIN rows = DOMAIN w.ledger
         /\ \A i \in DOMAIN w.ledger : rows[i] = IF i = i0 THEN row ELSE w.ledger[i]
    BY <2>10 DEF IsChange
  <2>12. \A i \in DOMAIN w.ledger : rows[i].period = w.ledger[i].period
    BY <2>1, <2>9, <2>11 DEF old
  <2>13. LedgerHeld(rows)
    BY <1>1, <2>11, <2>12 DEF LedgerHeld
  <2>14. /\ e \in WorkTables /\ e.task = w.task /\ e.status = w.status /\ e.event = w.event
         /\ e.cycle = w.cycle /\ e.art = w.art /\ e.exec = w.exec /\ e.mail = w.mail
         /\ e.ledger = rows /\ e.outcome = w.outcome /\ e.tick = tick
    BY <1>1, <2>8, <2>11 DEF WorkTables
  <2> HIDE DEF e
  <2>15. WorkHeld(e)
    BY <2>8, <2>13, <2>14 DEF WorkHeld
  <2> QED
    BY <2>5, <2>6, <2>14, <2>15, SameWorkAnswer DEF p, m
<1> QED
  BY <1>8, <1>9 DEF p, m

\* record_outcome: only of what was approved or done.
LEMMA SameRecordOutcome ==
    ASSUME NEW w, WorkHeld(w), NEW b, NEW cents \in Figures
    PROVE  SameWorkCall(w, PW!RecordOutcome(w, b, cents), MW!RecordOutcome(w, b, cents))
<1> DEFINE barred == b # Own \/ w.status \notin {"accepted", "live"}
           tick == w.tick + 1
           row == [cents |-> cents, at |-> tick]
           rows == Append(w.outcome, row)
           e == [w EXCEPT !.tick = tick, !.outcome = rows]
           size == Len(w.outcome)
<1>1. /\ w \in WorkTables /\ w.outcome \in Seq(OutcomeRow) /\ size \in Nat
      /\ DOMAIN w.outcome = 1..size /\ OutcomesHeld(w.outcome, w.tick)
      /\ w.tick \in Nat /\ tick \in Nat
  BY WorkRows, RowsOf DEF WorkHeld
<1>2. CASE barred
  <2>1. PW!RecordOutcome(w, b, cents) = PW!Refused(w)
    BY <1>2 DEF PW!RecordOutcome, PW!Judgeable
  <2>2. MW!RecordOutcome(w, b, cents) = MW!Refused(w)
    BY <1>2 DEF MW!RecordOutcome
  <2> QED
    BY <2>1, <2>2, SameWorkRefusal
<1>3. CASE ~barred
  <2> DEFINE answer == size + 1
  <2>1. PW!RecordOutcome(w, b, cents) = PW!Answer(e, answer)
    BY <1>3 DEF PW!RecordOutcome, PW!Judgeable
  <2>2. MW!RecordOutcome(w, b, cents) = MW!Answer(e, answer)
    BY <1>3 DEF MW!RecordOutcome
  <2>3. \A k \in DOMAIN w.outcome : w.outcome[k].at \in Nat /\ w.outcome[k].at < tick
    <3>1. \A k \in DOMAIN w.outcome : w.outcome[k] \in OutcomeRow
      BY <1>1, RowsOf
    <3> QED
      BY <1>1, <3>1 DEF OutcomeRow, OutcomesHeld
  <2>4. tick \in Nat
    BY <1>1
  <2> HIDE DEF tick
  <2>5. row \in OutcomeRow /\ row.at = tick
    BY <2>4 DEF OutcomeRow
  <2> HIDE DEF row
  <2>6. IsAppend(OutcomeRow, w.outcome, row, rows)
    BY <1>1, <2>5, Appended
  <2> HIDE DEF rows
  <2>7. /\ rows \in Seq(OutcomeRow) /\ DOMAIN rows = 1..(size + 1) /\ rows[size + 1] = row
        /\ \A k \in DOMAIN w.outcome : rows[k] = w.outcome[k]
    BY <1>1, <2>6 DEF IsAppend
  <2>8. /\ \A k \in DOMAIN rows : k \in DOMAIN w.outcome \/ k = size + 1
        /\ \A j, k \in DOMAIN rows : j < k => j \in DOMAIN w.outcome
    BY <1>1, <2>7
  <2> HIDE DEF size
  <2>9. OutcomesHeld(rows, tick)
    <3>1. \A k \in DOMAIN rows : rows[k].at <= tick
      BY <2>3, <2>4, <2>5, <2>7, <2>8
    <3>2. \A j, k \in DOMAIN rows : j < k => rows[j].at < rows[k].at
      BY <1>1, <2>3, <2>5, <2>7, <2>8 DEF OutcomesHeld
    <3> QED
      BY <3>1, <3>2 DEF OutcomesHeld
  <2>10. /\ e \in WorkTables /\ e.task = w.task /\ e.status = w.status /\ e.event = w.event
         /\ e.cycle = w.cycle /\ e.art = w.art /\ e.exec = w.exec /\ e.mail = w.mail
         /\ e.ledger = w.ledger /\ e.outcome = rows /\ e.tick = tick
    BY <1>1, <2>4, <2>7 DEF WorkTables
  <2> HIDE DEF e
  <2>11. WorkHeld(e)
    BY <2>9, <2>10 DEF WorkHeld
  <2> QED
    BY <2>1, <2>2, <2>10, <2>11, SameWorkAnswer
<1> QED
  BY <1>2, <1>3

-----------------------------------------------------------------------------
\* Time passes for both.
LEMMA LaterHeld ==
    ASSUME NEW w, WorkHeld(w)
    PROVE  WorkHeld(Later(w)) /\ Later(w).event = w.event
<1> DEFINE rows == [t \in DOMAIN w.task |-> Older(w.task[t])]
           e == [w EXCEPT !.task = rows]
<1>1. w.task \in Seq(TaskRows) /\ w \in WorkTables
      /\ DOMAIN w.task = 1..Len(w.task) /\ Len(w.task) \in Nat
  BY WorkRows, RowsOf
<1>2. ASSUME NEW t \in DOMAIN w.task
      PROVE  /\ rows[t] \in TaskRows
             /\ TaskHeld(rows[t], w.cycle, Len(w.art))
             /\ Follows(w.task[t], rows[t], w.cycle, Len(w.art))
  <2> DEFINE old == w.task[t]
             row == Older(old)
  <2>1. old \in TaskRows /\ TaskHeld(old, w.cycle, Len(w.art))
    BY TaskFields
  <2>2. row = [old EXCEPT !.due = TRUE, !.expired = old.expired \/ old.status = "running"]
    BY DEF Older
  <2>3. rows[t] = row
    OBVIOUS
  <2> DEFINE gone == old.expired \/ old.status = "running"
  <2>4. gone \in BOOLEAN /\ (old.status # "running" => ~gone)
    BY <2>1 DEF TaskHeld
  <2> HIDE DEF rows, row, old
  <2>5. /\ row \in TaskRows /\ row.cycle = old.cycle /\ row.superseded = old.superseded
        /\ row.revision = old.revision /\ row.output = old.output
        /\ row.status = old.status /\ row.token = old.token /\ row.expired = gone
        /\ row.due = TRUE /\ row.cancelled = old.cancelled
    <3>1. row = [old EXCEPT !.due = TRUE, !.expired = gone]
      BY <2>2
    <3> HIDE DEF gone
    <3> QED
      BY <2>1, <2>4, <3>1 DEF TaskRows
  <2> HIDE DEF gone
  <2>6. TaskHeld(row, w.cycle, Len(w.art)) /\ Follows(old, row, w.cycle, Len(w.art))
    BY <2>1, <2>4, <2>5 DEF TaskHeld, Follows
  <2> QED
    BY <2>3, <2>5, <2>6 DEF old
<1>3. DOMAIN rows = DOMAIN w.task
  OBVIOUS
<1>4. rows \in Seq(TaskRows)
  <2>1. rows \in [1..Len(w.task) -> TaskRows]
    BY <1>1, <1>2
  <2> HIDE DEF rows
  <2> QED
    BY <1>1, <2>1, SeqOfMap
<1>5. Later(w) = e
  BY DEF Later
<1> HIDE DEF rows
<1>6. WorkHeld(e)
  <2>1. w.minted \in Nat
    BY WorkRows
  <2> QED
    BY <1>2, <1>3, <1>4, <2>1, TasksRewritten
<1>7. e.event = w.event
  BY <1>1 DEF WorkTables
<1> HIDE DEF e
<1> QED
  BY <1>5, <1>6, <1>7

\* A call that answers and leaves the same in both keeps the invariant.
LEMMA AfterWorkCall ==
    ASSUME NEW a, NEW p, NEW m, Work(a, p, m), SameWorkCall(pg, p, m),
           area = "meter" => pg.event # <<>>
    PROVE  WorkInv'
<1>1. /\ pg' = p.w /\ mem' = m.w /\ agreed' = Alike(p, m) /\ area' = area
  BY DEF Work, In
<1>2. p = m /\ WorkHeld(p.w) /\ (pg.event # <<>> => p.w.event # <<>>)
  BY DEF SameWorkCall
<1>3. Alike(p, m)
  BY <1>2 DEF Alike
<1>4. agreed'
  BY <1>1, <1>3
<1>5. (WorkHeld(pg))'
  BY <1>1, <1>2 DEF WorkHeld
<1> QED
  BY <1>1, <1>2, <1>4, <1>5 DEF WorkInv

\* A recommendation just made.
LEMMA NewWorkHeld ==
    ASSUME NEW status \in {"proposed", "withheld", "accepted"}
    PROVE  /\ WorkHeld(PW!NewWork(status)) /\ PW!NewWork(status).event = <<>>
           /\ PW!NewWork(status).exec = <<>> /\ PW!NewWork(status).status = status
<1> DEFINE w == PW!NewWork(status)
<1>1. /\ <<>> \in Seq(EventRow) /\ <<>> \in Seq(TaskRows) /\ <<>> \in Seq(ArtRow)
      /\ <<>> \in Seq(ExecRow) /\ <<>> \in Seq(MailRow) /\ <<>> \in Seq(LedgerRow)
      /\ <<>> \in Seq(OutcomeRow) /\ DOMAIN <<>> = {}
  BY EmptySeq
<1>2. /\ w \in WorkTables /\ w.status = status /\ w.cycle = 1 /\ w.tick = 0
      /\ w.event = <<>> /\ w.task = <<>> /\ w.art = <<>> /\ w.exec = <<>>
      /\ w.mail = <<>> /\ w.ledger = <<>> /\ w.outcome = <<>>
  BY <1>1 DEF PW!NewWork, WorkTables
<1> HIDE DEF w
<1>3. WorkHeld(w)
  BY <1>1, <1>2 DEF WorkHeld, EventsHeld, TasksHeld, DraftsHeld, ToolsHeld, MailHeld,
                    LedgerHeld, OutcomesHeld
<1> QED
  BY <1>2, <1>3 DEF w

\* The published recommendation the meter starts from.
LEMMA PublishedHeld ==
    WorkHeld(Published) /\ Published.event # <<>>
<1> DEFINE new == PW!NewWork("proposed")
           accepted == PW!SetStatus(new, Own, "accepted")
           created == PW!CreateTask(accepted.w, Own)
           tool == "post"
           key == <<1, tool>>
           one == 1
           started == PW!StartTool(created.w, one, Own, tool, key)
           settled == "succeeded"
           finished == PW!FinishTool(started.w, one, settled, one)
<1>1. Published = finished.w
  BY DEF Published
<1>2. WorkHeld(new) /\ new.event = <<>> /\ new.exec = <<>> /\ new.status = "proposed"
  BY NewWorkHeld
<1> HIDE DEF new
<1>3. WorkHeld(accepted.w) /\ accepted.w.event # <<>> /\ accepted.w.exec = <<>>
  <2> DEFINE row == [cycle |-> new.cycle, type |-> "accepted"]
             event == Append(new.event, row)
             e == [new EXCEPT !.status = "accepted", !.event = event]
  <2>1. accepted = PW!Answer(e, TRUE)
    <3>1. "accepted" # Null
      BY AgreementAssumption
    <3>2. PW!Decision(new.status, "accepted") = "accepted"
      BY <1>2 DEF PW!Decision
    <3>3. accepted = PW!Answer([new EXCEPT !.status = "accepted",
                                  !.event = Append(new.event, [cycle |-> new.cycle,
                                     type |-> PW!Decision(new.status, "accepted")])], TRUE)
      BY <1>2, <3>1, <3>2 DEF PW!SetStatus
    <3> HIDE DEF accepted
    <3> QED
      BY <3>2, <3>3
  <2>2. new \in WorkTables /\ new.event \in Seq(EventRow) /\ new.cycle \in Nat
    BY <1>2, WorkRows
  <2>3. row \in EventRow
    BY <2>2 DEF EventRow
  <2> HIDE DEF row
  <2>4. IsAppend(EventRow, new.event, row, event)
    BY <2>2, <2>3, Appended
  <2> HIDE DEF event
  <2>5. event # <<>>
    <3>1. Len(new.event) + 1 \in DOMAIN event
      BY <2>4 DEF IsAppend
    <3> QED
      BY <3>1, EmptySeq
  <2>6. accepted.w = e /\ e.event = event /\ e.exec = new.exec
    <3>1. e.event = event /\ e.exec = new.exec
      BY <2>2 DEF WorkTables
    <3> HIDE DEF e
    <3> QED
      BY <2>1, <3>1 DEF PW!Answer
  <2> DEFINE to == "accepted"
  <2>7. to \in {"accepted", "rejected", "later"} /\ accepted = PW!SetStatus(new, Own, to)
    OBVIOUS
  <2> HIDE DEF to, accepted, e
  <2>8. WorkHeld(accepted.w)
    <3>1. SameWorkCall(new, accepted, MW!SetStatus(new, Own, to))
      BY <1>2, <2>7, SameSetStatus
    <3> QED
      BY <3>1 DEF SameWorkCall
  <2> QED
    BY <1>2, <2>5, <2>6, <2>8
<1> HIDE DEF accepted
<1>4. WorkHeld(created.w) /\ created.w.event # <<>> /\ created.w.exec = <<>>
  <2> DEFINE w == accepted.w
  <2>1. WorkHeld(w) /\ w.event # <<>> /\ w.exec = <<>> /\ w \in WorkTables
    BY <1>3, WorkRows
  <2>2. created = PW!CreateTask(w, Own)
    OBVIOUS
  <2> HIDE DEF w, created
  <2>3. SameWorkCall(w, created, MW!CreateTask(w, Own))
    BY <2>1, <2>2, SameCreateTask
  <2>4. created.w.exec = w.exec
    <3> DEFINE rows == Append(w.task, PW!TaskRow(w.cycle))
               e == [w EXCEPT !.task = rows]
    <3>1. created.w = w \/ created.w = e
      BY <2>2 DEF PW!CreateTask, PW!Answer, PW!Refused
    <3> HIDE DEF rows
    <3>2. e.exec = w.exec
      BY <2>1 DEF WorkTables
    <3> QED
      BY <3>1, <3>2
  <2> QED
    BY <2>1, <2>3, <2>4 DEF SameWorkCall
<1> HIDE DEF created
<1>5. /\ WorkHeld(started.w) /\ started.w.event # <<>>
      /\ \A x \in DOMAIN started.w.exec : started.w.exec[x].status = "running"
  <2> DEFINE w == created.w
  <2>1. /\ WorkHeld(w) /\ w.event # <<>> /\ w.exec = <<>> /\ w \in WorkTables
        /\ w.exec \in Seq(ExecRow)
    BY <1>4, WorkRows
  <2>2. started = PW!StartTool(w, one, Own, tool, key) /\ tool \in ToolNames /\ key = <<one, tool>>
    BY DEF ToolNames
  <2> DEFINE row == [task |-> one, tool |-> tool, key |-> key, status |-> "running", ref |-> Null]
             rows == Append(w.exec, row)
             e == [w EXCEPT !.exec = rows]
  <2> HIDE DEF w, started, one, key, tool
  <2>3. SameWorkCall(w, started, MW!StartTool(w, one, Own, tool, key))
    BY <2>1, <2>2, SameStartTool
  <2>4. started.w = w \/ started.w = e
    BY <2>2 DEF PW!StartTool, PW!Answer, PW!Refused
  <2>5. \A x \in DOMAIN rows : rows[x].status = "running"
    <3>1. row.status = "running"
      OBVIOUS
    <3> HIDE DEF row
    <3>2. rows = <<row>>
      BY <2>1
    <3> QED
      BY <3>1, <3>2
  <2> HIDE DEF rows
  <2>6. e.exec = rows
    BY <2>1 DEF WorkTables
  <2>7. DOMAIN w.exec = {}
    BY <2>1, EmptySeq
  <2> HIDE DEF e
  <2> QED
    BY <2>1, <2>3, <2>4, <2>5, <2>6, <2>7 DEF SameWorkCall
<1>6. WorkHeld(finished.w) /\ finished.w.event # <<>>
  <2> DEFINE w == started.w
  <2>1. /\ WorkHeld(w) /\ w.event # <<>>
        /\ one \in DOMAIN w.exec => w.exec[one].status = "running"
    BY <1>5
  <2>2. finished = PW!FinishTool(w, one, settled, one) /\ settled \in {"succeeded", "failed"}
    OBVIOUS
  <2> HIDE DEF w, finished, settled, one
  <2>3. SameWorkCall(w, finished, MW!FinishTool(w, one, settled, one))
    BY <2>1, <2>2, SameFinishTool
  <2> QED
    BY <2>1, <2>3 DEF SameWorkCall
<1> QED
  BY <1>1, <1>6

\* Every history starts alike.
LEMMA WorkStart ==
    Init => WorkInv
<1> SUFFICES ASSUME Init, area \in WorkAreas  PROVE WorkInv
  BY DEF WorkInv
<1>1. /\ agreed /\ pg = mem
      /\ area \in {"maker", "tools"} =>
            pg \in {PW!NewWork(s) : s \in {"proposed", "withheld", "accepted"}}
      /\ area = "meter" => pg = Published
  BY DEF Init, Starts, WorkAreas
<1>2. WorkHeld(pg) /\ (area = "meter" => pg.event # <<>>)
  BY <1>1, NewWorkHeld, PublishedHeld DEF WorkAreas
<1> QED
  BY <1>1, <1>2 DEF WorkInv

\* Every decision keeps the two alike.
LEMMA BoardAlike ==
    ASSUME WorkInv, area \in {"maker", "tools"}, Board, "refused_reopening" \notin Loose
    PROVE  WorkInv'
<1>1. agreed /\ pg = mem /\ WorkHeld(pg) /\ area # "meter"
  BY DEF WorkInv, WorkAreas
<1>2. ASSUME NEW b \in Bs, NEW s \in {"accepted", "rejected", "later"},
             Work(area, PW!SetStatus(pg, b, s), MW!SetStatus(mem, b, s))
      PROVE  WorkInv'
  BY <1>1, <1>2, SameSetStatus, AfterWorkCall
<1>3. ASSUME NEW b \in Bs, ~(PW!Published(pg) /\ pg.event = <<>>),
             Work(area, PW!Reconsider(pg, b), MW!Reconsider(mem, b))
      PROVE  WorkInv'
  BY <1>1, <1>3, SameReconsider, AfterWorkCall
<1>4. ASSUME NEW b \in Bs, Work(area, PW!CreateTask(pg, b), MW!CreateTask(mem, b))
      PROVE  WorkInv'
  BY <1>1, <1>4, SameCreateTask, AfterWorkCall
<1> QED
  BY <1>2, <1>3, <1>4 DEF Board, Decide

\* Every step of the maker keeps the two alike.
LEMMA MakeAlike ==
    ASSUME WorkInv, area = "maker", Make, "refused_reopening" \notin Loose,
           "early_claim" \notin Loose, "late_result" \notin Loose
    PROVE  WorkInv'
<1>1. agreed /\ pg = mem /\ WorkHeld(pg) /\ area # "meter"
  BY DEF WorkInv, WorkAreas
<1>2. CASE Board
  BY <1>2, BoardAlike
<1>3. ASSUME NEW t \in Ids, ClaimTask(t)
      PROVE  WorkInv'
  <2>1. /\ t \in DOMAIN pg.task => pg.task[t].due
        /\ Work("maker", PW!ClaimTask(pg, t), MW!ClaimTask(pg, t))
    BY <1>1, <1>3 DEF ClaimTask
  <2> QED
    BY <1>1, <2>1, SameClaim, AfterWorkCall
<1>4. ASSUME NEW t \in Ids, NEW token \in 1..MaxClaims,
             CompleteTask(t, token, IF pg.art = <<>> THEN Null ELSE Len(pg.art))
      PROVE  WorkInv'
  <2> DEFINE output == IF pg.art = <<>> THEN Null ELSE Len(pg.art)
  <2>1. /\ t \in DOMAIN pg.task => pg.task[t].status # "completed"
        /\ Work("maker", PW!CompleteTask(pg, t, token, output),
                         MW!CompleteTask(pg, t, token, output))
    BY <1>1, <1>4 DEF CompleteTask
  <2>2. output = IF pg.art = <<>> THEN Null ELSE Len(pg.art)
    OBVIOUS
  <2> HIDE DEF output
  <2>3. SameWorkCall(pg, PW!CompleteTask(pg, t, token, output),
                         MW!CompleteTask(pg, t, token, output))
    BY <1>1, <2>1, <2>2, SameComplete
  <2> QED
    BY <1>1, <2>1, <2>3, AfterWorkCall
<1>5. ASSUME NEW t \in Ids, NEW token \in 1..MaxClaims, NEW again \in BOOLEAN,
             Work("maker", PW!FailTask(pg, t, token, again), MW!FailTask(mem, t, token, again))
      PROVE  WorkInv'
  <2>1. Work("maker", PW!FailTask(pg, t, token, again), MW!FailTask(pg, t, token, again))
    BY <1>1, <1>5
  <2>2. SameWorkCall(pg, PW!FailTask(pg, t, token, again), MW!FailTask(pg, t, token, again))
    BY <1>1, SameFail
  <2> QED
    BY <1>1, <2>1, <2>2, AfterWorkCall
<1>6. CASE Work("maker", PW!RecoverStale(pg, 2), MW!RecoverStale(mem, 2))
  BY <1>1, <1>6, SameRecovery, AfterWorkCall
<1>7. CASE Draft
  <2>1. PICK t \in DOMAIN pg.task :
           LET n == pg.task[t].revision
               parent == IF n = 1 THEN Null ELSE pg.task[t].output IN
           Work("maker", PW!InsertArtifact(pg, t, <<t, n>>, n, parent),
                         MW!InsertArtifact(mem, t, <<t, n>>, n, parent))
    BY <1>7 DEF Draft
  <2> DEFINE n == pg.task[t].revision
             parent == IF n = 1 THEN Null ELSE pg.task[t].output
             key == <<t, n>>
  <2>2. Work("maker", PW!InsertArtifact(pg, t, key, n, parent),
                      MW!InsertArtifact(pg, t, key, n, parent))
    BY <1>1, <2>1
  <2>3. /\ n = pg.task[t].revision /\ parent = (IF n = 1 THEN Null ELSE pg.task[t].output)
        /\ key = <<t, n>>
    OBVIOUS
  <2> HIDE DEF key, parent, n
  <2>4. SameWorkCall(pg, PW!InsertArtifact(pg, t, key, n, parent),
                         MW!InsertArtifact(pg, t, key, n, parent))
    BY <1>1, <2>3, SameInsertArtifact
  <2> QED
    BY <1>1, <2>2, <2>4, AfterWorkCall
<1>8. CASE Revise
  <2>1. PICK b \in Bs : Work("maker", PW!RequestRevision(pg, b), MW!RequestRevision(pg, b))
    BY <1>1, <1>8 DEF Revise
  <2> QED
    BY <1>1, <2>1, SameRequestRevision, AfterWorkCall
<1>9. CASE TimePasses
  <2>1. pg' = Later(pg) /\ mem' = Later(mem) /\ agreed' = TRUE /\ area' = area
    BY <1>9 DEF TimePasses, In
  <2>2. WorkHeld(Later(pg))
    BY <1>1, LaterHeld
  <2>3. (WorkHeld(pg))'
    BY <2>1, <2>2 DEF WorkHeld
  <2>4. agreed' /\ pg' = mem'
    BY <1>1, <2>1
  <2> QED
    BY <1>1, <2>1, <2>3, <2>4 DEF WorkInv
<1> QED
  BY <1>2, <1>3, <1>4, <1>5, <1>6, <1>7, <1>8, <1>9 DEF Make, Carry

\* Every call about the tools keeps the two alike.
LEMMA ActAlike ==
    ASSUME WorkInv, area = "tools", Act, "settled_again" \notin Loose
    PROVE  WorkInv'
<1>1. agreed /\ pg = mem /\ WorkHeld(pg) /\ area # "meter"
  BY DEF WorkInv, WorkAreas
<1>2. ASSUME NEW t \in Ids, Work("tools", PW!PrepareDispatch(pg, t), MW!PrepareDispatch(mem, t))
      PROVE  WorkInv'
  BY <1>1, <1>2, SameDispatchCalls, AfterWorkCall
<1>3. ASSUME NEW t \in Ids, Work("tools", PW!RecordWorkflow(pg, t), MW!RecordWorkflow(mem, t))
      PROVE  WorkInv'
  BY <1>1, <1>3, SameDispatchCalls, AfterWorkCall
<1>4. ASSUME NEW t \in Ids, NEW b \in Bs, NEW tool \in {ReviewTool, "post"},
             Work("tools", PW!StartTool(pg, t, b, tool, <<t, tool>>),
                           MW!StartTool(mem, t, b, tool, <<t, tool>>))
      PROVE  WorkInv'
  <2> DEFINE key == <<t, tool>>
  <2>1. /\ tool \in ToolNames /\ key = <<t, tool>>
        /\ Work("tools", PW!StartTool(pg, t, b, tool, key), MW!StartTool(pg, t, b, tool, key))
    BY <1>1, <1>4 DEF ToolNames, ReviewTool
  <2> HIDE DEF key
  <2>2. SameWorkCall(pg, PW!StartTool(pg, t, b, tool, key), MW!StartTool(pg, t, b, tool, key))
    BY <1>1, <2>1, SameStartTool
  <2> QED
    BY <1>1, <2>1, <2>2, AfterWorkCall
<1>5. ASSUME NEW x \in Ids, NEW s \in {"succeeded", "failed"},
             "settled_again" \notin Loose =>
                (x \in DOMAIN pg.exec => \/ pg.exec[x].tool = ReviewTool
                                         \/ pg.exec[x].status = "running"),
             Work("tools", PW!FinishTool(pg, x, s, x), MW!FinishTool(mem, x, s, x))
      PROVE  WorkInv'
  BY <1>1, <1>5, SameFinishTool, AfterWorkCall
<1>6. ASSUME NEW b \in Bs, NEW x \in Ids,
             Work("tools", PW!MarkExecuted(pg, b, x, 1), MW!MarkExecuted(mem, b, x, 1))
      PROVE  WorkInv'
  <2> DEFINE day == 1
  <2>1. /\ day \in Nat
        /\ Work("tools", PW!MarkExecuted(pg, b, x, day), MW!MarkExecuted(pg, b, x, day))
    BY <1>1, <1>6
  <2> HIDE DEF day
  <2> QED
    BY <1>1, <2>1, SameMarkExecuted, AfterWorkCall
<1>7. ASSUME NEW x \in DOMAIN pg.exec, pg.exec[x].tool = ReviewTool,
             Work("tools", PW!RecordEmailEvent(pg, "e1", x, x, "open"),
                           MW!RecordEmailEvent(mem, "e1", x, x, "open"))
      PROVE  WorkInv'
  BY <1>1, <1>7, SameRecordEmailEvent, AfterWorkCall
<1> QED
  BY <1>2, <1>3, <1>4, <1>5, <1>6, <1>7 DEF Act

\* Every call about the meter keeps the two alike.
LEMMA MeasureAlike ==
    ASSUME WorkInv, area = "meter", Measure
    PROVE  WorkInv'
<1>1. agreed /\ pg = mem /\ WorkHeld(pg) /\ pg.event # <<>>
  BY DEF WorkInv, WorkAreas
<1>2. Days \subseteq Nat /\ Periods \subseteq Nat
  BY AgreementAssumption
<1>3. ASSUME NEW b \in Bs, NEW x \in Ids, NEW day \in Days,
             Work("meter", PW!MarkExecuted(pg, b, x, day), MW!MarkExecuted(mem, b, x, day))
      PROVE  WorkInv'
  BY <1>1, <1>2, <1>3, SameMarkExecuted, AfterWorkCall
<1>4. ASSUME NEW period \in Periods, NEW cents \in Figures \cup {Null},
             Work("meter", PW!InsertLedger(pg, period,
                                           IF cents = Null THEN "estimated" ELSE "miss", cents),
                           MW!InsertLedger(mem, period,
                                           IF cents = Null THEN "estimated" ELSE "miss", cents))
      PROVE  WorkInv'
  <2> DEFINE v == IF cents = Null THEN "estimated" ELSE "miss"
  <2>1. /\ v \in {"estimated", "miss", "verified"} /\ period \in Nat
        /\ Work("meter", PW!InsertLedger(pg, period, v, cents),
                         MW!InsertLedger(pg, period, v, cents))
    BY <1>1, <1>2, <1>4
  <2> HIDE DEF v
  <2>2. SameWorkCall(pg, PW!InsertLedger(pg, period, v, cents),
                         MW!InsertLedger(pg, period, v, cents))
    BY <1>1, <2>1, SameInsertLedger
  <2> QED
    BY <1>1, <2>1, <2>2, AfterWorkCall
<1>5. ASSUME NEW b \in Bs, NEW period \in Periods, NEW cents \in Figures,
             Work("meter", PW!UpdateLedger(pg, b, period, "verified", cents),
                           MW!UpdateLedger(mem, b, period, "verified", cents))
      PROVE  WorkInv'
  <2> DEFINE v == "verified"
  <2>1. /\ v \in {"estimated", "miss", "verified"} /\ period \in Nat
        /\ cents \in Figures \cup {Null}
        /\ Work("meter", PW!UpdateLedger(pg, b, period, v, cents),
                         MW!UpdateLedger(pg, b, period, v, cents))
    BY <1>1, <1>2, <1>5
  <2> HIDE DEF v
  <2>2. SameWorkCall(pg, PW!UpdateLedger(pg, b, period, v, cents),
                         MW!UpdateLedger(pg, b, period, v, cents))
    BY <1>1, <2>1, SameUpdateLedger
  <2> QED
    BY <1>1, <2>1, <2>2, AfterWorkCall
<1>6. ASSUME NEW b \in Bs, NEW cents \in Figures,
             Work("meter", PW!RecordOutcome(pg, b, cents), MW!RecordOutcome(mem, b, cents))
      PROVE  WorkInv'
  BY <1>1, <1>6, SameRecordOutcome, AfterWorkCall
<1>7. CASE Work("meter", PW!Reconsider(pg, Own), MW!Reconsider(mem, Own))
  BY <1>1, <1>7, SameReconsider, AfterWorkCall
<1> QED
  BY <1>3, <1>4, <1>5, <1>6, <1>7 DEF Measure

\* Recommendations that are alike answer every question alike.
LEMMA WorkAnswer ==
    WorkInv => WorkAgrees
<1> SUFFICES ASSUME WorkInv, area \in WorkAreas  PROVE WorkAgrees
  BY DEF WorkAgrees, WorkAreas
<1>1. agreed /\ pg = mem /\ WorkHeld(pg)
  BY DEF WorkInv
<1>2. ASSUME NEW n \in Limits
      PROVE  /\ PW!DecisionEvents(pg, n) = MW!DecisionEvents(mem, n)
             /\ \A s \in {{}, {"queued", "retry"}} :
                   PW!ListTasks(pg, s, n) = MW!ListTasks(mem, s, n)
             /\ n > 0 => PW!ListDispatchable(pg, 1, n) = MW!ListDispatchable(mem, 1, n)
             /\ \A t \in Ids : PW!ToolExecutions(pg, t, n) = MW!ToolExecutions(mem, t, n)
  <2>1. n \in Nat
    BY AgreementAssumption
  <2>2. PW!DecisionEvents(pg, n) = MW!DecisionEvents(mem, n)
    BY <1>1, <2>1, SameDecisionEvents
  <2>3. /\ \A s : PW!ListTasks(pg, s, n) = MW!ListTasks(mem, s, n)
        /\ \A t : PW!ToolExecutions(pg, t, n) = MW!ToolExecutions(mem, t, n)
        /\ n > 0 => PW!ListDispatchable(pg, 1, n) = MW!ListDispatchable(mem, 1, n)
    BY <1>1, <2>1, SameTaskLists
  <2> QED
    BY <2>2, <2>3
<1>3. ASSUME NEW t \in Ids
      PROVE  /\ \A b \in Bs : PW!GetTask(pg, t, b) = MW!GetTask(mem, t, b)
             /\ \A k \in 1..MaxClaims : PW!TaskCanContinue(pg, t, k)
                                        = MW!TaskCanContinue(mem, t, k)
             /\ \A r \in Ids : PW!ArtifactByKey(pg, <<t, r>>) = MW!ArtifactByKey(mem, <<t, r>>)
  <2>1. \A b : PW!GetTask(pg, t, b) = MW!GetTask(mem, t, b)
    BY <1>1, SameLookupsOfTasks
  <2>2. \A k : PW!TaskCanContinue(pg, t, k) = MW!TaskCanContinue(mem, t, k)
    BY <1>1, SameLookupsOfTasks DEF PW!TaskCanContinue, MW!TaskCanContinue
  <2>3. \A key : PW!ArtifactByKey(pg, key) = MW!ArtifactByKey(mem, key)
    BY <1>1, SameDrafts
  <2> QED
    BY <2>1, <2>2, <2>3
<1>4. ToSet(PW!GetArtifacts(pg)) = ToSet(MW!GetArtifacts(mem))
  BY <1>1, SameDrafts
<1>5. \A x \in Ids : PW!EmailEvents(pg, x, 2) = MW!EmailEvents(mem, x, 2)
  BY <1>1, SameEmailEvents
<1>6. \A today : PW!Due(pg, today) = MW!Due(mem, today)
  BY <1>1, SameDue DEF PW!Due, MW!Due
<1>7. /\ PW!OutcomeHistory(pg) = MW!OutcomeHistory(mem)
      /\ PW!OutcomeReports(pg) = MW!OutcomeReports(mem)
  BY <1>1, SameOutcomes
<1>8. PW!Remeasurable(pg) = MW!Remeasurable(mem)
  BY <1>1, SameRemeasurable
<1>9. PW!LedgerSummary(pg) = MW!LedgerSummary(mem)
  BY <1>1, SameLedgerSummary
<1> QED
  BY <1>1, <1>2, <1>3, <1>4, <1>5, <1>6, <1>7, <1>8, <1>9 DEF WorkAgrees

\* Whatever was decided, claimed, drafted, sent and measured, the two hold the same
\* recommendation and every question about it is answered alike.
THEOREM WorkStaysAlike ==
    ASSUME "refused_reopening" \notin Loose, "early_claim" \notin Loose,
           "late_result" \notin Loose, "settled_again" \notin Loose
    PROVE  Spec => []WorkAgrees
<1>1. Init => WorkInv
  BY WorkStart
<1>2. WorkInv /\ [Next]_vars => WorkInv'
  <2> SUFFICES ASSUME WorkInv, [Next]_vars  PROVE WorkInv'
    OBVIOUS
  <2>1. CASE UNCHANGED vars
    BY <2>1 DEF vars, WorkInv, WorkHeld
  <2>2. CASE Next
    <3>1. area' = area
      BY <2>2, AreaStays
    <3>2. CASE area = "maker"
      BY <2>2, <3>2, MakeAlike DEF Next, Is
    <3>3. CASE area = "tools"
      BY <2>2, <3>3, BoardAlike, ActAlike DEF Next, Is
    <3>4. CASE area = "meter"
      BY <2>2, <3>4, MeasureAlike DEF Next, Is
    <3>5. CASE area \notin WorkAreas
      BY <3>1, <3>5 DEF WorkInv
    <3> QED
      BY <3>2, <3>3, <3>4, <3>5 DEF WorkAreas
  <2> QED
    BY <2>1, <2>2
<1> QED
  BY <1>1, <1>2, WorkAnswer, PTL DEF Spec
=============================================================================
