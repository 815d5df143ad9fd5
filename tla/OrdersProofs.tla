---------------------------- MODULE OrdersProofs ----------------------------
(***************************************************************************)
(* Theorems about ordering (Orders) and about messages to a rep            *)
(* (RepMessages), which handlers/orders.py answers both.                   *)
(*                                                                         *)
(* Ordering, for any number of requests, orders, shops, prices and deaths: *)
(* what is inductive is what a request knows of its receipt at each        *)
(* program counter (Knows), what a row says of it (Books), and who answers *)
(* for a charge (ChargesHeld); for the weekly limit what every request may *)
(* still add to the books (Room), and what the books do not know of what   *)
(* was bought (Covered).  The spend is a sum, so the module begins with    *)
(* what sums over finite sets are.                                         *)
(***************************************************************************)
EXTENDS Orders, RepMessages, FiniteSetTheorems, WellFoundedInduction, TLAPS

Pcs == {"idle", "draft", "charge", "place", "refund", "record"}
Outcomes == {"none", "placed", "awaiting", "failed", "rejected"}

Worker == [pc : Pcs, kind : {"ask", "approve", "reject"}, trigger : {"owner", "stock"},
           order : OrderIds \cup {None}, shop : Shops, spent : Nat,
           seen : Carts \cup {None}, approved : Carts \cup {None},
           cart : Carts \cup {None}, outcome : Outcomes]

Types ==
    /\ supplier \in Shops /\ earlier \in 0..PeriodCap
    /\ quote \in [Shops -> Prices \cup {None}]
    /\ lost \subseteq Keys /\ pages \in [OrderIds -> SUBSET Carts]
    /\ orders \in [OrderIds -> Row] /\ request \in [Requests -> Worker]
    /\ charges \in [Keys -> Charge] /\ bought \in [Keys -> Carts \cup {None}]
    /\ asked \in 0..MaxAsks /\ untold \in Nat

\* What a request knows at each program counter.
KnowsOrder(r) ==
    /\ request[r].pc # "idle" => request[r].order \in OrderIds
    /\ request[r].pc \in {"charge", "place", "refund"} => request[r].cart \in Carts
    /\ request[r].pc \in {"charge", "refund"} => request[r].shop \in CardShops

KnowsLeave(r) ==
    /\ request[r].pc \in {"charge", "place"} /\ request[r].kind = "ask" =>
          request[r].trigger = "owner"
    /\ request[r].kind = "approve" /\ request[r].seen # None =>
          /\ request[r].pc = "draft" => request[r].seen = request[r].approved
          /\ request[r].pc \in {"charge", "place"} => request[r].seen = request[r].cart
    /\ request[r].pc \in {"draft", "charge", "place", "refund"} => request[r].kind # "reject"

KnowsOutcome(r) ==
    request[r].pc = "record" =>
        /\ request[r].outcome # "none"
        /\ request[r].kind = "ask" => request[r].outcome # "rejected"
        /\ request[r].outcome \in {"placed", "awaiting"} => request[r].cart \in Carts
        /\ request[r].outcome = "placed" =>
              /\ bought[Key(r)] # None
              /\ request[r].kind = "ask" => request[r].trigger = "owner"

Knows(r) == KnowsOrder(r) /\ KnowsLeave(r) /\ KnowsOutcome(r)

\* What a row says of its receipt.
Books(o) ==
    /\ orders[o].trigger = "stock" => orders[o].waited
    /\ orders[o].status = "placed" =>
          /\ orders[o].cart \in Carts
          /\ orders[o].receipt \in Keys /\ bought[orders[o].receipt] # None
          /\ \/ orders[o].receipt = ApproveKey(o)
             \/ ~orders[o].waited /\ \E c \in Carts : orders[o].receipt = AutoKey(c)

\* Somebody answers for a charge without goods.
Holds(r, k) == /\ request[r].pc \in {"place", "refund"}
               /\ request[r].shop \in CardShops /\ Key(r) = k

ChargesHeld ==
    \A k \in Keys : charges[k].status = "charged" =>
        bought[k] # None \/ k \in lost \/ \E r \in Requests : Holds(r, k)

IInv == /\ Types /\ ChargesHeld
        /\ \A r \in Requests : Knows(r)
        /\ \A o \in OrderIds : Books(o)

-----------------------------------------------------------------------------
LEMMA KeyFacts ==
    /\ \A c \in Carts : AutoKey(c) \in Keys
    /\ \A o \in OrderIds : ApproveKey(o) \in Keys
    /\ \A c \in Carts, o \in OrderIds : AutoKey(c) # ApproveKey(o)
    /\ \A o, p \in OrderIds : ApproveKey(o) = ApproveKey(p) => o = p
    /\ None \notin Keys /\ None \notin Carts /\ None \notin OrderIds
<1>1. \A c \in Carts, o \in OrderIds : AutoKey(c) # ApproveKey(o)
  BY DEF AutoKey, ApproveKey
<1>2. \A o, p \in OrderIds : ApproveKey(o) = ApproveKey(p) => o = p
  BY DEF ApproveKey
<1> QED
  BY <1>1, <1>2, OrdersAssumptions DEF Keys

-----------------------------------------------------------------------------
\* Sums over finite sets. Among some subsets of a finite set there is one none of
\* whose own subsets is among them.
LEMMA LeastSubset ==
    ASSUME NEW D, IsFiniteSet(D), NEW B, B \subseteq SUBSET D, B # {}
    PROVE  \E T \in B : \A U \in SUBSET T : U # T => U \notin B
<1> DEFINE R == StrictSubsetOrdering(D)
<1>1. IsWellFoundedOn(R, FiniteSubsetsOf(D)) /\ FiniteSubsetsOf(D) = SUBSET D
  BY FS_StrictSubsetOrderingWellFounded, FS_FiniteSubsetsOfFinite, Zenon
<1>2. \A U, T \in SUBSET D : U \subseteq T /\ U # T => <<U, T>> \in R
  BY DEF StrictSubsetOrdering
<1> HIDE DEF R
<1>3. IsWellFoundedOn(R, SUBSET D)
  BY <1>1
<1>4. PICK T \in B : \A U \in B : ~ (<<U, T>> \in R)
  BY <1>3, WFMin, Zenon
<1> QED
  BY <1>2, <1>4

Pick(s) == CHOOSE x \in s : TRUE

\* The table of the sums over every subset, from which SumFunctionOnSet is read.
SumTable(f, D, g) ==
    g = [s \in SUBSET D |-> IF s = {} THEN 0 ELSE f[Pick(s)] + g[s \ {Pick(s)}]]

Table(f, D) == CHOOSE g : SumTable(f, D, g)

LEMMA SumIsTable ==
    ASSUME NEW f, NEW D  PROVE  SumFunctionOnSet(f, D) = Table(f, D)[D]
BY Zenon DEF SumFunctionOnSet, FoldFunctionOnSet, MapThenFoldSet, Table, SumTable, Pick

LEMMA TableAt ==
    ASSUME NEW f, NEW D, NEW g, SumTable(f, D, g), NEW s \in SUBSET D
    PROVE  g[s] = IF s = {} THEN 0 ELSE f[Pick(s)] + g[s \ {Pick(s)}]
BY DEF SumTable

\* Two tables agree where both are defined.
LEMMA TablesAgree ==
    ASSUME NEW f, NEW D, IsFiniteSet(D), NEW g, NEW C \in SUBSET D, NEW h,
           SumTable(f, D, g), SumTable(f, C, h), NEW s \in SUBSET C
    PROVE  g[s] = h[s]
<1> DEFINE B == {u \in SUBSET C : g[u] # h[u]}
<1> SUFFICES ASSUME B # {} PROVE FALSE
  OBVIOUS
<1>1. B \subseteq SUBSET D
  OBVIOUS
<1>2. PICK T \in B : \A U \in SUBSET T : U # T => U \notin B
  <2> HIDE DEF B
  <2> QED
    BY <1>1, LeastSubset
<1>3. T \in SUBSET C /\ T \in SUBSET D /\ g[T] # h[T]
  OBVIOUS
<1>4. T # {}
  BY <1>3, TableAt
<1>5. Pick(T) \in T
  BY <1>4 DEF Pick
<1>6. g[T \ {Pick(T)}] = h[T \ {Pick(T)}]
  BY <1>2, <1>3, <1>5
<1> QED
  BY <1>3, <1>4, <1>6, TableAt

LEMMA TableExists ==
    ASSUME NEW f, NEW D, IsFiniteSet(D)
    PROVE  SumTable(f, D, Table(f, D))
<1> DEFINE B == {u \in SUBSET D : ~SumTable(f, u, Table(f, u))}
<1> SUFFICES ASSUME B # {} PROVE FALSE
  OBVIOUS
<1>1. PICK T \in B : \A U \in SUBSET T : U # T => U \notin B
  <2>1. B \subseteq SUBSET D
    OBVIOUS
  <2> HIDE DEF B
  <2> QED
    BY <2>1, LeastSubset
<1>2. T \in SUBSET D /\ ~SumTable(f, T, Table(f, T))
  OBVIOUS
<1>3. \A U \in SUBSET T : U # T => SumTable(f, U, Table(f, U))
  BY <1>1, <1>2
<1> DEFINE rest(u) == u \ {Pick(u)}
           h == [u \in SUBSET T |->
                    IF u = {} THEN 0 ELSE f[Pick(u)] + Table(f, rest(u))[rest(u)]]
<1>4. ASSUME NEW u \in SUBSET T, u # {}
      PROVE  h[rest(u)] = Table(f, rest(u))[rest(u)]
  <2>1. Pick(u) \in u
    BY <1>4 DEF Pick
  <2>2. rest(u) \in SUBSET T /\ rest(u) # T
    BY <2>1
  <2>3. SumTable(f, rest(u), Table(f, rest(u))) /\ IsFiniteSet(rest(u))
    BY <1>2, <1>3, <2>2, FS_Subset
  <2> DEFINE v == rest(u)
  <2>4. CASE v = {}
    BY <2>2, <2>3, <2>4, TableAt
  <2>5. CASE v # {}
    <3>1. Pick(v) \in v
      BY <2>5 DEF Pick
    <3>2. rest(v) \in SUBSET T /\ rest(v) # T /\ rest(v) \in SUBSET v
      BY <2>2, <3>1
    <3>3. SumTable(f, rest(v), Table(f, rest(v)))
      BY <1>3, <3>2
    <3>4. Table(f, v)[rest(v)] = Table(f, rest(v))[rest(v)]
      <4>1. IsFiniteSet(v) /\ SumTable(f, v, Table(f, v))
        BY <2>3
      <4>2. rest(v) \in SUBSET rest(v)
        OBVIOUS
      <4> HIDE DEF rest, v
      <4> QED
        BY <4>1, <4>2, <3>2, <3>3, TablesAgree
    <3>5. Table(f, v)[v] = f[Pick(v)] + Table(f, v)[rest(v)]
      <4>1. SumTable(f, v, Table(f, v)) /\ v \in SUBSET v
        BY <2>3
      <4> HIDE DEF v
      <4> QED
        BY <4>1, <2>5, TableAt
    <3>6. h[v] = f[Pick(v)] + Table(f, rest(v))[rest(v)]
      BY <2>2, <2>5
    <3> QED
      BY <3>4, <3>5, <3>6
  <2> QED
    BY <2>4, <2>5
<1>5. h = [u \in SUBSET T |-> IF u = {} THEN 0 ELSE f[Pick(u)] + h[u \ {Pick(u)}]]
  <2>1. h = [u \in SUBSET T |-> h[u]]
    OBVIOUS
  <2>2. ASSUME NEW u \in SUBSET T
        PROVE  h[u] = IF u = {} THEN 0 ELSE f[Pick(u)] + h[u \ {Pick(u)}]
    BY <1>4
  <2> HIDE DEF h
  <2> QED
    BY <2>1, <2>2
<1>6. SumTable(f, T, h)
  <2> HIDE DEF h
  <2> QED
    BY <1>5 DEF SumTable
<1>7. SumTable(f, T, Table(f, T))
  <2> HIDE DEF h
  <2> QED
    BY <1>6, Zenon DEF Table
<1> QED
  BY <1>2, <1>7

\* What SumFunctionOnSet computes, one member at a time.
LEMMA SumStep ==
    ASSUME NEW f, NEW D, IsFiniteSet(D)
    PROVE  SumFunctionOnSet(f, D) =
              IF D = {} THEN 0 ELSE f[Pick(D)] + SumFunctionOnSet(f, D \ {Pick(D)})
<1>1. SumTable(f, D, Table(f, D))
  BY TableExists
<1>2. CASE D = {}
  BY <1>1, <1>2, SumIsTable, TableAt
<1>3. CASE D # {}
  <2> DEFINE C == D \ {Pick(D)}
  <2>1. C \in SUBSET D /\ IsFiniteSet(C)
    BY FS_Subset
  <2>2. SumTable(f, C, Table(f, C))
    BY <2>1, TableExists
  <2>3. Table(f, D)[C] = Table(f, C)[C]
    <3> HIDE DEF C
    <3> QED
      BY <1>1, <2>1, <2>2, TablesAgree
  <2>4. Table(f, D)[D] = f[Pick(D)] + Table(f, D)[C]
    <3>1. D \in SUBSET D
      OBVIOUS
    <3> QED
      BY <1>1, <1>3, <3>1, TableAt
  <2>5. SumFunctionOnSet(f, D) = Table(f, D)[D] /\ SumFunctionOnSet(f, C) = Table(f, C)[C]
    BY SumIsTable
  <2> QED
    BY <1>3, <2>3, <2>4, <2>5
<1> QED
  BY <1>2, <1>3

LEMMA SumOfNone == ASSUME NEW f PROVE SumFunctionOnSet(f, {}) = 0
BY SumStep, FS_EmptySet

LEMMA SumNat ==
    ASSUME NEW D, IsFiniteSet(D), NEW f, \A x \in D : f[x] \in Nat
    PROVE  SumFunctionOnSet(f, D) \in Nat
<1> DEFINE B == {u \in SUBSET D : SumFunctionOnSet(f, u) \notin Nat}
<1> SUFFICES ASSUME B # {} PROVE FALSE
  OBVIOUS
<1>1. PICK T \in B : \A U \in SUBSET T : U # T => U \notin B
  <2>1. B \subseteq SUBSET D
    OBVIOUS
  <2> HIDE DEF B
  <2> QED
    BY <2>1, LeastSubset
<1>2. T \in SUBSET D /\ SumFunctionOnSet(f, T) \notin Nat /\ IsFiniteSet(T)
  BY FS_Subset
<1>3. T # {}
  BY <1>2, SumOfNone
<1>4. Pick(T) \in T
  BY <1>3 DEF Pick
<1>5. SumFunctionOnSet(f, T \ {Pick(T)}) \in Nat
  BY <1>1, <1>2, <1>4
<1> QED
  BY <1>2, <1>3, <1>4, <1>5, SumStep

\* A sum is any one of its terms and the sum of the others.
LEMMA SumSplit ==
    ASSUME NEW D, IsFiniteSet(D), NEW f, \A x \in D : f[x] \in Nat, NEW y \in D
    PROVE  SumFunctionOnSet(f, D) = f[y] + SumFunctionOnSet(f, D \ {y})
<1> DEFINE Splits(u) == \A x \in u : SumFunctionOnSet(f, u) = f[x] + SumFunctionOnSet(f, u \ {x})
           B == {u \in SUBSET D : ~Splits(u)}
<1> SUFFICES ASSUME B # {} PROVE FALSE
  <2>1. D \notin B
    OBVIOUS
  <2> QED
    BY <2>1
<1>1. PICK T \in B : \A U \in SUBSET T : U # T => U \notin B
  <2>1. B \subseteq SUBSET D
    OBVIOUS
  <2> HIDE DEF B
  <2> QED
    BY <2>1, LeastSubset
<1>2. T \in SUBSET D /\ ~Splits(T) /\ IsFiniteSet(T)
  BY FS_Subset
<1>3. PICK x \in T : SumFunctionOnSet(f, T) # f[x] + SumFunctionOnSet(f, T \ {x})
  BY <1>2
<1> DEFINE c == Pick(T)
<1>4. c \in T /\ T # {}
  BY DEF Pick
<1>5. SumFunctionOnSet(f, T) = f[c] + SumFunctionOnSet(f, T \ {c})
  BY <1>2, <1>4, SumStep
<1>6. x # c
  BY <1>3, <1>5
<1> HIDE DEF c
<1>7. Splits(T \ {c}) /\ Splits(T \ {x})
  BY <1>1, <1>2, <1>4
<1>8. /\ SumFunctionOnSet(f, T \ {c}) = f[x] + SumFunctionOnSet(f, (T \ {c}) \ {x})
      /\ SumFunctionOnSet(f, T \ {x}) = f[c] + SumFunctionOnSet(f, (T \ {x}) \ {c})
  BY <1>4, <1>6, <1>7
<1>9. (T \ {c}) \ {x} = (T \ {x}) \ {c}
  OBVIOUS
<1>10. /\ f[x] \in Nat /\ f[c] \in Nat
       /\ SumFunctionOnSet(f, (T \ {x}) \ {c}) \in Nat
  <2>1. IsFiniteSet((T \ {x}) \ {c})
    BY <1>2, FS_Subset
  <2> QED
    BY <1>2, <1>4, <2>1, SumNat
<1> HIDE DEF Splits, B
<1>11. ASSUME NEW i \in Nat, NEW j \in Nat, NEW k \in Nat PROVE i + (j + k) = j + (i + k)
  OBVIOUS
<1>12. SumFunctionOnSet(f, T) = f[c] + (f[x] + SumFunctionOnSet(f, (T \ {x}) \ {c}))
  BY <1>5, <1>8, <1>9
<1> QED
  BY <1>3, <1>8, <1>10, <1>11, <1>12

LEMMA SumSame ==
    ASSUME NEW D, IsFiniteSet(D), NEW f, NEW g, \A x \in D : f[x] = g[x]
    PROVE  SumFunctionOnSet(f, D) = SumFunctionOnSet(g, D)
<1> DEFINE B == {u \in SUBSET D : SumFunctionOnSet(f, u) # SumFunctionOnSet(g, u)}
<1> SUFFICES ASSUME B # {} PROVE FALSE
  OBVIOUS
<1>1. PICK T \in B : \A U \in SUBSET T : U # T => U \notin B
  <2>1. B \subseteq SUBSET D
    OBVIOUS
  <2> HIDE DEF B
  <2> QED
    BY <2>1, LeastSubset
<1>2. T \in SUBSET D /\ SumFunctionOnSet(f, T) # SumFunctionOnSet(g, T) /\ IsFiniteSet(T)
  BY FS_Subset
<1>3. T # {}
  BY <1>2, SumStep
<1>4. Pick(T) \in T
  BY <1>3 DEF Pick
<1>5. SumFunctionOnSet(f, T \ {Pick(T)}) = SumFunctionOnSet(g, T \ {Pick(T)})
  BY <1>1, <1>2, <1>4
<1> QED
  BY <1>2, <1>3, <1>4, <1>5, SumStep

LEMMA SumBounded ==
    ASSUME NEW D, IsFiniteSet(D), NEW b \in Nat, NEW f, \A x \in D : f[x] \in 0..b
    PROVE  SumFunctionOnSet(f, D) <= Cardinality(D) * b
<1> DEFINE B == {u \in SUBSET D : ~(SumFunctionOnSet(f, u) <= Cardinality(u) * b)}
<1> SUFFICES ASSUME B # {} PROVE FALSE
  OBVIOUS
<1>1. PICK T \in B : \A U \in SUBSET T : U # T => U \notin B
  <2>1. B \subseteq SUBSET D
    OBVIOUS
  <2> HIDE DEF B
  <2> QED
    BY <2>1, LeastSubset
<1>2. T \in SUBSET D /\ ~(SumFunctionOnSet(f, T) <= Cardinality(T) * b) /\ IsFiniteSet(T)
  BY FS_Subset
<1>3. T # {}
  BY <1>2, SumOfNone, FS_EmptySet
<1> DEFINE U == T \ {Pick(T)}
<1>4. Pick(T) \in T
  BY <1>3 DEF Pick
<1>5. SumFunctionOnSet(f, U) <= Cardinality(U) * b
  BY <1>1, <1>2, <1>4
<1>6. IsFiniteSet(U) /\ Cardinality(T) = Cardinality(U) + 1 /\ Cardinality(U) \in Nat
  <2>1. IsFiniteSet(U) /\ Cardinality(U) = Cardinality(T) - 1
    BY <1>2, <1>4, FS_RemoveElement
  <2>2. Cardinality(T) \in Nat /\ Cardinality(U) \in Nat
    BY <1>2, <2>1, FS_CardinalityType
  <2> HIDE DEF U, B
  <2> QED
    BY <2>1, <2>2
<1>7. SumFunctionOnSet(f, U) \in Nat /\ f[Pick(T)] \in 0..b
  BY <1>2, <1>4, <1>6, SumNat
<1>8. SumFunctionOnSet(f, T) = f[Pick(T)] + SumFunctionOnSet(f, U)
  BY <1>2, <1>3, SumStep
<1>9. \A n \in Nat : (n + 1) * b = n * b + b /\ n * b \in Nat
  OBVIOUS
<1> HIDE DEF U
<1>10. Cardinality(T) * b = Cardinality(U) * b + b /\ Cardinality(U) * b \in Nat
  BY <1>6, <1>9
<1> QED
  BY <1>2, <1>5, <1>7, <1>8, <1>10
-----------------------------------------------------------------------------
LEMMA OrderIdsFinite == IsFiniteSet(OrderIds)
  BY FS_Interval, OrdersAssumptions DEF OrderIds

LEMMA IdleFacts ==
    /\ Idle \in Worker /\ Idle.pc = "idle"
    /\ NoRow \in Row /\ NoRow.status = "absent" /\ NoRow.trigger = "owner"
<1>1. (CHOOSE s \in Shops : TRUE) \in Shops
  BY OrdersAssumptions
<1> QED
  BY <1>1 DEF Idle, Worker, Pcs, Outcomes, NoRow, Row

\* What some of the placed orders cost.
LEMMA CentsAreNat ==
    ASSUME Types, \A o \in OrderIds : Books(o), NEW some \in SUBSET Placed
    PROVE  Cents(some) \in Nat /\ \A o \in some : orders[o].cart.cents \in Nat
<1>1. IsFiniteSet(some)
  BY OrderIdsFinite, FS_Subset DEF Placed
<1>2. \A o \in some : orders[o].cart.cents \in Nat
  BY OrdersAssumptions DEF Placed, Books, Carts
<1> QED
  BY <1>1, <1>2, SumNat DEF Cents, SumFunction

LEMMA SpentIsNat ==
    ASSUME Types, \A o \in OrderIds : Books(o)
    PROVE  Spent \in Nat
  BY CentsAreNat, OrdersAssumptions DEF Spent, Types

\* The key of whoever has something to buy, or bought it.
LEMMA KeyOf ==
    ASSUME Types, NEW r \in Requests, Knows(r),
           \/ request[r].pc \in {"charge", "place", "refund"}
           \/ request[r].pc = "record" /\ request[r].outcome = "placed"
    PROVE  /\ Key(r) \in Keys /\ request[r].cart \in Carts /\ request[r].order \in OrderIds
           /\ request[r].kind = "ask" => Key(r) = AutoKey(request[r].cart)
           /\ request[r].kind # "ask" => Key(r) = ApproveKey(request[r].order)
<1>1. request[r].cart \in Carts /\ request[r].order \in OrderIds
  BY DEF Knows, KnowsOrder, KnowsOutcome
<1>2. CASE request[r].kind = "ask"
  BY <1>1, <1>2, KeyFacts DEF Key
<1>3. CASE request[r].kind # "ask"
  BY <1>1, <1>3, KeyFacts DEF Key
<1> QED
  BY <1>1, <1>2, <1>3

\* A request that moves on keeps what it holds in hand.
LEMMA Moves ==
    ASSUME Types, NEW r \in Requests,
           NEW pc \in Pcs, NEW outcome \in Outcomes, NEW seen \in Carts \cup {None},
           request' = [request EXCEPT ![r] =
                          [@ EXCEPT !.pc = pc, !.outcome = outcome, !.seen = seen]]
    PROVE  /\ request' \in [Requests -> Worker]
           /\ request'[r].pc = pc /\ request'[r].outcome = outcome
           /\ request'[r].kind = request[r].kind /\ request'[r].trigger = request[r].trigger
           /\ request'[r].order = request[r].order /\ request'[r].shop = request[r].shop
           /\ request'[r].seen = seen /\ request'[r].cart = request[r].cart
           /\ request'[r].approved = request[r].approved
           /\ Key(r)' = Key(r)
           /\ \A s \in Requests \ {r} : request'[s] = request[s]
<1> DEFINE q == [request[r] EXCEPT !.pc = pc, !.outcome = outcome, !.seen = seen]
<1>1. request \in [Requests -> Worker] /\ request[r] \in Worker
  BY DEF Types
<1>2. /\ q \in Worker /\ q.pc = pc /\ q.outcome = outcome
      /\ q.kind = request[r].kind /\ q.trigger = request[r].trigger
      /\ q.order = request[r].order /\ q.shop = request[r].shop
      /\ q.seen = seen /\ q.cart = request[r].cart
      /\ q.approved = request[r].approved
  BY <1>1 DEF Worker
<1>3. request' = [request EXCEPT ![r] = q]
  OBVIOUS
<1> HIDE DEF q
<1>4. request' \in [Requests -> Worker] /\ request'[r] = q
      /\ \A s \in Requests \ {r} : request'[s] = request[s]
  BY <1>1, <1>2, <1>3
<1> QED
  BY <1>2, <1>4 DEF Key

LEMMA GotoMoves ==
    ASSUME Types, NEW r \in Requests, NEW pc \in Pcs, Goto(r, pc)
    PROVE  request' = [request EXCEPT ![r] =
                          [@ EXCEPT !.pc = pc, !.outcome = request[r].outcome,
                                    !.seen = request[r].seen]]
<1>1. request[r] \in Worker
  BY DEF Types
<1>2. [request[r] EXCEPT !.pc = pc]
          = [request[r] EXCEPT !.pc = pc, !.outcome = request[r].outcome,
                               !.seen = request[r].seen]
  BY <1>1 DEF Worker
<1> QED
  BY <1>2 DEF Goto

LEMMA ConcludeMoves ==
    ASSUME NEW r \in Requests, NEW outcome, Conclude(r, outcome)
    PROVE  request' = [request EXCEPT ![r] =
                          [@ EXCEPT !.pc = "record", !.outcome = outcome, !.seen = None]]
  BY DEF Conclude

\* What another request does, unless it writes a row, takes nothing from a request
\* or from the books: receipts only come.
LEMMA RestKeeps ==
    ASSUME IInv, NEW r, UNCHANGED <<orders, pages>>,
           \A s \in Requests \ {r} : request'[s] = request[s],
           \A k \in Keys : bought[k] # None => bought'[k] # None
    PROVE  /\ \A s \in Requests \ {r} : Knows(s)' /\ (\A k : Holds(s, k)' <=> Holds(s, k))
           /\ \A o \in OrderIds : Books(o)'
<1>1. ASSUME NEW s \in Requests \ {r}
      PROVE  Knows(s)' /\ (\A k : Holds(s, k)' <=> Holds(s, k))
  <2>1. request'[s] = request[s] /\ Key(s)' = Key(s)
    BY DEF Key
  <2>2. Knows(s)
    BY DEF IInv
  <2>3. KnowsOrder(s)' /\ KnowsLeave(s)'
    BY <2>1, <2>2 DEF Knows, KnowsOrder, KnowsLeave
  <2>4. KnowsOutcome(s)'
    <3>1. request[s].pc = "record" /\ request[s].outcome = "placed" => Key(s) \in Keys
      BY <2>2, KeyOf DEF IInv
    <3> QED
      BY <2>1, <2>2, <3>1 DEF Knows, KnowsOutcome
  <2>5. \A k : Holds(s, k)' <=> Holds(s, k)
    BY <2>1 DEF Holds
  <2> QED
    BY <2>3, <2>4, <2>5 DEF Knows
<1>2. \A o \in OrderIds : Books(o)'
  BY DEF IInv, Books
<1> QED
  BY <1>1, <1>2

LEMMA InitInv == Init => IInv
<1> SUFFICES ASSUME Init PROVE IInv
  OBVIOUS
<1>1. Types
  BY IdleFacts, OrdersAssumptions DEF Init, Types, Charge
<1>2. ASSUME NEW r \in Requests PROVE Knows(r)
  <2>1. request[r].pc = "idle"
    BY IdleFacts DEF Init
  <2> QED
    BY <2>1 DEF Knows, KnowsOrder, KnowsLeave, KnowsOutcome
<1>3. ASSUME NEW o \in OrderIds PROVE Books(o)
  <2>1. orders[o].status = "absent" /\ orders[o].trigger = "owner" /\ pages[o] = {}
    BY IdleFacts DEF Init
  <2> QED
    BY <2>1 DEF Books
<1>4. ChargesHeld
  BY DEF Init, ChargesHeld
<1> QED
  BY <1>1, <1>2, <1>3, <1>4 DEF IInv

-----------------------------------------------------------------------------
\* The owner's settings, and requests that begin.

LEMMA StandsStill ==
    ASSUME IInv, UNCHANGED <<orders, pages, charges, bought, request, lost>>
    PROVE  ChargesHeld' /\ (\A r \in Requests : Knows(r)') /\ (\A o \in OrderIds : Books(o)')
<1>1. \A r \in Requests : Knows(r)'
  BY DEF IInv, Knows, KnowsOrder, KnowsLeave, KnowsOutcome, Key
<1>2. \A o \in OrderIds : Books(o)'
  BY DEF IInv, Books
<1>3. ChargesHeld'
  BY DEF IInv, ChargesHeld, Holds, Key
<1> QED
  BY <1>1, <1>2, <1>3

LEMMA SettingsKeep ==
    ASSUME IInv,
           \E s \in Shops : \/ ChangeSupplier(s)
                            \/ \E p \in Prices \cup {None} : ChangePrice(s, p)
    PROVE  IInv'
<1>1. UNCHANGED <<earlier, orders, pages, charges, bought, request, lost, untold, asked>>
  BY DEF ChangeSupplier, ChangePrice
<1>2. supplier' \in Shops /\ quote' \in [Shops -> Prices \cup {None}]
  BY DEF ChangeSupplier, ChangePrice, IInv, Types
<1>3. Types'
  BY <1>1, <1>2 DEF IInv, Types
<1> QED
  BY <1>1, <1>3, StandsStill DEF IInv

\* A step of one request that leaves rows, charges and receipts alone.
LEMMA OneMoves ==
    ASSUME IInv, NEW r \in Requests, Types', Knows(r)',
           UNCHANGED <<orders, pages, charges, bought, lost>>,
           \A s \in Requests \ {r} : request'[s] = request[s],
           request[r].pc \notin {"place", "refund"}
    PROVE  IInv'
<1>1. /\ \A s \in Requests \ {r} : Knows(s)' /\ (\A k : Holds(s, k)' <=> Holds(s, k))
      /\ \A o \in OrderIds : Books(o)'
  BY RestKeeps
<1>2. ChargesHeld'
  <2>1. \A k : ~Holds(r, k)
    BY DEF Holds
  <2> QED
    BY <1>1, <2>1 DEF IInv, ChargesHeld
<1> QED
  BY <1>1, <1>2 DEF IInv

LEMMA BeginKeeps ==
    ASSUME IInv, NEW r \in Requests,
           \/ \E t \in {"owner", "stock"} : Ask(r, t)
           \/ \E o \in OrderIds : (\E page \in pages[o] : Approve(r, o, page)) \/ Reject(r, o)
    PROVE  IInv'
<1> DEFINE Begins(q) ==
         /\ request' = [request EXCEPT ![r] = q]
         /\ q.order \in OrderIds
         /\ \/ q.pc = "draft" /\ q.kind # "reject"
            \/ q.pc = "record" /\ q.kind = "reject" /\ q.outcome = "rejected"
         /\ q.seen \in {None, q.approved}
<1>1. PICK q \in Worker : Begins(q)
  <2>1. ASSUME NEW t \in {"owner", "stock"}, Ask(r, t)
        PROVE  \E q \in Worker : Begins(q)
    <3> DEFINE q == [Idle EXCEPT !.pc = "draft", !.trigger = t, !.order = asked + 1,
                                 !.shop = supplier, !.spent = Spent]
    <3>1. asked + 1 \in OrderIds
      BY <2>1, OrdersAssumptions DEF Ask, IInv, Types, OrderIds
    <3>2. supplier \in Shops /\ Spent \in Nat
      BY SpentIsNat DEF IInv, Types
    <3>3. Idle.kind = "ask" /\ Idle.seen = None
      BY DEF Idle
    <3>4. /\ q \in Worker /\ q.order \in OrderIds /\ q.pc = "draft" /\ q.kind = "ask"
          /\ q.seen = None
      BY <3>1, <3>2, <3>3, IdleFacts DEF Worker, Pcs
    <3>5. request' = [request EXCEPT ![r] = q]
      BY <2>1 DEF Ask
    <3> HIDE DEF q
    <3> QED
      BY <3>4, <3>5
  <2>2. ASSUME NEW o \in OrderIds, NEW page \in pages[o], Approve(r, o, page)
        PROVE  \E q \in Worker : Begins(q)
    <3> DEFINE seen == IF page = orders[o].cart THEN page ELSE None
               q == [Idle EXCEPT !.pc = "draft", !.kind = "approve", !.order = o,
                         !.shop = supplier, !.approved = orders[o].cart, !.seen = seen]
    <3>1. /\ seen \in Carts \cup {None} /\ supplier \in Shops
          /\ orders[o].cart \in Carts \cup {None}
      BY DEF IInv, Types, Row
    <3>2. seen \in {None, orders[o].cart}
      OBVIOUS
    <3>3. request' = [request EXCEPT ![r] = q]
      BY <2>2 DEF Approve
    <3> HIDE DEF seen
    <3>4. q \in Worker /\ q.order \in OrderIds /\ q.pc = "draft" /\ q.kind = "approve"
          /\ q.seen = seen /\ q.approved = orders[o].cart
      BY <3>1, IdleFacts DEF Worker, Pcs
    <3> HIDE DEF q
    <3> QED
      BY <3>2, <3>3, <3>4
  <2>3. ASSUME NEW o \in OrderIds, Reject(r, o)
        PROVE  \E q \in Worker : Begins(q)
    <3> DEFINE q == [Idle EXCEPT !.pc = "record", !.kind = "reject", !.order = o,
                                 !.outcome = "rejected"]
    <3>0. Idle.seen = None
      BY DEF Idle
    <3>1. q \in Worker /\ q.order \in OrderIds /\ q.pc = "record"
          /\ q.kind = "reject" /\ q.outcome = "rejected" /\ q.seen = None
      BY <3>0, IdleFacts DEF Worker, Pcs, Outcomes
    <3>2. request' = [request EXCEPT ![r] = q]
      BY <2>3 DEF Reject
    <3> HIDE DEF q
    <3> QED
      BY <3>1, <3>2
  <2> HIDE DEF Begins
  <2> QED
    BY <2>1, <2>2, <2>3
<1>2. /\ request[r].pc = "idle" /\ asked' \in 0..MaxAsks
      /\ UNCHANGED <<supplier, earlier, quote, orders, pages, charges, bought, lost, untold>>
  <2>1. asked \in 0..MaxAsks
    BY DEF IInv, Types
  <2>2. ASSUME NEW t, Ask(r, t)
        PROVE  /\ request[r].pc = "idle" /\ asked' \in 0..MaxAsks
               /\ UNCHANGED <<supplier, earlier, quote, orders, pages, charges, bought, lost,
                              untold>>
    BY <2>1, <2>2, OrdersAssumptions DEF Ask, world
  <2>3. ASSUME NEW o, (\E page \in pages[o] : Approve(r, o, page)) \/ Reject(r, o)
        PROVE  /\ request[r].pc = "idle" /\ asked' = asked
               /\ UNCHANGED <<supplier, earlier, quote, orders, pages, charges, bought, lost,
                              untold>>
    BY <2>3 DEF Approve, Reject, world
  <2> QED
    BY <2>1, <2>2, <2>3
<1>3. /\ request' \in [Requests -> Worker] /\ request'[r] = q
      /\ \A s \in Requests \ {r} : request'[s] = request[s]
  BY <1>1 DEF IInv, Types
<1>4. Types'
  BY <1>2, <1>3 DEF IInv, Types
<1>5. Knows(r)'
  BY <1>1, <1>3 DEF Knows, KnowsOrder, KnowsLeave, KnowsOutcome
<1> QED
  BY <1>2, <1>3, <1>4, <1>5, OneMoves

-----------------------------------------------------------------------------
\* Pricing, the charge and the placement.

LEMMA DraftKeeps ==
    ASSUME IInv, NEW r \in Requests, Draft(r)
    PROVE  IInv'
<1> DEFINE shop == request[r].shop
           cart == [shop |-> shop, cents |-> quote[shop]]
           Drafts(q) ==
             /\ q.order = request[r].order /\ q.kind = request[r].kind
             /\ q.trigger = request[r].trigger /\ q.shop = shop
             /\ q.seen \in {None, request[r].seen}
             /\ \/ q.pc = "record" /\ q.outcome = "failed"
                \/ q.pc = "record" /\ q.outcome = "awaiting" /\ q.cart \in Carts
                \/ /\ q.pc \in {"charge", "place"} /\ q.cart = cart /\ cart \in Carts
                   /\ MayBuy(r, cart)
                   /\ q.pc = "charge" => shop \in CardShops
<1>0. /\ request[r] \in Worker /\ request \in [Requests -> Worker]
      /\ request[r].pc = "draft" /\ Knows(r)
      /\ UNCHANGED <<supplier, earlier, quote, orders, pages, charges, bought, lost, untold, asked>>
  BY DEF Draft, world, IInv, Types
<1>1. PICK q \in Worker : request' = [request EXCEPT ![r] = q] /\ Drafts(q)
  <2>1. CASE quote[shop] = None
    <3> DEFINE q == [request[r] EXCEPT !.pc = "record", !.outcome = "failed", !.seen = None]
    <3>1. q \in Worker /\ Drafts(q)
      BY <1>0 DEF Worker, Pcs, Outcomes
    <3>2. request' = [request EXCEPT ![r] = q]
      BY <2>1 DEF Draft, Conclude
    <3> HIDE DEF q, Drafts
    <3> QED
      BY <3>1, <3>2
  <2>2. CASE quote[shop] # None
    <3> DEFINE drafted == [request[r] EXCEPT !.cart = cart, !.spent = 0, !.approved = None]
               waits == [drafted EXCEPT !.pc = "record", !.outcome = "awaiting", !.seen = None]
               buys == [drafted EXCEPT !.pc = IF shop \in CardShops THEN "charge" ELSE "place"]
    <3>1. cart \in Carts
      BY <1>0, <2>2 DEF IInv, Types, Worker, Carts
    <3>2. /\ drafted \in Worker /\ drafted.cart = cart /\ drafted.order = request[r].order
          /\ drafted.kind = request[r].kind /\ drafted.trigger = request[r].trigger
          /\ drafted.shop = shop /\ drafted.seen = request[r].seen
      <4> HIDE DEF cart
      <4> QED
        BY <1>0, <3>1 DEF Worker
    <3>3. request' = [request EXCEPT ![r] = IF ~MayBuy(r, cart) THEN waits ELSE buys]
      BY <2>2 DEF Draft
    <3> HIDE DEF drafted, cart, shop
    <3>4. waits \in Worker /\ Drafts(waits)
      BY <3>1, <3>2 DEF Worker, Pcs, Outcomes
    <3>5. MayBuy(r, cart) => buys \in Worker /\ Drafts(buys)
      BY <3>1, <3>2 DEF Worker, Pcs
    <3> HIDE DEF waits, buys, Drafts
    <3> QED
      BY <3>3, <3>4, <3>5
  <2> QED
    BY <2>1, <2>2
<1>2. /\ request' \in [Requests -> Worker] /\ request'[r] = q
      /\ \A s \in Requests \ {r} : request'[s] = request[s]
  BY <1>0, <1>1
<1>3. Types'
  BY <1>0, <1>2 DEF IInv, Types
<1>4. KnowsOrder(r)' /\ KnowsOutcome(r)'
  <2> HIDE DEF cart
  <2> QED
    BY <1>0, <1>1, <1>2 DEF Knows, KnowsOrder, KnowsOutcome
<1>5. KnowsLeave(r)'
  <2>1. q.pc \in {"charge", "place"} => MayBuy(r, cart) /\ q.cart = cart
    BY <1>1
  <2> HIDE DEF cart
  <2>2. request[r].kind # "reject"
    BY <1>0 DEF Knows, KnowsLeave
  <2>3. request[r].kind = "approve" => request[r].seen \in {None, request[r].approved}
    BY <1>0 DEF Knows, KnowsLeave
  <2>4. MayBuy(r, cart) => IF request[r].kind = "ask" THEN request[r].trigger = "owner"
                           ELSE cart = request[r].approved
    BY DEF MayBuy
  <2>5. q.order = request[r].order /\ q.kind = request[r].kind
        /\ q.trigger = request[r].trigger /\ q.seen \in {None, request[r].seen}
        /\ q.pc \in {"record", "charge", "place"}
    BY <1>1
  <2> HIDE DEF Drafts
  <2> QED
    BY <1>2, <2>1, <2>2, <2>3, <2>4, <2>5 DEF KnowsLeave
<1> QED
  BY <1>0, <1>2, <1>3, <1>4, <1>5, OneMoves DEF Knows

\* What every step over a receipt has in common: rows stay, receipts only come,
\* and if somebody no longer answers for a charge the shop or the record does.
LEMMA BuyingKeeps ==
    ASSUME IInv, NEW r \in Requests, Types', Knows(r)', UNCHANGED <<orders, pages>>,
           \A s \in Requests \ {r} : request'[s] = request[s],
           \A k \in Keys : /\ bought[k] # None => bought'[k] # None
                           /\ k \in lost => k \in lost',
           \A k \in Keys : /\ charges'[k].status = "charged"
                           /\ charges[k].status = "charged" => Holds(r, k)
                           => bought'[k] # None \/ k \in lost' \/ Holds(r, k)'
    PROVE  IInv'
<1>1. /\ \A s \in Requests \ {r} : Knows(s)' /\ (\A k : Holds(s, k)' <=> Holds(s, k))
      /\ \A o \in OrderIds : Books(o)'
  BY RestKeeps
<1>2. ChargesHeld'
  <2> SUFFICES ASSUME NEW k \in Keys, charges'[k].status = "charged",
                      bought'[k] = None, k \notin lost',
                      ~Holds(r, k)'
               PROVE  \E s \in Requests : Holds(s, k)'
    BY DEF ChargesHeld
  <2>1. charges[k].status = "charged" /\ ~Holds(r, k)
    OBVIOUS
  <2>2. PICK s \in Requests : Holds(s, k)
    BY <2>1 DEF IInv, ChargesHeld
  <2> QED
    BY <1>1, <2>1, <2>2
<1> QED
  BY <1>1, <1>2 DEF IInv

LEMMA ChargeKeeps ==
    ASSUME IInv, NEW r \in Requests, ChargeCard(r) \/ ChargeRefused(r)
    PROVE  IInv'
<1>0. /\ Types /\ Knows(r) /\ request[r].pc = "charge" /\ request[r] \in Worker
      /\ request[r].shop \in CardShops /\ request[r].cart \in Carts /\ Key(r) \in Keys
      /\ UNCHANGED <<supplier, earlier, quote, orders, pages, bought, lost, untold, asked>>
  BY KeyOf DEF ChargeCard, ChargeRefused, world, IInv, Types, Knows, KnowsOrder
<1>1. CASE ChargeCard(r)
  <2>1. request' = [request EXCEPT ![r] =
                       [@ EXCEPT !.pc = "place", !.outcome = request[r].outcome,
                                 !.seen = request[r].seen]]
    BY <1>0, <1>1, GotoMoves DEF ChargeCard, Pcs
  <2>2. /\ request' \in [Requests -> Worker]
        /\ request'[r].pc = "place" /\ request'[r].shop = request[r].shop
        /\ request'[r].kind = request[r].kind /\ request'[r].trigger = request[r].trigger
        /\ request'[r].order = request[r].order /\ request'[r].cart = request[r].cart
        /\ request'[r].seen = request[r].seen /\ Key(r)' = Key(r)
        /\ \A s \in Requests \ {r} : request'[s] = request[s]
    <3>1. /\ request[r].outcome \in Outcomes /\ request[r].seen \in Carts \cup {None}
          /\ "place" \in Pcs
      BY <1>0 DEF Worker, Pcs
    <3>2. Types
      BY <1>0
    <3> QED
      BY <2>1, <3>1, <3>2, Moves
  <2>3. /\ charges' \in [Keys -> Charge]
        /\ \A k \in Keys \ {Key(r)} : charges'[k] = charges[k]
    <3>1. request[r].cart.cents \in Prices
      BY <1>0 DEF Carts
    <3> QED
      BY <1>0, <1>1, <3>1 DEF ChargeCard, Types, Charge
  <2>4. Types'
    BY <1>0, <2>2, <2>3 DEF Types
  <2>5. Knows(r)'
    BY <1>0, <2>2 DEF Knows, KnowsOrder, KnowsLeave, KnowsOutcome
  <2>6. Holds(r, Key(r))'
    BY <1>0, <2>2 DEF Holds
  <2>7. \A k \in Keys : /\ charges'[k].status = "charged"
                        /\ charges[k].status = "charged" => Holds(r, k)
                        => bought'[k] # None \/ k \in lost' \/ Holds(r, k)'
    <3>1. \A k : Holds(r, k) => k = Key(r)
      BY DEF Holds
    <3>2. \A k \in Keys : k = Key(r) => Holds(r, k)'
      BY <2>2, <2>6 DEF Holds
    <3> QED
      BY <2>3, <3>1, <3>2
  <2> QED
    BY <1>0, <2>2, <2>4, <2>5, <2>7, BuyingKeeps
<1>2. CASE ChargeRefused(r)
  <2>1. request' = [request EXCEPT ![r] =
                       [@ EXCEPT !.pc = "record", !.outcome = "failed", !.seen = None]]
    BY <1>2 DEF ChargeRefused, Conclude
  <2>2. /\ request' \in [Requests -> Worker]
        /\ request'[r].pc = "record" /\ request'[r].outcome = "failed"
        /\ request'[r].order = request[r].order
        /\ \A s \in Requests \ {r} : request'[s] = request[s]
    BY <1>0, <2>1, Moves DEF Pcs, Outcomes
  <2>3. charges' = charges
    BY <1>2 DEF ChargeRefused
  <2>4. Types'
    BY <1>0, <2>2, <2>3 DEF Types
  <2>5. Knows(r)'
    BY <1>0, <2>2 DEF Knows, KnowsOrder, KnowsLeave, KnowsOutcome
  <2> QED
    BY <1>0, <2>2, <2>3, <2>4, <2>5, OneMoves
<1> QED
  BY <1>1, <1>2

\* What a placement leaves under the key, whether it is confirmed or not.
LEMMA Taken ==
    ASSUME IInv, NEW r \in Requests, PlaceOrder(r) \/ PlaceRefused(r)
    PROVE  /\ request[r].pc = "place" /\ request[r].cart \in Carts /\ Key(r) \in Keys
           /\ bought' \in [Keys -> Carts \cup {None}]
           /\ \A k \in Keys :
                 \/ bought'[k] = bought[k]
                 \/ k = Key(r) /\ bought'[k] = request[r].cart
           /\ UNCHANGED <<supplier, earlier, quote, orders, pages, charges, lost, asked>>
           /\ untold' \in {untold, untold + 1} /\ request'[r] # request[r]
<1>1. request[r].pc = "place"
  BY DEF PlaceOrder, PlaceRefused
<1>2. request[r].cart \in Carts /\ Key(r) \in Keys
  BY <1>1, KeyOf DEF IInv
<1>3. \/ bought' = bought
      \/ bought' = [bought EXCEPT ![Key(r)] = request[r].cart]
  BY DEF PlaceOrder, PlaceRefused, TakenUnheard
<1>4. /\ UNCHANGED <<supplier, earlier, quote, orders, pages, charges, lost, asked>>
      /\ untold' \in {untold, untold + 1}
  BY DEF PlaceOrder, PlaceRefused, TakenUnheard, OneMoreUntold, world
<1>5. request'[r].pc \in {"record", "refund"}
  <2>1. request[r] \in Worker /\ request \in [Requests -> Worker]
    BY DEF IInv, Types
  <2>2. \E pc \in {"record", "refund"} : \E outcome, seen :
           \/ request' = [request EXCEPT ![r].pc = pc]
           \/ request' = [request EXCEPT ![r].pc = pc, ![r].outcome = outcome, ![r].seen = seen]
    BY DEF PlaceOrder, PlaceRefused, Goto, Conclude
  <2> QED
    BY <2>1, <2>2 DEF Worker
<1>6. request'[r] # request[r]
  BY <1>1, <1>5
<1> QED
  BY <1>1, <1>2, <1>3, <1>4, <1>6 DEF IInv, Types

LEMMA PlaceKeeps ==
    ASSUME IInv, NEW r \in Requests, PlaceOrder(r) \/ PlaceRefused(r)
    PROVE  IInv'
<1>0. /\ Types /\ Knows(r) /\ request[r].pc = "place" /\ request[r] \in Worker
      /\ request[r].order \in OrderIds
      /\ request[r].cart \in Carts /\ request[r].cart # None /\ Key(r) \in Keys
  BY Taken, KeyFacts DEF IInv, Types, Knows, KnowsOrder
<1>a. \A k \in Keys : /\ bought[k] # None => bought'[k] # None
                      /\ k \in lost => k \in lost'
  BY <1>0, Taken
<1>b. ASSUME NEW pc \in {"record", "refund"},
             NEW outcome \in {"placed", "failed", request[r].outcome},
             NEW seen \in {None, request[r].seen},
             request' = [request EXCEPT ![r] =
                            [@ EXCEPT !.pc = pc, !.outcome = outcome, !.seen = seen]],
             pc = "record" => /\ outcome \in {"placed", "failed"}
                              /\ outcome = "placed" => bought'[Key(r)] # None
                              /\ outcome = "failed" => request[r].shop \notin CardShops,
             pc = "refund" => request[r].shop \in CardShops
      PROVE  IInv'
  <2>1. /\ request' \in [Requests -> Worker]
        /\ request'[r].pc = pc /\ request'[r].outcome = outcome
        /\ request'[r].shop = request[r].shop
        /\ request'[r].kind = request[r].kind /\ request'[r].trigger = request[r].trigger
        /\ request'[r].order = request[r].order /\ request'[r].cart = request[r].cart
        /\ Key(r)' = Key(r)
        /\ \A s \in Requests \ {r} : request'[s] = request[s]
    <3>1. pc \in Pcs /\ outcome \in Outcomes /\ seen \in Carts \cup {None}
      BY <1>0 DEF Pcs, Outcomes, Worker
    <3>2. request' = [request EXCEPT ![r] =
                         [@ EXCEPT !.pc = pc, !.outcome = outcome, !.seen = seen]]
      BY <1>b
    <3>3. Types
      BY <1>0
    <3> QED
      BY <3>1, <3>2, <3>3, Moves
  <2>2. Types'
    BY <1>0, <2>1, Taken DEF Types
  <2>3. Knows(r)'
    <3>1. KnowsOrder(r)'
      BY <1>0, <1>b, <2>1 DEF KnowsOrder
    <3>2. KnowsLeave(r)'
      BY <1>0, <1>b, <2>1 DEF Knows, KnowsLeave
    <3>3. KnowsOutcome(r)'
      BY <1>0, <1>b, <2>1 DEF Knows, KnowsLeave, KnowsOutcome
    <3> QED
      BY <3>1, <3>2, <3>3 DEF Knows
  <2>4. \A k \in Keys : /\ charges'[k].status = "charged"
                        /\ charges[k].status = "charged" => Holds(r, k)
                        => bought'[k] # None \/ k \in lost' \/ Holds(r, k)'
    <3>1. charges' = charges
      BY Taken
    <3>2. \A k \in Keys : Holds(r, k) => bought'[k] # None \/ Holds(r, k)'
      BY <1>b, <2>1 DEF Holds
    <3> QED
      BY <3>1, <3>2
  <2> QED
    BY <1>a, <2>1, <2>2, <2>3, <2>4, Taken, BuyingKeeps
<1>1. CASE PlaceOrder(r)
  <2>1. request' = [request EXCEPT ![r] =
                       [@ EXCEPT !.pc = "record", !.outcome = "placed", !.seen = None]]
    BY <1>1 DEF PlaceOrder, Conclude
  <2>2. bought'[Key(r)] # None
    BY <1>0, <1>1 DEF PlaceOrder, Types
  <2> QED
    BY <1>b, <2>1, <2>2
<1>2. CASE PlaceRefused(r)
  <2>1. CASE request[r].shop \in CardShops
    <3>1. request' = [request EXCEPT ![r] =
                         [@ EXCEPT !.pc = "refund", !.outcome = request[r].outcome,
                                   !.seen = request[r].seen]]
      BY <1>0, <1>2, <2>1, GotoMoves DEF PlaceRefused, Pcs
    <3> QED
      BY <1>b, <2>1, <3>1
  <2>2. CASE request[r].shop \notin CardShops
    <3>1. request' = [request EXCEPT ![r] =
                       [@ EXCEPT !.pc = "record", !.outcome = "failed", !.seen = None]]
      BY <1>2, <2>2 DEF PlaceRefused, Conclude
    <3> QED
      BY <1>b, <2>2, <3>1
  <2> QED
    BY <2>1, <2>2
<1> QED
  BY <1>1, <1>2

LEMMA RefundKeeps ==
    ASSUME IInv, NEW r \in Requests, RefundCard(r) \/ RefundRefused(r)
    PROVE  IInv'
<1>0. /\ Types /\ Knows(r) /\ request[r].pc = "refund" /\ request[r].order \in OrderIds
      /\ Key(r) \in Keys
      /\ UNCHANGED <<supplier, earlier, quote, orders, pages, bought, untold, asked>>
  BY KeyOf DEF RefundCard, RefundRefused, world, IInv, Knows, KnowsOrder
<1>1. /\ request' \in [Requests -> Worker]
      /\ request'[r].pc = "record" /\ request'[r].outcome = "failed"
      /\ request'[r].order = request[r].order
      /\ \A s \in Requests \ {r} : request'[s] = request[s]
  <2>1. request' = [request EXCEPT ![r] =
                       [@ EXCEPT !.pc = "record", !.outcome = "failed", !.seen = None]]
    BY DEF RefundCard, RefundRefused, Conclude
  <2> QED
    BY <1>0, <2>1, Moves DEF Pcs, Outcomes
<1>2. Knows(r)'
  BY <1>0, <1>1 DEF Knows, KnowsOrder, KnowsLeave, KnowsOutcome
<1>3. \A k : Holds(r, k) => k = Key(r)
  BY DEF Holds
<1>4. CASE RefundCard(r)
  <2>1. /\ charges' \in [Keys -> Charge] /\ lost' = lost
        /\ charges'[Key(r)].status = "refunded"
        /\ \A k \in Keys \ {Key(r)} : charges'[k] = charges[k]
    BY <1>0, <1>4 DEF RefundCard, Types, Charge
  <2>2. Types'
    BY <1>0, <1>1, <2>1 DEF Types
  <2>3. \A k \in Keys : charges'[k].status = "charged" => charges[k].status = "charged" /\ ~Holds(r, k)
    BY <1>3, <2>1
  <2> QED
    BY <1>0, <1>1, <1>2, <2>1, <2>2, <2>3, BuyingKeeps
<1>5. CASE RefundRefused(r)
  <2>1. charges' = charges /\ lost' = lost \cup {Key(r)}
    BY <1>5 DEF RefundRefused
  <2>2. Types'
    BY <1>0, <1>1, <2>1 DEF Types
  <2> QED
    BY <1>0, <1>1, <1>2, <1>3, <2>1, <2>2, BuyingKeeps
<1> QED
  BY <1>4, <1>5

LEMMA DieKeeps ==
    ASSUME IInv, NEW r \in Requests, Die(r)
    PROVE  IInv'
<1>0. /\ Types /\ Knows(r)
      /\ UNCHANGED <<supplier, earlier, quote, orders, pages, charges, bought, asked>>
  BY DEF Die, world, IInv
<1>1. /\ request' \in [Requests -> Worker] /\ request'[r].pc = "idle"
      /\ \A s \in Requests \ {r} : request'[s] = request[s]
  BY <1>0, IdleFacts DEF Die, Types
<1>2. Knows(r)'
  BY <1>1 DEF Knows, KnowsOrder, KnowsLeave, KnowsOutcome
<1>3. lost \subseteq lost' /\ lost' \subseteq Keys
  <2>1. request[r].pc \in {"place", "refund"} => Key(r) \in Keys
    BY <1>0, KeyOf
  <2> QED
    BY <1>0, <2>1 DEF Die, Types
<1>4. \A k \in Keys : Holds(r, k) => k \in lost'
  BY DEF Die, Holds
<1>5. Types'
  <2>1. untold' \in Nat
    BY <1>0 DEF Die, OneMoreUntold, Types
  <2> QED
    BY <1>0, <1>1, <1>3, <2>1 DEF Types
<1> QED
  BY <1>0, <1>1, <1>2, <1>3, <1>4, <1>5, BuyingKeeps

-----------------------------------------------------------------------------
\* The row is written.

\* What Record leaves in a row, whatever was there.
Written(new, r) ==
    /\ new.trigger = "stock" => new.waited
    /\ new.status = "placed" =>
          /\ new.cart \in Carts
          /\ new.receipt \in Keys /\ bought[new.receipt] # None
          /\ \/ new.receipt = ApproveKey(request[r].order)
             \/ ~new.waited /\ \E c \in Carts : new.receipt = AutoKey(c)
    /\ request[r].outcome = "awaiting" => new.cart = request[r].cart

LEMMA AskWrites ==
    ASSUME IInv, NEW r \in Requests, Record(r), request[r].kind = "ask"
    PROVE  \E new \in Row : /\ orders' = [orders EXCEPT ![request[r].order] = new]
                            /\ Written(new, r)
<1> DEFINE q == request[r]
           o == q.order
           new == [status |-> q.outcome, trigger |-> q.trigger, cart |-> q.cart,
                   receipt |-> IF q.outcome = "placed" THEN Key(r) ELSE None,
                   waited |-> q.outcome = "awaiting"]
<1>0. /\ Knows(r) /\ q \in Worker /\ q.pc = "record" /\ o \in OrderIds
      /\ orders \in [OrderIds -> Row] /\ Books(o)
  BY DEF Record, IInv, Types, Knows, KnowsOrder
<1>1. q.outcome \in {"placed", "awaiting", "failed"}
  BY <1>0 DEF Knows, KnowsOutcome, Worker, Outcomes
<1>2. CASE q.outcome = "failed"
  <2>1. orders' = orders
    BY <1>2 DEF Record
  <2>2. orders[o] \in Row /\ Written(orders[o], r)
    BY <1>0, <1>2 DEF Written, Books
  <2>3. orders = [orders EXCEPT ![o] = orders[o]]
    BY <1>0
  <2> QED
    BY <2>1, <2>2, <2>3
<1>3. CASE q.outcome # "failed"
  <2>1. orders' = [orders EXCEPT ![o] = new]
    BY <1>3 DEF Record
  <2>2. /\ q.cart \in Carts
        /\ q.outcome = "placed" => /\ Key(r) \in Keys /\ Key(r) = AutoKey(q.cart)
                                   /\ q.trigger = "owner" /\ bought[Key(r)] # None
    BY <1>0, <1>1, <1>3, KeyOf DEF IInv, Knows, KnowsOutcome
  <2>3. new \in Row
    BY <1>0, <1>1, <1>3, <2>2 DEF Row, Worker
  <2>4. Written(new, r)
    <3>1. CASE q.outcome = "placed"
      <4>1. new.trigger = "owner" /\ new.receipt = Key(r) /\ ~new.waited /\ new.cart = q.cart
        BY <2>2, <3>1
      <4> HIDE DEF new
      <4> QED
        BY <2>2, <3>1, <4>1 DEF Written
    <3>2. CASE q.outcome = "awaiting"
      <4>1. new.waited /\ new.status = "awaiting" /\ new.cart = q.cart
        BY <3>2
      <4> HIDE DEF new
      <4> QED
        BY <4>1 DEF Written
    <3> QED
      BY <1>1, <1>3, <3>1, <3>2
  <2> HIDE DEF new
  <2> QED
    BY <2>1, <2>3, <2>4
<1> QED
  BY <1>2, <1>3

LEMMA DecisionWrites ==
    ASSUME IInv, NEW r \in Requests, Record(r), request[r].kind # "ask"
    PROVE  \E new \in Row : /\ orders' = [orders EXCEPT ![request[r].order] = new]
                            /\ Written(new, r)
<1> DEFINE q == request[r]
           o == q.order
<1>0. /\ Knows(r) /\ q \in Worker /\ q.pc = "record" /\ o \in OrderIds
      /\ orders \in [OrderIds -> Row] /\ orders[o] \in Row /\ Books(o)
  BY DEF Record, IInv, Types, Knows, KnowsOrder
<1>1. CASE q.outcome = "placed"
  <2> DEFINE new == [orders[o] EXCEPT !.status = "placed", !.cart = q.cart,
                                      !.receipt = Key(r)]
  <2>1. orders' = [orders EXCEPT ![o] = new]
    BY <1>1 DEF Record
  <2>2. q.cart \in Carts /\ Key(r) \in Keys /\ Key(r) = ApproveKey(o) /\ bought[Key(r)] # None
    BY <1>0, <1>1, KeyOf DEF IInv, Knows, KnowsOutcome
  <2>3. new \in Row /\ new.trigger = orders[o].trigger /\ new.waited = orders[o].waited
        /\ new.receipt = Key(r) /\ new.cart = q.cart
    BY <1>0, <2>2 DEF Row
  <2> HIDE DEF new
  <2>4. Written(new, r)
    BY <1>0, <1>1, <2>2, <2>3 DEF Written, Books
  <2> QED
    BY <2>1, <2>3, <2>4
<1>2. CASE q.outcome = "awaiting"
  <2> DEFINE new == [orders[o] EXCEPT !.cart = q.cart]
  <2>1. orders' = [orders EXCEPT ![o] = new]
    BY <1>2 DEF Record
  <2>2. q.cart \in Carts
    BY <1>0, <1>2 DEF Knows, KnowsOutcome
  <2>3. new \in Row /\ new.trigger = orders[o].trigger /\ new.waited = orders[o].waited
        /\ new.receipt = orders[o].receipt /\ new.cart = q.cart
        /\ new.status = orders[o].status
    BY <1>0, <2>2 DEF Row
  <2> HIDE DEF new
  <2>4. Written(new, r)
    BY <1>0, <1>2, <2>2, <2>3 DEF Written, Books
  <2> QED
    BY <2>1, <2>3, <2>4
<1>3. CASE q.outcome \in {"failed", "rejected"}
  <2> DEFINE new == [orders[o] EXCEPT !.status = q.outcome]
  <2>1. orders' = [orders EXCEPT ![o] = new]
    BY <1>3 DEF Record
  <2>2. new \in Row /\ new.trigger = orders[o].trigger /\ new.waited = orders[o].waited
        /\ new.status \in {"failed", "rejected"}
    BY <1>0, <1>3 DEF Row
  <2> HIDE DEF new
  <2>3. Written(new, r)
    BY <1>0, <1>3, <2>2 DEF Written, Books
  <2> QED
    BY <2>1, <2>2, <2>3
<1>4. q.outcome \in {"placed", "awaiting", "failed", "rejected"}
  BY <1>0 DEF Knows, KnowsOutcome, Worker, Outcomes
<1> QED
  BY <1>1, <1>2, <1>3, <1>4

LEMMA RecordKeeps ==
    ASSUME IInv, NEW r \in Requests, Record(r)
    PROVE  IInv'
<1> DEFINE o == request[r].order
<1>0. /\ Types /\ Knows(r) /\ request[r].pc = "record" /\ o \in OrderIds
      /\ UNCHANGED <<supplier, earlier, quote, charges, bought, lost, untold, asked>>
  BY DEF Record, world, IInv, Knows, KnowsOrder
<1>1. PICK new \in Row : orders' = [orders EXCEPT ![o] = new] /\ Written(new, r)
  BY AskWrites, DecisionWrites
<1>2. /\ request' \in [Requests -> Worker] /\ request'[r].pc = "idle"
      /\ \A s \in Requests \ {r} : request'[s] = request[s]
  BY <1>0, IdleFacts DEF Record, Types
<1>3. /\ orders' \in [OrderIds -> Row] /\ orders'[o] = new
      /\ \A p \in OrderIds \ {o} : orders'[p] = orders[p]
  BY <1>0, <1>1 DEF Types
<1>4. pages' \in [OrderIds -> SUBSET Carts]
  <2> DEFINE shown == IF request[r].outcome = "awaiting" /\ orders'[o].status = "awaiting"
                      THEN pages[o] \cup {request[r].cart} ELSE {}
  <2>1. pages' = [pages EXCEPT ![o] = shown]
    BY DEF Record
  <2>2. request[r].outcome = "awaiting" => request[r].cart \in Carts
    BY <1>0 DEF Knows, KnowsOutcome
  <2>3. shown \in SUBSET Carts
    BY <1>0, <2>2 DEF Types
  <2> HIDE DEF shown
  <2> QED
    BY <1>0, <2>1, <2>3 DEF Types
<1>5. Types'
  BY <1>0, <1>2, <1>3, <1>4 DEF Types
<1>6. ASSUME NEW s \in Requests
      PROVE  Knows(s)' /\ (\A k : Holds(s, k)' <=> Holds(s, k))
  <2>1. CASE s = r
    BY <1>0, <1>2, <2>1 DEF Knows, KnowsOrder, KnowsLeave, KnowsOutcome, Holds
  <2>2. CASE s # r
    BY <1>0, <1>2, <2>2 DEF IInv, Knows, KnowsOrder, KnowsLeave, KnowsOutcome, Holds, Key
  <2> QED
    BY <2>1, <2>2
<1>7. ASSUME NEW p \in OrderIds PROVE Books(p)'
  <2>1. CASE p = o
    BY <1>0, <1>1, <1>3, <1>4, <2>1 DEF Books, Written
  <2>2. CASE p # o
    BY <1>0, <1>3, <1>4, <2>2 DEF IInv, Books
  <2> QED
    BY <2>1, <2>2
<1>8. ChargesHeld'
  BY <1>0, <1>6 DEF IInv, ChargesHeld
<1> QED
  BY <1>5, <1>6, <1>7, <1>8 DEF IInv

-----------------------------------------------------------------------------
LEMMA NextKeeps == IInv /\ [Next]_vars => IInv'
<1> SUFFICES ASSUME IInv, [Next]_vars PROVE IInv'
  OBVIOUS
<1>1. CASE UNCHANGED vars
  BY <1>1, StandsStill DEF vars, world, IInv, Types
<1>2. CASE \E s \in Shops : \/ ChangeSupplier(s)
                            \/ \E p \in Prices \cup {None} : ChangePrice(s, p)
  BY <1>2, SettingsKeep
<1>3. ASSUME NEW r \in Requests,
             \/ \E t \in {"owner", "stock"} : Ask(r, t)
             \/ \E o \in OrderIds : (\E page \in pages[o] : Approve(r, o, page)) \/ Reject(r, o)
      PROVE  IInv'
  BY <1>3, BeginKeeps
<1>4. ASSUME NEW r \in Requests,
             \/ Draft(r) \/ ChargeCard(r) \/ ChargeRefused(r) \/ PlaceOrder(r)
             \/ PlaceRefused(r) \/ RefundCard(r) \/ RefundRefused(r) \/ Record(r) \/ Die(r)
      PROVE  IInv'
  BY <1>4, DraftKeeps, ChargeKeeps, PlaceKeeps, RefundKeeps, RecordKeeps, DieKeeps
<1> QED
  BY <1>1, <1>2, <1>3, <1>4 DEF Next

LEMMA Invariance == Spec => []IInv
<1> QED
  BY InitInv, NextKeeps, PTL DEF Spec

\* What the books call placed was taken by the shop, and an order that waited for
\* the owner shares its receipt with no other (orders.py, _record_plan and approve).
THEOREM PlacedWasTaken == Spec => []PlacedIsBought
<1>1. IInv => PlacedIsBought
  <2> SUFFICES ASSUME IInv, NEW o \in Placed
               PROVE  /\ orders[o].receipt # None /\ bought[orders[o].receipt] # None
                      /\ orders[o].waited =>
                            \A p \in Placed \ {o} : orders[p].receipt # orders[o].receipt
    BY DEF PlacedIsBought
  <2>1. \A p \in Placed : p \in OrderIds /\ orders[p].status = "placed" /\ Books(p)
    BY DEF Placed, IInv
  <2>2. orders[o].receipt # None /\ bought[orders[o].receipt] # None
    BY <2>1, KeyFacts DEF Books
  <2>3. orders[o].waited => orders[o].receipt = ApproveKey(o)
    BY <2>1 DEF Books
  <2>4. ASSUME NEW p \in Placed \ {o}
        PROVE  orders[p].receipt # ApproveKey(o)
    BY <2>1, KeyFacts DEF Books
  <2> QED
    BY <2>2, <2>3, <2>4
<1> QED
  BY <1>1, Invariance, PTL

\* What the stock model guessed is never bought unless it has waited for the owner
\* (purchase_authority.py, ALWAYS_ASK_TRIGGERS).
THEOREM NoGuessIsBought == Spec => []GuessesWait
<1>1. IInv => GuessesWait
  BY DEF IInv, Books, GuessesWait, Placed
<1> QED
  BY <1>1, Invariance, PTL

\* Every charge without goods is refunded or answered for (quartermaster.py, _place).
THEOREM NoChargeForgotten == Spec => []ChargesAnswered
<1>1. IInv => ChargesAnswered
  BY DEF IInv, ChargesHeld, ChargesAnswered, Holds
<1> QED
  BY <1>1, Invariance, PTL

\* What the shop takes for an approval is the cart on the page the owner pressed, if
\* the page showed the order's cart (place_approved_order), wherever prices move.
THEOREM ApprovalsBuyWhatTheyShow == Spec => ApprovedCartIsBought
<1> DEFINE Presses(r, o) ==
             /\ request[r].pc = "place" /\ request'[r] # request[r] /\ request[r].order = o
             /\ request[r].seen \in {None, bought'[ApproveKey(o)]}
           Shown == \A o \in OrderIds : bought'[ApproveKey(o)] # bought[ApproveKey(o)] =>
                       \E r \in Requests : Presses(r, o)
<1>1. ASSUME IInv, [Next]_vars PROVE [Shown]_vars
  <2> SUFFICES ASSUME NEW o \in OrderIds,
                      bought'[ApproveKey(o)] # bought[ApproveKey(o)]
               PROVE  \E r \in Requests : Presses(r, o)
    OBVIOUS
  <2>1. bought' # bought
    OBVIOUS
  <2>2. PICK r \in Requests : PlaceOrder(r) \/ PlaceRefused(r)
    BY <1>1, <2>1 DEF Next, vars, world, ChangeSupplier, ChangePrice, Ask, Approve, Reject,
       Draft, ChargeCard, ChargeRefused, RefundCard, RefundRefused, Record, Die
  <2>3. ApproveKey(o) = Key(r) /\ bought'[ApproveKey(o)] = request[r].cart
    BY <1>1, <2>2, Taken, KeyFacts
  <2>4. request[r].pc = "place" /\ Knows(r) /\ request'[r] # request[r]
    BY <1>1, <2>2, Taken DEF IInv
  <2>5. request[r].kind # "ask" /\ request[r].order = o
    BY <1>1, <2>3, <2>4, KeyOf, KeyFacts DEF IInv
  <2>6. request[r].kind = "approve"
    BY <1>1, <2>4, <2>5 DEF IInv, Types, Worker, Knows, KnowsLeave
  <2>7. request[r].seen \in {None, request[r].cart}
    BY <2>4, <2>6 DEF Knows, KnowsLeave
  <2> QED
    BY <2>3, <2>4, <2>5, <2>7
<1>2. IInv /\ [Next]_vars => [Shown]_vars
  BY <1>1
<1> QED
  BY <1>2, Invariance, PTL DEF Spec, ApprovedCartIsBought

-----------------------------------------------------------------------------
\* The weekly limit. What is bought unasked passes it by one order for each further
\* request, and for each that ended without a word of it on the books, at most.

\* Two sums whose terms differ at one place.
LEMMA SumChange ==
    ASSUME NEW U, IsFiniteSet(U), NEW V, IsFiniteSet(V), NEW y, U \ {y} = V \ {y},
           NEW f, \A x \in U : f[x] \in Nat, NEW g, \A x \in V : g[x] \in Nat,
           \A x \in U \ {y} : f[x] = g[x]
    PROVE  \E rest \in Nat :
              /\ SumFunctionOnSet(f, U) = rest + (IF y \in U THEN f[y] ELSE 0)
              /\ SumFunctionOnSet(g, V) = rest + (IF y \in V THEN g[y] ELSE 0)
<1> DEFINE W == U \ {y}
           rest == SumFunctionOnSet(f, W)
<1>1. IsFiniteSet(W)
  BY FS_Subset
<1>2. rest \in Nat /\ rest = SumFunctionOnSet(g, W)
  BY <1>1, SumNat, SumSame
<1>3. SumFunctionOnSet(f, U) = rest + (IF y \in U THEN f[y] ELSE 0)
  <2>1. CASE y \in U
    <3>1. SumFunctionOnSet(f, U) = f[y] + rest
      BY <2>1, SumSplit
    <3> HIDE DEF rest
    <3> QED
      BY <1>2, <2>1, <3>1
  <2>2. CASE y \notin U
    <3>1. SumFunctionOnSet(f, U) = rest
      <4>1. W = U
        BY <2>2
      <4> QED
        BY <4>1
    <3> HIDE DEF rest
    <3> QED
      BY <1>2, <2>2, <3>1
  <2> QED
    BY <2>1, <2>2
<1>4. SumFunctionOnSet(g, V) = rest + (IF y \in V THEN g[y] ELSE 0)
  <2>0. W = V \ {y}
    OBVIOUS
  <2>1. CASE y \in V
    <3>1. SumFunctionOnSet(g, V) = g[y] + rest
      BY <1>2, <2>0, <2>1, SumSplit
    <3> HIDE DEF rest
    <3> QED
      BY <1>2, <2>1, <3>1
  <2>2. CASE y \notin V
    <3>1. SumFunctionOnSet(g, V) = rest
      <4>1. W = V
        BY <2>0, <2>2
      <4> QED
        BY <1>2, <4>1
    <3> HIDE DEF rest
    <3> QED
      BY <1>2, <2>2, <3>1
  <2> QED
    BY <2>1, <2>2
<1> HIDE DEF rest
<1> QED
  BY <1>2, <1>3, <1>4

LEMMA SumOfFewer ==
    ASSUME NEW U, IsFiniteSet(U), NEW V \in SUBSET U, NEW f, \A x \in U : f[x] \in Nat
    PROVE  SumFunctionOnSet(f, V) <= SumFunctionOnSet(f, U)
<1> DEFINE B == {u \in SUBSET U : V \subseteq u /\ ~(SumFunctionOnSet(f, V) <= SumFunctionOnSet(f, u))}
<1> SUFFICES ASSUME B # {} PROVE FALSE
  <2>1. U \notin B
    OBVIOUS
  <2> QED
    BY <2>1
<1>1. PICK T \in B : \A u \in SUBSET T : u # T => u \notin B
  <2>1. B \subseteq SUBSET U
    OBVIOUS
  <2> HIDE DEF B
  <2> QED
    BY <2>1, LeastSubset
<1>2. /\ T \in SUBSET U /\ V \subseteq T /\ IsFiniteSet(T) /\ IsFiniteSet(V)
      /\ ~(SumFunctionOnSet(f, V) <= SumFunctionOnSet(f, T))
  BY FS_Subset
<1>3. SumFunctionOnSet(f, V) \in Nat /\ SumFunctionOnSet(f, T) \in Nat
  BY <1>2, SumNat
<1>4. T # V
  BY <1>2, <1>3
<1>5. PICK x \in T : x \notin V
  BY <1>2, <1>4
<1> DEFINE W == T \ {x}
<1>6. W \in SUBSET T /\ W # T /\ W \in SUBSET U /\ V \subseteq W /\ IsFiniteSet(W)
  BY <1>2, <1>5, FS_Subset
<1>7. SumFunctionOnSet(f, V) <= SumFunctionOnSet(f, W)
  BY <1>1, <1>6
<1>8. SumFunctionOnSet(f, T) = f[x] + SumFunctionOnSet(f, W) /\ f[x] \in Nat
  BY <1>2, SumSplit
<1>9. SumFunctionOnSet(f, W) \in Nat
  BY <1>2, <1>6, SumNat
<1> HIDE DEF W, B
<1> QED
  BY <1>2, <1>3, <1>7, <1>8, <1>9

\* A sum whose terms are none of them greater.
LEMMA SumLess ==
    ASSUME NEW D, IsFiniteSet(D), NEW f, NEW g,
           \A x \in D : f[x] \in Nat /\ g[x] \in Nat /\ f[x] <= g[x]
    PROVE  SumFunctionOnSet(f, D) <= SumFunctionOnSet(g, D)
<1> DEFINE B == {u \in SUBSET D : ~(SumFunctionOnSet(f, u) <= SumFunctionOnSet(g, u))}
<1> SUFFICES ASSUME B # {} PROVE FALSE
  OBVIOUS
<1>1. PICK T \in B : \A U \in SUBSET T : U # T => U \notin B
  <2>1. B \subseteq SUBSET D
    OBVIOUS
  <2> HIDE DEF B
  <2> QED
    BY <2>1, LeastSubset
<1>2. T \in SUBSET D /\ IsFiniteSet(T) /\ ~(SumFunctionOnSet(f, T) <= SumFunctionOnSet(g, T))
  BY FS_Subset
<1>3. T # {}
  BY <1>2, SumOfNone
<1> DEFINE U == T \ {Pick(T)}
<1>4. Pick(T) \in T
  BY <1>3 DEF Pick
<1>5. SumFunctionOnSet(f, U) <= SumFunctionOnSet(g, U) /\ IsFiniteSet(U) /\ U \subseteq D
  BY <1>1, <1>2, <1>4, FS_Subset
<1>6. SumFunctionOnSet(f, U) \in Nat /\ SumFunctionOnSet(g, U) \in Nat
  BY <1>5, SumNat
<1>7. /\ SumFunctionOnSet(f, T) = f[Pick(T)] + SumFunctionOnSet(f, U)
      /\ SumFunctionOnSet(g, T) = g[Pick(T)] + SumFunctionOnSet(g, U)
  BY <1>2, <1>3, SumStep
<1>8. f[Pick(T)] \in Nat /\ g[Pick(T)] \in Nat /\ f[Pick(T)] <= g[Pick(T)]
  BY <1>2, <1>4
<1> HIDE DEF U, B
<1> QED
  BY <1>2, <1>5, <1>6, <1>7, <1>8

-----------------------------------------------------------------------------
\* A request that may buy, unasked.
Buying(r) == \/ request[r].pc \in {"charge", "place"}
             \/ request[r].pc = "record" /\ request[r].outcome = "placed"

\* What a request may still add to the books unasked: the cart it buys, or while it
\* has not decided what the limits leave after the spend it has read.
Room(r) ==
    LET left == PeriodCap - request[r].spent IN
    IF request[r].kind # "ask" THEN 0
    ELSE IF Buying(r) THEN request[r].cart.cents
    ELSE IF request[r].pc # "draft" \/ request[r].spent > PeriodCap THEN 0
    ELSE IF left < PerOrderCap THEN left ELSE PerOrderCap

\* What the books know was bought unasked: no request knows of more.
BookedSpend == earlier + Cents({o \in Placed : ~orders[o].waited})

Rooms == SumFunctionOnSet([r \in Requests |-> Room(r)], Requests)

\* The row of a new order is blank until its one request writes it, and the row of
\* an order under decision had to wait.
Asking(r) == request[r].pc # "idle" /\ request[r].kind = "ask"
Blank(o) == orders[o].status = "absent" /\ ~orders[o].waited
Filed(r) ==
    /\ Asking(r) =>
          /\ request[r].order <= asked /\ Blank(request[r].order)
          /\ \A s \in Requests \ {r} : Asking(s) => request[s].order # request[r].order
    /\ request[r].pc # "idle" /\ request[r].kind # "ask" => orders[request[r].order].waited

Rows == /\ \A o \in OrderIds : o > asked => Blank(o)
        /\ \A o \in OrderIds : orders[o].status = "awaiting" => orders[o].waited

Roomy == \A r \in Requests : Room(r) \in 0..PerOrderCap
Ceiling == PeriodCap + (Cardinality(Requests) - 1) * PerOrderCap
Within == BookedSpend + Rooms <= Ceiling

Limits == Rows /\ (\A r \in Requests : Filed(r)) /\ Roomy /\ Within

LEMMA Numbers ==
    ASSUME IInv, Roomy
    PROVE  /\ PerOrderCap \in Nat /\ PeriodCap \in Nat
           /\ BookedSpend \in Nat /\ Rooms \in Nat /\ Ceiling \in Nat
           /\ BookedSpend <= Spent /\ Spent \in Nat
<1>1. PerOrderCap \in Nat /\ PeriodCap \in Nat /\ earlier \in Nat
  BY OrdersAssumptions DEF IInv, Types
<1>2. Cardinality(Requests) - 1 \in Nat
  BY FS_CardinalityType, FS_EmptySet, OrdersAssumptions
<1>3. Ceiling \in Nat
  <2>1. \A m, n, k \in Nat : m + n * k \in Nat
    OBVIOUS
  <2> QED
    BY <1>1, <1>2, <2>1 DEF Ceiling
<1>4. Rooms \in Nat
  <2>1. \A r \in Requests : [x \in Requests |-> Room(x)][r] \in Nat
    BY <1>1 DEF Roomy
  <2> QED
    BY <2>1, SumNat, OrdersAssumptions DEF Rooms
<1> DEFINE unasked == {o \in Placed : ~orders[o].waited}
<1>5. Cents(unasked) \in Nat /\ Cents(Placed) \in Nat
  BY CentsAreNat DEF IInv
<1>6. Cents(unasked) <= Cents(Placed)
  <2> DEFINE f == [o \in Placed |-> orders[o].cart.cents]
             g == [o \in unasked |-> orders[o].cart.cents]
  <2>1. IsFiniteSet(Placed) /\ IsFiniteSet(unasked)
    BY OrderIdsFinite, FS_Subset DEF Placed
  <2>2. \A o \in Placed : f[o] \in Nat
    BY CentsAreNat DEF IInv
  <2>3. SumFunctionOnSet(f, unasked) <= SumFunctionOnSet(f, Placed)
    <3> HIDE DEF f
    <3> QED
      BY <2>1, <2>2, SumOfFewer
  <2>4. SumFunctionOnSet(f, unasked) = SumFunctionOnSet(g, unasked)
    <3>1. \A o \in unasked : f[o] = g[o]
      OBVIOUS
    <3> HIDE DEF f, g, unasked
    <3> QED
      BY <2>1, <3>1, SumSame
  <2>5. Cents(unasked) = SumFunctionOnSet(g, unasked) /\ Cents(Placed) = SumFunctionOnSet(f, Placed)
    BY DEF Cents, SumFunction
  <2> QED
    BY <2>3, <2>4, <2>5
<1>7. BookedSpend = earlier + Cents(unasked) /\ Spent = earlier + Cents(Placed)
  BY DEF BookedSpend, Spent
<1> HIDE DEF unasked
<1> QED
  BY <1>1, <1>3, <1>4, <1>5, <1>6, <1>7

LEMMA InitLimits == Init => Limits
<1> SUFFICES ASSUME Init PROVE Limits
  OBVIOUS
<1>0. IInv /\ PeriodCap \in Nat /\ PerOrderCap \in Nat
  BY InitInv, OrdersAssumptions
<1>1. \A r \in Requests : request[r] = Idle
  BY DEF Init
<1>2. Idle.pc = "idle" /\ Idle.kind = "ask"
  BY DEF Idle
<1>3. Rows /\ \A o \in OrderIds : Blank(o) /\ orders[o].status # "placed"
  BY DEF Init, Rows, Blank, NoRow
<1>4. \A r \in Requests : Filed(r)
  BY <1>1, <1>2 DEF Filed, Asking
<1>5. \A r \in Requests : Room(r) = 0
  BY <1>1, <1>2 DEF Room, Buying
<1>6. Roomy
  BY <1>0, <1>5 DEF Roomy
<1>7. Rooms = 0
  <2> DEFINE f == [x \in Requests |-> Room(x)]
  <2>1. \A r \in Requests : f[r] \in 0..0
    BY <1>5
  <2>2. SumFunctionOnSet(f, Requests) <= Cardinality(Requests) * 0
    <3> HIDE DEF f
    <3> QED
      BY <2>1, SumBounded, OrdersAssumptions
  <2>3. Cardinality(Requests) \in Nat
    BY FS_CardinalityType, OrdersAssumptions
  <2>4. Rooms \in Nat
    BY <1>0, <1>6, Numbers
  <2>5. SumFunctionOnSet(f, Requests) = Rooms
    BY DEF Rooms
  <2> HIDE DEF f
  <2> QED
    BY <2>2, <2>3, <2>4, <2>5
<1>8. BookedSpend = earlier
  <2>1. {o \in Placed : ~orders[o].waited} = {}
    BY <1>3 DEF Placed
  <2>2. Cents({}) = 0
    <3> DEFINE f == [o \in {} |-> orders[o].cart.cents]
    <3>1. DOMAIN f = {} /\ Cents({}) = SumFunctionOnSet(f, DOMAIN f)
      BY DEF Cents, SumFunction
    <3> HIDE DEF f
    <3> QED
      BY <3>1, SumOfNone
  <2>3. BookedSpend = earlier + 0
    BY <2>1, <2>2, Zenon DEF BookedSpend
  <2> QED
    BY <1>0, <2>3 DEF IInv, Types
<1>9. earlier <= Ceiling
  <2>1. Cardinality(Requests) - 1 \in Nat
    BY FS_CardinalityType, FS_EmptySet, OrdersAssumptions
  <2>2. \A m, n \in Nat : m * n \in Nat
    OBVIOUS
  <2>3. (Cardinality(Requests) - 1) * PerOrderCap \in Nat
    BY <1>0, <2>1, <2>2
  <2>4. earlier \in 0..PeriodCap
    BY <1>0 DEF IInv, Types
  <2> QED
    BY <1>0, <2>3, <2>4 DEF Ceiling
<1>10. Within
  BY <1>0, <1>7, <1>8, <1>9 DEF Within, IInv, Types
<1> QED
  BY <1>3, <1>4, <1>6, <1>10 DEF Limits

-----------------------------------------------------------------------------
\* The rooms when one request moves.
LEMMA RoomsMove ==
    ASSUME Roomy, Roomy', NEW r \in Requests,
           \A s \in Requests \ {r} : request'[s] = request[s]
    PROVE  \E rest \in Nat : /\ Rooms = rest + Room(r) /\ Rooms' = rest + Room(r)'
                             /\ rest <= (Cardinality(Requests) - 1) * PerOrderCap
<1> DEFINE f == [x \in Requests |-> Room(x)]
           g == [x \in Requests |-> Room(x)']
           D == Requests \ {r}
           rest == SumFunctionOnSet(f, D)
<1>0. PerOrderCap \in Nat /\ IsFiniteSet(Requests)
  BY OrdersAssumptions
<1>1. \A x \in Requests : f[x] \in 0..PerOrderCap /\ g[x] \in 0..PerOrderCap
  BY DEF Roomy
<1>2. \A x \in D : f[x] = g[x]
  BY DEF Room, Buying
<1>3. IsFiniteSet(D) /\ Cardinality(D) = Cardinality(Requests) - 1
  BY <1>0, FS_RemoveElement
<1>4. Rooms = SumFunctionOnSet(f, Requests) /\ Rooms' = SumFunctionOnSet(g, Requests)
  BY DEF Rooms
<1>5. f[r] = Room(r) /\ g[r] = Room(r)'
  OBVIOUS
<1> HIDE DEF f, g
<1>6. \A x \in Requests : f[x] \in Nat /\ g[x] \in Nat
  BY <1>0, <1>1
<1>7. rest \in Nat /\ rest = SumFunctionOnSet(g, D)
  BY <1>2, <1>3, <1>6, SumNat, SumSame
<1>8. rest <= Cardinality(D) * PerOrderCap
  BY <1>0, <1>1, <1>3, SumBounded
<1>9. /\ SumFunctionOnSet(f, Requests) = f[r] + rest
      /\ SumFunctionOnSet(g, Requests) = g[r] + rest
  BY <1>0, <1>6, <1>7, SumSplit
<1> HIDE DEF rest
<1>10. f[r] \in Nat /\ g[r] \in Nat
  BY <1>6
<1>11. Rooms = rest + Room(r) /\ Rooms' = rest + Room(r)'
  BY <1>4, <1>5, <1>7, <1>9, <1>10
<1>12. rest <= (Cardinality(Requests) - 1) * PerOrderCap
  BY <1>3, <1>8
<1> QED
  BY <1>7, <1>11, <1>12

LEMMA SpendStands ==
    ASSUME UNCHANGED <<orders, earlier>>
    PROVE  BookedSpend' = BookedSpend
<1>1. Placed' = Placed
  BY DEF Placed
<1>2. {o \in Placed : ~orders[o].waited}' = {o \in Placed : ~orders[o].waited}
  BY <1>1
<1>3. \A some : Cents(some)' = Cents(some)
  BY DEF Cents
<1> QED
  BY <1>2, <1>3 DEF BookedSpend

\* A step of one request that leaves the rows alone, and takes no new order up.
Steady(r) ==
    /\ UNCHANGED <<orders, earlier, asked>>
    /\ \A s \in Requests \ {r} : request'[s] = request[s]
    /\ \/ request'[r].pc = "idle"
       \/ /\ request[r].pc # "idle"
          /\ request'[r].kind = request[r].kind /\ request'[r].order = request[r].order
    /\ Room(r)' \in 0..PerOrderCap /\ Room(r)' <= Room(r)

LEMMA SteadyKeeps ==
    ASSUME IInv, IInv', Limits, NEW r \in Requests, Steady(r)
    PROVE  Limits'
<1>1. Rows'
  BY DEF Limits, Rows, Blank, Steady
<1>2. ASSUME NEW s \in Requests PROVE Asking(s)' => Asking(s) /\ request'[s].order = request[s].order
  <2>1. CASE s = r
    BY <2>1 DEF Asking, Steady
  <2>2. CASE s # r
    BY <2>2 DEF Asking, Steady
  <2> QED
    BY <2>1, <2>2
<1>3. ASSUME NEW s \in Requests PROVE Filed(s)'
  <2>1. Filed(s)
    BY DEF Limits
  <2>2. Asking(s)' => /\ request'[s].order <= asked' /\ Blank(request[s].order)'
                      /\ \A t \in Requests \ {s} : Asking(t)' => request'[t].order # request'[s].order
    <3> SUFFICES ASSUME Asking(s)' PROVE
                 /\ request'[s].order <= asked' /\ Blank(request[s].order)'
                 /\ \A t \in Requests \ {s} : Asking(t)' => request'[t].order # request'[s].order
      OBVIOUS
    <3>1. Asking(s) /\ request'[s].order = request[s].order
      BY <1>2
    <3>2. asked' = asked /\ orders' = orders
      BY DEF Steady
    <3>3. request[s].order <= asked /\ Blank(request[s].order)
      BY <2>1, <3>1 DEF Filed
    <3>4. Blank(request[s].order)'
      BY <3>1, <3>2, <3>3 DEF Blank
    <3>5. ASSUME NEW t \in Requests \ {s}, Asking(t)'
          PROVE  request'[t].order # request'[s].order
      BY <1>2, <2>1, <3>1, <3>5 DEF Filed
    <3> QED
      BY <3>1, <3>2, <3>3, <3>4, <3>5
  <2>3. request'[s].pc # "idle" /\ request'[s].kind # "ask" => orders'[request'[s].order].waited
    <3>1. CASE s = r
      BY <2>1, <3>1 DEF Filed, Steady
    <3>2. CASE s # r
      BY <2>1, <3>2 DEF Filed, Steady
    <3> QED
      BY <3>1, <3>2
  <2> QED
    BY <2>2, <2>3 DEF Filed
<1>4. Roomy'
  <2>1. ASSUME NEW s \in Requests PROVE Room(s)' \in 0..PerOrderCap
    <3>1. CASE s = r
      BY <3>1 DEF Steady
    <3>2. CASE s # r
      <4>1. request'[s] = request[s]
        BY <3>2 DEF Steady
      <4>2. Room(s)' = Room(s)
        BY <4>1 DEF Room, Buying
      <4> QED
        BY <4>2 DEF Limits, Roomy
    <3> QED
      BY <3>1, <3>2
  <2> QED
    BY <2>1 DEF Roomy
<1>5. Within'
  <2>1. PICK rest \in Nat : Rooms = rest + Room(r) /\ Rooms' = rest + Room(r)'
    BY <1>4, RoomsMove DEF Limits, Steady
  <2>2. BookedSpend' = BookedSpend /\ Ceiling' = Ceiling
    BY SpendStands DEF Steady, Ceiling
  <2>3. BookedSpend \in Nat /\ Ceiling \in Nat /\ PerOrderCap \in Nat
    BY Numbers DEF Limits
  <2>4. Room(r) \in 0..PerOrderCap /\ Room(r)' \in 0..PerOrderCap /\ Room(r)' <= Room(r)
    BY DEF Limits, Roomy, Steady
  <2>5. BookedSpend + Rooms <= Ceiling
    BY DEF Limits, Within
  <2>6. BookedSpend + Rooms' <= Ceiling
    BY <2>1, <2>3, <2>4, <2>5
  <2> QED
    BY <2>2, <2>6 DEF Within
<1> QED
  BY <1>1, <1>3, <1>4, <1>5 DEF Limits

LEMMA StandingKeeps ==
    ASSUME IInv, IInv', Limits, UNCHANGED <<orders, earlier, asked, request>>
    PROVE  Limits'
<1>1. PICK r : r \in Requests
  BY OrdersAssumptions
<1>2. Room(r)' = Room(r)
  BY DEF Room, Buying
<1>3. Room(r) \in 0..PerOrderCap /\ PerOrderCap \in Nat
  BY <1>1, OrdersAssumptions DEF Limits, Roomy
<1>4. Steady(r)
  BY <1>2, <1>3 DEF Steady
<1> QED
  BY <1>1, <1>4, SteadyKeeps

\* The steps between pricing and the outcome, and death.
LEMMA CallsAreSteady ==
    ASSUME IInv, IInv', Limits, NEW r \in Requests,
           \/ Draft(r) \/ ChargeCard(r) \/ ChargeRefused(r) \/ PlaceOrder(r)
           \/ PlaceRefused(r) \/ RefundCard(r) \/ RefundRefused(r) \/ Die(r)
    PROVE  Steady(r)
<1>0. /\ request[r] \in Worker /\ request \in [Requests -> Worker] /\ Types /\ Knows(r)
      /\ PerOrderCap \in Nat /\ PeriodCap \in Nat /\ Room(r) \in 0..PerOrderCap
  BY OrdersAssumptions DEF IInv, Types, Limits, Roomy
<1>1. UNCHANGED <<orders, earlier, asked>>
  BY DEF Draft, ChargeCard, ChargeRefused, PlaceOrder, PlaceRefused, RefundCard,
         RefundRefused, Die, world
<1>2. ASSUME Die(r) PROVE Steady(r)
  <2>1. request' = [request EXCEPT ![r] = Idle]
    BY <1>2 DEF Die
  <2>2. request'[r] = Idle /\ \A s \in Requests \ {r} : request'[s] = request[s]
    BY <1>0, <2>1
  <2>3. Idle.pc = "idle" /\ Room(r)' = 0
    BY <2>2 DEF Idle, Room, Buying
  <2> QED
    BY <1>0, <1>1, <2>2, <2>3 DEF Steady
<1>3. ASSUME NEW pc \in {"place", "refund", "record"},
             NEW outcome \in {"placed", "failed", request[r].outcome}, request[r].pc # "idle",
             NEW seen \in {None, request[r].seen},
             request' = [request EXCEPT ![r] =
                            [@ EXCEPT !.pc = pc, !.outcome = outcome, !.seen = seen]],
             pc = "place" => request[r].pc = "charge",
             pc = "record" /\ outcome = "placed" => request[r].pc = "place"
      PROVE  Steady(r)
  <2>1. /\ request'[r].pc = pc /\ request'[r].outcome = outcome
        /\ request'[r].kind = request[r].kind /\ request'[r].order = request[r].order
        /\ request'[r].cart = request[r].cart
        /\ \A s \in Requests \ {r} : request'[s] = request[s]
    <3>1. request' = [request EXCEPT ![r] =
                         [@ EXCEPT !.pc = pc, !.outcome = outcome, !.seen = seen]]
      BY <1>3
    <3>2. Types
      BY <1>0
    <3>3. pc \in Pcs /\ outcome \in Outcomes /\ seen \in Carts \cup {None}
      BY <1>0 DEF Pcs, Outcomes, Worker
    <3> QED
      BY <3>1, <3>2, <3>3, Moves
  <2>2. Buying(r)' => Buying(r)
    BY <1>3, <2>1 DEF Buying
  <2>3. Room(r)' = IF request[r].kind = "ask" /\ Buying(r)' THEN request[r].cart.cents ELSE 0
    BY <1>3, <2>1 DEF Room
  <2>4. Room(r)' = Room(r) \/ Room(r)' = 0
    BY <2>2, <2>3 DEF Room
  <2> QED
    BY <1>0, <1>1, <1>3, <2>1, <2>4 DEF Steady
<1>4. CASE ChargeCard(r)
  <2>1. request[r].pc = "charge" /\ Goto(r, "place")
    BY <1>4 DEF ChargeCard
  <2>2. request' = [request EXCEPT ![r] =
                       [@ EXCEPT !.pc = "place", !.outcome = request[r].outcome,
                                 !.seen = request[r].seen]]
    BY <1>0, <2>1, GotoMoves DEF Pcs
  <2> QED
    BY <1>3, <2>1, <2>2
<1>5. ASSUME NEW outcome \in {"failed", "placed"}, Conclude(r, outcome), request[r].pc # "idle",
             outcome = "placed" => request[r].pc = "place"
      PROVE  Steady(r)
  <2>1. request' = [request EXCEPT ![r] =
                       [@ EXCEPT !.pc = "record", !.outcome = outcome, !.seen = None]]
    BY <1>5 DEF Conclude
  <2> QED
    BY <1>3, <1>5, <2>1
<1>6. CASE ChargeRefused(r) \/ PlaceOrder(r) \/ RefundCard(r) \/ RefundRefused(r)
  <2>1. \/ Conclude(r, "failed") /\ request[r].pc # "idle"
        \/ Conclude(r, "placed") /\ request[r].pc = "place"
    BY <1>6 DEF ChargeRefused, PlaceOrder, RefundCard, RefundRefused
  <2> QED
    BY <1>5, <2>1
<1>7. CASE PlaceRefused(r)
  <2>1. request[r].pc = "place" /\ (Goto(r, "refund") \/ Conclude(r, "failed"))
    BY <1>7 DEF PlaceRefused
  <2>2. CASE Goto(r, "refund")
    <3>1. request' = [request EXCEPT ![r] =
                         [@ EXCEPT !.pc = "refund", !.outcome = request[r].outcome,
                                   !.seen = request[r].seen]]
      BY <1>0, <2>2, GotoMoves DEF Pcs
    <3> QED
      BY <1>3, <2>1, <3>1
  <2> QED
    BY <1>5, <2>1, <2>2
<1>8. CASE Draft(r)
  <2> DEFINE shop == request[r].shop
             cart == [shop |-> shop, cents |-> quote[shop]]
             drafted == [request[r] EXCEPT !.cart = cart, !.spent = 0, !.approved = None]
             waits == [drafted EXCEPT !.pc = "record", !.outcome = "awaiting", !.seen = None]
             buys == [drafted EXCEPT !.pc = IF shop \in CardShops THEN "charge" ELSE "place"]
  <2>1. request[r].pc = "draft"
    BY <1>8 DEF Draft
  <2>2. CASE quote[shop] = None
    <3>1. Conclude(r, "failed")
      BY <1>8, <2>2 DEF Draft
    <3> QED
      BY <1>5, <2>1, <3>1
  <2>3. CASE quote[shop] # None
    <3>1. cart \in Carts /\ cart.cents \in Nat
      <4>1. quote[shop] \in Prices /\ shop \in Shops
        BY <1>0, <2>3 DEF Types, Worker
      <4> QED
        BY <4>1, OrdersAssumptions DEF Carts
    <3>2. request' = [request EXCEPT ![r] = IF ~MayBuy(r, cart) THEN waits ELSE buys]
      BY <1>8, <2>3 DEF Draft
    <3> HIDE DEF cart
    <3>3. /\ waits.kind = request[r].kind /\ waits.order = request[r].order
          /\ waits.pc = "record" /\ waits.outcome = "awaiting"
          /\ buys.kind = request[r].kind /\ buys.order = request[r].order
          /\ buys.pc \in {"charge", "place"} /\ buys.cart = cart
      BY <1>0 DEF Worker
    <3> HIDE DEF shop, drafted, waits, buys
    <3>4. /\ request'[r] = IF ~MayBuy(r, cart) THEN waits ELSE buys
          /\ \A s \in Requests \ {r} : request'[s] = request[s]
      BY <1>0, <3>2
    <3>5. CASE ~MayBuy(r, cart)
      <4>1. request'[r] = waits
        BY <3>4, <3>5
      <4>2. Room(r)' = 0
        BY <3>3, <4>1 DEF Room, Buying
      <4> QED
        BY <1>0, <1>1, <2>1, <3>3, <3>4, <4>1, <4>2 DEF Steady
    <3>6. CASE MayBuy(r, cart)
      <4>1. request'[r] = buys
        BY <3>4, <3>6
      <4>2. Room(r)' = IF request[r].kind # "ask" THEN 0 ELSE cart.cents
        BY <3>3, <4>1 DEF Room, Buying
      <4>3. request[r].kind = "ask" => cart.cents <= Room(r)
        <5>1. SUFFICES ASSUME request[r].kind = "ask" PROVE cart.cents <= Room(r)
          OBVIOUS
        <5>2. cart.cents <= PerOrderCap /\ request[r].spent + cart.cents <= PeriodCap
          BY <3>6, <5>1 DEF MayBuy, WithinLimits
        <5>3. request[r].spent \in Nat
          BY <1>0 DEF Worker
        <5>4. ~(request[r].spent > PeriodCap) /\ cart.cents <= PeriodCap - request[r].spent
          BY <1>0, <3>1, <5>2, <5>3
        <5>5. Room(r) = IF PeriodCap - request[r].spent < PerOrderCap
                        THEN PeriodCap - request[r].spent ELSE PerOrderCap
          BY <2>1, <5>1, <5>4 DEF Room, Buying
        <5> QED
          BY <5>2, <5>4, <5>5
      <4>4. Room(r)' \in 0..PerOrderCap /\ Room(r)' <= Room(r)
        BY <1>0, <3>1, <4>2, <4>3
      <4> QED
        BY <1>1, <2>1, <3>3, <3>4, <4>1, <4>4 DEF Steady
    <3> QED
      BY <3>5, <3>6
  <2> QED
    BY <2>2, <2>3
<1> QED
  BY <1>2, <1>4, <1>6, <1>7, <1>8

-----------------------------------------------------------------------------
\* Requests that begin, and rows that are written.

\* A request that takes nothing from another when it begins.
LEMMA AskWithin ==
    ASSUME IInv, IInv', Limits, NEW r \in Requests, NEW t \in {"owner", "stock"}, Ask(r, t)
    PROVE  Limits'
<1> DEFINE q == [Idle EXCEPT !.pc = "draft", !.trigger = t, !.order = asked + 1,
                             !.shop = supplier, !.spent = Spent]
<1>0. /\ request \in [Requests -> Worker] /\ request[r].pc = "idle" /\ asked < MaxAsks
      /\ asked \in Nat /\ asked' = asked + 1 /\ asked + 1 \in OrderIds
      /\ UNCHANGED <<orders, earlier>> /\ Rows
  BY OrdersAssumptions DEF Ask, world, IInv, Types, OrderIds, Limits
<1>1. /\ q.pc = "draft" /\ q.kind = "ask" /\ q.order = asked + 1 /\ q.spent = Spent
  BY DEF Idle
<1>2. request' = [request EXCEPT ![r] = q]
  BY DEF Ask
<1> HIDE DEF q
<1>3. request'[r] = q /\ \A s \in Requests \ {r} : request'[s] = request[s]
  BY <1>0, <1>2
<1>4. Blank(asked + 1)
  BY <1>0 DEF Rows
<1>5. Rows'
  BY <1>0 DEF Rows, Blank, OrderIds
<1>6. ASSUME NEW s \in Requests PROVE Filed(s)'
  <2>1. \A u \in Requests \ {r} : Asking(u)' => Asking(u) /\ request[u].order <= asked
    BY <1>3 DEF Asking, Limits, Filed
  <2>2. \A u \in Requests : request[u].order <= asked => request[u].order # asked + 1
    BY <1>0
  <2>3. CASE s = r
    <3>1. \A u \in Requests \ {r} : Asking(u)' => request'[u].order # asked + 1
      BY <1>3, <2>1, <2>2
    <3>2. /\ asked + 1 <= asked'
          /\ orders'[asked + 1].status = "absent" /\ ~orders'[asked + 1].waited
      BY <1>0, <1>4 DEF Blank
    <3>3. request'[s].kind = "ask" /\ request'[s].order = asked + 1
      BY <1>1, <1>3, <2>3
    <3> QED
      BY <1>0, <2>3, <3>1, <3>2, <3>3 DEF Filed, Blank
  <2>4. CASE s # r
    <3>1. Filed(s) /\ request'[s] = request[s]
      BY <1>3, <2>4 DEF Limits
    <3>2. ASSUME Asking(s)'
          PROVE  /\ request'[s].order <= asked' /\ Blank(request[s].order)'
                 /\ \A u \in Requests \ {s} : Asking(u)' => request'[u].order # request'[s].order
      <4>1. Asking(s) /\ request[s].order <= asked /\ Blank(request[s].order)
        BY <2>1, <2>4, <3>1, <3>2 DEF Filed
      <4>2. request[s].order <= asked + 1
        <5>1. request[s].order \in Nat
          BY <4>1 DEF IInv, Knows, KnowsOrder, Asking, OrderIds
        <5> QED
          BY <1>0, <4>1, <5>1
      <4>3. ASSUME NEW u \in Requests \ {s}, Asking(u)'
            PROVE  request'[u].order # request'[s].order
        <5>1. CASE u = r
          BY <1>1, <1>3, <2>2, <3>1, <4>1, <5>1
        <5>2. CASE u # r
          BY <1>3, <2>1, <3>1, <4>1, <4>3, <5>2 DEF Filed
        <5> QED
          BY <5>1, <5>2
      <4> QED
        BY <1>0, <3>1, <4>1, <4>2, <4>3 DEF Blank
    <3>3. request'[s].pc # "idle" /\ request'[s].kind # "ask" => orders'[request'[s].order].waited
      BY <1>0, <3>1 DEF Filed
    <3> QED
      BY <3>1, <3>2, <3>3 DEF Filed, Blank
  <2> QED
    BY <2>3, <2>4
<1>7. /\ PerOrderCap \in Nat /\ PeriodCap \in Nat /\ BookedSpend \in Nat /\ Ceiling \in Nat
      /\ BookedSpend <= Spent /\ Spent \in Nat /\ Rooms \in Nat
  BY Numbers DEF Limits
<1>8. Room(r)' = IF Spent > PeriodCap THEN 0
                 ELSE IF PeriodCap - Spent < PerOrderCap THEN PeriodCap - Spent ELSE PerOrderCap
  BY <1>1, <1>3 DEF Room, Buying
<1>9. Room(r)' \in 0..PerOrderCap /\ (Room(r)' = 0 \/ Room(r)' <= PeriodCap - Spent)
  BY <1>7, <1>8
<1>10. Roomy'
  <2>1. ASSUME NEW s \in Requests \ {r} PROVE Room(s)' = Room(s)
    BY <1>3 DEF Room, Buying
  <2> QED
    BY <1>9, <2>1 DEF Limits, Roomy
<1>11. Within'
  <2>1. PICK rest \in Nat : /\ Rooms = rest + Room(r) /\ Rooms' = rest + Room(r)'
                            /\ rest <= (Cardinality(Requests) - 1) * PerOrderCap
    BY <1>3, <1>10, RoomsMove DEF Limits
  <2>2. BookedSpend' = BookedSpend /\ Ceiling' = Ceiling
    BY <1>0, SpendStands DEF Ceiling
  <2>3. Room(r) = 0
    <3>1. request[r].kind = "ask" => Room(r) = 0
      BY <1>0 DEF Room, Buying
    <3> QED
      BY <3>1 DEF Room
  <2>4. BookedSpend + Rooms <= Ceiling
    BY DEF Limits, Within
  <2>5. CASE Room(r)' = 0
    BY <1>7, <2>1, <2>2, <2>3, <2>4, <2>5 DEF Within
  <2>6. CASE Room(r)' <= PeriodCap - Spent
    <3> DEFINE over == (Cardinality(Requests) - 1) * PerOrderCap
    <3>1. Ceiling = PeriodCap + over
      BY DEF Ceiling
    <3>2. over \in Nat
      <4>1. Cardinality(Requests) - 1 \in Nat
        BY FS_CardinalityType, FS_EmptySet, OrdersAssumptions
      <4>2. \A m, n \in Nat : m * n \in Nat
        OBVIOUS
      <4> QED
        BY <1>7, <4>1, <4>2
    <3>3. rest <= over
      BY <2>1
    <3> HIDE DEF over
    <3>4. BookedSpend + (rest + Room(r)') <= PeriodCap + over
      BY <1>7, <1>9, <2>6, <3>2, <3>3
    <3> QED
      BY <2>1, <2>2, <3>1, <3>4 DEF Within
  <2> QED
    BY <1>9, <2>5, <2>6
<1> QED
  BY <1>5, <1>6, <1>10, <1>11 DEF Limits

\* A request that decides an order, which had to wait, may add nothing.
LEMMA DecideWithin ==
    ASSUME IInv, IInv', Limits, NEW r \in Requests, NEW o \in OrderIds,
           (\E page \in pages[o] : Approve(r, o, page)) \/ Reject(r, o)
    PROVE  Limits'
<1>0. /\ request \in [Requests -> Worker] /\ request[r].pc = "idle"
      /\ orders[o].status = "awaiting" /\ UNCHANGED <<orders, earlier, asked>>
  BY DEF Approve, Reject, world, IInv, Types
<1>1. \E q : /\ request' = [request EXCEPT ![r] = q]
             /\ q.kind \in {"approve", "reject"} /\ q.order = o
  <2>1. ASSUME NEW page, Approve(r, o, page)
        PROVE  \E q : /\ request' = [request EXCEPT ![r] = q]
                      /\ q.kind \in {"approve", "reject"} /\ q.order = o
    <3> DEFINE q == [Idle EXCEPT !.pc = "draft", !.kind = "approve", !.order = o,
                         !.shop = supplier, !.approved = orders[o].cart,
                         !.seen = IF page = orders[o].cart THEN page ELSE None]
    <3>1. q.kind = "approve" /\ q.order = o
      BY DEF Idle
    <3>2. request' = [request EXCEPT ![r] = q]
      BY <2>1 DEF Approve
    <3> HIDE DEF q
    <3> QED
      BY <3>1, <3>2
  <2>2. ASSUME Reject(r, o)
        PROVE  \E q : /\ request' = [request EXCEPT ![r] = q]
                      /\ q.kind \in {"approve", "reject"} /\ q.order = o
    <3> DEFINE q == [Idle EXCEPT !.pc = "record", !.kind = "reject", !.order = o,
                                 !.outcome = "rejected"]
    <3>1. q.kind = "reject" /\ q.order = o
      BY DEF Idle
    <3>2. request' = [request EXCEPT ![r] = q]
      BY <2>2 DEF Reject
    <3> HIDE DEF q
    <3> QED
      BY <3>1, <3>2
  <2> QED
    BY <2>1, <2>2
<1>2. /\ request'[r].kind \in {"approve", "reject"} /\ request'[r].order = o
      /\ \A s \in Requests \ {r} : request'[s] = request[s]
  BY <1>0, <1>1
<1>3. Rows'
  BY <1>0 DEF Limits, Rows, Blank
<1>4. ASSUME NEW s \in Requests \ {r} PROVE Filed(s)'
  <2>1. Filed(s) /\ request'[s] = request[s]
    BY <1>2 DEF Limits
  <2>2. \A u \in Requests : Asking(u)' => Asking(u) /\ request'[u] = request[u]
    BY <1>2 DEF Asking
  <2> QED
    BY <1>0, <2>1, <2>2 DEF Filed, Asking, Blank
<1>5. Filed(r)'
  <2>1. orders[o].waited
    BY <1>0 DEF Limits, Rows
  <2> QED
    BY <1>0, <1>2, <2>1 DEF Filed, Asking
<1>6. Room(r)' = 0 /\ Room(r) = 0
  BY <1>0, <1>2 DEF Room, Buying
<1>7. Roomy'
  <2>1. ASSUME NEW s \in Requests \ {r} PROVE Room(s)' = Room(s)
    BY <1>2 DEF Room, Buying
  <2>2. Room(r)' = Room(r)
    BY <1>6
  <2> QED
    BY <2>1, <2>2 DEF Limits, Roomy
<1>8. Within'
  <2>1. PICK rest \in Nat : Rooms = rest + Room(r) /\ Rooms' = rest + Room(r)'
    BY <1>2, <1>7, RoomsMove DEF Limits
  <2>2. Rooms' = Rooms /\ BookedSpend' = BookedSpend /\ Ceiling' = Ceiling
    BY <1>0, <1>6, <2>1, SpendStands DEF Ceiling
  <2> QED
    BY <2>2 DEF Limits, Within
<1> QED
  BY <1>3, <1>4, <1>5, <1>7, <1>8 DEF Limits

\* What is written: a new order that did not wait is the one its request bought.
LEMMA RowWritten ==
    ASSUME IInv, Limits, NEW r \in Requests, Record(r)
    PROVE  \E new \in Row :
              /\ orders' = [orders EXCEPT ![request[r].order] = new]
              /\ new.status = "awaiting" => new.waited
              /\ request[r].kind # "ask" => new.waited
              /\ (new.status = "placed" /\ ~new.waited)
                    <=> (request[r].kind = "ask" /\ request[r].outcome = "placed")
              /\ new.status = "placed" /\ ~new.waited => new.cart = request[r].cart
<1> DEFINE q == request[r]
           o == q.order
           Fits(new) ==
              /\ orders' = [orders EXCEPT ![o] = new]
              /\ new.status = "awaiting" => new.waited
              /\ q.kind # "ask" => new.waited
              /\ (new.status = "placed" /\ ~new.waited) <=> (q.kind = "ask" /\ q.outcome = "placed")
              /\ new.status = "placed" /\ ~new.waited => new.cart = q.cart
<1>0. /\ Knows(r) /\ q \in Worker /\ q.pc = "record" /\ o \in OrderIds
      /\ orders \in [OrderIds -> Row] /\ orders[o] \in Row /\ Filed(r)
  BY DEF Record, IInv, Types, Knows, KnowsOrder, Limits
<1>1. PICK new \in Row : orders' = [orders EXCEPT ![o] = new]
  BY AskWrites, DecisionWrites
<1>2. orders'[o] = new
  BY <1>0, <1>1
<1>3. CASE q.kind = "ask"
  <2>1. orders[o].status = "absent" /\ ~orders[o].waited
    BY <1>0, <1>3 DEF Filed, Asking, Blank
  <2>2. CASE q.outcome = "failed"
    <3>1. orders' = orders
      BY <1>3, <2>2 DEF Record
    <3> QED
      BY <1>1, <1>2, <1>3, <2>1, <2>2, <3>1
  <2>3. CASE q.outcome # "failed"
    <3>1. /\ new.status = q.outcome /\ new.cart = q.cart
          /\ new.waited <=> q.outcome = "awaiting"
      BY <1>0, <1>2, <1>3, <2>3 DEF Record
    <3>2. (new.status = "placed" /\ ~new.waited) <=> q.outcome = "placed"
      BY <3>1
    <3>3. new.status = "awaiting" => new.waited
      BY <3>1
    <3> QED
      BY <1>1, <1>3, <3>1, <3>2, <3>3
  <2> QED
    BY <2>2, <2>3
<1>4. CASE q.kind # "ask"
  <2>1. orders[o].waited
    BY <1>0, <1>4 DEF Filed
  <2>2. new.waited
    <3>1. CASE q.outcome = "placed"
      <4>1. new = [orders[o] EXCEPT !.status = "placed", !.cart = q.cart, !.receipt = Key(r)]
        BY <1>0, <1>2, <1>4, <3>1 DEF Record
      <4> QED
        BY <1>0, <2>1, <4>1 DEF Row
    <3>2. CASE q.outcome = "awaiting"
      <4>1. new = [orders[o] EXCEPT !.cart = q.cart]
        BY <1>0, <1>2, <1>4, <3>2 DEF Record
      <4> QED
        BY <1>0, <2>1, <4>1 DEF Row
    <3>3. CASE q.outcome \notin {"placed", "awaiting"}
      <4>1. new = [orders[o] EXCEPT !.status = q.outcome]
        BY <1>0, <1>2, <1>4, <3>3 DEF Record
      <4> QED
        BY <1>0, <2>1, <4>1 DEF Row
    <3> QED
      BY <3>1, <3>2, <3>3
  <2> QED
    BY <1>1, <1>4, <2>2
<1> QED
  BY <1>3, <1>4

\* What a request that is about to record has bought unasked.
Unrecorded(r) ==
    IF /\ request[r].kind = "ask" /\ request[r].pc = "record"
       /\ request[r].outcome = "placed"
    THEN request[r].cart.cents ELSE 0

LEMMA UnrecordedIsRoom ==
    ASSUME IInv, Roomy, NEW r \in Requests
    PROVE  /\ Unrecorded(r) \in Nat /\ Room(r) \in Nat /\ Unrecorded(r) <= Room(r)
           /\ Unrecorded(r) <= PerOrderCap
<1>1. PerOrderCap \in Nat /\ Room(r) \in 0..PerOrderCap
  BY OrdersAssumptions DEF Roomy
<1>2. Unrecorded(r) = 0 \/ Unrecorded(r) = Room(r)
  BY DEF Unrecorded, Room, Buying
<1> QED
  BY <1>1, <1>2

\* The books grow by what the request bought unasked.
LEMMA RecordBooks ==
    ASSUME IInv, IInv', Limits, NEW r \in Requests, Record(r)
    PROVE  BookedSpend' = BookedSpend + Unrecorded(r)
<1> DEFINE o == request[r].order
<1>0. /\ request[r].pc = "record" /\ o \in OrderIds /\ Filed(r)
      /\ orders \in [OrderIds -> Row] /\ UNCHANGED earlier
  BY DEF Record, world, IInv, Types, Knows, KnowsOrder, Limits
<1>2. PICK new \in Row :
              /\ orders' = [orders EXCEPT ![o] = new]
              /\ new.status = "awaiting" => new.waited
              /\ request[r].kind # "ask" => new.waited
              /\ (new.status = "placed" /\ ~new.waited)
                    <=> (request[r].kind = "ask" /\ request[r].outcome = "placed")
              /\ new.status = "placed" /\ ~new.waited => new.cart = request[r].cart
  BY RowWritten
<1>3. orders'[o] = new /\ \A p \in OrderIds \ {o} : orders'[p] = orders[p]
  BY <1>0, <1>2
<1> DEFINE U == {p \in Placed : ~orders[p].waited}
           V == {p \in Placed' : ~orders'[p].waited}
           f == [p \in U |-> orders[p].cart.cents]
           g == [p \in V |-> orders'[p].cart.cents]
<1>4. U \in SUBSET Placed /\ V \in SUBSET Placed' /\ IsFiniteSet(U) /\ IsFiniteSet(V)
  BY OrderIdsFinite, FS_Subset DEF Placed
<1>5. (\A p \in U : f[p] \in Nat) /\ \A p \in V : g[p] \in Nat
  <2>1. \A p \in Placed : orders[p].cart.cents \in Nat
    BY CentsAreNat DEF IInv
  <2>2. \A p \in Placed' : orders'[p].cart.cents \in Nat
    BY OrdersAssumptions DEF IInv, Placed, Books, Carts
  <2> QED
    BY <2>1, <2>2
<1>6. U \ {o} = V \ {o} /\ \A p \in U \ {o} : f[p] = g[p]
  BY <1>3 DEF Placed
<1>7. o \notin U
  BY <1>0 DEF Placed, Filed, Asking, Blank
<1>8. IF o \in V THEN g[o] = Unrecorded(r) ELSE Unrecorded(r) = 0
  <2>1. o \in V <=> (new.status = "placed" /\ ~new.waited)
    BY <1>0, <1>3 DEF Placed
  <2>2. o \in V => g[o] = new.cart.cents
    BY <1>3
  <2> HIDE DEF V, g
  <2> QED
    BY <1>0, <1>2, <2>1, <2>2 DEF Unrecorded
<1>9. BookedSpend = earlier + SumFunctionOnSet(f, U) /\ BookedSpend' = earlier + SumFunctionOnSet(g, V)
  <2>1. BookedSpend = earlier + SumFunctionOnSet(f, U)
    BY DEF BookedSpend, Cents, SumFunction
  <2>2. BookedSpend' = earlier + SumFunctionOnSet(g, V)
    BY <1>0 DEF BookedSpend, Cents, SumFunction
  <2> QED
    BY <2>1, <2>2
<1>10. earlier \in Nat
  BY OrdersAssumptions DEF IInv, Types
<1> HIDE DEF U, V, f, g, o
<1>11. PICK rest \in Nat :
         /\ SumFunctionOnSet(f, U) = rest + (IF o \in U THEN f[o] ELSE 0)
         /\ SumFunctionOnSet(g, V) = rest + (IF o \in V THEN g[o] ELSE 0)
  BY <1>4, <1>5, <1>6, SumChange
<1>12. o \in V => g[o] \in Nat
  BY <1>5
<1>13. CASE o \in V
  BY <1>7, <1>8, <1>9, <1>10, <1>11, <1>12, <1>13
<1>14. CASE o \notin V
  BY <1>7, <1>8, <1>9, <1>10, <1>11, <1>14
<1> QED
  BY <1>13, <1>14

LEMMA RecordWithin ==
    ASSUME IInv, IInv', Limits, NEW r \in Requests, Record(r)
    PROVE  Limits'
<1> DEFINE o == request[r].order
<1>0. /\ request[r].pc = "record" /\ o \in OrderIds /\ Filed(r) /\ Rows
      /\ orders \in [OrderIds -> Row] /\ request \in [Requests -> Worker]
      /\ request' = [request EXCEPT ![r] = Idle] /\ UNCHANGED <<earlier, asked>>
      /\ asked \in Nat
  BY DEF Record, world, IInv, Types, Knows, KnowsOrder, Limits
<1>1. /\ request'[r] = Idle /\ Idle.pc = "idle" /\ Idle.kind = "ask"
      /\ \A s \in Requests \ {r} : request'[s] = request[s]
  BY <1>0 DEF Idle
<1>2. PICK new \in Row :
              /\ orders' = [orders EXCEPT ![o] = new]
              /\ new.status = "awaiting" => new.waited
              /\ request[r].kind # "ask" => new.waited
              /\ (new.status = "placed" /\ ~new.waited)
                    <=> (request[r].kind = "ask" /\ request[r].outcome = "placed")
              /\ new.status = "placed" /\ ~new.waited => new.cart = request[r].cart
  BY RowWritten
<1>3. orders'[o] = new /\ \A p \in OrderIds \ {o} : orders'[p] = orders[p]
  BY <1>0, <1>2
<1>4. o <= asked
  <2>1. CASE request[r].kind = "ask"
    BY <1>0, <2>1 DEF Filed, Asking
  <2>2. CASE request[r].kind # "ask"
    <3>1. ~Blank(o)
      BY <1>0, <2>2 DEF Filed, Blank
    <3> QED
      BY <1>0, <3>1 DEF Rows, OrderIds
  <2> QED
    BY <2>1, <2>2
<1>5. Rows'
  <2>1. \A p \in OrderIds : p > asked => p # o
    BY <1>0, <1>4 DEF OrderIds
  <2> QED
    BY <1>0, <1>2, <1>3, <2>1 DEF Rows, Blank
<1>6. ASSUME NEW s \in Requests PROVE Filed(s)'
  <2>1. CASE s = r
    BY <1>1, <2>1 DEF Filed, Asking
  <2>2. CASE s # r
    <3>1. request'[s] = request[s] /\ Filed(s) /\ (request[s].pc # "idle" => request[s].order \in OrderIds)
      BY <1>1, <2>2 DEF Limits, IInv, Knows, KnowsOrder
    <3>2. \A u \in Requests : Asking(u)' => Asking(u) /\ request'[u].order = request[u].order
      BY <1>1 DEF Asking
    <3>3. ASSUME Asking(s)
          PROVE  /\ request[s].order <= asked /\ Blank(request[s].order) /\ request[s].order # o
                 /\ \A u \in Requests \ {s} : Asking(u) => request[u].order # request[s].order
      BY <1>0, <2>2, <3>1, <3>3 DEF Filed, Asking, Blank
    <3>4. ASSUME request[s].pc # "idle", request[s].kind # "ask"
          PROVE  orders'[request[s].order].waited
      <4>1. orders[request[s].order].waited /\ request[s].order \in OrderIds
        BY <3>1, <3>4 DEF Filed
      <4>2. CASE request[s].order = o
        BY <1>0, <1>2, <1>3, <4>1, <4>2 DEF Filed, Asking, Blank
      <4>3. CASE request[s].order # o
        BY <1>3, <4>1, <4>3
      <4> QED
        BY <4>2, <4>3
    <3>5. ASSUME Asking(s)'
          PROVE  /\ request'[s].order <= asked' /\ Blank(request[s].order)'
                 /\ \A u \in Requests \ {s} : Asking(u)' => request'[u].order # request'[s].order
      <4>1. Asking(s) /\ request[s].order \in OrderIds
        BY <3>1, <3>2, <3>5 DEF Asking
      <4>2. orders'[request[s].order] = orders[request[s].order]
        BY <1>3, <3>3, <4>1
      <4> QED
        BY <1>0, <3>1, <3>2, <3>3, <4>1, <4>2 DEF Blank
    <3> QED
      BY <3>1, <3>4, <3>5 DEF Filed, Blank
  <2> QED
    BY <2>1, <2>2
<1>7. Room(r)' = 0
  BY <1>1 DEF Room, Buying
<1>8. PerOrderCap \in Nat /\ Room(r) \in 0..PerOrderCap
  BY OrdersAssumptions DEF Limits, Roomy
<1>9. Roomy'
  <2>1. ASSUME NEW s \in Requests \ {r} PROVE Room(s)' = Room(s)
    BY <1>1 DEF Room, Buying
  <2> QED
    BY <1>7, <1>8, <2>1 DEF Limits, Roomy
<1>10. BookedSpend' \in Nat /\ BookedSpend' <= BookedSpend + Room(r)
  <2>1. BookedSpend' = BookedSpend + Unrecorded(r) /\ BookedSpend \in Nat
    BY RecordBooks, Numbers DEF Limits
  <2>2. Unrecorded(r) \in Nat /\ Room(r) \in Nat /\ Unrecorded(r) <= Room(r)
    BY UnrecordedIsRoom DEF Limits
  <2> QED
    BY <2>1, <2>2
<1>11. Within'
  <2>1. PICK rest \in Nat : Rooms = rest + Room(r) /\ Rooms' = rest + Room(r)'
    BY <1>1, <1>9, RoomsMove DEF Limits
  <2>2. BookedSpend \in Nat /\ Ceiling \in Nat /\ BookedSpend' \in Nat
    BY <1>10, Numbers DEF Limits
  <2>3. BookedSpend + Rooms <= Ceiling /\ Ceiling' = Ceiling
    BY DEF Limits, Within, Ceiling
  <2>4. BookedSpend' + Rooms' <= Ceiling
    <3>1. \A a, b, c, m, n \in Nat : a <= b + m /\ b + (n + m) <= c => a + n <= c
      OBVIOUS
    <3>2. Room(r) \in Nat /\ BookedSpend + (rest + Room(r)) <= Ceiling
      BY <1>8, <2>1, <2>3
    <3>3. Rooms' = rest
      BY <1>7, <2>1
    <3>4. BookedSpend' + rest <= Ceiling
      BY <1>10, <2>2, <3>1, <3>2
    <3> QED
      BY <3>3, <3>4
  <2> QED
    BY <2>3, <2>4 DEF Within
<1> QED
  BY <1>5, <1>6, <1>9, <1>11 DEF Limits

-----------------------------------------------------------------------------
LEMMA LimitsKeep == IInv /\ IInv' /\ Limits /\ [Next]_vars => Limits'
<1> SUFFICES ASSUME IInv, IInv', Limits, [Next]_vars PROVE Limits'
  OBVIOUS
<1>1. CASE UNCHANGED vars
  BY <1>1, StandingKeeps DEF vars, world
<1>2. CASE \E s \in Shops : \/ ChangeSupplier(s)
                            \/ \E p \in Prices \cup {None} : ChangePrice(s, p)
  <2>1. UNCHANGED <<orders, earlier, asked, request>>
    BY <1>2 DEF ChangeSupplier, ChangePrice
  <2> QED
    BY <2>1, StandingKeeps
<1>3. ASSUME NEW r \in Requests, NEW t \in {"owner", "stock"}, Ask(r, t)
      PROVE  Limits'
  BY <1>3, AskWithin
<1>4. ASSUME NEW r \in Requests, NEW o \in OrderIds,
             (\E page \in pages[o] : Approve(r, o, page)) \/ Reject(r, o)
      PROVE  Limits'
  BY <1>4, DecideWithin
<1>5. ASSUME NEW r \in Requests,
             \/ Draft(r) \/ ChargeCard(r) \/ ChargeRefused(r) \/ PlaceOrder(r)
             \/ PlaceRefused(r) \/ RefundCard(r) \/ RefundRefused(r) \/ Die(r)
      PROVE  Limits'
  BY <1>5, CallsAreSteady, SteadyKeeps
<1>6. ASSUME NEW r \in Requests, Record(r)
      PROVE  Limits'
  BY <1>6, RecordWithin
<1> QED
  BY <1>1, <1>2, <1>3, <1>4, <1>5, <1>6 DEF Next

\* What the shops took unasked is what the books know, what is about to be recorded,
\* and one order for each request that ended without a word.
Underway == SumFunctionOnSet([r \in Requests |-> Unrecorded(r)], Requests)
Covered == /\ IsFiniteSet(Unasked)
           /\ AutoSpend <= BookedSpend + Underway + untold * PerOrderCap

LEMMA UnaskedSum ==
    ASSUME IInv, IsFiniteSet(Unasked)
    PROVE  AutoSpend \in Nat
<1> DEFINE f == [c \in Unasked |-> c.cents]
<1>1. \A c \in Unasked : f[c] \in Nat
  BY OrdersAssumptions DEF Unasked, Carts
<1>2. AutoSpend = earlier + SumFunctionOnSet(f, Unasked)
  BY DEF AutoSpend, SumFunction
<1>3. earlier \in Nat
  BY OrdersAssumptions DEF IInv, Types
<1> HIDE DEF f
<1> QED
  BY <1>1, <1>2, <1>3, SumNat

\* The purchases that await recording when one request moves.
LEMMA UnderwayMoves ==
    ASSUME IInv, IInv', Roomy, Roomy', NEW r \in Requests,
           \A s \in Requests \ {r} : request'[s] = request[s]
    PROVE  \E rest \in Nat : /\ Underway = rest + Unrecorded(r)
                             /\ Underway' = rest + Unrecorded(r)'
<1> DEFINE f == [x \in Requests |-> Unrecorded(x)]
           g == [x \in Requests |-> Unrecorded(x)']
<1>1. \A x \in Requests : f[x] \in Nat
  BY UnrecordedIsRoom
<1>2. \A x \in Requests : g[x] \in Nat
  <2>1. IInv' /\ Roomy' => \A x \in Requests : Unrecorded(x)' \in Nat
    <3>1. ASSUME NEW x \in Requests, IInv', Roomy' PROVE Unrecorded(x)' \in Nat
      <4>1. PerOrderCap \in Nat /\ Room(x)' \in 0..PerOrderCap
        BY <3>1, OrdersAssumptions DEF Roomy
      <4>2. Unrecorded(x)' = 0 \/ Unrecorded(x)' = Room(x)'
        BY DEF Unrecorded, Room, Buying
      <4> QED
        BY <4>1, <4>2
    <3> QED
      BY <3>1
  <2> QED
    BY <2>1
<1>3. \A x \in Requests \ {r} : f[x] = g[x]
  BY DEF Unrecorded
<1>4. Underway = SumFunctionOnSet(f, Requests) /\ Underway' = SumFunctionOnSet(g, Requests)
  BY DEF Underway
<1>5. f[r] = Unrecorded(r) /\ g[r] = Unrecorded(r)'
  OBVIOUS
<1> HIDE DEF f, g
<1>6. PICK rest \in Nat :
         /\ SumFunctionOnSet(f, Requests) = rest + (IF r \in Requests THEN f[r] ELSE 0)
         /\ SumFunctionOnSet(g, Requests) = rest + (IF r \in Requests THEN g[r] ELSE 0)
  BY <1>1, <1>2, <1>3, SumChange, OrdersAssumptions
<1> QED
  BY <1>4, <1>5, <1>6

\* What a step of one request may do to the three sums.
LEMMA CoveredMoves ==
    ASSUME IInv, IInv', Limits, Limits', Covered, IsFiniteSet(Unasked)', NEW r \in Requests,
           \A s \in Requests \ {r} : request'[s] = request[s],
           NEW more \in Nat, AutoSpend' = AutoSpend + more,
           NEW booked \in Nat, BookedSpend' = BookedSpend + booked,
           NEW silent \in {0, 1}, untold' = untold + silent,
           more + Unrecorded(r) <= booked + Unrecorded(r)' + silent * PerOrderCap
    PROVE  Covered'
<1>1. PICK rest \in Nat : Underway = rest + Unrecorded(r) /\ Underway' = rest + Unrecorded(r)'
  BY UnderwayMoves DEF Limits
<1>2. /\ BookedSpend \in Nat /\ AutoSpend \in Nat /\ untold \in Nat /\ PerOrderCap \in Nat
      /\ Unrecorded(r) \in Nat
  BY Numbers, UnaskedSum, UnrecordedIsRoom, OrdersAssumptions DEF Limits, Covered, IInv, Types
<1>3. Unrecorded(r)' \in Nat
  <2>1. Room(r)' \in 0..PerOrderCap
    BY DEF Limits, Roomy
  <2>2. Unrecorded(r)' = 0 \/ Unrecorded(r)' = Room(r)'
    BY DEF Unrecorded, Room, Buying
  <2> QED
    BY <1>2, <2>1, <2>2
<1>4. \A n, k \in Nat : (n + 0) * k = n * k /\ (n + 1) * k = n * k + k /\ n * k \in Nat
  OBVIOUS
<1>5. untold * PerOrderCap \in Nat
  BY <1>2, <1>4
<1>6. untold' * PerOrderCap = untold * PerOrderCap + silent * PerOrderCap
  BY <1>2, <1>4
<1>7. silent * PerOrderCap \in Nat
  BY <1>2
<1> DEFINE before == untold * PerOrderCap
           extra == silent * PerOrderCap
<1>8. before \in Nat /\ extra \in Nat /\ untold' * PerOrderCap = before + extra
  BY <1>5, <1>6, <1>7
<1>9. AutoSpend <= BookedSpend + Underway + before
  BY DEF Covered
<1>10. more + Unrecorded(r) <= booked + Unrecorded(r)' + extra
  OBVIOUS
<1> HIDE DEF before, extra
<1>11. AutoSpend + more <= (BookedSpend + booked) + (rest + Unrecorded(r)') + (before + extra)
  BY <1>1, <1>2, <1>3, <1>8, <1>9, <1>10
<1>12. AutoSpend' <= BookedSpend' + Underway' + untold' * PerOrderCap
  BY <1>1, <1>8, <1>11
<1> QED
  BY <1>12 DEF Covered

\* Receipts stay as they are, and what was taken with them.
LEMMA ReceiptsStand ==
    ASSUME IInv, IsFiniteSet(Unasked), UNCHANGED <<bought, earlier>>
    PROVE  AutoSpend' = AutoSpend + 0 /\ IsFiniteSet(Unasked)'
<1>1. Unasked' = Unasked
  BY DEF Unasked
<1>2. AutoSpend' = AutoSpend
  BY <1>1 DEF AutoSpend
<1> QED
  BY <1>1, <1>2, UnaskedSum

\* A step that buys nothing, records nothing and ends no request that bought.
LEMMA QuietKeeps ==
    ASSUME IInv, IInv', Limits, Limits', Covered, NEW r \in Requests,
           \A s \in Requests \ {r} : request'[s] = request[s],
           UNCHANGED <<bought, orders, earlier, untold>>, Unrecorded(r)' = Unrecorded(r)
    PROVE  Covered'
<1>1. AutoSpend' = AutoSpend + 0 /\ IsFiniteSet(Unasked)'
  BY ReceiptsStand DEF Covered
<1>2. BookedSpend' = BookedSpend + 0
  BY SpendStands, Numbers DEF Limits
<1>3. untold' = untold + 0
  BY DEF IInv, Types
<1>4. Unrecorded(r) \in Nat /\ PerOrderCap \in Nat
  BY UnrecordedIsRoom, OrdersAssumptions DEF Limits
<1>5. 0 + Unrecorded(r) <= 0 + Unrecorded(r)' + 0 * PerOrderCap
  BY <1>4
<1> QED
  BY <1>1, <1>2, <1>3, <1>5, CoveredMoves

LEMMA QuietSteps ==
    ASSUME IInv, IInv', Limits, Limits', Covered, NEW r \in Requests,
           \/ \E t \in {"owner", "stock"} : Ask(r, t)
           \/ \E o \in OrderIds : (\E page \in pages[o] : Approve(r, o, page)) \/ Reject(r, o)
           \/ Draft(r) \/ ChargeCard(r) \/ ChargeRefused(r) \/ RefundCard(r) \/ RefundRefused(r)
    PROVE  Covered'
<1>0. /\ request[r] \in Worker /\ request \in [Requests -> Worker] /\ request[r].pc # "record"
      /\ UNCHANGED <<bought, orders, earlier, untold>>
  BY DEF Ask, Approve, Reject, Draft, ChargeCard, ChargeRefused, RefundCard, RefundRefused,
         world, IInv, Types
<1>1. \E q : /\ request' = [request EXCEPT ![r] = q]
             /\ q.pc = "record" => q.kind = "reject" \/ q.outcome # "placed"
  <2> DEFINE Fits(q) == /\ request' = [request EXCEPT ![r] = q]
                        /\ q.pc = "record" => q.kind = "reject" \/ q.outcome # "placed"
  <2>1. ASSUME NEW t, Ask(r, t) PROVE \E q : Fits(q)
    <3> DEFINE q == [Idle EXCEPT !.pc = "draft", !.trigger = t, !.order = asked + 1,
                                 !.shop = supplier, !.spent = Spent]
    <3>1. q.pc = "draft"
      BY DEF Idle
    <3>2. request' = [request EXCEPT ![r] = q]
      BY <2>1 DEF Ask
    <3> HIDE DEF q
    <3> QED
      BY <3>1, <3>2
  <2>2. ASSUME NEW o, NEW page, Approve(r, o, page) PROVE \E q : Fits(q)
    <3> DEFINE q == [Idle EXCEPT !.pc = "draft", !.kind = "approve", !.order = o,
                         !.shop = supplier, !.approved = orders[o].cart,
                         !.seen = IF page = orders[o].cart THEN page ELSE None]
    <3>1. q.pc = "draft"
      BY DEF Idle
    <3>2. request' = [request EXCEPT ![r] = q]
      BY <2>2 DEF Approve
    <3> HIDE DEF q
    <3> QED
      BY <3>1, <3>2
  <2>3. ASSUME NEW o, Reject(r, o) PROVE \E q : Fits(q)
    <3> DEFINE q == [Idle EXCEPT !.pc = "record", !.kind = "reject", !.order = o,
                                 !.outcome = "rejected"]
    <3>1. q.kind = "reject"
      BY DEF Idle
    <3>2. request' = [request EXCEPT ![r] = q]
      BY <2>3 DEF Reject
    <3> HIDE DEF q
    <3> QED
      BY <3>1, <3>2
  <2>4. ASSUME Conclude(r, "failed") PROVE \E q : Fits(q)
    <3> DEFINE q == [request[r] EXCEPT !.pc = "record", !.outcome = "failed", !.seen = None]
    <3>1. q.outcome = "failed"
      BY <1>0 DEF Worker
    <3>2. request' = [request EXCEPT ![r] = q]
      BY <2>4 DEF Conclude
    <3> HIDE DEF q
    <3> QED
      BY <3>1, <3>2
  <2>5. ASSUME Goto(r, "place") PROVE \E q : Fits(q)
    <3> DEFINE q == [request[r] EXCEPT !.pc = "place"]
    <3>1. q.pc = "place"
      BY <1>0 DEF Worker
    <3>2. request' = [request EXCEPT ![r] = q]
      BY <2>5 DEF Goto
    <3> HIDE DEF q
    <3> QED
      BY <3>1, <3>2
  <2>6. ASSUME Draft(r) PROVE \E q : Fits(q)
    <3> DEFINE shop == request[r].shop
               cart == [shop |-> shop, cents |-> quote[shop]]
               drafted == [request[r] EXCEPT !.cart = cart, !.spent = 0, !.approved = None]
               waits == [drafted EXCEPT !.pc = "record", !.outcome = "awaiting", !.seen = None]
               buys == [drafted EXCEPT !.pc = IF shop \in CardShops THEN "charge" ELSE "place"]
    <3>1. CASE quote[shop] = None
      BY <2>4, <2>6, <3>1 DEF Draft
    <3>2. CASE quote[shop] # None
      <4>1. request' = [request EXCEPT ![r] = IF ~MayBuy(r, cart) THEN waits ELSE buys]
        BY <2>6, <3>2 DEF Draft
      <4> HIDE DEF cart
      <4>2. waits.outcome = "awaiting" /\ buys.pc \in {"charge", "place"}
        BY <1>0 DEF Worker
      <4> HIDE DEF shop, drafted, waits, buys
      <4>3. Fits(IF ~MayBuy(r, cart) THEN waits ELSE buys)
        BY <4>1, <4>2
      <4> HIDE DEF Fits
      <4> QED
        BY <4>3
    <3> QED
      BY <3>1, <3>2
  <2>7. ChargeCard(r) => Goto(r, "place")
    BY DEF ChargeCard
  <2>8. ChargeRefused(r) \/ RefundCard(r) \/ RefundRefused(r) => Conclude(r, "failed")
    BY DEF ChargeRefused, RefundCard, RefundRefused
  <2> HIDE DEF Fits
  <2>9. \E q : Fits(q)
    BY <2>1, <2>2, <2>3, <2>4, <2>5, <2>6, <2>7, <2>8
  <2> QED
    BY <2>9 DEF Fits
<1>2. /\ request'[r].pc = "record" =>
            request'[r].kind = "reject" \/ request'[r].outcome # "placed"
      /\ \A s \in Requests \ {r} : request'[s] = request[s]
  BY <1>0, <1>1
<1>3. Unrecorded(r) = 0 /\ Unrecorded(r)' = 0
  BY <1>0, <1>2 DEF Unrecorded
<1> QED
  BY <1>0, <1>2, <1>3, QuietKeeps

\* What a placement adds to what was taken unasked: nothing, or the cart of a request
\* that asks, under a key that had none.
LEMMA Adds ==
    ASSUME IInv, IsFiniteSet(Unasked), NEW r \in Requests, PlaceOrder(r) \/ PlaceRefused(r)
    PROVE  /\ IsFiniteSet(Unasked)'
           /\ \E more \in Nat :
                 /\ AutoSpend' = AutoSpend + more
                 /\ more # 0 => /\ request[r].kind = "ask" /\ more = request[r].cart.cents
                                /\ bought' # bought
<1> DEFINE cart == request[r].cart
           added == /\ request[r].kind = "ask"
                    /\ bought[Key(r)] = None /\ bought'[Key(r)] # None
           V == IF added THEN Unasked \cup {cart} ELSE Unasked
           f == [c \in Unasked |-> c.cents]
           g == [c \in V |-> c.cents]
<1>0. /\ request[r].pc = "place" /\ cart \in Carts /\ Key(r) \in Keys /\ earlier' = earlier
      /\ \A k \in Keys : bought'[k] = bought[k] \/ (k = Key(r) /\ bought'[k] = cart)
  BY Taken
<1>1. /\ request[r].kind = "ask" => Key(r) = AutoKey(cart)
      /\ request[r].kind # "ask" => \E o \in OrderIds : Key(r) = ApproveKey(o)
  BY <1>0, KeyOf DEF IInv
<1>2. \A c, d : AutoKey(c) = AutoKey(d) => c = d
  BY DEF AutoKey
<1>3. Unasked' = V
  <2>1. ASSUME NEW c \in Carts
        PROVE  bought'[AutoKey(c)] # None <=> bought[AutoKey(c)] # None \/ (added /\ c = cart)
    <3>1. AutoKey(c) \in Keys /\ cart # None
      BY <1>0, KeyFacts
    <3>2. CASE AutoKey(c) = Key(r)
      <4>1. request[r].kind = "ask" /\ c = cart
        BY <1>1, <1>2, <3>2, KeyFacts
      <4> QED
        BY <1>0, <3>1, <3>2, <4>1
    <3>3. CASE AutoKey(c) # Key(r)
      <4>1. bought'[AutoKey(c)] = bought[AutoKey(c)]
        BY <1>0, <3>1, <3>3
      <4>2. ~(added /\ c = cart)
        BY <1>1, <3>3
      <4> QED
        BY <4>1, <4>2
    <3> QED
      BY <3>2, <3>3
  <2>2. Unasked = {c \in Carts : bought[AutoKey(c)] # None}
        /\ Unasked' = {c \in Carts : bought'[AutoKey(c)] # None}
    BY DEF Unasked
  <2> HIDE DEF added, cart
  <2>3. V = {c \in Carts : bought[AutoKey(c)] # None \/ (added /\ c = cart)}
    BY <1>0, <2>2
  <2> QED
    BY <2>1, <2>2, <2>3
<1>4. IsFiniteSet(V)
  BY FS_AddElement
<1>5. AutoSpend = earlier + SumFunctionOnSet(f, Unasked)
      /\ AutoSpend' = earlier + SumFunctionOnSet(g, V)
  <2>1. AutoSpend = earlier + SumFunctionOnSet(f, Unasked)
    BY DEF AutoSpend, SumFunction
  <2> HIDE DEF V
  <2>2. AutoSpend' = earlier + SumFunctionOnSet(g, V)
    BY <1>0, <1>3 DEF AutoSpend, SumFunction
  <2> QED
    BY <2>1, <2>2
<1>6. Unasked \subseteq Carts /\ V \subseteq Carts /\ cart.cents \in Nat
      /\ \A c \in Carts : c.cents \in Nat
  BY <1>0, OrdersAssumptions DEF Unasked, Carts
<1>7. earlier \in Nat
  BY OrdersAssumptions DEF IInv, Types
<1>8. CASE added
  <2>1. cart \notin Unasked /\ V = Unasked \cup {cart} /\ bought' # bought
    BY <1>1, <1>8 DEF Unasked
  <2>2. /\ \A c \in Unasked : f[c] \in Nat
        /\ \A c \in V : g[c] \in Nat
        /\ g[cart] = cart.cents
    BY <1>6, <2>1
  <2>3. Unasked \ {cart} = V \ {cart} /\ \A c \in Unasked \ {cart} : f[c] = g[c]
    BY <2>1
  <2>4. request[r].kind = "ask"
    BY <1>8
  <2> HIDE DEF V, f, g, cart, added
  <2>5. PICK rest \in Nat :
           /\ SumFunctionOnSet(f, Unasked) = rest + (IF cart \in Unasked THEN f[cart] ELSE 0)
           /\ SumFunctionOnSet(g, V) = rest + (IF cart \in V THEN g[cart] ELSE 0)
    BY <1>4, <2>2, <2>3, SumChange
  <2>6. AutoSpend' = AutoSpend + cart.cents
    BY <1>5, <1>6, <1>7, <2>1, <2>2, <2>5
  <2> QED
    BY <1>3, <1>4, <1>6, <2>1, <2>4, <2>6 DEF cart
<1>9. CASE ~added
  <2>1. Unasked' = Unasked
    BY <1>3, <1>9
  <2>2. AutoSpend' = AutoSpend + 0
    <3>1. AutoSpend' = AutoSpend
      BY <1>0, <2>1 DEF AutoSpend
    <3> QED
      BY <3>1, UnaskedSum
  <2> QED
    BY <2>1, <2>2
<1> QED
  BY <1>8, <1>9

LEMMA PlaceCovered ==
    ASSUME IInv, IInv', Limits, Limits', Covered, NEW r \in Requests,
           PlaceOrder(r) \/ PlaceRefused(r)
    PROVE  Covered'
<1>0. /\ Types /\ request \in [Requests -> Worker] /\ request[r] \in Worker
      /\ request[r].pc = "place" /\ UNCHANGED <<orders, earlier>>
      /\ untold \in Nat /\ PerOrderCap \in Nat
  BY Taken, OrdersAssumptions DEF IInv, Types
<1>1. PICK more \in Nat :
         /\ AutoSpend' = AutoSpend + more
         /\ more # 0 => /\ request[r].kind = "ask" /\ more = request[r].cart.cents
                        /\ bought' # bought
  BY Adds DEF Covered
<1>2. IsFiniteSet(Unasked)'
  BY Adds DEF Covered
<1>3. BookedSpend' = BookedSpend + 0
  BY <1>0, SpendStands, Numbers DEF Limits
<1>4. Unrecorded(r) = 0
  BY <1>0 DEF Unrecorded
<1>5. more <= PerOrderCap
  <2>1. more # 0 => Room(r) = more
    BY <1>0, <1>1 DEF Room, Buying
  <2>2. Room(r) \in 0..PerOrderCap
    BY DEF Limits, Roomy
  <2> QED
    BY <1>0, <2>1, <2>2
<1>6. CASE PlaceOrder(r)
  <2>1. request' = [request EXCEPT ![r] =
                       [@ EXCEPT !.pc = "record", !.outcome = "placed", !.seen = None]]
    BY <1>6 DEF PlaceOrder, Conclude
  <2>2. /\ request'[r].kind = request[r].kind /\ request'[r].pc = "record"
        /\ request'[r].outcome = "placed" /\ request'[r].cart = request[r].cart
        /\ \A s \in Requests \ {r} : request'[s] = request[s]
    <3> DEFINE q == [request[r] EXCEPT !.pc = "record", !.outcome = "placed", !.seen = None]
    <3>1. /\ q.kind = request[r].kind /\ q.pc = "record" /\ q.outcome = "placed"
          /\ q.cart = request[r].cart
      BY <1>0 DEF Worker
    <3>2. request' = [request EXCEPT ![r] = q]
      BY <2>1
    <3> HIDE DEF q
    <3> QED
      BY <1>0, <3>1, <3>2
  <2>3. untold' = untold + 0
    BY <1>0, <1>6 DEF PlaceOrder
  <2>4. more <= Unrecorded(r)'
    <3>1. more # 0 => Unrecorded(r)' = more
      BY <1>1, <2>2 DEF Unrecorded
    <3>2. Unrecorded(r)' = 0 \/ Unrecorded(r)' = Room(r)'
      BY DEF Unrecorded, Room, Buying
    <3>3. Room(r)' \in 0..PerOrderCap
      BY DEF Limits, Roomy
    <3> QED
      BY <1>0, <3>1, <3>2, <3>3
  <2>5. Unrecorded(r)' \in Nat
    <3>1. Unrecorded(r)' = 0 \/ Unrecorded(r)' = Room(r)'
      BY DEF Unrecorded, Room, Buying
    <3>2. Room(r)' \in 0..PerOrderCap
      BY DEF Limits, Roomy
    <3> QED
      BY <1>0, <3>1, <3>2
  <2>6. more + Unrecorded(r) <= 0 + Unrecorded(r)' + 0 * PerOrderCap
    BY <1>0, <1>4, <2>4, <2>5
  <2> QED
    BY <1>1, <1>2, <1>3, <2>2, <2>3, <2>6, CoveredMoves
<1>7. CASE PlaceRefused(r)
  <2>1. /\ \A s \in Requests \ {r} : request'[s] = request[s]
        /\ request'[r].pc = "record" => request'[r].outcome = "failed"
    <3>1. \/ request' = [request EXCEPT ![r].pc = "refund"]
          \/ request' = [request EXCEPT ![r].pc = "record", ![r].outcome = "failed",
                                        ![r].seen = None]
      BY <1>7 DEF PlaceRefused, Goto, Conclude
    <3> QED
      BY <1>0, <3>1 DEF Worker
  <2>2. Unrecorded(r)' = 0
    BY <2>1 DEF Unrecorded
  <2>3. \E silent \in {0, 1} : untold' = untold + silent /\ (more # 0 => silent = 1)
    <3>1. (bought' = bought /\ untold' = untold) \/ OneMoreUntold(r)
      BY <1>7 DEF PlaceRefused, TakenUnheard
    <3>2. CASE more # 0
      BY <1>0, <1>1, <3>1, <3>2 DEF OneMoreUntold
    <3>3. CASE more = 0
      BY <1>0, <3>1, <3>3 DEF OneMoreUntold
    <3> QED
      BY <3>2, <3>3
  <2>4. PICK silent \in {0, 1} : untold' = untold + silent /\ (more # 0 => silent = 1)
    BY <2>3
  <2>5. more + Unrecorded(r) <= 0 + Unrecorded(r)' + silent * PerOrderCap
    BY <1>0, <1>4, <1>5, <2>2, <2>4
  <2> QED
    BY <1>1, <1>2, <1>3, <2>1, <2>4, <2>5, CoveredMoves
<1> QED
  BY <1>6, <1>7

LEMMA RecordCovered ==
    ASSUME IInv, IInv', Limits, Limits', Covered, NEW r \in Requests, Record(r)
    PROVE  Covered'
<1>0. /\ request \in [Requests -> Worker] /\ untold \in Nat /\ PerOrderCap \in Nat
      /\ request' = [request EXCEPT ![r] = Idle] /\ UNCHANGED <<earlier, bought, untold>>
  BY OrdersAssumptions DEF Record, world, IInv, Types
<1>1. request'[r] = Idle /\ \A s \in Requests \ {r} : request'[s] = request[s]
  BY <1>0
<1>2. Unrecorded(r)' = 0
  BY <1>1, IdleFacts DEF Unrecorded
<1>3. Unrecorded(r) \in Nat /\ BookedSpend' = BookedSpend + Unrecorded(r)
  BY RecordBooks, UnrecordedIsRoom DEF Limits
<1>4. AutoSpend' = AutoSpend + 0 /\ IsFiniteSet(Unasked)'
  BY <1>0, ReceiptsStand DEF Covered
<1>5. untold' = untold + 0
  BY <1>0
<1>6. 0 + Unrecorded(r) <= Unrecorded(r) + Unrecorded(r)' + 0 * PerOrderCap
  BY <1>0, <1>2, <1>3
<1> QED
  BY <1>1, <1>3, <1>4, <1>5, <1>6, CoveredMoves

LEMMA DieCovered ==
    ASSUME IInv, IInv', Limits, Limits', Covered, NEW r \in Requests, Die(r)
    PROVE  Covered'
<1>0. /\ request \in [Requests -> Worker] /\ untold \in Nat /\ PerOrderCap \in Nat
      /\ request' = [request EXCEPT ![r] = Idle] /\ UNCHANGED <<earlier, bought, orders>>
  BY OrdersAssumptions DEF Die, world, IInv, Types
<1>1. request'[r] = Idle /\ \A s \in Requests \ {r} : request'[s] = request[s]
  BY <1>0
<1>2. Unrecorded(r)' = 0
  BY <1>1, IdleFacts DEF Unrecorded
<1>3. Unrecorded(r) \in Nat /\ Unrecorded(r) <= PerOrderCap
  BY UnrecordedIsRoom DEF Limits
<1>4. AutoSpend' = AutoSpend + 0 /\ IsFiniteSet(Unasked)'
  BY <1>0, ReceiptsStand DEF Covered
<1>5. BookedSpend' = BookedSpend + 0
  BY <1>0, SpendStands, Numbers DEF Limits
<1>6. PICK silent \in {0, 1} : untold' = untold + silent /\ (Unrecorded(r) # 0 => silent = 1)
  <2>1. CASE Unrecorded(r) # 0
    <3>1. /\ request[r].kind = "ask" /\ request[r].pc = "record"
          /\ request[r].outcome = "placed"
      BY <2>1 DEF Unrecorded
    <3>2. untold' = untold + 1
      BY <3>1 DEF Die, OneMoreUntold
    <3> QED
      BY <3>2
  <2>2. CASE Unrecorded(r) = 0
    <3>1. untold' = untold + 1 \/ untold' = untold + 0
      BY <1>0 DEF Die, OneMoreUntold
    <3> QED
      BY <2>2, <3>1
  <2> QED
    BY <2>1, <2>2
<1>7. 0 + Unrecorded(r) <= 0 + Unrecorded(r)' + silent * PerOrderCap
  BY <1>0, <1>2, <1>3, <1>6
<1> QED
  BY <1>1, <1>4, <1>5, <1>6, <1>7, CoveredMoves

LEMMA CoveredKeep ==
    IInv /\ IInv' /\ Limits /\ Limits' /\ Covered /\ [Next]_vars => Covered'
<1> SUFFICES ASSUME IInv, IInv', Limits, Limits', Covered, [Next]_vars PROVE Covered'
  OBVIOUS
<1>1. ASSUME UNCHANGED <<bought, orders, earlier, untold, request>> PROVE Covered'
  <2>1. PICK r : r \in Requests
    BY OrdersAssumptions
  <2>2. Unrecorded(r)' = Unrecorded(r)
    BY <1>1 DEF Unrecorded
  <2> QED
    BY <1>1, <2>1, <2>2, QuietKeeps
<1>2. CASE UNCHANGED vars
  BY <1>1, <1>2 DEF vars, world
<1>3. CASE \E s \in Shops : \/ ChangeSupplier(s)
                            \/ \E p \in Prices \cup {None} : ChangePrice(s, p)
  <2>1. UNCHANGED <<bought, orders, earlier, untold, request>>
    BY <1>3 DEF ChangeSupplier, ChangePrice
  <2> QED
    BY <1>1, <2>1
<1>4. ASSUME NEW r \in Requests,
             \/ \E t \in {"owner", "stock"} : Ask(r, t)
             \/ \E o \in OrderIds : (\E page \in pages[o] : Approve(r, o, page)) \/ Reject(r, o)
             \/ Draft(r) \/ ChargeCard(r) \/ ChargeRefused(r) \/ RefundCard(r) \/ RefundRefused(r)
      PROVE  Covered'
  BY <1>4, QuietSteps
<1>5. ASSUME NEW r \in Requests, PlaceOrder(r) \/ PlaceRefused(r) \/ Record(r) \/ Die(r)
      PROVE  Covered'
  BY <1>5, PlaceCovered, RecordCovered, DieCovered
<1> QED
  BY <1>2, <1>3, <1>4, <1>5 DEF Next

LEMMA InitCovered == Init => Covered
<1> SUFFICES ASSUME Init PROVE Covered
  OBVIOUS
<1>0. IInv /\ Limits
  BY InitInv, InitLimits
<1>1. \A k \in Keys : bought[k] = None
  BY DEF Init
<1>2. Unasked = {}
  BY <1>1, KeyFacts DEF Unasked
<1>3. IsFiniteSet(Unasked)
  BY <1>2, FS_EmptySet
<1>4. earlier \in Nat /\ PerOrderCap \in Nat /\ untold = 0
  BY <1>0, OrdersAssumptions DEF Init, IInv, Types
<1>5. AutoSpend = earlier
  <2> DEFINE f == [c \in Unasked |-> c.cents]
  <2>1. AutoSpend = earlier + SumFunctionOnSet(f, {})
    BY <1>2 DEF AutoSpend, SumFunction
  <2> HIDE DEF f
  <2> QED
    BY <1>4, <2>1, SumOfNone
<1>6. BookedSpend \in Nat /\ BookedSpend >= earlier
  <2>1. Cents({o \in Placed : ~orders[o].waited}) \in Nat
    BY <1>0, CentsAreNat DEF IInv
  <2> QED
    BY <1>4, <2>1 DEF BookedSpend
<1>7. Underway \in Nat
  <2> DEFINE f == [r \in Requests |-> Unrecorded(r)]
  <2>1. \A r \in Requests : f[r] \in Nat
    BY <1>0, UnrecordedIsRoom DEF Limits
  <2>2. Underway = SumFunctionOnSet(f, Requests)
    BY DEF Underway
  <2> HIDE DEF f
  <2> QED
    BY <2>1, <2>2, SumNat, OrdersAssumptions
<1>8. untold * PerOrderCap = 0
  BY <1>4
<1> QED
  BY <1>3, <1>4, <1>5, <1>6, <1>7, <1>8 DEF Covered

\* What the shops take unasked passes the weekly limit by one order at most for each
\* further request and for each that ended with no word of what it bought: the spend is
\* read before the basket is priced (handlers/orders.py) and written after it is bought.
THEOREM WeeklyLimitHolds == Spec => []OvershootBounded
<1>1. IInv /\ Limits /\ Covered => OvershootBounded
  <2> SUFFICES ASSUME IInv, Limits, Covered PROVE OvershootBounded
    OBVIOUS
  <2>1. /\ AutoSpend \in Nat /\ BookedSpend \in Nat /\ Rooms \in Nat /\ Ceiling \in Nat
        /\ PerOrderCap \in Nat /\ PeriodCap \in Nat /\ untold \in Nat
    BY Numbers, UnaskedSum DEF Limits, Covered, IInv, Types
  <2>2. BookedSpend + Rooms <= Ceiling
    BY DEF Limits, Within
  <2>3. Underway \in Nat /\ Underway <= Rooms
    <3> DEFINE f == [r \in Requests |-> Unrecorded(r)]
               g == [r \in Requests |-> Room(r)]
    <3>1. \A r \in Requests : f[r] \in Nat /\ g[r] \in Nat /\ f[r] <= g[r]
      BY UnrecordedIsRoom DEF Limits
    <3>2. Underway = SumFunctionOnSet(f, Requests) /\ Rooms = SumFunctionOnSet(g, Requests)
      BY DEF Underway, Rooms
    <3> HIDE DEF f, g
    <3> QED
      BY <3>1, <3>2, SumLess, SumNat, OrdersAssumptions
  <2>4. \A m, n, k \in Nat : (m + n) * k = m * k + n * k /\ m * k \in Nat
    OBVIOUS
  <2>5. Cardinality(Requests) - 1 \in Nat
    BY FS_CardinalityType, FS_EmptySet, OrdersAssumptions
  <2>6. (Cardinality(Requests) - 1 + untold) * PerOrderCap
            = (Cardinality(Requests) - 1) * PerOrderCap + untold * PerOrderCap
        /\ (Cardinality(Requests) - 1) * PerOrderCap \in Nat /\ untold * PerOrderCap \in Nat
    BY <2>1, <2>4, <2>5
  <2> DEFINE over == (Cardinality(Requests) - 1) * PerOrderCap
             silent == untold * PerOrderCap
  <2>7. Ceiling = PeriodCap + over /\ over \in Nat /\ silent \in Nat
        /\ (Cardinality(Requests) - 1 + untold) * PerOrderCap = over + silent
    BY <2>6 DEF Ceiling
  <2>8. AutoSpend <= BookedSpend + Underway + silent
    BY DEF Covered
  <2> HIDE DEF over, silent
  <2>9. AutoSpend <= PeriodCap + (over + silent)
    BY <2>1, <2>2, <2>3, <2>7, <2>8
  <2> QED
    BY <2>7, <2>9 DEF OvershootBounded
<1> QED
  BY <1>1, InitLimits, LimitsKeep, InitCovered, CoveredKeep, InitInv, NextKeeps, PTL DEF Spec

\* Every variable keeps its type, the spend read by a request (orders_store.py,
\* spent_since) being a number however many orders are placed meanwhile.
THEOREM WellTyped == Spec => []TypeOK
<1> DEFINE Bounds == changes \in 0..MaxChanges /\ deaths \in 0..MaxDeaths
<1>1. Init => Bounds
  BY OrdersAssumptions DEF Init
<1>2. Bounds /\ [Next]_vars => Bounds'
  <2> SUFFICES ASSUME Bounds, [Next]_vars PROVE Bounds'
    OBVIOUS
  <2>1. CASE UNCHANGED vars
    BY <2>1 DEF vars, world
  <2>2. ASSUME NEW s, ChangeSupplier(s) \/ \E p \in Prices \cup {None} : ChangePrice(s, p)
        PROVE  Bounds'
    BY <2>2, OrdersAssumptions DEF ChangeSupplier, ChangePrice
  <2>3. ASSUME NEW r, Die(r)
        PROVE  Bounds'
    BY <2>3, OrdersAssumptions DEF Die, world
  <2>4. ASSUME NEW r,
               \/ \E t \in {"owner", "stock"} : Ask(r, t)
               \/ \E o \in OrderIds : (\E page \in pages[o] : Approve(r, o, page)) \/ Reject(r, o)
               \/ Draft(r) \/ ChargeCard(r) \/ ChargeRefused(r) \/ PlaceOrder(r)
               \/ PlaceRefused(r) \/ RefundCard(r) \/ RefundRefused(r) \/ Record(r)
        PROVE  Bounds'
    BY <2>4 DEF Ask, Approve, Reject, Draft, ChargeCard, ChargeRefused, PlaceOrder,
                PlaceRefused, RefundCard, RefundRefused, Record, world
  <2> QED
    BY <2>1, <2>2, <2>3, <2>4 DEF Next
<1>3. IInv /\ Bounds => TypeOK
  BY DEF IInv, Types, TypeOK, Worker, Request, Pcs, Outcomes
<1> QED
  BY <1>1, <1>2, <1>3, Invariance, PTL DEF Spec

-----------------------------------------------------------------------------
\* Messages to a rep, for any number of messages, requests, deaths and errors.
\* The bound on repetitions is not inductive: what makes it hold is that a
\* message still shown as a draft went out only in requests that wait to mark it,
\* died or were answered an error.

\* What the status of a message says of where it has been.
StatusTells ==
    \A m \in Messages :
        /\ message[m].status = "absent" => out[m] = 0
        /\ message[m].status = "draft" =>
              out[m] <= Cardinality(Past(m, {"mark"})) + cutOff + errors
        /\ message[m].status = "sent" => out[m] > 0

SendersKnow ==
    \A r \in Senders : sender[r].pc # "idle" => message[sender[r].msg].status # "absent"

RepInv == RepTypeOK /\ StatusTells /\ SendersKnow /\ BooksFollowMail /\ RepeatsBounded

-----------------------------------------------------------------------------
\* Counting the requests that are at some point with some message.

LEMMA PastFinite ==
    ASSUME NEW m, NEW pcs
    PROVE  /\ IsFiniteSet(Past(m, pcs))
           /\ Cardinality(Past(m, pcs)) \in Nat
           /\ Cardinality(Past(m, pcs)) <= Cardinality(Senders)
           /\ Cardinality(Senders) \in Nat
<1>1. Past(m, pcs) \in SUBSET Senders /\ IsFiniteSet(Senders)
  BY RepAssumptions DEF Past
<1> QED
  BY <1>1, FS_Subset, FS_CardinalityType

Counted(r, m, pcs) == IF sender[r].pc \in pcs /\ sender[r].msg = m THEN 1 ELSE 0

\* A step of one request changes each count by what that request adds or takes.
LEMMA CountStep ==
    ASSUME NEW m, NEW pcs, NEW r \in Senders,
           \A q \in Senders \ {r} : sender'[q] = sender[q]
    PROVE  /\ Cardinality(Past(m, pcs)) \in Nat
           /\ Cardinality(Past(m, pcs)') \in Nat
           /\ Cardinality(Past(m, pcs)')
                 = Cardinality(Past(m, pcs)) - Counted(r, m, pcs) + Counted(r, m, pcs)'
<1> DEFINE S == Past(m, pcs)
           T == Past(m, pcs)'
<1>1. IsFiniteSet(S) /\ Cardinality(S) \in Nat
  BY PastFinite
<1>2. /\ Counted(r, m, pcs) = IF r \in S THEN 1 ELSE 0
      /\ Counted(r, m, pcs)' = IF r \in T THEN 1 ELSE 0
  BY DEF Counted, Past
<1>3. \A q \in Senders \ {r} : q \in S <=> q \in T
  BY DEF Past
<1>4. S \subseteq Senders /\ T \subseteq Senders
  BY DEF Past
<1>5. CASE r \in T
  <2>1. T = S \cup {r}
    BY <1>3, <1>4, <1>5
  <2> QED
    BY <1>1, <1>2, <1>5, <2>1, FS_AddElement
<1>6. CASE r \notin T
  <2>1. T = S \ {r}
    BY <1>3, <1>4, <1>6
  <2>2. Cardinality(T) = IF r \in S THEN Cardinality(S) - 1 ELSE Cardinality(S)
    BY <1>1, <2>1, FS_RemoveElement
  <2>3. IsFiniteSet(T)
    BY <1>1, <2>1, FS_RemoveElement
  <2>4. Cardinality(T) \in Nat
    BY <2>3, FS_CardinalityType
  <2> QED
    BY <1>1, <1>2, <1>6, <2>2, <2>4
<1> QED
  BY <1>5, <1>6

\* Two counts of different points, and a request at neither, fit in the requests.
LEMMA RoomForOneMore ==
    ASSUME NEW m, NEW r \in Senders, sender[r].pc = "idle"
    PROVE  Cardinality(Past(m, {"mark"})) + Cardinality(Past(m, {"send"})) + 1
              <= Cardinality(Senders)
<1> DEFINE A == Past(m, {"mark"})
           B == Past(m, {"send"})
<1>1. IsFiniteSet(A) /\ IsFiniteSet(B) /\ IsFiniteSet(Senders)
  BY PastFinite, RepAssumptions
<1>2. A \cap B = {} /\ r \notin A \cup B /\ A \cup B \cup {r} \subseteq Senders
  BY DEF Past
<1>3. IsFiniteSet(A \cup B) /\ Cardinality(A \cup B) = Cardinality(A) + Cardinality(B)
  <2>1. /\ IsFiniteSet(A \cup B)
        /\ Cardinality(A \cup B) = Cardinality(A) + Cardinality(B) - Cardinality(A \cap B)
    BY <1>1, FS_Union
  <2>2. Cardinality(A \cap B) = 0
    BY <1>2, FS_EmptySet
  <2> QED
    BY <1>1, <2>1, <2>2, FS_CardinalityType
<1>4. Cardinality(A \cup B \cup {r}) = Cardinality(A \cup B) + 1
  BY <1>2, <1>3, FS_AddElement
<1>5. Cardinality(A \cup B \cup {r}) <= Cardinality(Senders)
  BY <1>1, <1>2, FS_Subset
<1> QED
  BY <1>3, <1>4, <1>5

-----------------------------------------------------------------------------
\* Initially nothing is under way.
LEMMA RepInitInv == RepInit => RepInv
<1> SUFFICES ASSUME RepInit PROVE RepInv
  OBVIOUS
<1>1. /\ NotSending \in [pc : {"idle", "send", "mark", "book"}, msg : Messages]
      /\ NotSending.pc = "idle"
  BY RepAssumptions DEF NotSending
<1>2. RepTypeOK
  BY <1>1, RepAssumptions DEF RepInit, RepTypeOK
<1>3. \A m \in Messages : /\ Past(m, {"mark", "book"}) = {}
                          /\ Past(m, {"send"}) = {}
  BY <1>1 DEF RepInit, Past
<1>4. StatusTells /\ SendersKnow
  BY <1>1 DEF RepInit, StatusTells, SendersKnow
<1>5. BooksFollowMail
  BY <1>3, FS_EmptySet DEF RepInit, BooksFollowMail
<1>6. RepeatsBounded
  <2>1. Cardinality(Senders) \in Nat
    BY PastFinite
  <2>2. \A m \in Messages : out[m] = 0 /\ Cardinality(Past(m, {"send"})) = 0
    BY <1>3, FS_EmptySet DEF RepInit
  <2> QED
    BY <2>1, <2>2 DEF RepInit, RepeatsBounded
<1> QED
  BY <1>2, <1>4, <1>5, <1>6 DEF RepInv

\* Steps of the owner alone: no request moves and nothing goes out.
LEMMA OwnerKeeps ==
    ASSUME RepInv,
           \/ \E m \in Messages, k \in {"note", "order"} : Compose(m, k)
           \/ \E m \in Messages : Discard(m)
           \/ RemoveContact
    PROVE  RepInv'
<1>1. sender' = sender /\ out' = out /\ books' = books
      /\ cutOff' = cutOff /\ errors' = errors
  BY DEF Compose, Discard, RemoveContact
<1>2. \A m, pcs : Past(m, pcs)' = Past(m, pcs)
  BY <1>1 DEF Past
<1>3. /\ RepTypeOK'
      /\ \A m \in Messages :
            /\ message[m].status # "absent" => message'[m].status # "absent"
            /\ message'[m].status = "draft" => message[m].status \in {"absent", "draft"}
            /\ message'[m].status = "sent" => message[m].status = "sent"
            /\ message'[m].status = "absent" => message[m].status = "absent"
  <2>1. CASE \E m \in Messages, k \in {"note", "order"} : Compose(m, k)
    BY <2>1 DEF RepInv, RepTypeOK, Compose
  <2>2. CASE \E m \in Messages : Discard(m)
    BY <2>2 DEF RepInv, RepTypeOK, Discard
  <2>3. CASE RemoveContact
    BY <2>3 DEF RepInv, RepTypeOK, RemoveContact
  <2> QED
    BY <2>1, <2>2, <2>3
<1>4. \A m \in Messages : Cardinality(Past(m, {"mark"})) \in Nat
  BY PastFinite
<1>5. StatusTells'
  BY <1>1, <1>2, <1>3, <1>4 DEF RepInv, RepTypeOK, StatusTells
<1>6. SendersKnow'
  BY <1>1, <1>3 DEF RepInv, RepTypeOK, SendersKnow
<1>7. BooksFollowMail' /\ RepeatsBounded'
  BY <1>1, <1>2 DEF RepInv, BooksFollowMail, RepeatsBounded
<1> QED
  BY <1>3, <1>5, <1>6, <1>7 DEF RepInv

\* The counts a step of request r changes, for all messages at once.
Steps(r) ==
    \A m \in Messages, pcs \in {{"mark", "book"}, {"send"}, {"mark"}} :
        /\ Cardinality(Past(m, pcs)) \in Nat
        /\ Cardinality(Past(m, pcs)') \in Nat
        /\ Cardinality(Past(m, pcs)')
              = Cardinality(Past(m, pcs)) - Counted(r, m, pcs) + Counted(r, m, pcs)'

LEMMA SenderSteps ==
    ASSUME RepInv, NEW r \in Senders,
           \/ \E m \in Messages : ReadMessage(r, m)
           \/ Send(r) \/ SendFails(r) \/ Mark(r) \/ Book(r) \/ SenderDies(r)
    PROVE  Steps(r)
<1>1. \A q \in Senders \ {r} : sender'[q] = sender[q]
  BY DEF RepInv, RepTypeOK, ReadMessage, Send, SendFails, Mark, Book, SenderDies
<1> QED
  BY <1>1, CountStep DEF Steps

LEMMA ReadMessageKeeps ==
    ASSUME RepInv, NEW r \in Senders, NEW m \in Messages, ReadMessage(r, m)
    PROVE  RepInv'
<1>1. Steps(r)
  BY SenderSteps
<1>2. RepTypeOK'
  BY DEF RepInv, RepTypeOK, ReadMessage
<1>3. /\ sender[r].pc = "idle" /\ sender'[r] = [pc |-> "send", msg |-> m]
      /\ message[m].status = "draft"
      /\ message' = message /\ out' = out /\ books' = books
      /\ cutOff' = cutOff /\ errors' = errors
  BY DEF RepInv, RepTypeOK, ReadMessage
<1>4. \A n \in Messages : /\ Cardinality(Past(n, {"mark"})') = Cardinality(Past(n, {"mark"}))
                          /\ Cardinality(Past(n, {"mark", "book"})')
                                = Cardinality(Past(n, {"mark", "book"}))
                          /\ Cardinality(Past(n, {"send"})') = Cardinality(Past(n, {"send"}))
                                + (IF n = m THEN 1 ELSE 0)
  BY <1>1, <1>3 DEF Steps, Counted
<1>5. StatusTells' /\ BooksFollowMail'
  BY <1>3, <1>4 DEF RepInv, StatusTells, BooksFollowMail
<1>6. SendersKnow'
  BY <1>3 DEF RepInv, RepTypeOK, SendersKnow, ReadMessage
<1>7. RepeatsBounded'
  <2> SUFFICES ASSUME NEW n \in Messages
               PROVE  out[n] + Cardinality(Past(n, {"send"})')
                         <= Cardinality(Senders) + cutOff + errors
    BY <1>3 DEF RepeatsBounded
  <2>1. /\ Cardinality(Past(n, {"mark"})) \in Nat /\ Cardinality(Past(n, {"send"})) \in Nat
        /\ Cardinality(Senders) \in Nat /\ out[n] \in Nat /\ cutOff \in Nat /\ errors \in Nat
    BY PastFinite DEF RepInv, RepTypeOK
  <2>2. CASE n = m
    <3>1. out[m] <= Cardinality(Past(m, {"mark"})) + cutOff + errors
      BY <1>3 DEF RepInv, StatusTells
    <3>2. Cardinality(Past(m, {"mark"})) + Cardinality(Past(m, {"send"})) + 1
             <= Cardinality(Senders)
      BY <1>3, RoomForOneMore
    <3> QED
      BY <1>4, <2>1, <2>2, <3>1, <3>2
  <2>3. CASE n # m
    BY <1>4, <2>1, <2>3 DEF RepInv, RepeatsBounded
  <2> QED
    BY <2>2, <2>3
<1> QED
  BY <1>2, <1>5, <1>6, <1>7 DEF RepInv

\* The other steps of a request: whatever it stops counting as a sender counts
\* from then on as a message out, a death or an error.
LEMMA SenderKeeps ==
    ASSUME RepInv, NEW r \in Senders,
           Send(r) \/ SendFails(r) \/ Mark(r) \/ Book(r) \/ SenderDies(r)
    PROVE  RepInv'
<1> DEFINE k == sender[r].msg
<1>1. Steps(r)
  BY SenderSteps
<1>2. /\ k \in Messages /\ Cardinality(Senders) \in Nat
      /\ NotSending \in [pc : {"idle", "send", "mark", "book"}, msg : Messages]
      /\ NotSending.pc = "idle"
  BY PastFinite, RepAssumptions DEF RepInv, RepTypeOK, NotSending
<1>3. \A m \in Messages : /\ out[m] \in Nat /\ books[m] \in Nat
                          /\ cutOff \in Nat /\ errors \in Nat
  BY DEF RepInv, RepTypeOK
<1>4. /\ message[k].status # "absent"
      /\ sender[r].pc \in {"mark", "book"} => out[k] > 0
  <2>1. sender[r].pc # "idle"
    BY DEF Send, SendFails, Mark, Book, SenderDies
  <2>2. sender[r].pc \in {"mark", "book"} => Cardinality(Past(k, {"mark", "book"})) > 0
    <3>1. SUFFICES ASSUME sender[r].pc \in {"mark", "book"}
                   PROVE  Cardinality(Past(k, {"mark", "book"})) # 0
      BY PastFinite
    <3>2. r \in Past(k, {"mark", "book"})
      BY <3>1 DEF Past
    <3> QED
      BY <3>2, PastFinite, FS_EmptySet
  <2> QED
    BY <1>2, <1>3, <2>1, <2>2, PastFinite DEF RepInv, SendersKnow, BooksFollowMail
<1>5. CASE Send(r)
  <2>1. /\ sender[r].pc = "send" /\ sender'[r].pc = "mark" /\ sender'[r].msg = k
        /\ \A m \in Messages : out'[m] = out[m] + (IF m = k THEN 1 ELSE 0)
        /\ message' = message /\ books' = books /\ cutOff' = cutOff /\ errors' = errors
    BY <1>2, <1>5 DEF RepInv, RepTypeOK, Send
  <2>2. RepTypeOK'
    BY <1>2, <1>5, RepAssumptions DEF RepInv, RepTypeOK, Send
  <2>3. StatusTells'
    BY <1>1, <1>3, <1>4, <2>1 DEF RepInv, StatusTells, Steps, Counted
  <2>4. SendersKnow'
    BY <1>5 DEF RepInv, RepTypeOK, SendersKnow, Send
  <2>5. BooksFollowMail'
    BY <1>1, <1>3, <2>1 DEF RepInv, BooksFollowMail, Steps, Counted
  <2>6. RepeatsBounded'
    BY <1>1, <1>2, <1>3, <2>1 DEF RepInv, RepeatsBounded, Steps, Counted
  <2> QED
    BY <2>2, <2>3, <2>4, <2>5, <2>6 DEF RepInv
<1>6. CASE SendFails(r)
  <2>1. /\ sender[r].pc = "send" /\ sender'[r] = NotSending
        /\ \A m \in Messages : /\ out'[m] \in Nat
                               /\ out[m] <= out'[m]
                               /\ out'[m] <= out[m] + (IF m = k THEN 1 ELSE 0)
        /\ message' = message /\ books' = books /\ cutOff' = cutOff /\ errors' = errors + 1
    BY <1>2, <1>3, <1>6 DEF RepInv, RepTypeOK, SendFails
  <2>2. RepTypeOK'
    BY <1>2, <1>6, RepAssumptions DEF RepInv, RepTypeOK, SendFails
  <2>3. StatusTells'
    BY <1>1, <1>2, <1>3, <1>4, <2>1 DEF RepInv, StatusTells, Steps, Counted
  <2>4. SendersKnow'
    BY <1>2, <1>6 DEF RepInv, RepTypeOK, SendersKnow, SendFails
  <2>5. BooksFollowMail'
    BY <1>1, <1>2, <1>3, <2>1 DEF RepInv, BooksFollowMail, Steps, Counted
  <2>6. RepeatsBounded'
    BY <1>1, <1>2, <1>3, <2>1 DEF RepInv, RepeatsBounded, Steps, Counted
  <2> QED
    BY <2>2, <2>3, <2>4, <2>5, <2>6 DEF RepInv
<1>7. CASE Mark(r)
  <2>1. /\ sender[r].pc = "mark"
        /\ \/ sender'[r].pc = "book" /\ sender'[r].msg = k
           \/ sender'[r].pc = "idle"
        /\ \A m \in Messages :
              message'[m].status = IF m = k /\ message[m].status = "draft" THEN "sent"
                                   ELSE message[m].status
        /\ out' = out /\ books' = books /\ cutOff' = cutOff /\ errors' = errors
    BY <1>2, <1>7 DEF RepInv, RepTypeOK, Mark
  <2>2. RepTypeOK'
    BY <1>2, <1>7 DEF RepInv, RepTypeOK, Mark
  <2>3. StatusTells'
    BY <1>1, <1>3, <1>4, <2>1 DEF RepInv, StatusTells, Steps, Counted
  <2>4. SendersKnow'
    BY <1>2, <1>7, <2>1 DEF RepInv, RepTypeOK, SendersKnow, Mark
  <2>5. BooksFollowMail'
    BY <1>1, <1>2, <1>3, <2>1 DEF RepInv, BooksFollowMail, Steps, Counted
  <2>6. RepeatsBounded'
    BY <1>1, <1>2, <1>3, <2>1 DEF RepInv, RepeatsBounded, Steps, Counted
  <2> QED
    BY <2>2, <2>3, <2>4, <2>5, <2>6 DEF RepInv
<1>8. CASE Book(r)
  <2>1. /\ sender[r].pc = "book" /\ sender'[r] = NotSending
        /\ \A m \in Messages : books'[m] = books[m] + (IF m = k THEN 1 ELSE 0)
        /\ message' = message /\ out' = out /\ cutOff' = cutOff /\ errors' = errors
    BY <1>2, <1>8 DEF RepInv, RepTypeOK, Book
  <2>2. RepTypeOK'
    BY <1>2, <1>8 DEF RepInv, RepTypeOK, Book
  <2>3. StatusTells'
    BY <1>1, <1>2, <1>3, <2>1 DEF RepInv, StatusTells, Steps, Counted
  <2>4. SendersKnow'
    BY <1>2, <1>8 DEF RepInv, RepTypeOK, SendersKnow, Book
  <2>5. BooksFollowMail'
    BY <1>1, <1>2, <1>3, <2>1 DEF RepInv, BooksFollowMail, Steps, Counted
  <2>6. RepeatsBounded'
    BY <1>1, <1>2, <1>3, <2>1 DEF RepInv, RepeatsBounded, Steps, Counted
  <2> QED
    BY <2>2, <2>3, <2>4, <2>5, <2>6 DEF RepInv
<1>9. CASE SenderDies(r)
  <2>1. /\ sender[r].pc # "idle" /\ sender'[r] = NotSending
        /\ message' = message /\ out' = out /\ books' = books
        /\ cutOff' = cutOff + 1 /\ errors' = errors
    BY <1>2, <1>9 DEF RepInv, RepTypeOK, SenderDies
  <2>2. RepTypeOK'
    BY <1>2, <1>9, RepAssumptions DEF RepInv, RepTypeOK, SenderDies
  <2>3. StatusTells'
    BY <1>1, <1>2, <1>3, <2>1 DEF RepInv, StatusTells, Steps, Counted
  <2>4. SendersKnow'
    BY <1>2, <1>9 DEF RepInv, RepTypeOK, SendersKnow, SenderDies
  <2>5. BooksFollowMail'
    BY <1>1, <1>2, <1>3, <2>1 DEF RepInv, BooksFollowMail, Steps, Counted
  <2>6. RepeatsBounded'
    BY <1>1, <1>2, <1>3, <2>1 DEF RepInv, RepeatsBounded, Steps, Counted
  <2> QED
    BY <2>2, <2>3, <2>4, <2>5, <2>6 DEF RepInv
<1> QED
  BY <1>5, <1>6, <1>7, <1>8, <1>9

LEMMA RepStutterKeeps == RepInv /\ UNCHANGED repVars => RepInv'
<1> SUFFICES ASSUME RepInv, UNCHANGED repVars PROVE RepInv'
  OBVIOUS
<1>1. \A m, pcs : Past(m, pcs)' = Past(m, pcs)
  BY DEF repVars, Past
<1> QED
  BY <1>1 DEF RepInv, repVars, RepTypeOK, StatusTells, SendersKnow, BooksFollowMail,
              RepeatsBounded

LEMMA RepNextKeeps == RepInv /\ [RepNext]_repVars => RepInv'
<1> SUFFICES ASSUME RepInv, RepNext PROVE RepInv'
  BY RepStutterKeeps
<1>1. CASE \/ RemoveContact \/ \E m \in Messages : Discard(m)
           \/ \E m \in Messages, k \in {"note", "order"} : Compose(m, k)
  BY <1>1, OwnerKeeps
<1>2. CASE \E m \in Messages, r \in Senders : ReadMessage(r, m)
  BY <1>2, ReadMessageKeeps
<1>3. CASE \E r \in Senders : Send(r) \/ SendFails(r) \/ Mark(r) \/ Book(r) \/ SenderDies(r)
  BY <1>3, SenderKeeps
<1> QED
  BY <1>1, <1>2, <1>3 DEF RepNext

LEMMA RepConsistent == RepSpec => []RepInv
BY RepInitInv, RepNextKeeps, PTL DEF RepSpec

-----------------------------------------------------------------------------
\* What orders_store.py keeps of a rep's orders never exceeds what the rep was
\* sent (handlers/orders.py, message/send).
THEOREM BooksNeverAhead == RepSpec => []BooksFollowMail
<1>1. RepInv => BooksFollowMail
  BY DEF RepInv
<1> QED
  BY <1>1, RepConsistent, PTL

\* A rep gets one message at most once for each request that may be in flight,
\* and once more for each death and each error before the mark.
THEOREM RepeatsAreBounded == RepSpec => []RepeatsBounded
<1>1. RepInv => RepeatsBounded
  BY DEF RepInv
<1> QED
  BY <1>1, RepConsistent, PTL

\* The statuses sent and discarded are never taken back (mark_message_sent and
\* discard_message, WHERE status = 'draft'), and what is shown as sent went out.
THEOREM StatusHolds == RepSpec => StatusIsFinal
<1> DEFINE Final ==
      \A m \in Messages :
          /\ message[m].status \in {"sent", "discarded"} =>
                message'[m].status \in {message[m].status, "deleted"}
          /\ message'[m].status = "sent" => out[m] > 0
<1>1. ASSUME RepInv, [RepNext]_repVars PROVE Final
  <2>1. CASE UNCHANGED repVars
    BY <1>1, <2>1 DEF RepInv, StatusTells, repVars
  <2>2. CASE \/ RemoveContact \/ \E m \in Messages : Discard(m)
             \/ \E m \in Messages, k \in {"note", "order"} : Compose(m, k)
    BY <1>1, <2>2 DEF RepInv, RepTypeOK, StatusTells, RemoveContact, Discard, Compose
  <2>3. CASE \E r \in Senders : Mark(r)
    <3>1. PICK r \in Senders : Mark(r)
      BY <2>3
    <3>2. r \in Past(sender[r].msg, {"mark", "book"}) /\ sender[r].msg \in Messages
      BY <1>1, <3>1 DEF Past, Mark, RepInv, RepTypeOK
    <3>3. Cardinality(Past(sender[r].msg, {"mark", "book"})) \in Nat \ {0}
      BY <3>2, PastFinite, FS_EmptySet
    <3>4. out[sender[r].msg] > 0
      <4> DEFINE k == sender[r].msg
      <4>1. books[k] + Cardinality(Past(k, {"mark", "book"})) <= out[k]
        BY <1>1, <3>2 DEF RepInv, BooksFollowMail
      <4>2. books[k] \in Nat /\ out[k] \in Nat
        BY <1>1, <3>2 DEF RepInv, RepTypeOK
      <4> HIDE DEF k
      <4>3. out[k] > 0
        BY <3>3, <4>1, <4>2 DEF k
      <4> QED
        BY <4>3 DEF k
    <3> QED
      BY <1>1, <3>1, <3>4 DEF RepInv, RepTypeOK, StatusTells, Mark
  <2>4. CASE message' = message
    BY <1>1, <2>4 DEF RepInv, StatusTells
  <2> QED
    BY <1>1, <2>1, <2>2, <2>3, <2>4 DEF RepNext, ReadMessage, Send, SendFails, Book, SenderDies
<1>2. RepInv /\ [RepNext]_repVars => [Final]_repVars
  BY <1>1
<1> QED
  BY <1>2, RepConsistent, PTL DEF RepSpec, StatusIsFinal
=============================================================================
