------------------------------ MODULE Listing ------------------------------
(***************************************************************************)
(* Finite sets put in a row: what filtering, sorting and cutting a list    *)
(* come to, said with sets and ranks.                                      *)
(***************************************************************************)
EXTENDS Naturals, Sequences, FiniteSets

\* The members of a finite set along a total order, given by the set of those up
\* to each of them.
Along(S, upTo) == [k \in 1..Cardinality(S) |-> CHOOSE x \in S : Cardinality(upTo[x]) = k]

InOrder(S) == Along(S, [i \in S |-> {j \in S : j <= i}])
Newest(S)  == Along(S, [i \in S |-> {j \in S : j >= i}])

\* ORDER BY a key no two members share.
Sorted(S, before(_, _)) == Along(S, [i \in S |-> {j \in S : j = i \/ before(j, i)}])

\* The rows at the positions listed, and the rows of a table a condition leaves.
RowsAt(rows, list) == [k \in DOMAIN list |-> rows[list[k]]]
Pick(rows, S)  == RowsAt(rows, InOrder(S))

\* sorted(rows, key), which keeps the order of equals.
Ranked(rows, above(_, _)) ==
    RowsAt(rows, Along(DOMAIN rows,
                   [i \in DOMAIN rows |->
                       {j \in DOMAIN rows : \/ above(rows[j], rows[i])
                                            \/ j <= i /\ ~above(rows[i], rows[j])}]))

\* rows[:n]
Slice(rows, n) == [i \in 1..(IF Len(rows) <= n THEN Len(rows) ELSE n) |-> rows[i]]

\* LIMIT n
Limit(rows, n) == SubSeq(rows, 1, IF n < Len(rows) THEN n ELSE Len(rows))
=============================================================================
