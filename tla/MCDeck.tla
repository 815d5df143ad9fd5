------------------------------- MODULE MCDeck -------------------------------
\* A small instance of Deck for TLC: five rows, two of them from one site.
EXTENDS Deck, TLC

CONSTANTS a1, a2, b, n, m

\* A page of site A seen while shut, a review there, a review on site B, and an
\* upload without a URL that shows the page while open; m only makes room.
MCFact ==
    a1 :> [site |-> "A", page |-> TRUE, open |-> "shut"] @@
    a2 :> [site |-> "A", page |-> FALSE, open |-> "unknown"] @@
    b  :> [site |-> "B", page |-> FALSE, open |-> "unknown"] @@
    n  :> [site |-> Null, page |-> TRUE, open |-> "open"] @@
    m  :> [site |-> Null, page |-> FALSE, open |-> "unknown"]

\* The order the rows are listed in, and the opposite.
MCTies == {a1 :> 1 @@ a2 :> 2 @@ b :> 3 @@ n :> 4 @@ m :> 5,
           a1 :> 5 @@ a2 :> 4 @@ b :> 3 @@ n :> 2 @@ m :> 1}

Card(asks, asserts, cites) == [asks |-> asks, asserts |-> asserts, cites |-> cites, cents |-> 1]

Cards == {Card(asks, asserts, cites) :
            asks \in {"current_state", "pattern", "opportunity", "listing_fact"},
            asserts \in BOOLEAN,
            cites \in UNION {kSubset(k, {a1, a2, b, n}) : k \in 1..2}}

Plain == Card("opportunity", FALSE, {b})
Pair == Card("pattern", FALSE, {a2, b})
Refused == Card("current_state", TRUE, {a1})

\* One card, two, more than a night takes, and one that cites nothing.
MCDecks == {<<c>> : c \in Cards} \cup {<<c, Plain>> : c \in {x \in Cards : x.asks = "pattern"}}
           \cup {<<Refused, c>> : c \in Cards}
           \cup {<<Pair, Pair, Refused>>, <<Card("opportunity", FALSE, {})>>}
=============================================================================
