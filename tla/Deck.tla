-------------------------------- MODULE Deck --------------------------------
\* One night of the Analyst (agents/analyst.py): what retrieval lets into the
\* prompt, which claim each proposed move may make (finds.py), what an adversary
\* (agents/refuter.py) and a coster (agents/coster.py) say of it, and what is
\* written for the owner. The models' answers are arbitrary; rows of memory may
\* be purged by the retention sweep of another night while this one runs.
EXTENDS Integers, Sequences, FiniteSets, FiniteSetsExt, SequencesExt, Listing

CONSTANTS
    Null,            \* NULL: no URL, no verdict, no figure
    Rows,            \* observations of one business
    Fact,            \* Fact[r]: its source, page_state or not, open when captured
    Queries,         \* the standing market questions
    Levels,          \* similarities, in hundredths
    Ties,            \* orders in which rows of equal similarity may come back
    PerQuery,        \* rows one question returns
    Decks,           \* what the model may answer: sequences of cards
    Deployments,     \* which of the two optional models may be wired
    MaxFinds,        \* MAX_FINDS_PER_NIGHT
    MaxPerSource,    \* MAX_ROWS_PER_SOURCE
    MinRows, MinSources,   \* MIN_PROMPT_ROWS, MIN_PROMPT_SOURCES
    Absolute, Relative,    \* ABSOLUTE_REJECT, RELATIVE_ADMISSION, in hundredths
    MaxAnswers,      \* bound: verdicts or estimates in one answer
    MaxPurged        \* bound: rows purged while the night runs

ASSUME DeckAssumption ==
    /\ IsFiniteSet(Rows) /\ IsFiniteSet(Queries) /\ Levels \subseteq 1..100
    /\ \A tie \in Ties : tie \in [Rows -> Nat] /\ IsInjective(tie)
    /\ {PerQuery, MaxFinds, MaxPerSource, MinRows, MinSources} \subseteq Nat \ {0}
    /\ {Absolute, Relative, MaxAnswers, MaxPurged} \subseteq Nat
    /\ Deployments \subseteq SUBSET {"refuter", "coster"}
    /\ \A r \in Rows : /\ Fact[r].page \in BOOLEAN
                       /\ Fact[r].open \in {"open", "shut", "unknown"}
    /\ Decks \subseteq Seq([asks : {"current_state", "pattern", "opportunity", "listing_fact"},
                           asserts : BOOLEAN, cites : SUBSET Rows, cents : Nat])
    \* NULL is no number, no tier of a claim and no judgement
    /\ Null \notin Nat
    /\ Null \notin {"current_state", "pattern", "opportunity", "listing_fact"}
    /\ Null \notin [action : {"publish", "demote", "withhold"}, checked : BOOLEAN]

VARIABLES
    memory,      \* observations stored
    wired,       \* which of the two optional models this deployment has
    pc,          \* the call the night is at
    best,        \* similarity of each row retrieved, Null for the others
    hits,        \* the rows in the prompt, by rank
    receipt,     \* what retrieval counted
    cards,       \* the moves proposed, with the claim each may make
    judged,      \* judgement of each card, Null when nobody was asked about it
    priced,      \* its cost, Null when nobody could say
    said,        \* what the two models answered about each card
    board,       \* finds written, in the order of the cards
    run          \* status of the agent_run row; refused: failed, over a database error

vars == <<memory, wired, pc, best, hits, receipt, cards, judged, priced, said,
          board, run>>

Init ==
    /\ memory \in {Rows, {}}
    /\ wired \in Deployments
    /\ pc = "retrieve" /\ run = "running"
    /\ best = [r \in Rows |-> Null] /\ hits = <<>>
    /\ receipt = [raw |-> 0, unique |-> 0, capped |-> 0, floored |-> 0]
    /\ cards = <<>> /\ judged = <<>> /\ priced = <<>> /\ said = <<>> /\ board = <<>>

-----------------------------------------------------------------------------
\* Retrieval.

\* Rows one similarity search may return: the strongest, ties in any order.
Matches(sim) ==
    {m \in SUBSET memory :
        /\ Cardinality(m) = Min({PerQuery, Cardinality(memory)})
        /\ \A r \in m, s \in memory \ m : sim[r] >= sim[s]}

\* Positions the per-source cap drops: rows whose source already has its limit
\* above them. A row without a source is never dropped.
Capped(ordered) ==
    {i \in DOMAIN ordered :
        LET site == Fact[ordered[i]].site IN
        /\ site # Null
        /\ Cardinality({j \in 1..(i-1) : Fact[ordered[j]].site = site}) >= MaxPerSource}

Kept(ordered) ==
    LET stay == InOrder(DOMAIN ordered \ Capped(ordered))
    IN [i \in DOMAIN stay |-> ordered[stay[i]]]

Sites(rows) == {Fact[r].site : r \in rows} \ {Null}
\* Sources of some rows, those without one counted apart.
Apart(rows) == Cardinality(Sites(rows)) + Cardinality({r \in rows : Fact[r].site = Null})

Strong(similarity, top) == similarity >= Absolute /\ 100 * similarity >= Relative * top

\* How many ranked rows enter: those above the bar, then as many more as it takes
\* to have MinRows rows from MinSources sources.
Admitted(ranked, b) ==
    LET strong == Cardinality({i \in DOMAIN ranked : Strong(b[ranked[i]], b[ranked[1]])})
        broad == {n \in strong..Len(ranked) :
                     n >= MinRows /\ Apart({ranked[i] : i \in 1..n}) >= MinSources}
    IN IF broad = {} THEN Len(ranked) ELSE Min(broad)

\* The prompt: the cap first, then the bar.
\* A plausible bug: the bar first, so that the cap empties what it admitted.
PromptBarFirst(ordered, b) == Kept(SubSeq(ordered, 1, Admitted(ordered, b)))
Prompt(ordered, b) == LET ranked == Kept(ordered) IN SubSeq(ranked, 1, Admitted(ranked, b))

Union(found) == UNION {found[q] : q \in Queries}
\* Each row found, at its best similarity.
Strengths(sim, found) ==
    [r \in Rows |-> IF r \in Union(found)
                    THEN Max({sim[q][r] : q \in {p \in Queries : r \in found[p]}}) ELSE Null]

\* Rows found, the strongest first.
Ordered(rows, b, tie) ==
    Along(rows, [r \in rows |-> {s \in rows : \/ b[s] > b[r]
                                             \/ (b[s] = b[r] /\ tie[s] <= tie[r])}])

Retrieve ==
    /\ pc = "retrieve"
    /\ \E sim \in [Queries -> [Rows -> Levels]], tie \in Ties :
       \E found \in [Queries -> SUBSET memory] :
          /\ \A q \in Queries : found[q] \in Matches(sim[q])
          /\ LET top == Strengths(sim, found)
                 ordered == Ordered(Union(found), top, tie)
                 capped == Cardinality(Capped(ordered))
             IN /\ best' = top
                /\ hits' = Prompt(ordered, top)
                /\ receipt' =
                     [raw |-> Cardinality({m \in Queries \X memory : m[2] \in found[m[1]]}),
                      unique |-> Len(hits'), capped |-> capped,
                      floored |-> Len(ordered) - capped - Len(hits')]
    \* with nothing retrieved the model is not called
    /\ IF hits' = <<>> THEN pc' = "done" /\ run' = "ok" ELSE pc' = "propose" /\ run' = run
    /\ UNCHANGED <<memory, wired, cards, judged, priced, said, board>>

-----------------------------------------------------------------------------
\* The claim standards (finds.py). A card says what tier it asks for, whether its
\* wording asserts that something is broken now, what it cites, what it promises.

Perishable(rows) == {r \in rows : Fact[r].page}
CurrentStateSupported(rows) ==
    Perishable(rows) # {} => \E r \in Perishable(rows) : Fact[r].open = "open"
OneDurableFact(rows) == Apart(rows) = 1 /\ Perishable(rows) = {}

Ladder == <<"current_state", "pattern", "opportunity">>

\* Failing the standard of a listing fact is no evidence for a strong claim.
Start(card) ==
    CASE card.asserts -> 1
      [] ~card.asserts /\ card.asks = "listing_fact" -> 2
      [] OTHER -> CHOOSE i \in 1..3 : Ladder[i] = card.asks

\* A weaker label does not make a sentence about what is broken now weaker.
Carries(tier, card) ==
    CASE tier = "current_state" -> CurrentStateSupported(card.cites)
      [] tier = "pattern" -> ~card.asserts /\ Cardinality(Sites(card.cites)) >= 2
      [] tier = "opportunity" -> ~card.asserts

\* A plausible bug: the declared tier is taken at its word.
TierAsDeclared(card) ==
    IF card.asks = "listing_fact" THEN card.asks
    ELSE LET fit == {i \in (CHOOSE j \in 1..3 : Ladder[j] = card.asks)..3 :
                        i = 1 => CurrentStateSupported(card.cites)}
         IN Ladder[Min(fit)]
\* The tier a card may be published as, Null when none fits its evidence.
Tier(card) ==
    LET fit == {i \in Start(card)..3 : Carries(Ladder[i], card)} IN
    IF card.asks = "listing_fact" /\ OneDurableFact(card.cites) THEN "listing_fact"
    ELSE IF fit = {} THEN Null ELSE Ladder[Min(fit)]

\* What the ledger can inherit; anything else fails the whole night.
Valid(card) == card.cites # {} /\ card.cites \subseteq Range(hits)

\* A listing fact carries no figure.
Parsed(card) == LET tier == Tier(card) IN
    [cites |-> card.cites, asserts |-> card.asserts, tier |-> tier,
     cents |-> IF tier = "listing_fact" THEN 0 ELSE card.cents]

Fail == pc' = "done" /\ run' = "failed"

\* The rows are handed over to the model: from here on only what was counted of
\* them, and what a card cites, is read.
Propose ==
    /\ pc = "propose"
    /\ best' = [r \in Rows |-> Null] /\ hits' = <<>>
    /\ \E deck \in Decks :
          LET shown == SubSeq(deck, 1, Min({MaxFinds, Len(deck)})) IN
          IF \A i \in DOMAIN shown : Valid(shown[i])
          THEN /\ cards' = [i \in DOMAIN shown |-> Parsed(shown[i])]
               /\ said' = [i \in DOMAIN shown |-> [verdict |-> "silence", cost |-> "silence"]]
               /\ judged' = [i \in DOMAIN shown |-> Null]
               /\ priced' = [i \in DOMAIN shown |-> Null]
               /\ pc' = "refute" /\ run' = run
          ELSE Fail /\ UNCHANGED <<cards, said, judged, priced>>
    /\ UNCHANGED <<memory, wired, receipt, board>>

\* The provider fails, or answers no JSON.
ModelFails ==
    /\ pc = "propose"
    /\ Fail
    /\ best' = [r \in Rows |-> Null] /\ hits' = <<>>
    /\ UNCHANGED <<memory, wired, receipt, cards, judged, priced, said, board>>

-----------------------------------------------------------------------------
\* The two further models are shown the moves the standards let through, numbered
\* from 1, and answer by number. A failed call answers nothing.

Shown == InOrder({i \in DOMAIN cards : cards[i].tier # Null})

Items(words) == [index : 1..(Len(Shown) + 1), word : words]
Answers(words) == IF Shown = <<>> THEN {<<>>} ELSE BoundedSeq(Items(words), MaxAnswers)

\* The first answer under a number, or none.
Word(answer, index) ==
    LET named == {k \in DOMAIN answer : answer[k].index = index} IN
    IF named = {} THEN "silence" ELSE answer[Min(named)].word

\* The number under which a card of the deck was shown.
\* A plausible bug: its place in the deck.
PlaceInDeck(i) == i
Place(i) == Cardinality({j \in 1..i : cards[j].tier # Null})

\* Whatever is questionable resolves to publishing, unchecked; a withhold that
\* names no row it was shown is a demotion.
\* A plausible bug: the row is not asked for, or a silent model withholds.
JudgementStrict(word) == IF word = "silence" THEN [action |-> "withhold", checked |-> FALSE]
    ELSE [action |-> IF word = "publish" THEN "publish" ELSE "withhold", checked |-> TRUE]
Judgement(word) ==
    CASE word \in {"silence", "unknown"} -> [action |-> "publish", checked |-> FALSE]
      [] word = "withhold_bare" -> [action |-> "demote", checked |-> TRUE]
      [] OTHER -> [action |-> word, checked |-> TRUE]

Verdicts == {"publish", "demote", "withhold", "withhold_bare", "unknown"}

Refute ==
    /\ pc = "refute" /\ pc' = "cost"
    /\ IF "refuter" \in wired
       THEN \E answer \in Answers(Verdicts) :
              /\ judged' = [i \in DOMAIN cards |-> IF cards[i].tier = Null THEN Null
                               ELSE Judgement(Word(answer, Place(i)))]
              /\ said' = [i \in DOMAIN cards |-> [said[i] EXCEPT !.verdict =
                             IF \E k \in DOMAIN Shown : Shown[k] = i
                             THEN Word(answer, CHOOSE k \in DOMAIN Shown : Shown[k] = i)
                             ELSE "silence"]]
       ELSE UNCHANGED <<judged, said>>
    /\ UNCHANGED <<memory, wired, best, hits, receipt, cards, priced, board, run>>

\* Lines that cannot be read are dropped, and an estimate without a line is none.
Cents(word) == CASE word = "free" -> 0 [] word = "paid" -> 1 [] OTHER -> Null

Cost ==
    /\ pc = "cost" /\ pc' = "store"
    /\ IF "coster" \in wired
       THEN \E answer \in Answers({"free", "paid", "unusable"}) :
              /\ priced' = [i \in DOMAIN cards |-> IF cards[i].tier = Null THEN Null
                               ELSE Cents(Word(answer, Place(i)))]
              /\ said' = [i \in DOMAIN cards |-> [said[i] EXCEPT !.cost =
                             IF \E k \in DOMAIN Shown : Shown[k] = i
                             THEN Word(answer, CHOOSE k \in DOMAIN Shown : Shown[k] = i)
                             ELSE "silence"]]
       ELSE UNCHANGED <<priced, said>>
    /\ UNCHANGED <<memory, wired, best, hits, receipt, cards, judged, board, run>>

-----------------------------------------------------------------------------
\* Writing the deck, one transaction per card.

MoneyAllowed(i) ==
    judged[i] # Null => judged[i].checked /\ judged[i].action = "publish"
Held(i) == cards[i].tier = Null \/ (judged[i] # Null /\ judged[i].action = "withhold")

Stored(i) == [status |-> IF Held(i) THEN "withheld" ELSE "proposed",
              cents |-> IF MoneyAllowed(i) THEN cards[i].cents ELSE 0,
              cost |-> priced[i]]

\* insert_find_with_evidence: a row that is no longer there rolls the find back,
\* and the error ends the night with the finds stored before it.
Store ==
    /\ pc = "store" /\ Len(board) < Len(cards)
    /\ LET i == Len(board) + 1 IN
       IF cards[i].cites \subseteq memory
       THEN board' = Append(board, Stored(i)) /\ UNCHANGED <<pc, run>>
       ELSE Fail /\ UNCHANGED board
    /\ UNCHANGED <<memory, wired, best, hits, receipt, cards, judged, priced, said>>

\* The database fails a call: the error ends the night where it stands, and
\* closing_run notes it on the row, unless the database is still away.
DatabaseFails ==
    /\ pc \in {"retrieve", "propose", "store"}
    /\ pc' = "done" /\ run' \in {"refused", "running"}
    /\ UNCHANGED <<memory, wired, best, hits, receipt, cards, judged, priced, said, board>>

\* Distinct rows cited by the night.
\* A plausible bug: citations, so that two moves on one row count it twice.
CitedSum == MapThenSumSet(LAMBDA i : Cardinality(cards[i].cites), DOMAIN cards)
Cited == Cardinality(UNION {cards[i].cites : i \in DOMAIN cards})

\* encode_analyst_trace raises on counts that cannot be.
Encodes ==
    /\ receipt.unique <= receipt.raw
    /\ Cited <= receipt.unique
    /\ receipt.unique + receipt.capped + receipt.floored <= receipt.raw

Finish ==
    /\ pc = "store" /\ Len(board) = Len(cards)
    /\ IF Encodes THEN pc' = "done" /\ run' = "ok" ELSE Fail
    /\ UNCHANGED <<memory, wired, best, hits, receipt, cards, judged, priced, said, board>>

\* The retention sweep of another night (agents/radar.py); what it purges before
\* the searches is no part of this night.
Purge(r) ==
    /\ pc \notin {"retrieve", "done"} /\ r \in memory
    /\ Cardinality(Rows \ memory) < MaxPurged
    /\ memory' = memory \ {r}
    /\ UNCHANGED <<wired, pc, best, hits, receipt, cards, judged, priced, said, board, run>>

Next ==
    \/ Retrieve \/ Propose \/ ModelFails \/ Refute \/ Cost \/ Store \/ Finish
    \/ DatabaseFails
    \/ \E r \in Rows : Purge(r)

Spec == Init /\ [][Next]_vars

-----------------------------------------------------------------------------
\* No row loses its place in the prompt for nothing (agents/analyst.py:454, 517):
\* a retrieved row is left out only for enough rows of its own source that are as
\* strong, or for being below the bar when the prompt is broad enough without it
\* and holds nothing weaker.
PromptIsFair ==
    LET retrieved == {r \in Rows : best[r] # Null}
        inside == Range(hits)
    IN \A r \in retrieved \ inside :
          \/ /\ Fact[r].site # Null
             /\ Cardinality({s \in inside : Fact[s].site = Fact[r].site /\ best[s] >= best[r]})
                   >= MaxPerSource
          \/ /\ ~Strong(best[r], Max({best[s] : s \in retrieved}))
             /\ Len(hits) >= MinRows /\ Apart(inside) >= MinSources
             /\ \A s \in inside : best[s] >= best[r]

\* What the owner is told stands on its rows, whatever the model called it
\* (finds.py:283): nothing is said to be broken now on the strength of a page
\* nobody saw while the shop was open, and no pattern rests on one source.
BoardStandsUp ==
    \A i \in DOMAIN board : board[i].status = "proposed" =>
        LET card == cards[i] IN
        /\ card.asserts \/ card.tier = "current_state" =>
              \/ \A r \in card.cites : ~Fact[r].page
              \/ \E r \in card.cites : Fact[r].page /\ Fact[r].open = "open"
        /\ card.tier = "pattern" =>
              \E r, s \in card.cites : Null # Fact[r].site /\ Fact[r].site # Fact[s].site
                                       /\ Fact[s].site # Null

\* A figure on a card was earned by that card (agents/analyst.py:1330): its money
\* was challenged and published where there is a challenger, and its cost is the
\* one a model gave for it. Unknown is not free.
FiguresAreEarned ==
    \A i \in DOMAIN board :
        /\ board[i].status = "proposed" /\ board[i].cents > 0 /\ "refuter" \in wired
              => said[i].verdict = "publish"
        /\ board[i].cost # Null =>
              said[i].cost = IF board[i].cost = 0 THEN "free" ELSE "paid"

\* The board never goes dark because a check failed (agents/refuter.py:412): a
\* move is held back exactly when no claim fits its evidence, or when the
\* adversary named a row that contradicts it.
HeldForCause ==
    \A i \in DOMAIN board :
        board[i].status = "withheld" <=> cards[i].tier = Null \/ said[i].verdict = "withhold"

\* A night whose deck is on the board does not fail over its own receipt
\* (agents/analyst.py:1449, analyst_trace.py:78). Where the database answers, it
\* fails before anything is proposed, or short of its deck because a row a card
\* cites was purged under it.
FailedForCause ==
    run = "failed" => \/ cards = <<>>
                      \/ memory # Rows /\ Len(board) < Len(cards)
=============================================================================
