---------------------------- MODULE MemoryDouble ----------------------------
(***************************************************************************)
(* InMemoryRepository over the rows of MemoryStore: runs, observations,    *)
(* conversation and recommendations, translated from the double's lists    *)
(* and dictionaries.                                                       *)
(***************************************************************************)
EXTENDS Naturals, Sequences, FiniteSets, SequencesExt, Listing

CONSTANT Null

Answer(m, value) == [m |-> m, ans |-> value, ok |-> TRUE]
Refused(m)       == [m |-> m, ans |-> Null, ok |-> FALSE]

ChatSources == {"owner_chat", "ask_agent"}

-----------------------------------------------------------------------------
StartRun(m, b, agent) ==
    Answer([m EXCEPT !.run = Append(@, [business |-> b, agent |-> agent,
                                        status |-> "running"])],
           Len(m.run) + 1)

FinishRun(m, r, status) ==
    IF r \notin DOMAIN m.run THEN Refused(m)
    ELSE Answer([m EXCEPT !.run = [@ EXCEPT ![r].status = status]], Null)

\* sort by started_at, reversed
RecentRuns(m, b, n) ==
    LET mine == InOrder({r \in DOMAIN m.run : m.run[r].business = b})
    IN  Slice(Ranked(mine, LAMBDA x, y : x > y), n)

-----------------------------------------------------------------------------
Remember(m, b, text, source, day, about, embedded) ==
    Answer([m EXCEPT !.lastId = @ + 1,
                     !.obs = Append(@, [id |-> m.lastId + 1, business |-> b,
                                        text |-> text, source |-> source, day |-> day,
                                        about |-> about, embedded |-> embedded])],
           m.lastId + 1)

\* The digest of a chat row has its own id in it, so no content equals it.
InsertObservation(m, b, text, source, day) ==
    IF \E i \in DOMAIN m.obs : /\ m.obs[i].business = b
                               /\ m.obs[i].source \notin ChatSources
                               /\ m.obs[i].text = text
    THEN Answer(m, Null)
    ELSE Remember(m, b, text, source, day, Null, TRUE)

\* The finds keep their citations of the rows that go.
PurgeObservations(m, b, source, before) ==
    LET kept == Pick(m.obs, {i \in DOMAIN m.obs : \/ m.obs[i].business # b
                                                  \/ m.obs[i].source # source
                                                  \/ m.obs[i].day >= before})
    IN  Answer([m EXCEPT !.obs = kept], Len(m.obs) - Len(kept))

\* [o for o in observations if ...]
Where(m, P(_)) == Pick(m.obs, {i \in DOMAIN m.obs : P(m.obs[i])})

Corpus(m, b) == Where(m, LAMBDA o : o.business = b /\ o.source \notin ChatSources)

CountObservations(m, b) == Len(Corpus(m, b))

SearchObservations(m, b, n) ==
    Slice(Ranked(Where(m, LAMBDA o : /\ o.business = b /\ o.embedded
                                         /\ o.source \notin ChatSources),
                     LAMBDA x, y : x.text < y.text), n)

\* A plausible bug: the rows come in the order they were stored.
AllObservationsAsStored(m, b, n) == Slice(Corpus(m, b), n)

AllObservations(m, b, n) ==
    Slice(Ranked(Corpus(m, b), LAMBDA x, y : x.day < y.day), n)

-----------------------------------------------------------------------------
InsertChat(m, b, role, text, day, about, embedded) ==
    CASE role = "user"      -> Remember(m, b, text, "owner_chat", day, about, embedded)
      [] role = "assistant" -> Remember(m, b, text, "ask_agent", day, about, embedded)
      [] OTHER              -> Refused(m)

\* sort by (observed_at, is the assistant's), reversed; the first n, reversed back
RecentChat(m, b, n, about) ==
    LET rows == Where(m, LAMBDA o : /\ o.business = b /\ o.source \in ChatSources
                                    /\ about = Null \/ o.about = about)
        above(x, y) == \/ x.day > y.day
                       \/ /\ x.day = y.day
                          /\ x.source = "ask_agent" /\ y.source # "ask_agent"
    IN  Reverse(Slice(Ranked(rows, above), n))

SearchChat(m, b, n) ==
    Slice(Ranked(Where(m, LAMBDA o : /\ o.business = b /\ o.source = "owner_chat"
                                         /\ o.embedded),
                     LAMBDA x, y : x.text < y.text), n)

CountChat(m, b) == Len(Where(m, LAMBDA o : o.business = b /\ o.source \in ChatSources))

-----------------------------------------------------------------------------
\* Nothing is written if one of the observations is not the business's own.
InsertFind(m, b, status, evidence) ==
    LET known == {m.obs[i].id : i \in {j \in DOMAIN m.obs : m.obs[j].business = b}} IN
    IF evidence = <<>> THEN Refused(m)
    ELSE IF \E k \in DOMAIN evidence : evidence[k] \notin known THEN Refused(m)
    ELSE Answer([m EXCEPT !.find = Append(@, [business |-> b, status |-> status,
                                              evidence |-> evidence])],
                Len(m.find) + 1)

GetFindContext(m, b, f) ==
    IF f \notin DOMAIN m.find THEN Null
    ELSE IF m.find[f].business # b THEN Null ELSE m.find[f].status

\* An unknown find is an error here; the caller asks only for finds it has.
GetFindEvidence(m, f) == IF f \in DOMAIN m.find THEN m.find[f].evidence ELSE Null

CountFinds(m, b) == Len(Pick(m.find, {f \in DOMAIN m.find : m.find[f].business = b}))

\* max(stamps) if stamps else None
LatestFind(m, b) ==
    LET stamps == {f \in DOMAIN m.find : m.find[f].business = b} IN
    IF stamps = {} THEN Null ELSE CHOOSE f \in stamps : ~\E g \in stamps : g > f

OwnerSeenStatuses == {"proposed", "accepted", "later", "rejected", "live", "retired"}

\* sort key: not in play, not seen, minus the date
RecentFinds(m, b, n, unseen) ==
    LET mine == InOrder({f \in DOMAIN m.find :
                            /\ m.find[f].business = b
                            /\ unseen \/ m.find[f].status \in OwnerSeenStatuses})
        key(f) == (IF m.find[f].status \in {"accepted", "live"} THEN 0 ELSE 2)
                  + (IF m.find[f].status \in OwnerSeenStatuses THEN 0 ELSE 1)
        above(f, g) == \/ key(f) < key(g)
                       \/ key(f) = key(g) /\ f > g
    IN  Slice(Ranked(mine, above), n)
=============================================================================
