---------------------------- MODULE MemoryStore ----------------------------
(***************************************************************************)
(* What the agents remember, as PostgresRepository keeps it: agent_run,    *)
(* observation (the owner's conversation included), and find with its      *)
(* find_evidence.  Each operator takes the stored rows to the rows it      *)
(* leaves and the value it answers.                                        *)
(*                                                                         *)
(* A text is a number, and every text is nearer to a question the smaller  *)
(* it is: the search answers the nearest first.  observed_at is the day    *)
(* the caller gives; created_at and started_at are the positions of rows.  *)
(***************************************************************************)
EXTENDS Naturals, Sequences, FiniteSets, SequencesExt, Listing

CONSTANT Null

NoMemory == [run |-> <<>>, obs |-> <<>>, find |-> <<>>, lastId |-> 0]

Answer(m, value) == [m |-> m, ans |-> value, ok |-> TRUE]
Refused(m)       == [m |-> m, ans |-> Null, ok |-> FALSE]

ChatSource(role) == IF role = "user" THEN "owner_chat" ELSE "ask_agent"
IsChat(row)      == row.source \in {"owner_chat", "ask_agent"}
Judgeable        == {"accepted", "live"}
SeenByOwner      == {"proposed", "accepted", "later", "rejected", "live", "retired"}

-----------------------------------------------------------------------------
\* agent_run

StartRun(m, b, agent) ==
    Answer([m EXCEPT !.run = Append(@, [business |-> b, agent |-> agent,
                                        status |-> "running"])],
           Len(m.run) + 1)

FinishRun(m, r, status) ==
    IF r \in DOMAIN m.run
    THEN Answer([m EXCEPT !.run[r].status = status], Null)
    ELSE Refused(m)

RecentRuns(m, b, n) ==
    Limit(Newest({r \in DOMAIN m.run : m.run[r].business = b}), n)

-----------------------------------------------------------------------------
\* observation

ObservationRow(id, b, text, source, day, about, embedded) ==
    [id |-> id, business |-> b, text |-> text, source |-> source, day |-> day,
     about |-> about, embedded |-> embedded]

Stored(m, row) ==
    Answer([m EXCEPT !.obs = Append(@, row), !.lastId = row.id], row.id)

\* ON CONFLICT (business_id, content_hash) DO NOTHING
InsertObservation(m, b, text, source, day) ==
    IF \E i \in DOMAIN m.obs : /\ m.obs[i].business = b /\ m.obs[i].text = text
                               /\ ~IsChat(m.obs[i])
    THEN Answer(m, Null)
    ELSE Stored(m, ObservationRow(m.lastId + 1, b, text, source, day, Null, TRUE))

\* The rows a WHERE leaves.
Signals(m, b) == {i \in DOMAIN m.obs : m.obs[i].business = b /\ ~IsChat(m.obs[i])}
Said(m, b)    == {i \in DOMAIN m.obs : m.obs[i].business = b /\ IsChat(m.obs[i])}

CountObservations(m, b) == Cardinality(Signals(m, b))

\* The rows, and by ON DELETE CASCADE every citation of them.
PurgeObservations(m, b, source, before) ==
    LET doomed == {i \in DOMAIN m.obs : /\ m.obs[i].business = b /\ m.obs[i].source = source
                                        /\ m.obs[i].day < before}
        gone   == {m.obs[i].id : i \in doomed}
        uncited(row) == [row EXCEPT !.evidence = Pick(@, {k \in DOMAIN @ : @[k] \notin gone})]
    IN  Answer([m EXCEPT !.obs = Pick(@, DOMAIN @ \ doomed),
                         !.find = [f \in DOMAIN @ |-> uncited(@[f])]],
               Cardinality(doomed))

\* The nearest text first.
Nearest(m, S) == RowsAt(m.obs, Sorted(S, LAMBDA i, j : m.obs[i].text < m.obs[j].text))

SearchObservations(m, b, n) ==
    Limit(Nearest(m, {i \in Signals(m, b) : m.obs[i].embedded}), n)

\* ORDER BY observed_at, id.  An id is drawn at random: uuid[k] is the place of
\* the k-th one drawn among them all.
AllObservations(m, b, n, uuid) ==
    LET before(i, j) == \/ m.obs[i].day < m.obs[j].day
                        \/ /\ m.obs[i].day = m.obs[j].day
                           /\ uuid[m.obs[i].id] < uuid[m.obs[j].id]
    IN  Limit(RowsAt(m.obs, Sorted(Signals(m, b), before)), n)

-----------------------------------------------------------------------------
\* The conversation: rows of observation under two sources of its own, never
\* taken for a duplicate, because a sentence said again is said again.

InsertChat(m, b, role, text, day, about, embedded) ==
    IF role \notin {"user", "assistant"} THEN Refused(m)
    ELSE Stored(m, ObservationRow(m.lastId + 1, b, text, ChatSource(role), day,
                                  about, embedded))

\* The newest n, and within one instant the answer after the question, oldest
\* first.
RecentChat(m, b, n, about) ==
    LET hits == {i \in Said(m, b) : about = Null \/ m.obs[i].about = about}
        before(i, j) == \/ m.obs[i].day > m.obs[j].day
                        \/ /\ m.obs[i].day = m.obs[j].day
                           /\ m.obs[i].source = "ask_agent" /\ m.obs[j].source = "owner_chat"
    IN  Reverse(Limit(RowsAt(m.obs, Sorted(hits, before)), n))

SearchChat(m, b, n) ==
    Limit(Nearest(m, {i \in Said(m, b) : m.obs[i].embedded /\ m.obs[i].source = "owner_chat"}),
          n)

CountChat(m, b) == Cardinality(Said(m, b))

-----------------------------------------------------------------------------
\* find and find_evidence

\* A find and its evidence in one transaction: the foreign key of a citation
\* takes the find down with it.
InsertFind(m, b, status, evidence) ==
    IF \/ evidence = <<>>
       \/ ~ToSet(evidence) \subseteq {m.obs[i].id : i \in DOMAIN m.obs}
       \/ ~IsInjective(evidence)
    THEN Refused(m)
    ELSE Answer([m EXCEPT !.find = Append(@, [business |-> b, status |-> status,
                                              evidence |-> evidence])],
                Len(m.find) + 1)

GetFindContext(m, b, f) ==
    IF f \in DOMAIN m.find /\ m.find[f].business = b THEN m.find[f].status ELSE Null

GetFindEvidence(m, f) == IF f \in DOMAIN m.find THEN m.find[f].evidence ELSE <<>>

CountFinds(m, b) == Cardinality({f \in DOMAIN m.find : m.find[f].business = b})

LatestFind(m, b) ==
    LET mine == {f \in DOMAIN m.find : m.find[f].business = b} IN
    IF mine = {} THEN Null ELSE CHOOSE f \in mine : \A g \in mine : g <= f

\* In play first, then what the owner saw, then the rest; newest first in each.
RecentFinds(m, b, n, unseen) ==
    LET shown == {f \in DOMAIN m.find : /\ m.find[f].business = b
                                        /\ unseen \/ m.find[f].status \in SeenByOwner}
        inPlay(f) == m.find[f].status \in Judgeable
        seen(f)   == m.find[f].status \in SeenByOwner
        before(f, g) == \/ inPlay(f) /\ ~inPlay(g)
                        \/ /\ inPlay(f) <=> inPlay(g)
                           /\ \/ seen(f) /\ ~seen(g)
                              \/ (seen(f) <=> seen(g)) /\ f > g
    IN  Limit(Sorted(shown, before), n)
=============================================================================
