--------------------------- MODULE StoreAgreement ---------------------------
(***************************************************************************)
(* One history of calls made on both implementations of the repository:    *)
(* PostgresRepository, which the deployed system uses, and                 *)
(* InMemoryRepository, which its tests use.                                *)
(*                                                                         *)
(* A guard that is not a bound states what the callers in src/backend keep *)
(* to and the double needs; CONSTANT Loose drops them one at a time.  A    *)
(* history stays in one area: no method of one asks after the rows of      *)
(* another, but that a row of accounts, facts or rules refers to a         *)
(* business (db/schema.sql), which is why each area with such rows can     *)
(* open businesses.                                                        *)
(***************************************************************************)
EXTENDS Naturals, Sequences, FiniteSets, SequencesExt, Listing

CONSTANTS Null,
          Areas,      \* the areas whose calls are made
          Loose,      \* names of the caller's habits that are dropped
          Names, Subjects, Tokens, Codes,   \* user names, identities at Google, secrets
          Ids,        \* ids asked about, of rows there are or not
          Edited,     \* businesses with owners, facts and rules in their profile
          Own, Others,   \* businesses: the one with the work, and others
          Contents,    \* observations
          Days, Periods, Window,   \* days, ends of measured periods, days to wait
          Figures,    \* amounts
          Limits,     \* how many rows a listing may return
          MaxRows,    \* bound on the rows of a table
          MaxClaims,  \* bound on claims of tasks
          MaxCited,   \* bound on the citations of a recommendation
          MaxCycle, MaxRevision   \* bounds on decision cycles and on revisions of a task

ASSUME AgreementAssumption ==
    \* NULL is no number, no decision and none of the rows a caller is given
    /\ Null \notin Nat \cup {"undo_pass", "accepted", "passed", "saved_later"}
    /\ Null \notin [account : Nat, business : Nat \cup Ids \cup Edited \cup {Null}, admin : BOOLEAN]
    /\ Null \notin [business : Ids, account : Ids, offered : SUBSET Ids,
                   location : Ids \cup {Null}, since : Days \cup {Null}]
    /\ Contents \cup Days \cup Periods \cup Limits \cup {Window} \subseteq Nat
    /\ {MaxRows, MaxClaims, MaxCited, MaxCycle, MaxRevision} \subseteq Nat

Bs == {Own} \cup Others

PA == INSTANCE AccountStore
MA == INSTANCE AccountDouble
PM == INSTANCE MemoryStore
MM == INSTANCE MemoryDouble
PW == INSTANCE WorkStore
MW == INSTANCE WorkDouble

VARIABLES area,     \* the area this history is about
          pg,       \* the rows in the database
          mem,      \* the rows in the double
          agreed    \* the last call was answered alike

vars == <<area, pg, mem, agreed>>

\* A published recommendation whose prediction waits to be judged.
Published ==
    LET accepted == PW!SetStatus(PW!NewWork("proposed"), Own, "accepted").w
        started  == PW!StartTool(PW!CreateTask(accepted, Own).w, 1, Own, "post",
                                 <<1, "post">>).w
    IN  PW!FinishTool(started, 1, "succeeded", 1).w

\* A workspace and its owner.
Workspace ==
    LET opened == PA!CreateBusiness(PA!Empty, FALSE).db
        owner  == [username |-> "owner", password |-> TRUE, email |-> Null, business |-> 1,
                   admin |-> FALSE, provider |-> Null, subject |-> Null]
    IN  PA!CreateAccount(opened, owner).db

Starts ==
    [signin   |-> {PA!Empty},
     profile  |-> {PA!Empty},
     connect  |-> {Workspace},
     runs     |-> {PM!NoMemory},
     memory   |-> {PM!NoMemory},
     maker    |-> {PW!NewWork("proposed")},
     tools    |-> {PW!NewWork(s) : s \in {"proposed", "withheld", "accepted"}},
     meter    |-> {Published}]

Init ==
    /\ area \in Areas
    /\ pg \in Starts[area]
    /\ mem = pg
    /\ agreed = TRUE

In(a, p, m, rows, same) ==
    /\ area = a
    /\ pg' = p
    /\ mem' = m
    /\ \A table \in rows : Len(p[table]) <= MaxRows
    /\ agreed' = same
    /\ UNCHANGED area

Alike(p, m) == p.ok = m.ok /\ p.ans = m.ans

Accounts(a, p, m) ==
    In(a, p.db, m.db, {"account", "business", "fact", "rule"}, Alike(p, m))
Memory(a, p, m) == In(a, p.m, m.m, {"run", "obs", "find"}, Alike(p, m))
Work(a, p, m) == In(a, p.w, m.w, {"task", "art", "exec", "mail", "ledger", "outcome"},
                    Alike(p, m))

Is(a)   == area = a

\* The id comes from a session, or from a row just read or written, and none of
\* these rows is ever deleted; the double does not check it, the foreign key does.
Known(id, table) == "dangling" \notin Loose => id \in DOMAIN table

-----------------------------------------------------------------------------
\* Signing in.

NewAccount(name, subject, business) ==
    [username |-> name, password |-> subject = Null, email |-> Null,
     business |-> business, admin |-> FALSE,
     provider |-> IF subject = Null THEN Null ELSE "google", subject |-> subject]

CreateAccount(name, subject) ==
    LET new == NewAccount(name, subject, Null) IN
    Accounts("signin", PA!CreateAccount(pg, new), MA!CreateAccount(mem, new))

AttachBusiness(a, b) ==
    /\ Known(b, pg.business)
    /\ Accounts("signin", PA!AttachBusiness(pg, a, b), MA!AttachBusiness(mem, a, b))

\* A token is minted for an account read before, with the business it had then.
CreateSession(token, a, b) ==
    /\ ~\E s \in pg.session : s.token = token
    /\ a \in DOMAIN pg.account
    /\ b # Null => Known(b, pg.business)
    /\ Accounts("signin", PA!CreateSession(pg, token, a, b),
                          MA!CreateSession(mem, token, a, b))

DeleteSession(token) ==
    Accounts("signin", PA!DeleteSession(pg, token), MA!DeleteSession(mem, token))

CreateHandoff(code, a) ==
    /\ ~\E h \in pg.handoff : h.code = code
    /\ a \in DOMAIN pg.account
    /\ Accounts("signin", PA!CreateHandoff(pg, code, a), MA!CreateHandoff(mem, code, a))

ConsumeHandoff(code) ==
    Accounts("signin", PA!ConsumeHandoff(pg, code), MA!ConsumeHandoff(mem, code))

\* The time of what was minted runs out, in both.
Aged(db) == [db EXCEPT !.session = {[s EXCEPT !.fresh = FALSE] : s \in @},
                       !.handoff = {[h EXCEPT !.fresh = FALSE] : h \in @}]
TimeRunsOut == In("signin", Aged(pg), Aged(mem), {}, TRUE)

SignIn ==
    \/ Accounts("signin", PA!CreateBusiness(pg, FALSE), MA!CreateBusiness(mem, FALSE))
    \/ \E name \in Names, subject \in Subjects \cup {Null} : CreateAccount(name, subject)
    \/ \E a \in Ids, b \in Ids : AttachBusiness(a, b)
    \/ \E token \in Tokens : \/ \E a \in Ids, b \in Ids \cup {Null} : CreateSession(token, a, b)
                            \/ DeleteSession(token)
    \/ \E code \in Codes : \/ \E a \in Ids : CreateHandoff(code, a)
                          \/ ConsumeHandoff(code)
    \/ TimeRunsOut

-----------------------------------------------------------------------------
\* The workspace and its profile.

Profile ==
    LET Both(p, m) == Accounts("profile", p, m) IN
    \/ \E l \in BOOLEAN : Both(PA!CreateBusiness(pg, l), MA!CreateBusiness(mem, l))
    \/ \E b \in Ids, p \in {"p1"}, l \in BOOLEAN :
          Both(PA!UpdateBusinessProfile(pg, b, p, l), MA!UpdateBusinessProfile(mem, b, p, l))
    \/ \E b \in Ids, s \in {"active", "paused"} :
          Both(PA!SetBusinessStatus(pg, b, s), MA!SetBusinessStatus(mem, b, s))
    \/ \E name \in Names, b \in Edited :
          LET new == NewAccount(name, Null, b) IN
          Known(b, pg.business) /\ Both(PA!CreateAccount(pg, new), MA!CreateAccount(mem, new))
    \/ \E a \in Ids, e \in {"e1", "e2"} :
          Both(PA!UpdateAccountProfile(pg, a, e), MA!UpdateAccountProfile(mem, a, e))
    \/ \E b \in Edited :
          /\ Known(b, pg.business)
          /\ Both(PA!InsertBusinessFact(pg, b, "f1"), MA!InsertBusinessFact(mem, b, "f1"))
    \/ \E i \in Ids, by \in Ids :
          /\ Known(by, pg.fact)
          /\ Both(PA!SupersedeBusinessFact(pg, i, by), MA!SupersedeBusinessFact(mem, i, by))
    \/ \E b \in Edited, texts \in {<<>>, <<"f2">>} :
          /\ Known(b, pg.business)
          /\ Both(PA!ReplaceProfileFacts(pg, b, texts), MA!ReplaceProfileFacts(mem, b, texts))
    \/ \E b \in Edited, on \in BOOLEAN :
          /\ Known(b, pg.business)
          /\ Both(PA!InsertOwnerRule(pg, b, on), MA!InsertOwnerRule(mem, b, on))

-----------------------------------------------------------------------------
\* The connection to Google, at two moments; a single location is chosen at once.
\* Connected again, the database keeps the time of the first connection and the
\* double takes the new one, so a connection is compared by whether it has a time.

SinceOrNot(c) == IF c = Null THEN Null ELSE [c EXCEPT !.since = @ # Null]
Faces(connections) == {SinceOrNot(c) : c \in connections}
AsConnected(db) == [db EXCEPT !.connection = Faces(@)]

Connected(p, m) ==
    In("connect", p.db, m.db, {"account", "business"},
       p.ok = m.ok /\ SinceOrNot(p.ans) = SinceOrNot(m.ans))

Connect(b, a, offered, now) ==
    LET location == IF Cardinality(offered) = 1 THEN CHOOSE l \in offered : TRUE ELSE Null
    IN  Connected(PA!UpsertConnection(pg, b, a, offered, location, now),
                  MA!UpsertConnection(mem, b, a, offered, location, now))

Connection ==
    \/ Accounts("connect", PA!CreateBusiness(pg, TRUE), MA!CreateBusiness(mem, TRUE))
    \/ \E b \in Ids, a \in Ids, offered \in (SUBSET Ids) \ {{}}, now \in Days :
          Connect(b, a, offered, now)
    \/ \E b \in Ids, l \in Ids, now \in Days :
          Connected(PA!SelectConnection(pg, b, l, now), MA!SelectConnection(mem, b, l, now))
    \/ \E name \in Names, b \in DOMAIN pg.business :
          Accounts("connect", PA!CreateAccount(pg, NewAccount(name, Null, b)),
                              MA!CreateAccount(mem, NewAccount(name, Null, b)))

-----------------------------------------------------------------------------
\* The runs of the agents, and what they remember.

Runs ==
    \/ Memory("runs", PM!StartRun(pg, Own, "radar"), MM!StartRun(mem, Own, "radar"))
    \/ \E r \in Ids : Memory("runs", PM!FinishRun(pg, r, "succeeded"),
                                     MM!FinishRun(mem, r, "succeeded"))

Chat(b, role, text, day, about, embedded) ==
    \* a question and its answer are stored once at one moment
    /\ ~\E i \in DOMAIN pg.obs : /\ pg.obs[i].business = b /\ pg.obs[i].day = day
                                 /\ pg.obs[i].source = PM!ChatSource(role)
    /\ Memory("memory", PM!InsertChat(pg, b, role, text, day, about, embedded),
                        MM!InsertChat(mem, b, role, text, day, about, embedded))

Purge(b, source, before) ==
    Memory("memory", PM!PurgeObservations(pg, b, source, before),
                     MM!PurgeObservations(mem, b, source, before))

\* Lists of observations, none of them twice (finds.py:894 drops repetitions).
Citations == UNION {{list \in [1..n -> Ids] : IsInjective(list)} : n \in 0..MaxCited}

InsertFind(b, status, evidence) ==
    \* what is cited was retrieved for this business
    /\ \A i \in DOMAIN pg.obs : pg.obs[i].id \in ToSet(evidence) => pg.obs[i].business = b
    /\ Memory("memory", PM!InsertFind(pg, b, status, evidence),
                        MM!InsertFind(mem, b, status, evidence))

Remember ==
    /\ pg.lastId < MaxRows + 1
    /\ \E b \in Bs, text \in Contents, day \in Days :
          Memory("memory", PM!InsertObservation(pg, b, text, "yelp", day),
                           MM!InsertObservation(mem, b, text, "yelp", day))

Recall ==
    \/ Remember
    \/ \E role \in {"user", "assistant"}, day \in Days, about \in Ids \cup {Null} :
          /\ pg.lastId < MaxRows + 1
          /\ Chat(Own, role, day, day, about, about = Null)
    \/ \E before \in Days : Purge(Own, "yelp", before)
    \/ \E b \in Bs, status \in {"proposed", "accepted", "withheld"},
          evidence \in Citations : InsertFind(b, status, evidence)

-----------------------------------------------------------------------------
\* A recommendation at work.

Decide ==
    \/ \E b \in Bs, s \in {"accepted", "rejected", "later"} :
          Work(area, PW!SetStatus(pg, b, s), MW!SetStatus(mem, b, s))
    \/ \E b \in Bs :
          /\ pg.cycle < MaxCycle
          \* refused for what was published, the double keeps the logged approval
          /\ "refused_reopening" \notin Loose =>
                ~(PW!Published(pg) /\ pg.event = <<>>)
          /\ Work(area, PW!Reconsider(pg, b), MW!Reconsider(mem, b))

\* Nobody claims a retry before its time: the dispatcher hands out what is due.
ClaimTask(t) ==
    /\ pg.minted < MaxClaims
    /\ "early_claim" \notin Loose => (t \in DOMAIN pg.task => pg.task[t].due)
    /\ Work("maker", PW!ClaimTask(pg, t), MW!ClaimTask(mem, t))

\* A worker whose task another worker completed brings its own result.
CompleteTask(t, token, output) ==
    /\ "late_result" \notin Loose =>
          (t \in DOMAIN pg.task => pg.task[t].status # "completed")
    /\ Work("maker", PW!CompleteTask(pg, t, token, output),
                     MW!CompleteTask(mem, t, token, output))

Board ==
    \/ Decide
    \/ \E b \in Bs : Work(area, PW!CreateTask(pg, b), MW!CreateTask(mem, b))

Carry ==
    \/ \E t \in Ids :
          \/ ClaimTask(t)
          \/ \E token \in 1..MaxClaims :
                \/ CompleteTask(t, token, IF pg.art = <<>> THEN Null ELSE Len(pg.art))
                \/ \E again \in BOOLEAN :
                      Work("maker", PW!FailTask(pg, t, token, again),
                                    MW!FailTask(mem, t, token, again))
    \/ Work("maker", PW!RecoverStale(pg, 2), MW!RecoverStale(mem, 2))

\* The key of a draft is its task and revision; a revision names the draft before it.
Draft ==
    /\ \E t \in DOMAIN pg.task :
       LET n == pg.task[t].revision
           parent == IF n = 1 THEN Null ELSE pg.task[t].output IN
       Work("maker", PW!InsertArtifact(pg, t, <<t, n>>, n, parent),
                     MW!InsertArtifact(mem, t, <<t, n>>, n, parent))

Revise ==
    /\ \A t \in DOMAIN pg.task : pg.task[t].revision < MaxRevision
    /\ \E b \in Bs : Work("maker", PW!RequestRevision(pg, b), MW!RequestRevision(mem, b))

ReviewTool == "ses.send_review_email"

Act ==
    \/ \E t \in Ids :
          \/ /\ t \in DOMAIN pg.task => pg.task[t].dispatches < 1
             /\ Work("tools", PW!PrepareDispatch(pg, t), MW!PrepareDispatch(mem, t))
          \/ Work("tools", PW!RecordWorkflow(pg, t), MW!RecordWorkflow(mem, t))
    \/ \E t \in Ids, b \in Bs, tool \in {ReviewTool, "post"} :
          LET p == PW!StartTool(pg, t, b, tool, <<t, tool>>)
              m == MW!StartTool(mem, t, b, tool, <<t, tool>>)
          IN  Work("tools", p, m)
    \/ \E x \in Ids, s \in {"succeeded", "failed"} :
          \* a publication is settled once, by the request that started it
          /\ "settled_again" \notin Loose =>
                (x \in DOMAIN pg.exec => \/ pg.exec[x].tool = ReviewTool
                                        \/ pg.exec[x].status = "running")
          /\ Work("tools", PW!FinishTool(pg, x, s, x), MW!FinishTool(mem, x, s, x))
    \/ \E b \in Bs, x \in Ids : Work("tools", PW!MarkExecuted(pg, b, x, 1),
                                              MW!MarkExecuted(mem, b, x, 1))
    \/ \E x \in DOMAIN pg.exec :
          /\ pg.exec[x].tool = ReviewTool
          /\ Work("tools", PW!RecordEmailEvent(pg, "e1", x, x, "open"),
                           MW!RecordEmailEvent(mem, "e1", x, x, "open"))

Older(row) == [row EXCEPT !.due = TRUE, !.expired = @ \/ row.status = "running"]
Later(w) == [w EXCEPT !.task = [t \in DOMAIN @ |-> Older(@[t])]]
TimePasses == In("maker", Later(pg), Later(mem), {}, TRUE)

Make == Board \/ Carry \/ Draft \/ Revise \/ TimePasses

Measure ==
    \/ \E b \in Bs, x \in Ids, day \in Days :
          Work("meter", PW!MarkExecuted(pg, b, x, day), MW!MarkExecuted(mem, b, x, day))
    \/ \E period \in Periods, cents \in Figures \cup {Null} :
          LET v == IF cents = Null THEN "estimated" ELSE "miss" IN
          Work("meter", PW!InsertLedger(pg, period, v, cents),
                        MW!InsertLedger(mem, period, v, cents))
    \/ \E b \in Bs, period \in Periods, cents \in Figures :
          Work("meter", PW!UpdateLedger(pg, b, period, "verified", cents),
                        MW!UpdateLedger(mem, b, period, "verified", cents))
    \/ \E b \in Bs, cents \in Figures :
          Work("meter", PW!RecordOutcome(pg, b, cents), MW!RecordOutcome(mem, b, cents))
    \/ Work("meter", PW!Reconsider(pg, Own), MW!Reconsider(mem, Own))

Next ==
    \/ Is("signin") /\ SignIn
    \/ Is("profile") /\ Profile
    \/ Is("connect") /\ Connection
    \/ Is("runs") /\ Runs
    \/ Is("memory") /\ Recall
    \/ Is("maker") /\ Make
    \/ Is("tools") /\ (Board \/ Act)
    \/ Is("meter") /\ Measure

Spec == Init /\ [][Next]_vars

-----------------------------------------------------------------------------
\* No session with this token was minted from an account that was since attached
\* to another business.
MintedWell(t) == \A s \in pg.session :
    s.token = t => pg.account[s.account].business \in {Null, s.business}

\* Signing in, the profile and the connection to Google: as long as callers name
\* rows there are, the double holds the rows the database holds, answered the last
\* call as the database did, and answers every question of the handlers
\* (FindAccount, AccountForSession, OwnerEmail, GetBusinessFacts, ...) the same, save
\* for the time of a connection made twice, and for the business of a session that
\* was minted from an old reading of its account, if the session alone is asked.
\* repository.py:807: "Implements the same contract, including the parts that are
\* database constraints".
AccountsAgree ==
    area \in {"signin", "profile", "connect"} =>
    /\ agreed /\ AsConnected(pg) = AsConnected(mem)
    /\ \A name \in Names : PA!FindAccount(pg, name) = MA!FindAccount(mem, name)
    /\ \A s \in Subjects \cup {Null} : PA!FindAccountByProvider(pg, "google", s)
                              = MA!FindAccountByProvider(mem, "google", s)
    /\ \A t \in Tokens : /\ PA!AccountForSession(pg, t) = MA!AccountForSession(mem, t)
                         /\ MintedWell(t) =>
                               PA!BusinessForSession(pg, t) = MA!BusinessForSession(mem, t)
    /\ \A a \in Ids, b \in Ids :
          /\ PA!FindAccountById(pg, a) = MA!FindAccountById(mem, a)
          /\ PA!GetOwnerProfile(pg, a, b) = MA!GetOwnerProfile(mem, a, b)
          /\ PA!OwnerEmail(pg, b, a) = MA!OwnerEmail(mem, b, a)
    /\ \A b \in Ids : /\ PA!GetBusiness(pg, b) = MA!GetBusiness(mem, b)
                      /\ SinceOrNot(PA!GetConnection(pg, b))
                           = SinceOrNot(MA!GetConnection(mem, b))
                      /\ PA!GetBusinessFacts(pg, b) = MA!GetBusinessFacts(mem, b)
                      /\ PA!GetOwnerRules(pg, b) = MA!GetOwnerRules(mem, b)
    /\ \A n \in Limits : PA!ActiveBusinessIds(pg, n) = MA!ActiveBusinessIds(mem, n)

Texts(rows) == [i \in DOMAIN rows |-> rows[i].text]
Observed(rows) == [i \in DOMAIN rows |-> rows[i].day]

\* The citations whose observation is stored, in their order: with a purge the rest
\* are gone from the database, and stay in the double, without their content.
StillStored(m, cited) ==
    Pick(cited, {k \in DOMAIN cited : \E i \in DOMAIN m.obs : m.obs[i].id = cited[k]})
AsCited(m) ==
    LET cited(row) == [row EXCEPT !.evidence = StillStored(m, @)]
    IN  [m EXCEPT !.find = [f \in DOMAIN @ |-> cited(@[f])]]

\* The orders in which the random ids of the observations may be.
Uuids == {f \in [1..(MaxRows + 1) -> 1..(MaxRows + 1)] : IsInjective(f)}

\* What the agents remember: the double and the database hold the same runs,
\* observations, conversation and recommendations, and every search, listing
\* and count is the same, in the same order, so that a test of an agent on the
\* double retrieves what the agent will retrieve (repository.py:1159-1394).  Two
\* things differ: a purge takes citations out of the database and empties them in
\* the double, so the citations agree on what is stored; and the whole memory of a
\* business is in an order the double cannot know: the days follow each other
\* alike, and what was observed on one day comes in the order of its ids.
MemoriesAgree ==
    area \in {"runs", "memory"} =>
    /\ agreed /\ pg = AsCited(mem)
    /\ \A b \in Bs, n \in Limits :
          /\ PM!RecentRuns(pg, b, n) = MM!RecentRuns(mem, b, n)
          /\ Texts(PM!SearchObservations(pg, b, n)) = Texts(MM!SearchObservations(mem, b, n))
          /\ LET double == MM!AllObservations(mem, b, n) IN
             \A uuid \in Uuids :
                LET stored == PM!AllObservations(pg, b, n, uuid)
                IN  /\ Observed(stored) = Observed(double)
                    /\ n >= PM!CountObservations(pg, b) => ToSet(stored) = ToSet(double)
          /\ \A about \in Ids \cup {Null} :
                PM!RecentChat(pg, b, n, about) = MM!RecentChat(mem, b, n, about)
          /\ Texts(PM!SearchChat(pg, b, n)) = Texts(MM!SearchChat(mem, b, n))
          /\ \A unseen \in BOOLEAN : PM!RecentFinds(pg, b, n, unseen)
                                    = MM!RecentFinds(mem, b, n, unseen)
    /\ \A b \in Bs : /\ PM!CountObservations(pg, b) = MM!CountObservations(mem, b)
                     /\ PM!CountChat(pg, b) = MM!CountChat(mem, b)
                     /\ PM!CountFinds(pg, b) = MM!CountFinds(mem, b)
                     /\ PM!LatestFind(pg, b) = MM!LatestFind(mem, b)
                     /\ \A f \in Ids : PM!GetFindContext(pg, b, f)
                                     = MM!GetFindContext(mem, b, f)
    /\ \A f \in DOMAIN pg.find :
          PM!GetFindEvidence(pg, f) = StillStored(mem, MM!GetFindEvidence(mem, f))

\* A recommendation at work: decisions, cycles, tasks and their claims, drafts,
\* tools, notices, verdicts and reports are the same rows in the double, every
\* compare-and-set is won and lost by the same caller, and what is due, stale,
\* dispatchable or to be measured again is the same (repository.py:1422-2601).
\* The drafts are compared as a set: every caller searches them.
WorkAgrees ==
    area \in {"maker", "tools", "meter"} =>
    /\ agreed /\ pg = mem
    /\ \A n \in Limits :
          /\ PW!DecisionEvents(pg, n) = MW!DecisionEvents(mem, n)
          /\ \A s \in {{}, {"queued", "retry"}} : PW!ListTasks(pg, s, n) = MW!ListTasks(mem, s, n)
          /\ n > 0 => PW!ListDispatchable(pg, 1, n) = MW!ListDispatchable(mem, 1, n)
          /\ \A t \in Ids : PW!ToolExecutions(pg, t, n) = MW!ToolExecutions(mem, t, n)
    /\ \A t \in Ids : /\ \A b \in Bs : PW!GetTask(pg, t, b) = MW!GetTask(mem, t, b)
                      /\ \A k \in 1..MaxClaims : PW!TaskCanContinue(pg, t, k)
                                                = MW!TaskCanContinue(mem, t, k)
                      /\ \A r \in Ids : PW!ArtifactByKey(pg, <<t, r>>)
                                      = MW!ArtifactByKey(mem, <<t, r>>)
    /\ ToSet(PW!GetArtifacts(pg)) = ToSet(MW!GetArtifacts(mem))
    /\ \A x \in Ids : PW!EmailEvents(pg, x, 2) = MW!EmailEvents(mem, x, 2)
    /\ \A today \in Days \cup {d + Window : d \in Days} : PW!Due(pg, today) = MW!Due(mem, today)
    /\ PW!OutcomeHistory(pg) = MW!OutcomeHistory(mem)
    /\ PW!OutcomeReports(pg) = MW!OutcomeReports(mem)
    /\ PW!Remeasurable(pg) = MW!Remeasurable(mem)
    /\ PW!LedgerSummary(pg) = MW!LedgerSummary(mem)
=============================================================================
