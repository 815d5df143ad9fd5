---------------------------- MODULE AccountStore ----------------------------
(***************************************************************************)
(* The rows behind sign-in and the owner's profile, and the methods of     *)
(* PostgresRepository over them, each an operator from the stored rows to  *)
(* the rows it leaves and the value it answers.                            *)
(*                                                                         *)
(* Rows that are only ever added are sequences, so that an id is a         *)
(* position and created_at is the order of the positions; sessions and     *)
(* handoff codes, which are deleted, and connections, one per business,    *)
(* are sets.  A password is reduced to   *)
(* whether there is one, a point in time to whether it has come (fresh),   *)
(* a profile to the version of its text and to its menu.                   *)
(***************************************************************************)
EXTENDS Naturals, Sequences, FiniteSets, Listing

CONSTANT Null   \* NULL in a column, None in Python

Empty == [account |-> <<>>, business |-> <<>>, session |-> {}, handoff |-> {},
          fact |-> <<>>, rule |-> <<>>, connection |-> {}]

Rows(table) == DOMAIN table

\* What a call leaves and what it answers.
Answer(db, value) == [db |-> db, ans |-> value, ok |-> TRUE]

\* RepositoryError, or the driver's own error: the statement changed nothing.
Refused(db) == [db |-> db, ans |-> Null, ok |-> FALSE]

\* COALESCE(x, y)
Coalesce(x, y) == IF x # Null THEN x ELSE y

\* The oldest row with the property, or none.
Oldest(table, P(_)) ==
    LET hits == {i \in Rows(table) : P(table[i])} IN
    IF hits = {} THEN Null ELSE CHOOSE i \in hits : \A j \in hits : i <= j

\* REFERENCES: the foreign key names a row, or is NULL where the column may be.
Exists(table, id)   == id \in Rows(table)
NullOr(table, id)   == id = Null \/ Exists(table, id)

-----------------------------------------------------------------------------
\* Businesses and their profiles.

CreateBusiness(db, located) ==
    Answer([db EXCEPT !.business =
                Append(@, [status |-> "active", profile |-> Null, located |-> located])],
           Len(db.business) + 1)

GetBusiness(db, b) == IF b \in Rows(db.business) THEN db.business[b] ELSE Null

GetOwnerProfile(db, a, b) ==
    IF /\ a \in Rows(db.account) /\ b \in Rows(db.business)
       /\ db.account[a].business = b
    THEN [email |-> db.account[a].email, profile |-> db.business[b].profile]
    ELSE Null

UpdateAccountProfile(db, a, email) ==
    IF a \in Rows(db.account)
    THEN Answer([db EXCEPT !.account[a].email = email], Null)
    ELSE Refused(db)

OwnerEmail(db, b, preferred) ==
    LET has(a) == db.account[a].business = b /\ db.account[a].email # Null
        a      == IF preferred \in Rows(db.account) /\ has(preferred)
                  THEN preferred
                  ELSE Oldest(db.account,
                              LAMBDA row : row.business = b /\ row.email # Null)
    IN  IF a = Null THEN Null ELSE db.account[a].email

\* A profile that could not be located keeps the coordinates it had.
UpdateBusinessProfile(db, b, profile, located) ==
    IF b \in Rows(db.business)
    THEN Answer([db EXCEPT !.business[b].profile = profile,
                           !.business[b].located = @ \/ located], Null)
    ELSE Refused(db)

SetBusinessStatus(db, b, status) ==
    IF b \in Rows(db.business)
    THEN Answer([db EXCEPT !.business[b].status = status], Null)
    ELSE Refused(db)

\* Oldest first, at most limit of them.
ActiveBusinessIds(db, limit) ==
    Limit(InOrder({b \in Rows(db.business) : db.business[b].status = "active"}), limit)

-----------------------------------------------------------------------------
\* Facts and rules.

CurrentFacts(db, b) == {i \in Rows(db.fact) : db.fact[i].business = b
                                              /\ db.fact[i].replacedBy = Null}

FactRow(b, text, managed) ==
    [business |-> b, text |-> text, managed |-> managed, replacedBy |-> Null]

InsertBusinessFact(db, b, text) ==
    IF Exists(db.business, b)
    THEN Answer([db EXCEPT !.fact = Append(@, FactRow(b, text, FALSE))],
                Len(db.fact) + 1)
    ELSE Refused(db)

SupersedeBusinessFact(db, i, by) ==
    IF Exists(db.fact, i) /\ NullOr(db.fact, by)
    THEN Answer([db EXCEPT !.fact[i].replacedBy = by], Null)
    ELSE Refused(db)

\* The facts a profile save wrote before are replaced by the ones it writes now;
\* with nothing to write the old ones stay.
ReplaceProfileFacts(db, b, texts) ==
    LET old   == {i \in CurrentFacts(db, b) : db.fact[i].managed}
        first == Len(db.fact) + 1
        kept  == [i \in Rows(db.fact) |->
                     IF i \in old /\ texts # <<>>
                     THEN [db.fact[i] EXCEPT !.replacedBy = first]
                     ELSE db.fact[i]]
        new   == [i \in Rows(texts) |-> FactRow(b, texts[i], TRUE)]
    IN  IF texts = <<>> \/ Exists(db.business, b)
        THEN Answer([db EXCEPT !.fact = kept \o new],
                    [i \in Rows(texts) |-> Len(db.fact) + i])
        ELSE Refused(db)

\* Newest first.
GetBusinessFacts(db, b) ==
    LET rows == RowsAt(db.fact, Newest(CurrentFacts(db, b)))
    IN  [i \in DOMAIN rows |-> rows[i].text]

InsertOwnerRule(db, b, enabled) ==
    IF Exists(db.business, b)
    THEN Answer([db EXCEPT !.rule = Append(@, [business |-> b, enabled |-> enabled])],
                Len(db.rule) + 1)
    ELSE Refused(db)

GetOwnerRules(db, b) ==
    InOrder({i \in Rows(db.rule) : db.rule[i].business = b /\ db.rule[i].enabled})

-----------------------------------------------------------------------------
\* Accounts.

FindAccount(db, name) == Oldest(db.account, LAMBDA row : row.username = name)

FindAccountByProvider(db, provider, subject) ==
    IF subject = Null THEN Null
    ELSE Oldest(db.account, LAMBDA row : /\ row.provider = provider
                                         /\ row.subject = subject)

FindAccountById(db, a) == IF a \in Rows(db.account) THEN a ELSE Null

\* A plausible bug: owner_account_provider_idx is not there.
CreateAccountNameOnly(db, new) ==
    IF FindAccount(db, new.username) # Null THEN Refused(db)
    ELSE Answer([db EXCEPT !.account = Append(@, new)], Len(db.account) + 1)

\* The name is looked up; the unique index of the external identity answers for
\* a second account of one person, the foreign key for a business there is not.
CreateAccount(db, new) ==
    IF \/ FindAccount(db, new.username) # Null
       \/ FindAccountByProvider(db, new.provider, new.subject) # Null
       \/ ~NullOr(db.business, new.business)
    THEN Refused(db)
    ELSE Answer([db EXCEPT !.account = Append(@, new)], Len(db.account) + 1)

AttachBusiness(db, a, b) ==
    IF Exists(db.account, a) /\ Exists(db.business, b)
    THEN Answer([db EXCEPT !.account[a].business = b,
                           !.session = {IF s.account = a
                                        THEN [s EXCEPT !.business = b] ELSE s : s \in @}],
                Null)
    ELSE Refused(db)

-----------------------------------------------------------------------------
\* Sessions and handoff codes.

LiveSessions(db, token) == {s \in db.session : s.token = token /\ s.fresh}

CreateSession(db, token, a, b) ==
    IF \/ \E s \in db.session : s.token = token
       \/ ~Exists(db.account, a)
       \/ ~NullOr(db.business, b)
    THEN Refused(db)
    ELSE Answer([db EXCEPT !.session =
                    @ \cup {[token |-> token, account |-> a, business |-> b,
                             fresh |-> TRUE]}], Null)

\* A plausible bug: the business is the one the session was opened with.
AccountForSessionAsOpened(db, token) ==
    LET live == LiveSessions(db, token) IN
    IF live = {} THEN Null
    ELSE LET s == CHOOSE s \in live : TRUE IN
         [account |-> s.account, business |-> s.business,
          admin |-> db.account[s.account].admin]

\* The account is authoritative for the business and for the operator flag.
AccountForSession(db, token) ==
    LET live == LiveSessions(db, token) IN
    IF live = {} THEN Null
    ELSE LET s == CHOOSE s \in live : TRUE
             a == db.account[s.account]
         IN  [account |-> s.account, business |-> Coalesce(a.business, s.business),
              admin |-> a.admin]

BusinessForSession(db, token) ==
    LET who == AccountForSession(db, token) IN
    IF who = Null THEN Null ELSE who.business

DeleteSession(db, token) ==
    Answer([db EXCEPT !.session = {s \in @ : s.token # token}], Null)

CreateHandoff(db, code, a) ==
    IF \/ \E h \in db.handoff : h.code = code
       \/ ~Exists(db.account, a)
    THEN Refused(db)
    ELSE Answer([db EXCEPT !.handoff = @ \cup {[code |-> code, account |-> a,
                                                fresh |-> TRUE]}], Null)

\* A plausible bug: the code is read, and deleted by nobody.
ConsumeHandoffReadOnly(db, code) ==
    LET fresh == {h \in db.handoff : h.code = code /\ h.fresh} IN
    Answer(db, IF fresh = {} THEN Null ELSE (CHOOSE h \in fresh : TRUE).account)

\* DELETE ... RETURNING: the code is gone whether or not it was still good.
ConsumeHandoff(db, code) ==
    LET fresh == {h \in db.handoff : h.code = code /\ h.fresh} IN
    Answer([db EXCEPT !.handoff = {h \in @ : h.code # code}],
           IF fresh = {} THEN Null ELSE (CHOOSE h \in fresh : TRUE).account)

PurgeExpiredHandoffs(db) ==
    Answer([db EXCEPT !.handoff = {h \in @ : h.fresh}],
           Cardinality({h \in db.handoff : ~h.fresh}))

-----------------------------------------------------------------------------
\* The connection of a business to Google: the account that made it, what it
\* offers, what was chosen (status is 'connected' exactly then) and since when.

ConnectionsOf(db, b) == {c \in db.connection : c.business = b}

GetConnection(db, b) ==
    IF ConnectionsOf(db, b) = {} THEN Null ELSE CHOOSE c \in ConnectionsOf(db, b) : TRUE

\* INSERT ... ON CONFLICT DO UPDATE: connected_at is that of the first time.
UpsertConnection(db, b, a, offered, location, now) ==
    LET old   == GetConnection(db, b)
        since == IF old = Null THEN Null ELSE old.since
        new   == [business |-> b, account |-> a, offered |-> offered,
                  location |-> location,
                  since |-> IF location = Null THEN since ELSE Coalesce(since, now)]
    IN  IF a \in Rows(db.account) /\ db.account[a].business = b
        THEN Answer([db EXCEPT !.connection = (@ \ {old}) \cup {new}], new)
        ELSE Refused(db)

SelectConnection(db, b, location, now) ==
    LET old == GetConnection(db, b)
        new == [old EXCEPT !.location = location, !.since = Coalesce(@, now)]
    IN  IF old # Null /\ location \in old.offered
        THEN Answer([db EXCEPT !.connection = (@ \ {old}) \cup {new}], new)
        ELSE Refused(db)

=============================================================================
