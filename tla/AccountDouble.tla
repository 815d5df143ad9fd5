---------------------------- MODULE AccountDouble ----------------------------
(***************************************************************************)
(* InMemoryRepository over the rows of AccountStore: the same calls,       *)
(* translated from the test double's Python instead of from the SQL.  The  *)
(* double keeps dictionaries; _accounts is keyed by the user name and is   *)
(* walked in the order of insertion, which the sequences keep.             *)
(***************************************************************************)
EXTENDS Naturals, Sequences, FiniteSets, Listing

CONSTANT Null

Answer(db, value) == [db |-> db, ans |-> value, ok |-> TRUE]
Refused(db) == [db |-> db, ans |-> Null, ok |-> FALSE]
Rows(table)       == DOMAIN table

\* next((row for row in rows if ...), None)
First(table, P(_)) ==
    LET hits == InOrder({i \in Rows(table) : P(table[i])})
    IN  IF Len(hits) = 0 THEN Null ELSE hits[1]

-----------------------------------------------------------------------------
CreateBusiness(db, located) ==
    Answer([db EXCEPT !.business =
                Append(@, [status |-> "active", profile |-> Null, located |-> located])],
           Len(db.business) + 1)

GetBusiness(db, b) == IF b \notin Rows(db.business) THEN Null ELSE db.business[b]

GetOwnerProfile(db, a, b) ==
    IF \/ a \notin Rows(db.account) \/ b \notin Rows(db.business) THEN Null
    ELSE IF db.account[a].business # b THEN Null
    ELSE [email |-> db.account[a].email, profile |-> db.business[b].profile]

UpdateAccountProfile(db, a, email) ==
    IF a \notin Rows(db.account) THEN Refused(db)
    ELSE Answer([db EXCEPT !.account[a].email = email], Null)

\* The candidates, the preferred account sorted to the front.
OwnerEmail(db, b, preferred) ==
    LET candidates == {i \in Rows(db.account) : /\ db.account[i].business = b
                                                /\ db.account[i].email # Null}
        sorted == InOrder({i \in candidates : i = preferred})
                  \o InOrder({i \in candidates : i # preferred})
    IN  IF Len(sorted) = 0 THEN Null ELSE db.account[sorted[1]].email

UpdateBusinessProfile(db, b, profile, located) ==
    IF b \notin Rows(db.business) THEN Refused(db)
    ELSE Answer([db EXCEPT !.business[b].profile = profile,
                           !.business[b].located = IF located THEN TRUE ELSE @],
                Null)

SetBusinessStatus(db, b, status) ==
    IF b \notin Rows(db.business) THEN Refused(db)
    ELSE Answer([db EXCEPT !.business[b].status = status], Null)

\* active[:limit]
ActiveBusinessIds(db, limit) ==
    Slice(InOrder({b \in Rows(db.business) : db.business[b].status = "active"}), limit)

-----------------------------------------------------------------------------
InsertBusinessFact(db, b, text) ==
    Answer([db EXCEPT !.fact = Append(@, [business |-> b, text |-> text,
                                          managed |-> FALSE, replacedBy |-> Null])],
           Len(db.fact) + 1)

SupersedeBusinessFact(db, i, by) ==
    IF i \notin Rows(db.fact) THEN Refused(db)
    ELSE Answer([db EXCEPT !.fact[i].replacedBy = by], Null)

\* The managed facts that are still current, read before the new ones go in.
OldFacts(db, b) == {i \in Rows(db.fact) : /\ db.fact[i].business = b
                                          /\ db.fact[i].managed
                                          /\ db.fact[i].replacedBy = Null}

\* One insert_business_fact per text, each marked as managed; then the old ones
\* point at the first of the new.
ReplaceProfileFacts(db, b, texts) ==
    LET ids   == [i \in Rows(texts) |-> Len(db.fact) + i]
        after == db.fact \o [i \in Rows(texts) |->
                                [business |-> b, text |-> texts[i],
                                 managed |-> TRUE, replacedBy |-> Null]]
    IN  Answer([db EXCEPT !.fact =
                   IF texts = <<>> THEN after
                   ELSE [i \in Rows(after) |->
                            IF i \in OldFacts(db, b)
                            THEN [after[i] EXCEPT !.replacedBy = ids[1]]
                            ELSE after[i]]],
               ids)

\* sort by learned_at, newest first
GetBusinessFacts(db, b) ==
    LET current == Pick(db.fact, {i \in Rows(db.fact) : /\ db.fact[i].business = b
                                                         /\ db.fact[i].replacedBy = Null})
    IN  [i \in Rows(current) |-> current[Len(current) + 1 - i].text]

InsertOwnerRule(db, b, enabled) ==
    Answer([db EXCEPT !.rule = Append(@, [business |-> b, enabled |-> enabled])],
           Len(db.rule) + 1)

GetOwnerRules(db, b) ==
    InOrder({i \in Rows(db.rule) : db.rule[i].enabled /\ db.rule[i].business = b})

-----------------------------------------------------------------------------
FindAccount(db, name) == First(db.account, LAMBDA row : row.username = name)

FindAccountByProvider(db, provider, subject) ==
    IF subject = Null THEN Null
    ELSE First(db.account, LAMBDA row : <<row.provider, row.subject>> = <<provider, subject>>)

FindAccountById(db, a) == IF a \in Rows(db.account) THEN a ELSE Null

\* A plausible bug: the double forgets the unique index of the external identity.
CreateAccountByNameOnly(db, new) ==
    IF FindAccount(db, new.username) # Null THEN Refused(db)
    ELSE Answer([db EXCEPT !.account = Append(@, new)], Len(db.account) + 1)

CreateAccount(db, new) ==
    IF FindAccount(db, new.username) # Null THEN Refused(db)
    ELSE IF new.subject # Null /\ FindAccountByProvider(db, new.provider, new.subject) # Null
    THEN Refused(db)
    ELSE Answer([db EXCEPT !.account = Append(@, new)], Len(db.account) + 1)

AttachBusiness(db, a, b) ==
    IF a \notin Rows(db.account) THEN Refused(db)
    ELSE Answer([db EXCEPT !.account[a].business = b,
                           !.session = {IF s.account # a THEN s
                                        ELSE [s EXCEPT !.business = b] : s \in @}],
                Null)

-----------------------------------------------------------------------------
SessionOf(db, token) == {s \in db.session : s.token = token}

\* _sessions[token_hash] = ...: no foreign key, and a token is simply replaced.
CreateSession(db, token, a, b) ==
    Answer([db EXCEPT !.session =
                (@ \ SessionOf(db, token))
                \cup {[token |-> token, account |-> a, business |-> b, fresh |-> TRUE]}],
           Null)

AccountForSession(db, token) ==
    IF ~\E s \in SessionOf(db, token) : s.fresh THEN Null
    ELSE LET s == CHOOSE s \in SessionOf(db, token) : TRUE
             a == db.account[s.account]
         IN  [account |-> s.account,
              business |-> IF a.business = Null THEN s.business ELSE a.business,
              admin |-> a.admin]

\* The business of the session alone: the double does not ask the account.
BusinessForSession(db, token) ==
    IF ~\E s \in SessionOf(db, token) : s.fresh THEN Null
    ELSE (CHOOSE s \in SessionOf(db, token) : TRUE).business

DeleteSession(db, token) ==
    Answer([db EXCEPT !.session = @ \ SessionOf(db, token)], Null)

CreateHandoff(db, code, a) ==
    Answer([db EXCEPT !.handoff = {h \in @ : h.code # code}
                \cup {[code |-> code, account |-> a, fresh |-> TRUE]}], Null)

\* _handoffs.pop(code_hash, None)
ConsumeHandoff(db, code) ==
    LET found == {h \in db.handoff : h.code = code} IN
    Answer([db EXCEPT !.handoff = @ \ found],
           IF \E h \in found : h.fresh THEN (CHOOSE h \in found : TRUE).account ELSE Null)

-----------------------------------------------------------------------------
\* _external_connections, keyed by the business (there is one provider).
GetConnection(db, b) ==
    LET found == {c \in db.connection : c.business = b} IN
    IF found = {} THEN Null ELSE CHOOSE c \in found : TRUE

\* Connected again, the double counts from now.
UpsertConnection(db, b, a, offered, location, now) ==
    LET previous == GetConnection(db, b)
        record == [business |-> b, account |-> a, offered |-> offered,
                   location |-> location,
                   since |-> IF location # Null THEN now
                             ELSE IF previous = Null THEN Null ELSE previous.since]
    IN  IF b \notin Rows(db.business) THEN Refused(db)
        ELSE IF a \notin Rows(db.account) THEN Refused(db)
        ELSE IF db.account[a].business # b THEN Refused(db)
        ELSE Answer([db EXCEPT !.connection = {c \in @ : c.business # b} \cup {record}],
                    record)

SelectConnection(db, b, location, now) ==
    LET current == GetConnection(db, b) IN
    IF current = Null THEN Refused(db)
    ELSE IF location \notin current.offered THEN Refused(db)
    ELSE LET selected == [current EXCEPT !.location = location,
                                         !.since = IF @ = Null THEN now ELSE @]
         IN  Answer([db EXCEPT !.connection = {c \in @ : c # current} \cup {selected}],
                    selected)

\* set_account_admin, which the SQL repository does not have.
SetAccountAdmin(db, name, admin) ==
    LET a == FindAccount(db, name) IN
    IF a = Null THEN Refused(db)
    ELSE Answer([db EXCEPT !.account[a].admin = admin], Null)
=============================================================================
