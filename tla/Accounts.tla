------------------------------ MODULE Accounts ------------------------------
(***************************************************************************)
(* Becoming an owner: register, sign in with a password or with Google,    *)
(* set up the workspace, edit the profile, sign out.                       *)
(*                                                                         *)
(* The sign-in Lambdas run in autocommit, so every repository call is a    *)
(* transaction of its own, and two requests interleave between any two of  *)
(* them; signup and the profile editor are one serializable transaction    *)
(* each (handlers/onboarding.py), hence one action.  A request may die     *)
(* before any of its steps.                                                *)
(***************************************************************************)
EXTENDS AccountStore

CONSTANTS Requests,      \* invocations of the sign-in Lambdas
          Tabs,          \* Google sign-ins a browser has under way
          Subjects,      \* the people Google knows
          MaxNames,      \* user names; the address of every person suggests the first
          MaxAccounts,   \* bound on accounts
          MaxTokens,     \* bound on session tokens minted
          MaxCodes,      \* bound on handoff codes minted
          MaxSaves,      \* bound on the profiles written
          Menus          \* the menus a signup may carry

Usernames == 1..MaxNames
AccountIds == 1..MaxAccounts
Tokens == 1..MaxTokens
Codes == 1..MaxCodes
Profiles == [text : 1..MaxSaves, menu : Menus \cup {Null}]

\* The body of a save that has no `menu` key.
Untouched == "untouched"

ASSUME AccountsAssumption ==
    /\ {MaxNames, MaxAccounts, MaxTokens, MaxCodes, MaxSaves} \subseteq Nat
    /\ Null \notin Menus \cup Subjects \cup Profiles \cup Nat
    /\ Untouched \notin Menus \cup {Null}

VARIABLES db,       \* the rows, see AccountStore
          corpus,   \* menu items stored as observations, as <<business, menu>>
          request,  \* [Requests -> program counter and locals]
          tab,      \* [Tabs -> the redirect Google owes that tab]
          minted,   \* how many tokens and codes were issued, and profiles saved
          redeemed, \* history: how often each code was answered with its account
          told      \* history, per business: the menu its owner last sent, and whether
                    \* an edit ever carried one

vars == <<db, corpus, request, tab, minted, redeemed, told>>

Idle == [pc |-> "idle", name |-> Null, account |-> Null, business |-> Null,
         subject |-> Null, intent |-> "register", code |-> Null]

Init ==
    /\ db = Empty
    /\ corpus = {}
    /\ request = [r \in Requests |-> Idle]
    /\ tab = [t \in Tabs |-> Null]
    /\ minted = [tokens |-> 0, codes |-> 0, saves |-> 0]
    /\ redeemed = [c \in Codes |-> 0]
    /\ told = <<>>

Go(r, locals) == request' = [request EXCEPT ![r] = locals]
Leave(r)      == Go(r, Idle)
At(r, pc)     == request[r].pc = pc

-----------------------------------------------------------------------------
\* Registering and signing in with a password.

\* The account row of a registration has a password, that of a Google sign-in
\* the identity instead.
NewRow(r) ==
    [username |-> request[r].name, password |-> request[r].subject = Null,
     provider |-> IF request[r].subject = Null THEN "password" ELSE "google",
     subject |-> request[r].subject, business |-> Null, email |-> Null,
     admin |-> FALSE]

\* The invite was right and the name looks free; a taken name is a 409.
Register(r, name) ==
    /\ At(r, "idle")
    /\ FindAccount(db, name) = Null
    /\ Go(r, [Idle EXCEPT !.pc = "create", !.name = name])
    /\ UNCHANGED <<db, corpus, tab, minted, redeemed, told>>

Created(made) == made.ok

\* create_account; a unique index that answers ends the request with a 500.
Create(r) ==
    LET made == CreateAccount(db, NewRow(r)) IN
    /\ At(r, "create")
    /\ Len(db.account) < MaxAccounts
    /\ db' = made.db
    /\ IF Created(made)
       THEN Go(r, [request[r] EXCEPT !.account = made.ans,
                       !.pc = IF request[r].subject = Null THEN "session" ELSE "handoff"])
       ELSE Leave(r)
    /\ UNCHANGED <<corpus, tab, minted, redeemed, told>>

\* The right password of an account that has one.  The business travels from
\* here to the session.
Login(r, name) ==
    LET a == FindAccount(db, name) IN
    /\ At(r, "idle")
    /\ a # Null
    /\ db.account[a].password
    /\ Go(r, [Idle EXCEPT !.pc = "session", !.account = a,
                          !.business = db.account[a].business])
    /\ UNCHANGED <<db, corpus, tab, minted, redeemed, told>>

OpenSession(r) ==
    LET token == minted.tokens + 1 IN
    /\ At(r, "session")
    /\ token \in Tokens
    /\ db' = CreateSession(db, token, request[r].account, request[r].business).db
    /\ minted' = [minted EXCEPT !.tokens = token]
    /\ Leave(r)
    /\ UNCHANGED <<corpus, tab, redeemed, told>>

Logout(token) ==
    /\ LiveSessions(db, token) # {}
    /\ db' = DeleteSession(db, token).db
    /\ UNCHANGED <<corpus, request, tab, minted, redeemed, told>>

-----------------------------------------------------------------------------
\* Sign in with Google.

\* A plausible bug: the state vouches for an invite nobody was asked for.
VouchedAlways(intent) == TRUE

\* What the signed state says of the invite code.
Vouched(intent) == intent = "register"

\* From the sign-up page with the invite code, or from the sign-in page without:
\* which of the two travels in the signed state.
Start(t, subject, intent) ==
    /\ tab[t] = Null
    /\ tab' = [tab EXCEPT ![t] = [subject |-> subject, intent |-> intent,
                                  invited |-> Vouched(intent)]]
    /\ UNCHANGED <<db, corpus, request, minted, redeemed, told>>

\* The state lives for ten minutes; a cancelled or an expired sign-in is over.
Abandon(t) ==
    /\ tab[t] # Null
    /\ tab' = [tab EXCEPT ![t] = Null]
    /\ UNCHANGED <<db, corpus, request, minted, redeemed, told>>

\* Google's code is exchanged, once, and the identity looked up.
Callback(r, t) ==
    LET who   == tab[t]
        known == FindAccountByProvider(db, "google", who.subject)
        next  == [Idle EXCEPT !.subject = who.subject, !.intent = who.intent]
    IN  /\ At(r, "idle")
        /\ who # Null
        /\ tab' = [tab EXCEPT ![t] = Null]
        /\ CASE known # Null     -> Go(r, [next EXCEPT !.pc = "handoff", !.account = known])
             [] known = Null /\ who.invited -> Go(r, [next EXCEPT !.pc = "suggest"])
             [] OTHER            -> Leave(r)
        /\ UNCHANGED <<db, corpus, minted, redeemed, told>>

\* The first free name; a name once taken stays taken, so the reads one after
\* the other answer what one read of all of them would.
Suggest(r) ==
    LET free == {n \in Usernames : FindAccount(db, n) = Null} IN
    /\ At(r, "suggest")
    /\ free # {}
    /\ Go(r, [request[r] EXCEPT !.pc = "create",
                  !.name = CHOOSE n \in free : \A m \in free : n <= m])
    /\ UNCHANGED <<db, corpus, tab, minted, redeemed, told>>

HandOff(r) ==
    LET code == minted.codes + 1 IN
    /\ At(r, "handoff")
    /\ code \in Codes
    /\ db' = CreateHandoff(db, code, request[r].account).db
    /\ minted' = [minted EXCEPT !.codes = code]
    /\ Leave(r)
    /\ UNCHANGED <<corpus, tab, redeemed, told>>

\* The landing page posts the code back; a page loaded twice posts it twice.
Redeem(r, code) ==
    LET taken == ConsumeHandoff(db, code) IN
    /\ At(r, "idle")
    /\ code <= minted.codes
    /\ db' = taken.db
    /\ IF taken.ans = Null
       THEN Leave(r) /\ UNCHANGED redeemed
       ELSE /\ Go(r, [Idle EXCEPT !.pc = "reload", !.account = taken.ans, !.code = code])
            /\ redeemed' = [redeemed EXCEPT ![code] = @ + 1]
    /\ UNCHANGED <<corpus, tab, minted, told>>

\* find_account_by_id: the business that goes into the session is this one.
Reload(r) ==
    /\ At(r, "reload")
    /\ Go(r, [request[r] EXCEPT !.pc = "session",
                  !.business = db.account[request[r].account].business])
    /\ UNCHANGED <<db, corpus, tab, minted, redeemed, told>>

-----------------------------------------------------------------------------
\* The workspace and its profile.

\* build_profile_facts: the description, then the shape of the menu.
ProfileFacts(p) ==
    IF p.menu = Null THEN <<<<"about", p.text>>>>
    ELSE <<<<"about", p.text>>, <<"menu", p.menu>>>>

MenuRows(b, p) == IF p.menu = Null THEN {} ELSE {<<b, p.menu>>}

\* The account, the business and the profile facts, as both writers save them.
SaveProfile(d, a, b, p, located) ==
    LET contact == UpdateAccountProfile(d, a, p.text).db
        profile == UpdateBusinessProfile(contact, b, p, located).db
    IN  ReplaceProfileFacts(profile, b, ProfileFacts(p)).db

\* A plausible bug: nothing asks whether the account has a workspace.
MaySetUpAgain(who) == who # Null

\* A signed-in account that has no workspace yet; a second one is a 409.
MaySetUp(who) == who # Null /\ who.business = Null

\* One transaction: the business, the profile, the facts, the menu, the rules,
\* and last the account.
Onboard(token, menu, located) ==
    LET who  == AccountForSession(db, token)
        p    == [text |-> minted.saves + 1, menu |-> menu]
        made == CreateBusiness(db, located)
        b    == made.ans
        full == InsertOwnerRule(SaveProfile(made.db, who.account, b, p, located), b, TRUE).db
    IN  /\ MaySetUp(who)
        /\ p \in Profiles
        /\ db' = AttachBusiness(full, who.account, b).db
        /\ corpus' = corpus \cup MenuRows(b, p)
        /\ told' = Append(told, [menu |-> menu, edited |-> FALSE])
        /\ minted' = [minted EXCEPT !.saves = @ + 1]
        /\ UNCHANGED <<request, tab, redeemed>>

\* A plausible bug: the editor sends no menu, so there is none any more.
KeptMenuForgotten(who) == Null

\* The menu of a save that does not mention it: the stored one.
KeptMenu(who) ==
    LET stored == GetOwnerProfile(db, who.account, who.business).profile
    IN  IF stored = Null THEN Null ELSE stored.menu

\* A menu that is sent replaces the stored one, and an explicit null clears it;
\* no observation is written or taken away.
UpdateProfile(token, sent, located) ==
    LET who == AccountForSession(db, token)
        p   == [text |-> minted.saves + 1,
                menu |-> IF sent = Untouched THEN KeptMenu(who) ELSE sent]
    IN  /\ who # Null
        /\ who.business # Null
        /\ minted.saves < MaxSaves
        /\ db' = SaveProfile(db, who.account, who.business, p, located)
        /\ told' = IF sent = Untouched THEN told
                   ELSE [told EXCEPT ![who.business] = [menu |-> sent, edited |-> TRUE]]
        /\ minted' = [minted EXCEPT !.saves = @ + 1]
        /\ UNCHANGED <<corpus, request, tab, redeemed>>

-----------------------------------------------------------------------------
\* Time and failure.

SessionExpires(s) ==
    /\ s.fresh
    /\ db' = [db EXCEPT !.session = (@ \ {s}) \cup {[s EXCEPT !.fresh = FALSE]}]
    /\ UNCHANGED <<corpus, request, tab, minted, redeemed, told>>

HandoffExpires(h) ==
    /\ h.fresh
    /\ db' = [db EXCEPT !.handoff = (@ \ {h}) \cup {[h EXCEPT !.fresh = FALSE]}]
    /\ UNCHANGED <<corpus, request, tab, minted, redeemed, told>>

Crash(r) ==
    /\ ~At(r, "idle")
    /\ Leave(r)
    /\ UNCHANGED <<db, corpus, tab, minted, redeemed, told>>

\* What a request does next, once it has begun.
Serve(r) == Create(r) \/ OpenSession(r) \/ Suggest(r) \/ HandOff(r) \/ Reload(r)

Next ==
    \/ \E r \in Requests :
          \/ \E n \in Usernames : Register(r, n) \/ Login(r, n)
          \/ \E t \in Tabs : Callback(r, t)
          \/ \E c \in Codes : Redeem(r, c)
          \/ Serve(r)
          \/ Crash(r)
    \/ \E t \in Tabs : \/ Abandon(t)
                       \/ \E s \in Subjects, i \in {"register", "login"} : Start(t, s, i)
    \/ \E token \in Tokens :
          \/ Logout(token)
          \/ \E located \in BOOLEAN :
                \/ \E m \in Menus \cup {Null} : Onboard(token, m, located)
                \/ \E sent \in Menus \cup {Null, Untouched} :
                      UpdateProfile(token, sent, located)
    \/ \E s \in db.session : SessionExpires(s)
    \/ \E h \in db.handoff : HandoffExpires(h)

Spec == Init /\ [][Next]_vars

\* A request the platform has started runs on; what an owner does is up to her.
FairSpec == Spec /\ \A r \in Requests : WF_vars(Serve(r))
-----------------------------------------------------------------------------
\* Properties.

AccountRow == [username : Usernames, password : BOOLEAN,
               provider : {"password", "google"}, subject : Subjects \cup {Null},
               business : Nat \cup {Null}, email : Nat \cup {Null}, admin : BOOLEAN]

BusinessRow == [status : {"active"}, profile : Profiles, located : BOOLEAN]

SessionRow == [token : Tokens, account : Nat, business : Nat \cup {Null}, fresh : BOOLEAN]

HandoffRow == [code : Codes, account : Nat, fresh : BOOLEAN]

Request == [pc : {"idle", "create", "suggest", "handoff", "reload", "session"},
            name : Usernames \cup {Null}, account : Nat \cup {Null},
            business : Nat \cup {Null}, subject : Subjects \cup {Null},
            intent : {"register", "login"}, code : Codes \cup {Null}]

\* Types, and the foreign keys of owner_account, owner_session, oauth_handoff and
\* of the locals of a request: none points at a row that is not there
\* (handlers/login.py, register.py, oauth_google.py, onboarding.py).
TypeOK ==
    /\ \A a \in Rows(db.account) :
          /\ db.account[a] \in AccountRow
          /\ db.account[a].business \in Rows(db.business) \cup {Null}
    /\ \A b \in Rows(db.business) : db.business[b] \in BusinessRow
    /\ \A s \in db.session : s \in SessionRow /\ s.account \in Rows(db.account)
    /\ \A h \in db.handoff : h \in HandoffRow /\ h.account \in Rows(db.account)
    /\ \A r \in Requests :
          /\ request[r] \in Request
          /\ request[r].account \in Rows(db.account) \cup {Null}
          /\ At(r, "session") \/ At(r, "handoff") \/ At(r, "reload") =>
                request[r].account # Null

\* Two accounts never share a user name or a Google identity, although a name
\* and an identity are looked up in one transaction and inserted in a later one:
\* of two first sign-ins of one person, or of two registrations of one name, one
\* gets the account and the other an error (handlers/register.py:69,
\* handlers/oauth_google.py:237).
KeysUnique ==
    \A a, b \in Rows(db.account) :
        \/ a = b
        \/ /\ db.account[a].username # db.account[b].username
           /\ db.account[a].subject = Null \/ db.account[a].subject # db.account[b].subject

\* A handoff code is worth one session: of the pages that post it, at once or one
\* after the other, before or after it expired, at most one is answered with the
\* account (handlers/oauth_google.py:290, repository_pg.py:487).
CodeRedeemedOnce == \A c \in Codes : redeemed[c] <= 1

\* Whoever comes in through the sign-in page gets in only if she has an account:
\* a Google account is created by a request whose sign-in began on the page that
\* asked for the invite code, however long it took and whatever else happened in
\* between (handlers/oauth_google.py:162 and 237).
GoogleAccountsInvited ==
    [][\A a \in Rows(db'.account) \ Rows(db.account) :
          db'.account[a].provider = "google" =>
              \E r \in Requests : /\ At(r, "create")
                                  /\ request[r].intent = "register"
                                  /\ request[r].subject = db'.account[a].subject]_vars

\* Every business has exactly one owner: signup never leaves one behind, and no
\* account ever gets a second (handlers/onboarding.py:90 and 151).
OneOwnerPerBusiness ==
    \A b \in Rows(db.business) :
        Cardinality({a \in Rows(db.account) : db.account[a].business = b}) = 1

\* Whoever is signed in works on the business of her account, including in a
\* session whose request read the account before signup attached the business
\* and stored it afterwards (repository_pg.py:383, 396 and 432).
SessionSeesAccount ==
    \A s \in db.session :
        s.fresh => AccountForSession(db, s.token).business = db.account[s.account].business

\* What the Analyst reads of a business is what its owner last saved: the current
\* facts are those of the stored profile, each once; the menu of the profile is
\* the one its owner last sent, which no save that says nothing of menus loses;
\* and until an edit carries a menu, that menu is the one whose items can be
\* retrieved (handlers/profile.py:77, onboarding.py:146).
ProfileCoherent ==
    \A b \in Rows(db.business) :
        LET p == db.business[b].profile IN
        /\ {db.fact[i].text : i \in CurrentFacts(db, b)}
              = {ProfileFacts(p)[k] : k \in DOMAIN ProfileFacts(p)}
        /\ Cardinality(CurrentFacts(db, b)) = Len(ProfileFacts(p))
        /\ p.menu = told[b].menu
        /\ ~told[b].edited => {m \in Menus : <<b, m>> \in corpus} = {p.menu} \ {Null}

\* purge_expired_handoffs says that a code nobody redeemed goes with the nightly
\* run (repository_pg.py:510).
ExpiredCodesGo ==
    \A c \in Codes :
        (\E h \in db.handoff : h.code = c /\ ~h.fresh) ~> (~\E h \in db.handoff : h.code = c)
=============================================================================
