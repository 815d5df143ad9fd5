--------------------------- MODULE AccountsProofs ---------------------------
(***************************************************************************)
(* Theorems about accounts, sessions and profiles, for any number of       *)
(* requests, browser tabs, people, names, rows and edits.  The invariants  *)
(* the runs check are not inductive: they rest on what a request holds     *)
(* between two of its transactions (Held), on every token and code       *)
(* having been minted once (SessionsHeld, CodesHeld), and on every current *)
(* fact being one a profile save wrote (FactsHeld).                        *)
(***************************************************************************)
EXTENDS Accounts, TLAPS, SequenceTheorems, FiniteSetTheorems, WellFoundedInduction

Pcs == {"idle", "create", "suggest", "handoff", "reload", "session"}

Texts == ({"about"} \X Nat) \cup ({"menu"} \X Menus)

FactRows == [business : Nat, text : Texts, managed : BOOLEAN, replacedBy : Nat \cup {Null}]

RuleRows == [business : Nat, enabled : BOOLEAN]

Tables == [account : Seq(AccountRow), business : Seq(BusinessRow),
           session : SUBSET SessionRow, handoff : SUBSET HandoffRow,
           fact : Seq(FactRows), rule : Seq(RuleRows), connection : {{}}]

\* What an owner last said of her menu, and whether an edit ever did.
Sent == [menu : Menus \cup {Null}, edited : BOOLEAN]

Redirects == [subject : Subjects, intent : {"register", "login"}, invited : BOOLEAN]

Types ==
    /\ db \in Tables
    /\ corpus \subseteq Nat \X Menus
    /\ request \in [Requests -> Request]
    /\ tab \in [Tabs -> Redirects \cup {Null}]
    /\ minted \in [tokens : 0..MaxTokens, codes : 0..MaxCodes, saves : 0..MaxSaves]
    /\ redeemed \in [Codes -> Nat]
    /\ told \in Seq(Sent)

\* An account is Google's exactly when it has an identity there.
AccountsHeld ==
    /\ \A a \in Rows(db.account) :
          /\ db.account[a].subject # Null <=> db.account[a].provider = "google"
          /\ db.account[a].business \in Rows(db.business) \cup {Null}
    /\ KeysUnique

\* One owner, said without counting.
OwnersHeld ==
    /\ \A b \in Rows(db.business) : \E a \in Rows(db.account) : db.account[a].business = b
    /\ \A a, c \in Rows(db.account) :
          db.account[a].business = db.account[c].business /\ a # c =>
              db.account[a].business = Null

\* What a session or a request knows of the business of its account is its
\* business, or nothing yet.
SessionsHeld ==
    /\ \A s \in db.session :
          /\ s.token <= minted.tokens
          /\ s.account \in Rows(db.account)
          /\ s.business \in {Null, db.account[s.account].business}
    /\ \A s, u \in db.session : s.token = u.token => s = u

CodesHeld ==
    /\ \A h \in db.handoff :
          /\ h.code <= minted.codes
          /\ h.account \in Rows(db.account)
          /\ redeemed[h.code] = 0
    /\ \A h, g \in db.handoff : h.code = g.code => h = g
    /\ \A c \in Codes : /\ redeemed[c] <= 1
                        /\ c > minted.codes => redeemed[c] = 0

\* What a request may hold between two of its transactions, the rows being d.
Held(d, q) ==
    /\ q.account \in Rows(d.account) \cup {Null}
    /\ q.pc \in {"session", "handoff", "reload"} => q.account # Null
    /\ q.pc = "session" => q.business \in {Null, d.account[q.account].business}
    /\ q.pc = "create" => q.name # Null
    /\ q.pc \in {"create", "suggest"} => q.intent = "register" /\ q.business = Null
    /\ q.pc = "suggest" => q.subject # Null

TabsHeld == \A t \in Tabs : tab[t] # Null => (tab[t].invited <=> tab[t].intent = "register")

\* The facts of a business are those of its profile, and so is its menu.
FactsHeld ==
    /\ \A i \in Rows(db.fact) : db.fact[i].managed /\ db.fact[i].business \in Rows(db.business)
    /\ \A m \in corpus : m[1] \in Rows(db.business)
    /\ Rows(told) = Rows(db.business)

IInv == /\ Types /\ AccountsHeld /\ OwnersHeld /\ SessionsHeld /\ CodesHeld
        /\ TabsHeld /\ FactsHeld /\ ProfileCoherent
        /\ \A r \in Requests : Held(db, request[r])

-----------------------------------------------------------------------------
\* Rows, and looking for one.

LEMMA Least ==
    ASSUME NEW S, S \subseteq Nat, S # {}
    PROVE  \E i \in S : \A j \in S : i <= j
<1> DEFINE L == OpToRel(<, Nat)
<1>1. IsWellFoundedOn(L, Nat)
  BY NatLessThanWellFounded
<1>2. \A i, j \in Nat : i < j => <<i, j>> \in L
  BY DEF OpToRel
<1> HIDE DEF L
<1>3. \E i \in S : \A j \in S : ~ (<<j, i>> \in L)
  BY <1>1, WFMin, Zenon
<1>4. PICK i \in S : \A j \in S : ~ (<<j, i>> \in L)
  BY <1>3
<1>5. ASSUME NEW j \in S  PROVE i <= j
  <2>1. i \in Nat /\ j \in Nat /\ ~(<<j, i>> \in L)
    BY <1>4
  <2>2. ~(j < i)
    BY <2>1, <1>2
  <2> QED
    BY <2>1, <2>2
<1> QED
  BY <1>5

LEMMA RowsOf ==
    ASSUME NEW S, NEW t \in Seq(S)
    PROVE  /\ Rows(t) = 1..Len(t) /\ Len(t) \in Nat
           /\ \A i \in Rows(t) : t[i] \in S
           /\ Null \notin Rows(t)
  BY LenProperties, ElementOfSeq, AccountsAssumption DEF Rows

\* u is t with the row e behind it.
IsAppend(S, t, e, u) ==
    /\ u \in Seq(S)
    /\ Rows(u) = Rows(t) \cup {Len(t) + 1}
    /\ Len(t) + 1 \notin Rows(t)
    /\ u[Len(t) + 1] = e
    /\ \A i \in Rows(t) : u[i] = t[i]

LEMMA Appended ==
    ASSUME NEW S, NEW t \in Seq(S), NEW e \in S
    PROVE  IsAppend(S, t, e, Append(t, e))
<1>1. /\ Append(t, e) \in Seq(S) /\ Len(Append(t, e)) = Len(t) + 1
      /\ Append(t, e)[Len(t) + 1] = e
      /\ \A i \in 1..Len(t) : Append(t, e)[i] = t[i]
  BY AppendProperties
<1>2. Rows(Append(t, e)) = 1..(Len(t) + 1)
  BY <1>1, RowsOf
<1>3. Rows(t) = 1..Len(t) /\ Len(t) \in Nat
  BY RowsOf
<1> QED
  BY <1>1, <1>2, <1>3 DEF IsAppend

\* u is t with the row i replaced by e.
IsChange(S, t, i, e, u) ==
    /\ u \in Seq(S)
    /\ Rows(u) = Rows(t)
    /\ \A j \in Rows(t) : u[j] = IF j = i THEN e ELSE t[j]

LEMMA Changed ==
    ASSUME NEW S, NEW t \in Seq(S), NEW i \in Rows(t), NEW e \in S
    PROVE  IsChange(S, t, i, e, [t EXCEPT ![i] = e])
<1>1. Rows(t) = 1..Len(t)
  BY RowsOf
<1> QED
  BY <1>1, ExceptSeq DEF Rows, IsChange

LEMMA SeqOfMap ==
    ASSUME NEW S, NEW n \in Nat, NEW f \in [1..n -> S]
    PROVE  f \in Seq(S) /\ Len(f) = n
<1>1. f \in Seq(S)
  BY SeqDef
<1>2. Len(f) \in Nat /\ DOMAIN f = 1..Len(f)
  BY <1>1, LenProperties
<1> QED
  BY <1>1, <1>2

\* One row or two, behind the ones there are.
Extends(S, s, t) ==
    /\ s \o t \in Seq(S)
    /\ Len(t) = 1 => Rows(s \o t) = Rows(s) \cup {Len(s) + 1}
    /\ Len(t) = 2 => /\ Rows(s \o t) = Rows(s) \cup {Len(s) + 1, Len(s) + 2}
                     /\ (s \o t)[Len(s) + 2] = t[2]
    /\ (s \o t)[Len(s) + 1] = t[1]
    /\ \A i \in Rows(s) : (s \o t)[i] = s[i]

LEMMA Joined ==
    ASSUME NEW S, NEW s \in Seq(S), NEW t \in Seq(S), Len(t) \in {1, 2}
    PROVE  Extends(S, s, t)
<1>1. Len(s) \in Nat /\ Rows(s) = 1..Len(s)
  BY RowsOf
<1>2. s \o t \in Seq(S) /\ Len(s \o t) = Len(s) + Len(t)
  BY ConcatProperties
<1>3. \A i \in 1..(Len(s) + Len(t)) :
         (s \o t)[i] = IF i <= Len(s) THEN s[i] ELSE t[i - Len(s)]
  BY ConcatProperties
<1>4. Rows(s \o t) = 1..(Len(s) + Len(t))
  BY <1>2, RowsOf
<1> QED
  BY <1>1, <1>2, <1>3, <1>4 DEF Extends

\* A name is found where an account has it, and nowhere else.
LEMMA FindAccountFinds ==
    ASSUME NEW d, NEW S, d.account \in Seq(S), NEW name
    PROVE  \/ /\ FindAccount(d, name) = Null
              /\ \A a \in Rows(d.account) : d.account[a].username # name
           \/ /\ FindAccount(d, name) \in Rows(d.account)
              /\ FindAccount(d, name) # Null
              /\ d.account[FindAccount(d, name)].username = name
<1> DEFINE hits == {i \in Rows(d.account) : d.account[i].username = name}
<1>1. FindAccount(d, name) =
        IF hits = {} THEN Null ELSE CHOOSE i \in hits : \A j \in hits : i <= j
  BY DEF FindAccount, Oldest
<1>2. hits \subseteq Nat /\ Null \notin Rows(d.account)
  BY RowsOf
<1>3. hits # {} => \E i \in hits : \A j \in hits : i <= j
  BY <1>2, Least
<1>4. hits # {} => (CHOOSE i \in hits : \A j \in hits : i <= j) \in hits
  BY <1>3
<1> QED
  BY <1>1, <1>2, <1>4

LEMMA FindByProviderFinds ==
    ASSUME NEW d, NEW S, d.account \in Seq(S), NEW provider, NEW subject
    PROVE  \/ /\ FindAccountByProvider(d, provider, subject) = Null
              /\ subject # Null => \A a \in Rows(d.account) :
                    ~(d.account[a].provider = provider /\ d.account[a].subject = subject)
           \/ /\ FindAccountByProvider(d, provider, subject) \in Rows(d.account)
              /\ FindAccountByProvider(d, provider, subject) # Null
<1> DEFINE hits == {i \in Rows(d.account) : /\ d.account[i].provider = provider
                                            /\ d.account[i].subject = subject}
<1>1. FindAccountByProvider(d, provider, subject) =
        IF subject = Null \/ hits = {} THEN Null
        ELSE CHOOSE i \in hits : \A j \in hits : i <= j
  BY DEF FindAccountByProvider, Oldest
<1>2. hits \subseteq Nat /\ Null \notin Rows(d.account)
  BY RowsOf
<1>3. hits # {} => \E i \in hits : \A j \in hits : i <= j
  BY <1>2, Least
<1>4. hits # {} => (CHOOSE i \in hits : \A j \in hits : i <= j) \in hits
  BY <1>3
<1> QED
  BY <1>1, <1>2, <1>4

-----------------------------------------------------------------------------
\* Saving a profile.

\* A business has no profile yet while the transaction that makes it runs.
LooseRow == [status : {"active"}, profile : Profiles \cup {Null}, located : BOOLEAN]

Drafts == [account : Seq(AccountRow), business : Seq(LooseRow),
           session : SUBSET SessionRow, handoff : SUBSET HandoffRow,
           fact : Seq(FactRows), rule : Seq(RuleRows), connection : {{}}]

\* The new facts of a business, behind the ones there are.
NewFacts(d, p) == {Len(d.fact) + 1} \cup (IF p.menu = Null THEN {} ELSE {Len(d.fact) + 2})

\* What a save leaves of the facts: the new ones, and the old with some replaced.
FactsWritten(d, e, b, p) ==
    /\ e.fact \in Seq(FactRows)
    /\ Rows(e.fact) = Rows(d.fact) \cup NewFacts(d, p)
    /\ e.fact[Len(d.fact) + 1] = FactRow(b, <<"about", p.text>>, TRUE)
    /\ p.menu # Null => e.fact[Len(d.fact) + 2] = FactRow(b, <<"menu", p.menu>>, TRUE)
    /\ \A i \in Rows(d.fact) :
          /\ e.fact[i].business = d.fact[i].business
          /\ e.fact[i].text = d.fact[i].text
          /\ e.fact[i].managed = d.fact[i].managed
          /\ e.fact[i].replacedBy = IF i \in CurrentFacts(d, b) /\ d.fact[i].managed
                                    THEN Len(d.fact) + 1 ELSE d.fact[i].replacedBy

LEMMA FactsOf ==
    ASSUME NEW p \in Profiles
    PROVE  /\ ProfileFacts(p) \in Seq(Texts)
           /\ ProfileFacts(p) # <<>>
           /\ ProfileFacts(p)[1] = <<"about", p.text>>
           /\ p.menu = Null => Len(ProfileFacts(p)) = 1
           /\ p.menu # Null => /\ Len(ProfileFacts(p)) = 2
                               /\ ProfileFacts(p)[2] = <<"menu", p.menu>>
           /\ p.text \in Nat
<1>1. p.text \in Nat /\ p.menu \in Menus \cup {Null}
  BY AccountsAssumption DEF Profiles
<1>2. <<"about", p.text>> \in Texts
  BY <1>1 DEF Texts
<1>3. CASE p.menu = Null
  BY <1>1, <1>2, <1>3 DEF ProfileFacts
<1>4. CASE p.menu # Null
  <2>1. <<"menu", p.menu>> \in Texts
    BY <1>1, <1>4 DEF Texts
  <2> QED
    BY <1>1, <1>2, <1>4, <2>1 DEF ProfileFacts
<1> QED
  BY <1>3, <1>4

LEMMA FactsReplaced ==
    ASSUME NEW d \in Drafts, NEW b \in Rows(d.business), NEW p \in Profiles
    PROVE  /\ ReplaceProfileFacts(d, b, ProfileFacts(p)).db
                = [d EXCEPT !.fact = ReplaceProfileFacts(d, b, ProfileFacts(p)).db.fact]
           /\ FactsWritten(d, ReplaceProfileFacts(d, b, ProfileFacts(p)).db, b, p)
<1> DEFINE texts == ProfileFacts(p)
           L     == Len(d.fact)
           old   == {i \in CurrentFacts(d, b) : d.fact[i].managed}
           kept  == [i \in Rows(d.fact) |->
                       IF i \in old /\ texts # <<>>
                       THEN [d.fact[i] EXCEPT !.replacedBy = L + 1] ELSE d.fact[i]]
           new   == [i \in Rows(texts) |-> FactRow(b, texts[i], TRUE)]
           e     == ReplaceProfileFacts(d, b, texts).db
<1>1. d.fact \in Seq(FactRows) /\ L \in Nat /\ Rows(d.fact) = 1..L
      /\ \A i \in Rows(d.fact) : d.fact[i] \in FactRows
  BY RowsOf DEF Drafts
<1>1a. b \in Nat
  BY RowsOf DEF Drafts
<1>2. texts \in Seq(Texts) /\ texts # <<>> /\ Rows(texts) = 1..Len(texts) /\ Len(texts) \in {1, 2}
  BY FactsOf, RowsOf
<1>3. e = [d EXCEPT !.fact = kept \o new]
  BY DEF ReplaceProfileFacts, Answer, Exists
<1>4. e.fact = kept \o new
  BY <1>3 DEF Drafts
<1>5. \A i \in 1..L : /\ kept[i] \in FactRows
                      /\ kept[i].business = d.fact[i].business
                      /\ kept[i].text = d.fact[i].text
                      /\ kept[i].managed = d.fact[i].managed
                      /\ kept[i].replacedBy = IF i \in CurrentFacts(d, b) /\ d.fact[i].managed
                                              THEN L + 1 ELSE d.fact[i].replacedBy
  <2> TAKE i \in 1..L
  <2>1. d.fact[i] \in FactRows /\ L + 1 \in Nat
    BY <1>1
  <2>2. CASE i \in old
    BY <1>1, <1>2, <2>1, <2>2 DEF FactRows
  <2>3. CASE i \notin old
    BY <1>1, <1>2, <2>1, <2>3
  <2> QED
    BY <2>2, <2>3
<1>6. \A i \in 1..Len(texts) : new[i] = FactRow(b, texts[i], TRUE) /\ new[i] \in FactRows
  <2> TAKE i \in 1..Len(texts)
  <2>1. texts[i] \in Texts
    BY <1>2, RowsOf
  <2> QED
    BY <1>1a, <1>2, <2>1 DEF FactRow, FactRows
<1>7. kept \in [1..L -> FactRows] /\ new \in [1..Len(texts) -> FactRows]
  BY <1>1, <1>2, <1>5, <1>6
<1> HIDE DEF kept, new, texts, e
<1>8. kept \in Seq(FactRows) /\ Len(kept) = L
  BY <1>1, <1>7, SeqOfMap
<1>9. new \in Seq(FactRows) /\ Len(new) = Len(texts)
  BY <1>2, <1>7, SeqOfMap
<1>10. /\ kept \o new \in Seq(FactRows)
       /\ Len(texts) = 1 => Rows(kept \o new) = Rows(d.fact) \cup {L + 1}
       /\ Len(texts) = 2 => /\ Rows(kept \o new) = Rows(d.fact) \cup {L + 1, L + 2}
                            /\ (kept \o new)[L + 2] = new[2]
       /\ (kept \o new)[L + 1] = new[1]
       /\ \A i \in Rows(d.fact) : (kept \o new)[i] = kept[i]
  <2>1. Rows(kept) = Rows(d.fact)
    BY <1>1, <1>8, RowsOf
  <2>2. Len(new) \in {1, 2}
    BY <1>2, <1>9
  <2>3. Extends(FactRows, kept, new)
    BY <2>2, <1>8, <1>9, Joined
  <2> QED
    BY <2>1, <2>3, <1>8, <1>9, Zenon DEF Extends
<1>11. new[1] = FactRow(b, texts[1], TRUE)
  <2>1. 1 \in 1..Len(texts)
    BY <1>2
  <2> QED
    BY <1>6, <2>1, Zenon
<1>12. Len(texts) = 2 => new[2] = FactRow(b, texts[2], TRUE)
  <2>1. Len(texts) = 2 => 2 \in 1..Len(texts)
    OBVIOUS
  <2> QED
    BY <1>6, <2>1, Zenon
<1>13. /\ texts[1] = <<"about", p.text>>
       /\ p.menu = Null => Len(texts) = 1
       /\ p.menu # Null => Len(texts) = 2 /\ texts[2] = <<"menu", p.menu>>
  BY FactsOf DEF texts
<1>14. Rows(kept \o new) = Rows(d.fact) \cup NewFacts(d, p)
  BY <1>10, <1>13 DEF NewFacts
<1>15. FactsWritten(d, e, b, p)
  <2>1. /\ e.fact \in Seq(FactRows)
        /\ Rows(e.fact) = Rows(d.fact) \cup NewFacts(d, p)
    BY <1>4, <1>10, <1>14
  <2>2. /\ e.fact[L + 1] = FactRow(b, <<"about", p.text>>, TRUE)
        /\ p.menu # Null => e.fact[L + 2] = FactRow(b, <<"menu", p.menu>>, TRUE)
    BY <1>4, <1>10, <1>11, <1>12, <1>13
  <2>3. \A i \in Rows(d.fact) :
          /\ e.fact[i].business = d.fact[i].business
          /\ e.fact[i].text = d.fact[i].text
          /\ e.fact[i].managed = d.fact[i].managed
          /\ e.fact[i].replacedBy = IF i \in CurrentFacts(d, b) /\ d.fact[i].managed
                                    THEN L + 1 ELSE d.fact[i].replacedBy
    <3> TAKE i \in Rows(d.fact)
    <3>1. e.fact[i] = kept[i]
      BY <1>4, <1>10, Zenon
    <3>2. i \in 1..L
      BY <1>1
    <3> QED
      BY <1>5, <3>1, <3>2, Zenon
  <2> QED
    BY <2>1, <2>2, <2>3 DEF FactsWritten
<1>16. e = [d EXCEPT !.fact = e.fact]
  BY <1>3, <1>4
<1> QED
  BY <1>15, <1>16 DEF texts, e

\* Every fact is one a save wrote, for this business or before.
ManagedStill(d, e, b) ==
    \A i \in Rows(e.fact) :
       /\ e.fact[i].managed
       /\ \/ e.fact[i].business = b
          \/ i \in Rows(d.fact) /\ e.fact[i].business = d.fact[i].business

\* A save replaces the current facts of its business and nobody else's.
LEMMA CurrentAfterSave ==
    ASSUME NEW d \in Drafts, NEW e, NEW b \in Nat, NEW p \in Profiles,
           FactsWritten(d, e, b, p), \A i \in Rows(d.fact) : d.fact[i].managed
    PROVE  /\ CurrentFacts(e, b) = NewFacts(d, p)
           /\ \A c \in Nat : c # b => CurrentFacts(e, c) = CurrentFacts(d, c)
           /\ ManagedStill(d, e, b)
<1> DEFINE L == Len(d.fact)
<1>1. L \in Nat /\ Rows(d.fact) = 1..L /\ Null \notin Nat
  BY RowsOf, AccountsAssumption DEF Drafts
<1>2. \A i \in NewFacts(d, p) : /\ i \in Rows(e.fact) /\ i \notin Rows(d.fact)
                                /\ e.fact[i].business = b /\ e.fact[i].managed
                                /\ e.fact[i].replacedBy = Null
  <2>1. L + 1 \notin 1..L /\ L + 2 \notin 1..L
    BY <1>1
  <2> QED
    BY <2>1, <1>1 DEF FactsWritten, NewFacts, FactRow
<1>3. \A i \in Rows(d.fact) :
         /\ i \in Rows(e.fact)
         /\ e.fact[i].business = d.fact[i].business /\ e.fact[i].managed
         /\ i \in CurrentFacts(d, b) => e.fact[i].replacedBy = L + 1
         /\ i \notin CurrentFacts(d, b) => e.fact[i].replacedBy = d.fact[i].replacedBy
  BY DEF FactsWritten
<1>4. Rows(e.fact) = Rows(d.fact) \cup NewFacts(d, p)
  BY DEF FactsWritten
<1>5. \A i \in Rows(d.fact) : i \notin CurrentFacts(e, b)
  BY <1>1, <1>3 DEF CurrentFacts
<1>6. CurrentFacts(e, b) = NewFacts(d, p)
  BY <1>2, <1>4, <1>5 DEF CurrentFacts
<1>7. ASSUME NEW c \in Nat, c # b  PROVE CurrentFacts(e, c) = CurrentFacts(d, c)
  <2>1. \A i \in NewFacts(d, p) : i \notin CurrentFacts(e, c) /\ i \notin CurrentFacts(d, c)
    BY <1>2, <1>7 DEF CurrentFacts
  <2>2. \A i \in Rows(d.fact) : i \in CurrentFacts(e, c) <=> i \in CurrentFacts(d, c)
    BY <1>3, <1>7 DEF CurrentFacts
  <2>3. CurrentFacts(e, c) \subseteq Rows(e.fact) /\ CurrentFacts(d, c) \subseteq Rows(d.fact)
    BY DEF CurrentFacts
  <2> QED
    BY <1>4, <2>1, <2>2, <2>3
<1> QED
  BY <1>2, <1>3, <1>4, <1>6, <1>7 DEF ManagedStill

\* What ProfileCoherent says of one business.
Coherent(d, observed, sent, b) ==
    LET p == d.business[b].profile IN
    /\ {d.fact[i].text : i \in CurrentFacts(d, b)}
          = {ProfileFacts(p)[k] : k \in DOMAIN ProfileFacts(p)}
    /\ Cardinality(CurrentFacts(d, b)) = Len(ProfileFacts(p))
    /\ p.menu = sent[b].menu
    /\ ~sent[b].edited => {m \in Menus : <<b, m>> \in observed} = {p.menu} \ {Null}

LEMMA CoherentAll ==
    /\ ProfileCoherent <=> \A b \in Rows(db.business) : Coherent(db, corpus, told, b)
    /\ ProfileCoherent' <=> \A b \in Rows(db'.business) : Coherent(db', corpus', told', b)
  BY DEF ProfileCoherent, Coherent

LEMMA NewFactsAreTheProfile ==
    ASSUME NEW d \in Drafts, NEW e, NEW b \in Nat, NEW p \in Profiles, FactsWritten(d, e, b, p)
    PROVE  /\ {e.fact[i].text : i \in NewFacts(d, p)}
                 = {ProfileFacts(p)[k] : k \in DOMAIN ProfileFacts(p)}
           /\ Cardinality(NewFacts(d, p)) = Len(ProfileFacts(p))
<1> DEFINE L == Len(d.fact)
<1>1. L \in Nat
  BY RowsOf DEF Drafts
<1>2. DOMAIN ProfileFacts(p) = 1..Len(ProfileFacts(p))
  BY FactsOf, LenProperties
<1>3. e.fact[L + 1].text = <<"about", p.text>>
  BY DEF FactsWritten, FactRow
<1>4. CASE p.menu = Null
  <2>1. NewFacts(d, p) = {L + 1}
    BY <1>4 DEF NewFacts
  <2>2. DOMAIN ProfileFacts(p) = {1} /\ Len(ProfileFacts(p)) = 1
    <3>1. Len(ProfileFacts(p)) = 1
      BY <1>4, FactsOf
    <3> QED
      BY <1>2, <3>1
  <2>3. ProfileFacts(p)[1] = <<"about", p.text>>
    BY FactsOf
  <2>4. Cardinality({L + 1}) = 1
    BY FS_Singleton
  <2> QED
    BY <1>3, <2>1, <2>2, <2>3, <2>4
<1>5. CASE p.menu # Null
  <2>1. NewFacts(d, p) = {L + 1, L + 2}
    BY <1>5 DEF NewFacts
  <2>2. DOMAIN ProfileFacts(p) = {1, 2} /\ Len(ProfileFacts(p)) = 2
    <3>1. Len(ProfileFacts(p)) = 2
      BY <1>5, FactsOf
    <3> QED
      BY <1>2, <3>1
  <2>3. ProfileFacts(p)[1] = <<"about", p.text>> /\ ProfileFacts(p)[2] = <<"menu", p.menu>>
    BY <1>5, FactsOf
  <2>4. e.fact[L + 2].text = <<"menu", p.menu>>
    BY <1>5 DEF FactsWritten, FactRow
  <2>5. Cardinality({L + 1, L + 2}) = 2
    <3>1. IsFiniteSet({L + 1}) /\ Cardinality({L + 1}) = 1
      BY FS_Singleton
    <3>2. Cardinality({L + 1} \cup {L + 2}) = 2
      <4>1. L + 2 \notin {L + 1}
        BY <1>1
      <4>2. Cardinality({L + 1} \cup {L + 2}) = Cardinality({L + 1}) + 1
        BY <3>1, <4>1, FS_AddElement, Zenon
      <4> QED
        BY <3>1, <4>2
    <3>3. {L + 1} \cup {L + 2} = {L + 1, L + 2}
      OBVIOUS
    <3> QED
      BY <3>2, <3>3
  <2>6. {e.fact[i].text : i \in {L + 1, L + 2}} = {e.fact[L + 1].text, e.fact[L + 2].text}
    OBVIOUS
  <2>7. {ProfileFacts(p)[k] : k \in {1, 2}} = {ProfileFacts(p)[1], ProfileFacts(p)[2]}
    OBVIOUS
  <2> QED
    BY <1>3, <2>1, <2>2, <2>3, <2>4, <2>5, <2>6, <2>7
<1> QED
  BY <1>4, <1>5

\* What a save leaves of the businesses.
BusinessWritten(d, e, b, p) ==
    /\ e.business \in Seq(LooseRow)
    /\ Rows(e.business) = Rows(d.business)
    /\ e.business[b].profile = p
    /\ \A c \in Rows(d.business) : c # b => e.business[c] = d.business[c]

LEMMA ProfileUpdated ==
    ASSUME NEW d \in Drafts, NEW b \in Rows(d.business), NEW p \in Profiles, NEW located \in BOOLEAN
    PROVE  LET e == UpdateBusinessProfile(d, b, p, located).db IN
           /\ e = [d EXCEPT !.business = e.business]
           /\ BusinessWritten(d, e, b, p)
<1> DEFINE e  == UpdateBusinessProfile(d, b, p, located).db
           r1 == [d.business[b] EXCEPT !.profile = p]
           g  == [d EXCEPT !.business = [d.business EXCEPT ![b] = r1]]
           r2 == [g.business[b] EXCEPT !.located = d.business[b].located \/ located]
<1>1. d.business[b] \in LooseRow
  BY RowsOf DEF Drafts
<1>2. r1 \in LooseRow /\ r1.profile = p
  BY <1>1 DEF LooseRow
<1> HIDE DEF r1
<1>3. /\ g.business = [d.business EXCEPT ![b] = r1] /\ g \in Drafts
      /\ Rows(g.business) = Rows(d.business)
      /\ \A c \in Rows(d.business) : g.business[c] = IF c = b THEN r1 ELSE d.business[c]
  <2>1. g.business = [d.business EXCEPT ![b] = r1]
    BY DEF Drafts
  <2>2. IsChange(LooseRow, d.business, b, r1, g.business)
    BY <1>2, <2>1, Changed DEF Drafts
  <2> QED
    BY <2>1, <2>2 DEF Drafts, IsChange
<1>4. r2 \in LooseRow /\ r2.profile = p
  BY <1>1, <1>2, <1>3 DEF LooseRow
<1>5. e = [g EXCEPT !.business = [g.business EXCEPT ![b] = r2]]
  BY DEF UpdateBusinessProfile, Answer, r1
<1> HIDE DEF g, r2, e
<1>6. e.business = [g.business EXCEPT ![b] = r2]
  BY <1>3, <1>5 DEF Drafts
<1>7. IsChange(LooseRow, g.business, b, r2, e.business)
  <2>1. g.business \in Seq(LooseRow) /\ b \in Rows(g.business)
    BY <1>3 DEF Drafts
  <2> QED
    BY <1>4, <1>6, <2>1, Changed
<1>8. BusinessWritten(d, e, b, p)
  BY <1>3, <1>4, <1>7 DEF BusinessWritten, IsChange
<1>9. e = [d EXCEPT !.business = e.business]
  BY <1>5, <1>6 DEF Drafts, g
<1> QED
  BY <1>8, <1>9 DEF e

\* The rows a save leaves.
Saves(d, e, a, b, p) ==
    /\ e.account = [d.account EXCEPT ![a].email = p.text]
    /\ e = [d EXCEPT !.account = e.account, !.business = e.business, !.fact = e.fact]
    /\ BusinessWritten(d, e, b, p)
    /\ FactsWritten(d, e, b, p)

LEMMA Saved ==
    ASSUME NEW d \in Drafts, NEW a \in Rows(d.account), NEW b \in Rows(d.business),
           NEW p \in Profiles, NEW located \in BOOLEAN
    PROVE  Saves(d, SaveProfile(d, a, b, p, located), a, b, p)
<1> DEFINE c == UpdateAccountProfile(d, a, p.text).db
           f == UpdateBusinessProfile(c, b, p, located).db
           e == SaveProfile(d, a, b, p, located)
<1>1. b \in Nat /\ d.account[a] \in AccountRow
  BY RowsOf DEF Drafts
<1>2. c = [d EXCEPT !.account = [d.account EXCEPT ![a].email = p.text]]
  BY DEF UpdateAccountProfile, Answer
<1>3. /\ c.account = [d.account EXCEPT ![a].email = p.text] /\ c.business = d.business
      /\ c.fact = d.fact /\ c \in Drafts
  <2>1. [d.account[a] EXCEPT !.email = p.text] \in AccountRow
    BY <1>1, FactsOf DEF AccountRow
  <2>2. [d.account EXCEPT ![a] = [d.account[a] EXCEPT !.email = p.text]] \in Seq(AccountRow)
    BY <2>1, Changed DEF Drafts, IsChange
  <2> QED
    BY <1>2, <2>2 DEF Drafts
<1> HIDE DEF c
<1>4. f = [c EXCEPT !.business = f.business] /\ BusinessWritten(c, f, b, p)
  BY <1>3, ProfileUpdated
<1>5. e = ReplaceProfileFacts(f, b, ProfileFacts(p)).db
  BY DEF SaveProfile, c
<1> HIDE DEF f
<1>6. /\ f \in Drafts /\ f.fact = d.fact /\ f.account = c.account
      /\ b \in Rows(f.business)
  BY <1>3, <1>4 DEF Drafts, BusinessWritten
<1> HIDE DEF e
<1>7. e = [f EXCEPT !.fact = e.fact] /\ FactsWritten(f, e, b, p)
  BY <1>1, <1>5, <1>6, FactsReplaced
<1>8. FactsWritten(d, e, b, p)
  BY <1>6, <1>7 DEF FactsWritten, NewFacts, CurrentFacts
<1>9. e.account = c.account /\ e.business = f.business
  BY <1>6, <1>7 DEF Drafts
<1>10. BusinessWritten(d, e, b, p)
  BY <1>3, <1>4, <1>9 DEF BusinessWritten
<1>11. e = [d EXCEPT !.account = e.account, !.business = e.business, !.fact = e.fact]
  BY <1>2, <1>3, <1>4, <1>6, <1>7, <1>9 DEF Drafts
<1> QED
  BY <1>3, <1>8, <1>9, <1>10, <1>11 DEF e, Saves

-----------------------------------------------------------------------------
\* What a request holds stays good.

\* The rows e come after the rows d: accounts stay, and a workspace once set up.
Later(d, e) ==
    /\ Rows(d.account) \subseteq Rows(e.account)
    /\ \A a \in Rows(d.account) : d.account[a].business \in {Null, e.account[a].business}

LEMMA HeldLater ==
    ASSUME NEW d, NEW e, Later(d, e), NEW q, Null \notin Rows(d.account), Held(d, q)
    PROVE  Held(e, q)
  BY DEF Held, Later

LEMMA IdleHeld == \A d : Held(d, Idle) /\ Idle \in Request
  BY DEF Held, Idle, Request

LEMMA TablesFacts ==
    ASSUME Types
    PROVE  /\ db \in Drafts /\ db.business \in Seq(BusinessRow)
           /\ db.account \in Seq(AccountRow) /\ db.fact \in Seq(FactRows)
           /\ db.session \subseteq SessionRow /\ db.handoff \subseteq HandoffRow
           /\ Rows(db.account) = 1..Len(db.account) /\ Len(db.account) \in Nat
           /\ Rows(db.business) = 1..Len(db.business) /\ Len(db.business) \in Nat
           /\ \A a \in Rows(db.account) : db.account[a] \in AccountRow
           /\ \A b \in Rows(db.business) : db.business[b] \in BusinessRow
           /\ Null \notin Rows(db.account) /\ Null \notin Rows(db.business) /\ Null \notin Nat
<1>1. db \in Tables
  BY DEF Types
<1>2. db.business \in Seq(BusinessRow) /\ BusinessRow \subseteq LooseRow
  BY <1>1 DEF Tables, BusinessRow, LooseRow
<1>3. db.business \in Seq(LooseRow)
  BY <1>2, SeqMonotonic
<1>4. db \in Drafts
  BY <1>1, <1>3 DEF Tables, Drafts
<1>5. /\ db.account \in Seq(AccountRow) /\ db.fact \in Seq(FactRows)
      /\ db.session \subseteq SessionRow /\ db.handoff \subseteq HandoffRow
  BY <1>1 DEF Tables
<1>6. /\ Rows(db.account) = 1..Len(db.account) /\ Len(db.account) \in Nat
      /\ \A a \in Rows(db.account) : db.account[a] \in AccountRow
      /\ Null \notin Rows(db.account)
  BY <1>5, RowsOf
<1>7. /\ Rows(db.business) = 1..Len(db.business) /\ Len(db.business) \in Nat
      /\ \A b \in Rows(db.business) : db.business[b] \in BusinessRow
      /\ Null \notin Rows(db.business)
  BY <1>2, RowsOf
<1> QED
  BY <1>2, <1>4, <1>5, <1>6, <1>7, AccountsAssumption

\* One request moves on to q, which is good for the rows d.
LEMMA Goes ==
    ASSUME request \in [Requests -> Request], NEW r \in Requests, NEW q \in Request, NEW d,
           \A s \in Requests : Held(d, request[s]), Held(d, q), Go(r, q)
    PROVE  /\ request' \in [Requests -> Request]
           /\ \A s \in Requests : Held(d, request'[s])
<1>1. request' = [request EXCEPT ![r] = q]
  BY DEF Go
<1>2. request' \in [Requests -> Request]
  BY <1>1
<1>3. \A s \in Requests : request'[s] = IF s = r THEN q ELSE request[s]
  BY <1>1
<1> QED
  BY <1>2, <1>3

\* A step of requests and tabs alone.
LEMMA NoRows ==
    ASSUME IInv, UNCHANGED <<db, corpus, minted, redeemed, told>>,
           request' \in [Requests -> Request], \A s \in Requests : Held(db, request'[s]),
           tab' \in [Tabs -> Redirects \cup {Null}], TabsHeld'
    PROVE  IInv'
<1>1. Types'
  BY DEF IInv, Types
<1>2. AccountsHeld'
  BY DEF IInv, AccountsHeld, KeysUnique
<1>3. OwnersHeld'
  BY DEF IInv, OwnersHeld
<1>4. SessionsHeld'
  BY DEF IInv, SessionsHeld
<1>5. CodesHeld'
  BY DEF IInv, CodesHeld
<1>6. FactsHeld'
  BY DEF IInv, FactsHeld
<1>7. ProfileCoherent'
  BY CoherentAll DEF IInv
<1> QED
  BY <1>1, <1>2, <1>3, <1>4, <1>5, <1>6, <1>7 DEF IInv

\* A step of one request alone.
LEMMA Alone ==
    ASSUME IInv, NEW r \in Requests, NEW q \in Request, Held(db, q), Go(r, q),
           UNCHANGED <<db, corpus, tab, minted, redeemed, told>>
    PROVE  IInv'
<1>1. request' \in [Requests -> Request] /\ \A s \in Requests : Held(db, request'[s])
  BY Goes DEF IInv, Types
<1>2. tab' \in [Tabs -> Redirects \cup {Null}] /\ TabsHeld'
  BY DEF IInv, Types, TabsHeld
<1> QED
  BY <1>1, <1>2, NoRows

LEMMA CrashKeeps ==
    ASSUME IInv, NEW r \in Requests, Crash(r)  PROVE IInv'
  BY IdleHeld, Alone DEF Crash, Leave

LEMMA RegisterKeeps ==
    ASSUME IInv, NEW r \in Requests, NEW n \in Usernames, Register(r, n)  PROVE IInv'
<1> DEFINE q == [Idle EXCEPT !.pc = "create", !.name = n]
<1>1. Null # n
  BY AccountsAssumption DEF Usernames
<1>2. q \in Request /\ Held(db, q)
  BY <1>1 DEF Idle, Request, Held
<1>3. Go(r, q)
  BY DEF Register
<1> HIDE DEF q
<1> QED
  BY <1>2, <1>3, Alone DEF Register

LEMMA LoginKeeps ==
    ASSUME IInv, NEW r \in Requests, NEW n \in Usernames, Login(r, n)  PROVE IInv'
<1> DEFINE a == FindAccount(db, n)
           q == [Idle EXCEPT !.pc = "session", !.account = a, !.business = db.account[a].business]
<1>1. Types
  BY DEF IInv
<1>2. a \in Rows(db.account) /\ a # Null
  BY <1>1, TablesFacts, FindAccountFinds DEF Login
<1>3. a \in Nat /\ db.account[a] \in AccountRow
  BY <1>1, <1>2, TablesFacts
<1>4. Go(r, q)
  BY DEF Login
<1> HIDE DEF a
<1>5. db.account[a].business \in Nat \cup {Null}
  BY <1>3 DEF AccountRow
<1>6. q \in Request
  BY <1>3, <1>5 DEF Idle, Request
<1>7. Held(db, q)
  BY <1>2 DEF Idle, Held
<1> HIDE DEF q
<1> QED
  BY <1>4, <1>6, <1>7, Alone DEF Login

LEMMA SuggestKeeps ==
    ASSUME IInv, NEW r \in Requests, Suggest(r)  PROVE IInv'
<1> DEFINE free == {n \in Usernames : FindAccount(db, n) = Null}
           n    == CHOOSE n \in free : \A m \in free : n <= m
           q    == [request[r] EXCEPT !.pc = "create", !.name = n]
<1>1. free \subseteq Nat /\ free # {}
  BY AccountsAssumption DEF Suggest, Usernames
<1>2. n \in free
  BY <1>1, Least
<1>3. Go(r, q)
  BY DEF Suggest
<1> HIDE DEF n
<1>4. n \in Usernames /\ n # Null
  BY <1>1, <1>2, AccountsAssumption
<1> HIDE DEF free
<1>5. request[r] \in Request /\ Held(db, request[r]) /\ request[r].pc = "suggest"
  BY DEF IInv, Types, Suggest, At
<1>6. q \in Request
  BY <1>4, <1>5 DEF Request
<1>7. /\ q.pc = "create" /\ q.name = n /\ q.account = request[r].account
      /\ q.intent = request[r].intent
  BY <1>5 DEF Request
<1>8. Held(db, q)
  BY <1>4, <1>5, <1>7 DEF Held
<1> HIDE DEF q
<1> QED
  BY <1>3, <1>6, <1>8, Alone DEF Suggest

LEMMA ReloadKeeps ==
    ASSUME IInv, NEW r \in Requests, Reload(r)  PROVE IInv'
<1> DEFINE a == request[r].account
           q == [request[r] EXCEPT !.pc = "session", !.business = db.account[a].business]
<1>1. Types /\ request[r] \in Request /\ Held(db, request[r]) /\ request[r].pc = "reload"
  BY DEF IInv, Types, Reload, At
<1>2. a \in Rows(db.account) /\ a # Null
  BY <1>1 DEF Held
<1>3. db.account[a].business \in Nat \cup {Null}
  BY <1>1, <1>2, TablesFacts DEF AccountRow
<1>4. q \in Request
  BY <1>1, <1>3 DEF Request
<1>5. q.pc = "session" /\ q.account = a /\ q.business = db.account[a].business
  BY <1>1 DEF Request
<1>6. Held(db, q)
  BY <1>2, <1>5 DEF Held
<1>7. Go(r, q)
  BY DEF Reload
<1> HIDE DEF q
<1> QED
  BY <1>4, <1>6, <1>7, Alone DEF Reload

\* A step of one tab alone.
LEMMA TabAlone ==
    ASSUME IInv, NEW t \in Tabs, NEW w \in Redirects \cup {Null},
           w # Null => (w.invited <=> w.intent = "register"),
           tab' = [tab EXCEPT ![t] = w], UNCHANGED <<db, corpus, request, minted, redeemed, told>>
    PROVE  IInv'
<1>1. tab' \in [Tabs -> Redirects \cup {Null}] /\ TabsHeld'
  BY DEF IInv, Types, TabsHeld
<1>2. request' \in [Requests -> Request] /\ \A r \in Requests : Held(db, request'[r])
  BY DEF IInv, Types
<1> QED
  BY <1>1, <1>2, NoRows

LEMMA AbandonKeeps ==
    ASSUME IInv, NEW t \in Tabs, Abandon(t)  PROVE IInv'
  BY TabAlone DEF Abandon

LEMMA StartKeeps ==
    ASSUME IInv, NEW t \in Tabs, NEW s \in Subjects, NEW i \in {"register", "login"},
           Start(t, s, i)
    PROVE  IInv'
<1> DEFINE w == [subject |-> s, intent |-> i, invited |-> Vouched(i)]
<1>1. w \in Redirects /\ (w.invited <=> w.intent = "register")
  BY DEF Redirects, Vouched
<1>2. tab' = [tab EXCEPT ![t] = w]
  BY DEF Start
<1> HIDE DEF w
<1> QED
  BY <1>1, <1>2, TabAlone DEF Start

LEMMA CallbackKeeps ==
    ASSUME IInv, NEW r \in Requests, NEW t \in Tabs, Callback(r, t)  PROVE IInv'
<1> DEFINE who   == tab[t]
           known == FindAccountByProvider(db, "google", who.subject)
           next  == [Idle EXCEPT !.subject = who.subject, !.intent = who.intent]
           q1    == [next EXCEPT !.pc = "handoff", !.account = known]
           q2    == [next EXCEPT !.pc = "suggest"]
<1>1. Types /\ who \in Redirects /\ who # Null /\ (who.invited <=> who.intent = "register")
  BY DEF IInv, Types, Callback, TabsHeld
<1>2. who.subject \in Subjects /\ who.subject # Null /\ who.intent \in {"register", "login"}
  BY <1>1, AccountsAssumption DEF Redirects
<1>3. known # Null => known \in Rows(db.account)
  BY <1>1, TablesFacts, FindByProviderFinds
<1>4. known # Null => known \in Nat
  BY <1>1, <1>3, TablesFacts
<1>5. /\ known # Null => Go(r, q1)
      /\ known = Null /\ who.invited => Go(r, q2)
      /\ known = Null /\ ~who.invited => Leave(r)
  BY DEF Callback
<1>6. tab' = [tab EXCEPT ![t] = Null] /\ UNCHANGED <<db, corpus, minted, redeemed, told>>
  BY DEF Callback
<1> HIDE DEF known, who
<1>7. known # Null => q1 \in Request /\ Held(db, q1)
  BY <1>2, <1>3, <1>4 DEF Idle, Request, Held
<1>8. who.invited => q2 \in Request /\ Held(db, q2)
  BY <1>1, <1>2 DEF Idle, Request, Held
<1> HIDE DEF q1, q2
<1>9. request \in [Requests -> Request] /\ \A s \in Requests : Held(db, request[s])
  BY DEF IInv, Types
<1>10. request' \in [Requests -> Request] /\ \A s \in Requests : Held(db, request'[s])
  <2>1. CASE known # Null
    BY <2>1, <1>5, <1>7, <1>9, Goes
  <2>2. CASE known = Null /\ who.invited
    BY <2>2, <1>5, <1>8, <1>9, Goes
  <2>3. CASE known = Null /\ ~who.invited
    BY <2>3, <1>5, <1>9, Goes, IdleHeld DEF Leave
  <2> QED
    BY <2>1, <2>2, <2>3
<1>11. tab' \in [Tabs -> Redirects \cup {Null}] /\ TabsHeld'
  BY <1>6 DEF IInv, Types, TabsHeld
<1> QED
  BY <1>6, <1>10, <1>11, NoRows

-----------------------------------------------------------------------------
\* Steps that leave the businesses and their profiles alone.

LEMMA SameProfiles ==
    ASSUME IInv, db'.business = db.business, db'.fact = db.fact, corpus' = corpus, told' = told
    PROVE  FactsHeld' /\ ProfileCoherent'
<1>1. \A b : Coherent(db', corpus', told', b) <=> Coherent(db, corpus, told, b)
  BY DEF Coherent, CurrentFacts
<1>2. ProfileCoherent'
  BY <1>1, CoherentAll DEF IInv
<1>3. FactsHeld'
  BY DEF IInv, FactsHeld
<1> QED
  BY <1>2, <1>3

\* The same for a step that changes no account either.
LEMMA SameAccounts ==
    ASSUME IInv, db'.account = db.account, db'.business = db.business, db'.fact = db.fact,
           corpus' = corpus, tab' = tab, told' = told
    PROVE  /\ AccountsHeld' /\ OwnersHeld' /\ TabsHeld' /\ FactsHeld' /\ ProfileCoherent'
           /\ Later(db, db')
<1>1. AccountsHeld'
  BY DEF IInv, AccountsHeld, KeysUnique
<1>2. OwnersHeld'
  BY DEF IInv, OwnersHeld
<1>3. TabsHeld'
  BY DEF IInv, TabsHeld
<1>4. Later(db, db')
  BY DEF Later
<1> QED
  BY <1>1, <1>2, <1>3, <1>4, SameProfiles

LEMMA HeldStill ==
    ASSUME IInv, Later(db, db'), request' = request
    PROVE  \A r \in Requests : Held(db', request'[r])
<1>1. Null \notin Rows(db.account)
  BY TablesFacts DEF IInv
<1> QED
  BY <1>1, HeldLater DEF IInv

LEMMA HeldThen ==
    ASSUME IInv, Later(db, db'), NEW r \in Requests, NEW q \in Request, Held(db', q), Go(r, q)
    PROVE  /\ request' \in [Requests -> Request]
           /\ \A s \in Requests : Held(db', request'[s])
<1>1. Null \notin Rows(db.account)
  BY TablesFacts DEF IInv
<1>2. \A s \in Requests : Held(db', request[s])
  BY <1>1, HeldLater DEF IInv
<1> QED
  BY <1>2, Goes DEF IInv, Types

LEMMA OpenSessionKeeps ==
    ASSUME IInv, NEW r \in Requests, OpenSession(r)  PROVE IInv'
<1> DEFINE token == minted.tokens + 1
           a     == request[r].account
           new   == [token |-> token, account |-> a, business |-> request[r].business,
                     fresh |-> TRUE]
<1>1. /\ Types /\ SessionsHeld /\ CodesHeld /\ Held(db, request[r])
      /\ request[r] \in Request /\ request[r].pc = "session"
  BY DEF IInv, Types, OpenSession, At
<1>2. minted.tokens \in Nat /\ token \in Tokens
  BY <1>1, AccountsAssumption DEF Types, OpenSession
<1>3. a \in Rows(db.account) /\ request[r].business \in {Null, db.account[a].business}
  BY <1>1 DEF Held
<1>4. \A s \in db.session : s.token # token
  <2>1. \A s \in db.session : s.token \in Nat /\ s.token <= minted.tokens
    BY <1>1, TablesFacts, AccountsAssumption DEF SessionsHeld, SessionRow, Tokens
  <2> QED
    BY <1>2, <2>1
<1>5. db' = [db EXCEPT !.session = @ \cup {new}]
  <2>1. Exists(db.account, a) /\ NullOr(db.business, request[r].business)
    BY <1>3 DEF IInv, AccountsHeld, Exists, NullOr
  <2> QED
    BY <1>4, <2>1 DEF OpenSession, CreateSession, Answer
<1>6. new \in SessionRow
  BY <1>1, <1>2, <1>3, TablesFacts DEF SessionRow, Request
<1>7. /\ db' \in Tables /\ db'.account = db.account /\ db'.business = db.business
      /\ db'.fact = db.fact /\ db'.handoff = db.handoff /\ db'.session = db.session \cup {new}
  <2> HIDE DEF new
  <2> QED
    BY <1>1, <1>5, <1>6 DEF Types, Tables
<1>8. /\ minted' = [minted EXCEPT !.tokens = token] /\ Go(r, Idle)
      /\ UNCHANGED <<corpus, tab, redeemed, told>>
  BY DEF OpenSession, Leave
<1>9. /\ new.token = token /\ new.account = a /\ new.business = request[r].business
  OBVIOUS
<1> HIDE DEF new, a
<1>10. /\ AccountsHeld' /\ OwnersHeld' /\ TabsHeld' /\ FactsHeld' /\ ProfileCoherent'
       /\ Later(db, db')
  BY <1>7, <1>8, SameAccounts
<1>11. minted' \in [tokens : 0..MaxTokens, codes : 0..MaxCodes, saves : 0..MaxSaves]
       /\ minted'.tokens = token /\ minted'.codes = minted.codes
  <2>1. minted \in [tokens : 0..MaxTokens, codes : 0..MaxCodes, saves : 0..MaxSaves]
    BY <1>1 DEF Types
  <2> QED
    BY <1>2, <1>8, <2>1 DEF Tokens
<1>12. SessionsHeld'
  <2>1. ASSUME NEW s \in db'.session
        PROVE  /\ s.token <= minted'.tokens
               /\ s.account \in Rows(db'.account)
               /\ s.business \in {Null, db'.account[s.account].business}
    <3>1. CASE s = new
      BY <1>2, <1>3, <1>7, <1>9, <1>11, <3>1
    <3>2. CASE s \in db.session
      <4>1. s.token \in Nat /\ s.token <= minted.tokens
        BY <1>1, <3>2, TablesFacts, AccountsAssumption DEF SessionsHeld, SessionRow, Tokens
      <4> QED
        BY <1>1, <1>2, <1>7, <1>11, <3>2, <4>1 DEF SessionsHeld
    <3> QED
      BY <1>7, <3>1, <3>2
  <2>2. \A s, u \in db'.session : s.token = u.token => s = u
    BY <1>1, <1>4, <1>7, <1>9 DEF SessionsHeld
  <2> QED
    BY <2>1, <2>2 DEF SessionsHeld
<1>13. CodesHeld'
  BY <1>1, <1>7, <1>8, <1>11 DEF CodesHeld
<1>14. request' \in [Requests -> Request] /\ \A s \in Requests : Held(db', request'[s])
  BY <1>8, <1>10, HeldThen, IdleHeld
<1>15. Types'
  BY <1>1, <1>7, <1>8, <1>11, <1>14 DEF Types
<1> QED
  BY <1>10, <1>12, <1>13, <1>14, <1>15 DEF IInv

\* Sessions go, or go stale.
LEMMA SessionsFewer ==
    ASSUME IInv, db' \in Tables, db'.account = db.account, db'.business = db.business,
           db'.fact = db.fact, db'.handoff = db.handoff,
           \A s \in db'.session : \E u \in db.session : /\ s.token = u.token
                                                        /\ s.account = u.account
                                                        /\ s.business = u.business,
           \A s, u \in db'.session : s.token = u.token => s = u,
           UNCHANGED <<corpus, request, tab, minted, redeemed, told>>
    PROVE  IInv'
<1>1. /\ AccountsHeld' /\ OwnersHeld' /\ TabsHeld' /\ FactsHeld' /\ ProfileCoherent'
      /\ Later(db, db')
  BY SameAccounts
<1>2. SessionsHeld'
  BY DEF IInv, SessionsHeld
<1>3. CodesHeld'
  BY DEF IInv, CodesHeld
<1>4. \A r \in Requests : Held(db', request'[r])
  BY <1>1, HeldStill
<1>5. Types'
  BY DEF IInv, Types
<1> QED
  BY <1>1, <1>2, <1>3, <1>4, <1>5 DEF IInv

LEMMA LogoutKeeps ==
    ASSUME IInv, NEW token \in Tokens, Logout(token)  PROVE IInv'
<1>1. db' = [db EXCEPT !.session = {s \in @ : s.token # token}]
  BY DEF Logout, DeleteSession, Answer
<1>2. /\ db' \in Tables /\ db'.account = db.account /\ db'.business = db.business
      /\ db'.fact = db.fact /\ db'.handoff = db.handoff /\ db'.session \subseteq db.session
  BY <1>1 DEF IInv, Types, Tables
<1>3. \A s, u \in db'.session : s.token = u.token => s = u
  BY <1>2 DEF IInv, SessionsHeld
<1> QED
  BY <1>2, <1>3, SessionsFewer DEF Logout

LEMMA SessionExpiresKeeps ==
    ASSUME IInv, NEW s \in db.session, SessionExpires(s)  PROVE IInv'
<1> DEFINE stale == [s EXCEPT !.fresh = FALSE]
<1>1. s \in SessionRow /\ Types /\ SessionsHeld
  BY TablesFacts DEF IInv
<1>2. /\ stale \in SessionRow /\ stale.token = s.token /\ stale.account = s.account
      /\ stale.business = s.business
  BY <1>1 DEF SessionRow
<1>3. db' = [db EXCEPT !.session = (@ \ {s}) \cup {stale}]
  BY DEF SessionExpires
<1> HIDE DEF stale
<1>4. /\ db' \in Tables /\ db'.account = db.account /\ db'.business = db.business
      /\ db'.fact = db.fact /\ db'.handoff = db.handoff
      /\ db'.session = (db.session \ {s}) \cup {stale}
  BY <1>1, <1>2, <1>3 DEF Types, Tables
<1>5. \A v, u \in db'.session : v.token = u.token => v = u
  BY <1>1, <1>2, <1>4 DEF SessionsHeld
<1>6. \A v \in db'.session : \E u \in db.session : /\ v.token = u.token
                                                   /\ v.account = u.account
                                                   /\ v.business = u.business
  BY <1>2, <1>4
<1> QED
  BY <1>4, <1>5, <1>6, SessionsFewer DEF SessionExpires

\* A step that touches codes alone.
LEMMA CodesOnly ==
    ASSUME IInv, db' \in Tables, db'.account = db.account, db'.business = db.business,
           db'.fact = db.fact, db'.session = db.session,
           minted' \in [tokens : 0..MaxTokens, codes : 0..MaxCodes, saves : 0..MaxSaves],
           minted'.tokens = minted.tokens, redeemed' \in [Codes -> Nat],
           CodesHeld', request' \in [Requests -> Request],
           \A r \in Requests : Held(db', request'[r]), UNCHANGED <<corpus, tab, told>>
    PROVE  IInv'
<1>1. /\ AccountsHeld' /\ OwnersHeld' /\ TabsHeld' /\ FactsHeld' /\ ProfileCoherent'
      /\ Later(db, db')
  BY SameAccounts
<1>2. SessionsHeld'
  BY DEF IInv, SessionsHeld
<1>3. Types'
  BY DEF IInv, Types
<1> QED
  BY <1>1, <1>2, <1>3 DEF IInv

LEMMA HandOffKeeps ==
    ASSUME IInv, NEW r \in Requests, HandOff(r)  PROVE IInv'
<1> DEFINE code == minted.codes + 1
           a    == request[r].account
           new  == [code |-> code, account |-> a, fresh |-> TRUE]
<1>1. /\ Types /\ CodesHeld /\ Held(db, request[r])
      /\ request[r] \in Request /\ request[r].pc = "handoff"
  BY DEF IInv, Types, HandOff, At
<1>2. minted.codes \in Nat /\ code \in Codes
  BY <1>1, AccountsAssumption DEF Types, HandOff
<1>3. a \in Rows(db.account)
  BY <1>1 DEF Held
<1>4. \A h \in db.handoff : h.code \in Nat /\ h.code <= minted.codes
  BY <1>1, TablesFacts, AccountsAssumption DEF CodesHeld, HandoffRow, Codes
<1>5. \A h \in db.handoff : h.code # code
  BY <1>2, <1>4
<1>6. db' = [db EXCEPT !.handoff = @ \cup {new}]
  BY <1>3, <1>5 DEF HandOff, CreateHandoff, Answer, Exists
<1>7. new \in HandoffRow /\ new.code = code /\ new.account = a
  BY <1>1, <1>2, <1>3, TablesFacts DEF HandoffRow
<1>8. /\ minted' = [minted EXCEPT !.codes = code] /\ Go(r, Idle)
      /\ UNCHANGED <<corpus, tab, redeemed, told>>
  BY DEF HandOff, Leave
<1> HIDE DEF new, a
<1>9. /\ db' \in Tables /\ db'.account = db.account /\ db'.business = db.business
      /\ db'.fact = db.fact /\ db'.session = db.session /\ db'.handoff = db.handoff \cup {new}
  BY <1>1, <1>6, <1>7 DEF Types, Tables
<1>10. /\ minted' \in [tokens : 0..MaxTokens, codes : 0..MaxCodes, saves : 0..MaxSaves]
       /\ minted'.codes = code /\ minted'.tokens = minted.tokens
  BY <1>1, <1>2, <1>8 DEF Types, Codes
<1>11. Later(db, db')
  BY <1>9 DEF Later
<1>12. request' \in [Requests -> Request] /\ \A s \in Requests : Held(db', request'[s])
  BY <1>8, <1>11, HeldThen, IdleHeld
<1>13. CodesHeld'
  <2>1. redeemed[code] = 0
    BY <1>1, <1>2 DEF CodesHeld
  <2>2. ASSUME NEW h \in db'.handoff
        PROVE  h.code <= code /\ h.account \in Rows(db'.account) /\ redeemed[h.code] = 0
    <3>1. CASE h = new
      BY <1>2, <1>3, <1>7, <1>9, <2>1, <3>1
    <3>2. CASE h \in db.handoff
      BY <1>1, <1>2, <1>4, <1>9, <3>2 DEF CodesHeld
    <3> QED
      BY <1>9, <3>1, <3>2
  <2>3. \A h, g \in db'.handoff : h.code = g.code => h = g
    BY <1>1, <1>5, <1>7, <1>9 DEF CodesHeld
  <2>4. \A c \in Codes : redeemed[c] <= 1 /\ (c > code => redeemed[c] = 0)
    <3>1. \A c \in Codes : c \in Nat
      BY AccountsAssumption DEF Codes
    <3> QED
      BY <3>1, <1>1, <1>2 DEF CodesHeld
  <2> QED
    BY <1>8, <1>10, <2>2, <2>3, <2>4 DEF CodesHeld
<1> QED
  BY <1>1, <1>8, <1>9, <1>10, <1>12, <1>13, CodesOnly DEF Types

LEMMA RedeemKeeps ==
    ASSUME IInv, NEW r \in Requests, NEW code \in Codes, Redeem(r, code)  PROVE IInv'
<1> DEFINE fresh == {h \in db.handoff : h.code = code /\ h.fresh}
           a     == (CHOOSE h \in fresh : TRUE).account
           q     == [Idle EXCEPT !.pc = "reload", !.account = a, !.code = code]
<1>1. Types /\ CodesHeld /\ code <= minted.codes
  BY DEF IInv, Redeem
<1>2. db' = [db EXCEPT !.handoff = {h \in @ : h.code # code}]
  BY DEF Redeem, ConsumeHandoff, Answer
<1>3. fresh # {} => \E h \in db.handoff : h.code = code /\ h.account = a
  BY Zenon
<1>4. fresh # {} => a \in Rows(db.account) /\ a \in Nat /\ a # Null /\ redeemed[code] = 0
  BY <1>1, <1>3, TablesFacts DEF CodesHeld
<1>5. /\ fresh = {} => Leave(r) /\ redeemed' = redeemed
      /\ fresh # {} => Go(r, q) /\ redeemed' = [redeemed EXCEPT ![code] = @ + 1]
  BY <1>4 DEF Redeem, ConsumeHandoff, Answer
<1>6. UNCHANGED <<corpus, tab, minted, told>>
  BY DEF Redeem
<1> HIDE DEF fresh, a
<1>7. /\ db' \in Tables /\ db'.account = db.account /\ db'.business = db.business
      /\ db'.fact = db.fact /\ db'.session = db.session
      /\ db'.handoff = {h \in db.handoff : h.code # code}
  BY <1>1, <1>2 DEF Types, Tables
<1>8. fresh # {} => q \in Request /\ Held(db', q)
  BY <1>4, <1>7 DEF Idle, Request, Held
<1> HIDE DEF q
<1>9. Later(db, db')
  BY <1>7 DEF Later
<1>10. request' \in [Requests -> Request] /\ \A s \in Requests : Held(db', request'[s])
  BY <1>5, <1>8, <1>9, HeldThen, IdleHeld DEF Leave
<1>11. redeemed \in [Codes -> Nat]
  BY <1>1 DEF Types
<1>12. /\ redeemed' \in [Codes -> Nat]
       /\ \A c \in Codes : c # code => redeemed'[c] = redeemed[c]
       /\ redeemed'[code] <= 1
  <2>1. CASE fresh = {}
    BY <1>1, <1>5, <1>11, <2>1 DEF CodesHeld
  <2>2. CASE fresh # {}
    BY <1>4, <1>5, <1>11, <2>2
  <2> QED
    BY <2>1, <2>2
<1>13. CodesHeld'
  <2>1. \A h \in db.handoff : h.code \in Codes
    BY <1>1, TablesFacts DEF HandoffRow
  <2>2. minted' = minted /\ minted.codes \in Nat /\ code \in Nat
    BY <1>1, <1>6, AccountsAssumption DEF Types, Codes
  <2>3. \A h \in db'.handoff : /\ h.code <= minted'.codes
                               /\ h.account \in Rows(db'.account)
                               /\ redeemed'[h.code] = 0
    BY <1>1, <1>7, <1>12, <2>1, <2>2 DEF CodesHeld
  <2>4. \A h, g \in db'.handoff : h.code = g.code => h = g
    BY <1>1, <1>7 DEF CodesHeld
  <2>5. ASSUME NEW c \in Codes
        PROVE  redeemed'[c] <= 1 /\ (c > minted'.codes => redeemed'[c] = 0)
    <3>1. CASE c = code
      BY <1>1, <1>12, <2>2, <3>1
    <3>2. CASE c # code
      BY <1>1, <1>12, <2>2, <3>2 DEF CodesHeld
    <3> QED
      BY <3>1, <3>2
  <2> QED
    BY <2>3, <2>4, <2>5 DEF CodesHeld
<1> QED
  BY <1>1, <1>6, <1>7, <1>10, <1>12, <1>13, CodesOnly DEF Types

LEMMA HandoffExpiresKeeps ==
    ASSUME IInv, NEW h \in db.handoff, HandoffExpires(h)  PROVE IInv'
<1> DEFINE stale == [h EXCEPT !.fresh = FALSE]
<1>1. h \in HandoffRow /\ Types /\ CodesHeld
  BY TablesFacts DEF IInv
<1>2. stale \in HandoffRow /\ stale.code = h.code /\ stale.account = h.account
  BY <1>1 DEF HandoffRow
<1>3. db' = [db EXCEPT !.handoff = (@ \ {h}) \cup {stale}]
  BY DEF HandoffExpires
<1> HIDE DEF stale
<1>4. /\ db' \in Tables /\ db'.account = db.account /\ db'.business = db.business
      /\ db'.fact = db.fact /\ db'.session = db.session
      /\ db'.handoff = (db.handoff \ {h}) \cup {stale}
  BY <1>1, <1>2, <1>3 DEF Types, Tables
<1>5. UNCHANGED <<corpus, request, tab, minted, redeemed, told>>
  BY DEF HandoffExpires
<1>6. CodesHeld'
  BY <1>1, <1>2, <1>4, <1>5 DEF CodesHeld
<1>7. Later(db, db')
  BY <1>4 DEF Later
<1>8. \A r \in Requests : Held(db', request'[r])
  BY <1>5, <1>7, HeldStill
<1> QED
  BY <1>1, <1>4, <1>5, <1>6, <1>8, CodesOnly DEF Types

-----------------------------------------------------------------------------
\* A new account.

\* The index refuses a second account of one name or of one identity, whatever
\* was looked up before.
LEMMA CreateAdds ==
    ASSUME Types, AccountsHeld, NEW row \in AccountRow,
           row.subject # Null => row.provider = "google", row.business = Null
    PROVE  LET made == CreateAccount(db, row) IN
           \/ made.db = db /\ ~made.ok
           \/ /\ made.db = [db EXCEPT !.account = Append(db.account, row)]
              /\ made.ok /\ made.ans = Len(db.account) + 1
              /\ \A a \in Rows(db.account) :
                    /\ db.account[a].username # row.username
                    /\ row.subject # Null => db.account[a].subject # row.subject
<1> DEFINE taken == \/ FindAccount(db, row.username) # Null
                    \/ FindAccountByProvider(db, row.provider, row.subject) # Null
                    \/ ~NullOr(db.business, row.business)
<1>1. CreateAccount(db, row) =
        IF taken THEN Refused(db)
        ELSE Answer([db EXCEPT !.account = Append(@, row)], Len(db.account) + 1)
  BY DEF CreateAccount
<1>2. CASE taken
  <2> HIDE DEF taken
  <2> QED
    BY <1>1, <1>2 DEF Refused
<1>3. CASE ~taken
  <2>1. \A a \in Rows(db.account) : db.account[a].username # row.username
    BY <1>3, TablesFacts, FindAccountFinds
  <2>2. row.subject # Null => \A a \in Rows(db.account) :
           ~(db.account[a].provider = row.provider /\ db.account[a].subject = row.subject)
    BY <1>3, TablesFacts, FindByProviderFinds
  <2>3. \A a \in Rows(db.account) : row.subject # Null => db.account[a].subject # row.subject
    BY <2>2 DEF AccountsHeld
  <2> HIDE DEF taken
  <2> QED
    BY <1>1, <1>3, <2>1, <2>3 DEF Answer
<1> QED
  BY <1>2, <1>3

LEMMA NewRowOf ==
    ASSUME NEW r \in Requests, request[r] \in Request, request[r].name # Null
    PROVE  /\ NewRow(r) \in AccountRow
           /\ NewRow(r).subject # Null <=> NewRow(r).provider = "google"
           /\ NewRow(r).subject = request[r].subject
           /\ NewRow(r).business = Null
  BY DEF NewRow, AccountRow, Request

LEMMA CreateKeeps ==
    ASSUME IInv, NEW r \in Requests, Create(r)  PROVE IInv'
<1> DEFINE row  == NewRow(r)
           made == CreateAccount(db, row)
           new  == Len(db.account) + 1
           q    == [request[r] EXCEPT !.account = made.ans,
                       !.pc = IF request[r].subject = Null THEN "session" ELSE "handoff"]
<1>1. /\ Types /\ AccountsHeld /\ request[r] \in Request /\ Held(db, request[r])
      /\ request[r].pc = "create"
  BY DEF IInv, Types, Create, At
<1>2. /\ row \in AccountRow /\ (row.subject # Null <=> row.provider = "google")
      /\ row.business = Null
  BY <1>1, NewRowOf DEF Held
<1>3. /\ db' = made.db
      /\ made.ok => Go(r, q)
      /\ ~made.ok => Leave(r)
      /\ UNCHANGED <<corpus, tab, minted, redeemed, told>>
  BY DEF Create, Created
<1> HIDE DEF row
<1>4. \/ made.db = db /\ ~made.ok
      \/ /\ made.db = [db EXCEPT !.account = Append(db.account, row)]
         /\ made.ok /\ made.ans = new
         /\ \A a \in Rows(db.account) :
               /\ db.account[a].username # row.username
               /\ row.subject # Null => db.account[a].subject # row.subject
  BY <1>1, <1>2, CreateAdds
<1> HIDE DEF made
<1>5. CASE made.db = db /\ ~made.ok
  BY <1>3, <1>5, IdleHeld, Alone DEF Leave
<1>6. ASSUME made.db = [db EXCEPT !.account = Append(db.account, row)],
             made.ok, made.ans = new,
             \A a \in Rows(db.account) :
               /\ db.account[a].username # row.username
               /\ row.subject # Null => db.account[a].subject # row.subject
      PROVE  IInv'
  <2>1. /\ Append(db.account, row) \in Seq(AccountRow)
        /\ Rows(Append(db.account, row)) = Rows(db.account) \cup {new}
        /\ new \notin Rows(db.account) /\ Append(db.account, row)[new] = row
        /\ \A a \in Rows(db.account) : Append(db.account, row)[a] = db.account[a]
    BY <1>1, <1>2, TablesFacts, Appended DEF IsAppend
  <2>2. /\ db' \in Tables /\ db'.account = Append(db.account, row)
        /\ db'.business = db.business /\ db'.fact = db.fact
        /\ db'.session = db.session /\ db'.handoff = db.handoff
    <3>1. db' = [db EXCEPT !.account = Append(db.account, row)] /\ db \in Tables
      BY <1>1, <1>3, <1>6 DEF Types
    <3> DEFINE table == Append(db.account, row)
    <3>2. table \in Seq(AccountRow)
      BY <2>1
    <3> HIDE DEF table
    <3>3. db' = [db EXCEPT !.account = table]
      BY <3>1 DEF table
    <3>4. db' \in Tables /\ db'.account = table
      BY <3>1, <3>2, <3>3 DEF Tables
    <3> QED
      BY <3>1, <3>3, <3>4 DEF Tables, table
  <2>3. /\ Rows(db'.account) = Rows(db.account) \cup {new} /\ new \notin Rows(db.account)
        /\ db'.account[new] = row
        /\ \A a \in Rows(db.account) : db'.account[a] = db.account[a]
    BY <2>1, <2>2
  <2>4. new \in Nat /\ Null \notin Nat
    BY <1>1, TablesFacts
  <2>5. Later(db, db')
    BY <2>3 DEF Later
  <2>6. AccountsHeld'
    <3>1. KeysUnique'
      BY <1>1, <1>6, <2>3 DEF AccountsHeld, KeysUnique
    <3>2. \A a \in Rows(db'.account) :
             /\ db'.account[a].subject # Null <=> db'.account[a].provider = "google"
             /\ db'.account[a].business \in Rows(db'.business) \cup {Null}
      BY <1>1, <1>2, <2>2, <2>3 DEF AccountsHeld
    <3> QED
      BY <3>1, <3>2 DEF AccountsHeld
  <2>7. OwnersHeld'
    <3>1. OwnersHeld /\ Null \notin Rows(db.business) /\ db'.account[new].business = Null
      BY <1>1, <1>2, <2>3, TablesFacts DEF IInv
    <3>2. ASSUME NEW b \in Rows(db'.business)
          PROVE  \E a \in Rows(db'.account) : db'.account[a].business = b
      <4>1. PICK a \in Rows(db.account) : db.account[a].business = b
        BY <2>2, <3>1, <3>2 DEF OwnersHeld
      <4> QED
        BY <2>3, <4>1
    <3>3. ASSUME NEW a \in Rows(db'.account), NEW c \in Rows(db'.account),
                 db'.account[a].business = db'.account[c].business, a # c
          PROVE  db'.account[a].business = Null
      <4>1. CASE a = new \/ c = new
        BY <3>1, <3>3, <4>1
      <4>2. CASE a # new /\ c # new
        BY <2>3, <3>1, <3>3, <4>2 DEF OwnersHeld
      <4> QED
        BY <4>1, <4>2
    <3> QED
      BY <3>2, <3>3 DEF OwnersHeld
  <2>8. SessionsHeld'
    BY <1>3, <2>2, <2>3 DEF IInv, SessionsHeld
  <2>9. CodesHeld'
    BY <1>3, <2>2, <2>3 DEF IInv, CodesHeld
  <2>10. TabsHeld'
    BY <1>3 DEF IInv, TabsHeld
  <2>11. FactsHeld' /\ ProfileCoherent'
    BY <1>3, <2>2, SameProfiles
  <2>12. q \in Request /\ Held(db', q)
    <3>1. /\ q \in Request /\ q.pc \in {"session", "handoff"} /\ q.account = new
          /\ q.business = request[r].business
      BY <1>1, <1>6, <2>4 DEF Request
    <3>2. request[r].business = Null
      BY <1>1 DEF Held
    <3> QED
      BY <2>3, <2>4, <3>1, <3>2 DEF Held
  <2>13. request' \in [Requests -> Request] /\ \A s \in Requests : Held(db', request'[s])
    BY <1>3, <1>6, <2>5, <2>12, HeldThen
  <2>14. Types'
    BY <1>1, <1>3, <2>2, <2>13 DEF Types
  <2> QED
    BY <2>6, <2>7, <2>8, <2>9, <2>10, <2>11, <2>13, <2>14 DEF IInv
<1> QED
  BY <1>4, <1>5, <1>6

-----------------------------------------------------------------------------
\* The workspace and its profile.

\* The account behind a token, and the business she works on: that of her
\* account, whatever the session says.
LEMMA WhoIs ==
    ASSUME Types, SessionsHeld, NEW token
    PROVE  LET who == AccountForSession(db, token) IN
           \A s \in db.session : s.token = token /\ s.fresh =>
              /\ who.account = s.account
              /\ who.business = db.account[s.account].business
<1> SUFFICES ASSUME NEW s \in db.session, s.token = token, s.fresh
             PROVE  /\ AccountForSession(db, token).account = s.account
                    /\ AccountForSession(db, token).business = db.account[s.account].business
  OBVIOUS
<1>1. LiveSessions(db, token) = {s}
  BY DEF LiveSessions, SessionsHeld
<1>2. (CHOOSE u \in {s} : TRUE) = s
  OBVIOUS
<1>3. s.business \in {Null, db.account[s.account].business}
  BY DEF SessionsHeld
<1>4. AccountForSession(db, token) =
        [account |-> s.account, business |-> Coalesce(db.account[s.account].business, s.business),
         admin |-> db.account[s.account].admin]
  BY <1>1, <1>2 DEF AccountForSession
<1>5. Coalesce(db.account[s.account].business, s.business) = db.account[s.account].business
  BY <1>3 DEF Coalesce
<1> QED
  BY <1>4, <1>5

LEMMA SignedIn ==
    ASSUME Types, SessionsHeld, NEW token, AccountForSession(db, token) # Null
    PROVE  LET who == AccountForSession(db, token) IN
           /\ who.account \in Rows(db.account)
           /\ who.business = db.account[who.account].business
<1>1. LiveSessions(db, token) # {}
  BY DEF AccountForSession
<1>2. PICK s \in db.session : s.token = token /\ s.fresh
  BY <1>1 DEF LiveSessions
<1>3. s.account \in Rows(db.account)
  BY DEF SessionsHeld
<1> QED
  BY <1>2, <1>3, WhoIs

LEMMA Narrowed ==
    ASSUME NEW S, NEW T, NEW t \in Seq(S), \A i \in Rows(t) : t[i] \in T
    PROVE  t \in Seq(T)
<1>1. Len(t) \in Nat /\ t \in [1..Len(t) -> S] /\ Rows(t) = 1..Len(t)
  BY LenProperties, RowsOf
<1>2. t \in [1..Len(t) -> T]
  BY <1>1
<1> QED
  BY <1>1, <1>2, SeqOfMap

\* What a save leaves of the accounts.
AccountsWritten(d, t) ==
    /\ t \in Seq(AccountRow) /\ Rows(t) = Rows(d.account)
    /\ \A c \in Rows(d.account) : /\ t[c].username = d.account[c].username
                                  /\ t[c].provider = d.account[c].provider
                                  /\ t[c].subject = d.account[c].subject
                                  /\ t[c].business = d.account[c].business

LEMMA EmailOnly ==
    ASSUME NEW d \in Drafts, NEW a \in Rows(d.account), NEW email \in Nat, NEW t,
           t = [d.account EXCEPT ![a].email = email]
    PROVE  AccountsWritten(d, t)
<1> DEFINE row == [d.account[a] EXCEPT !.email = email]
<1>1. d.account \in Seq(AccountRow) /\ d.account[a] \in AccountRow
  BY RowsOf DEF Drafts
<1>2. /\ row \in AccountRow /\ row.username = d.account[a].username
      /\ row.provider = d.account[a].provider /\ row.subject = d.account[a].subject
      /\ row.business = d.account[a].business
  BY <1>1 DEF AccountRow
<1>3. t = [d.account EXCEPT ![a] = row]
  OBVIOUS
<1> HIDE DEF row
<1>4. IsChange(AccountRow, d.account, a, row, t)
  BY <1>1, <1>2, <1>3, Changed
<1> QED
  BY <1>2, <1>4 DEF IsChange, AccountsWritten

LEMMA BusinessesAfterSave ==
    ASSUME NEW d, NEW e, NEW b \in Rows(d.business), NEW p \in Profiles,
           BusinessWritten(d, e, b, p),
           \A c \in Rows(d.business) : c # b => d.business[c] \in BusinessRow
    PROVE  e.business \in Seq(BusinessRow)
<1>1. e.business \in Seq(LooseRow) /\ Rows(e.business) = Rows(d.business)
  BY DEF BusinessWritten
<1>2. ASSUME NEW c \in Rows(e.business)  PROVE e.business[c] \in BusinessRow
  <2>1. e.business[c] \in LooseRow
    BY <1>1, RowsOf
  <2>2. CASE c = b
    BY <2>1, <2>2 DEF BusinessWritten, LooseRow, BusinessRow
  <2>3. CASE c # b
    BY <1>1, <2>3 DEF BusinessWritten
  <2> QED
    BY <2>2, <2>3
<1> QED
  BY <1>1, <1>2, Narrowed

\* Facts, profile and menu agree after a save: those of the business, because it
\* writes all three, and those of the others, because it touches none.
LEMMA CoherentSaved ==
    ASSUME NEW d \in Drafts, NEW e, NEW b \in Nat, NEW p \in Profiles,
           NEW observed, NEW sent,
           FactsWritten(d, e, b, p), BusinessWritten(d, e, b, p),
           \A i \in Rows(d.fact) : d.fact[i].managed,
           p.menu = sent[b].menu,
           ~sent[b].edited => {m \in Menus : <<b, m>> \in observed} = {p.menu} \ {Null}
    PROVE  Coherent(e, observed, sent, b)
<1>1. CurrentFacts(e, b) = NewFacts(d, p)
  BY CurrentAfterSave
<1>2. e.business[b].profile = p
  BY DEF BusinessWritten
<1>3. /\ {e.fact[i].text : i \in NewFacts(d, p)}
            = {ProfileFacts(p)[k] : k \in DOMAIN ProfileFacts(p)}
      /\ Cardinality(NewFacts(d, p)) = Len(ProfileFacts(p))
  BY NewFactsAreTheProfile
<1> QED
  BY <1>1, <1>2, <1>3 DEF Coherent

LEMMA CoherentOthers ==
    ASSUME NEW d \in Drafts, NEW e, NEW b \in Nat, NEW p \in Profiles,
           NEW before, NEW after, NEW said, NEW sent,
           FactsWritten(d, e, b, p), BusinessWritten(d, e, b, p),
           \A i \in Rows(d.fact) : d.fact[i].managed,
           NEW c \in Rows(d.business), c # b, Coherent(d, before, said, c),
           said[c] = sent[c],
           {m \in Menus : <<c, m>> \in before} = {m \in Menus : <<c, m>> \in after}
    PROVE  Coherent(e, after, sent, c)
<1>1. c \in Nat
  BY RowsOf DEF Drafts
<1>2. CurrentFacts(e, c) = CurrentFacts(d, c)
  BY <1>1, CurrentAfterSave
<1>3. CurrentFacts(d, c) \subseteq Rows(d.fact)
  BY DEF CurrentFacts
<1>4. \A i \in CurrentFacts(d, c) : e.fact[i].text = d.fact[i].text
  BY <1>3 DEF FactsWritten
<1>5. {e.fact[i].text : i \in CurrentFacts(d, c)} = {d.fact[i].text : i \in CurrentFacts(d, c)}
  BY <1>4
<1>6. e.business[c] = d.business[c]
  BY DEF BusinessWritten
<1> QED
  BY <1>2, <1>5, <1>6 DEF Coherent

LEMMA UpdateProfileKeeps ==
    ASSUME IInv, NEW token \in Tokens, NEW sent \in Menus \cup {Null, Untouched},
           NEW located \in BOOLEAN, UpdateProfile(token, sent, located)
    PROVE  IInv' /\ Rows(db'.account) = Rows(db.account)
<1> DEFINE who == AccountForSession(db, token)
           a   == who.account
           b   == who.business
           kept == IF sent = Untouched THEN KeptMenu(who) ELSE sent
           p   == [text |-> minted.saves + 1, menu |-> kept]
           row == [menu |-> sent, edited |-> TRUE]
<1>1. /\ Types /\ AccountsHeld /\ OwnersHeld /\ SessionsHeld /\ CodesHeld /\ FactsHeld
      /\ ProfileCoherent /\ who # Null /\ b # Null /\ minted.saves < MaxSaves
      /\ db' = SaveProfile(db, a, b, p, located)
      /\ minted' = [minted EXCEPT !.saves = @ + 1]
      /\ told' = IF sent = Untouched THEN told ELSE [told EXCEPT ![b] = row]
      /\ UNCHANGED <<corpus, request, tab, redeemed>>
  BY DEF IInv, UpdateProfile
<1> HIDE DEF who
<1>2. a \in Rows(db.account) /\ b = db.account[a].business
  BY <1>1, SignedIn DEF who
<1>3. b \in Rows(db.business) /\ b \in Nat
  BY <1>1, <1>2, TablesFacts DEF AccountsHeld
<1>4. KeptMenu(who) = db.business[b].profile.menu /\ KeptMenu(who) \in Menus \cup {Null}
  <2>1. db.business[b].profile \in Profiles
    BY <1>1, <1>3, TablesFacts DEF BusinessRow
  <2>2. db.business[b].profile # Null
    BY <2>1, AccountsAssumption
  <2>3. KeptMenu(who) = db.business[b].profile.menu
    BY <1>2, <1>3, <2>2 DEF KeptMenu, GetOwnerProfile
  <2> QED
    BY <2>1, <2>3 DEF Profiles
<1>4a. /\ kept \in Menus \cup {Null}
       /\ sent = Untouched => kept = db.business[b].profile.menu
       /\ sent # Untouched => kept = sent
  BY <1>4
<1> HIDE DEF kept
<1>5. /\ p \in Profiles /\ p.menu = kept
      /\ minted' \in [tokens : 0..MaxTokens, codes : 0..MaxCodes, saves : 0..MaxSaves]
      /\ minted'.tokens = minted.tokens /\ minted'.codes = minted.codes
      /\ p.text \in Nat
  <2>1. /\ minted \in [tokens : 0..MaxTokens, codes : 0..MaxCodes, saves : 0..MaxSaves]
        /\ minted.saves \in 0..MaxSaves /\ MaxSaves \in Nat
    BY <1>1, AccountsAssumption DEF Types
  <2>2. minted.saves + 1 \in 1..MaxSaves
    BY <1>1, <2>1
  <2>3. /\ minted' \in [tokens : 0..MaxTokens, codes : 0..MaxCodes, saves : 0..MaxSaves]
        /\ minted'.tokens = minted.tokens /\ minted'.codes = minted.codes
    BY <1>1, <2>1, <2>2
  <2>4. p \in Profiles /\ p.menu = kept /\ p.text \in Nat
    BY <1>4a, <2>2 DEF Profiles
  <2> QED
    BY <2>3, <2>4
<1> HIDE DEF p
<1>5a. /\ told' \in Seq(Sent) /\ Rows(told') = Rows(told)
       /\ \A c \in Rows(told) : c # b => told'[c] = told[c]
       /\ sent = Untouched => told'[b] = told[b]
       /\ sent # Untouched => told'[b] = row
  <2>1. told \in Seq(Sent) /\ b \in Rows(told)
    BY <1>1, <1>3 DEF Types, FactsHeld
  <2>2. CASE sent = Untouched
    BY <1>1, <2>1, <2>2
  <2>3. CASE sent # Untouched
    <3>1. row \in Sent
      BY <2>3 DEF Sent
    <3> HIDE DEF row
    <3>2. IsChange(Sent, told, b, row, told')
      BY <1>1, <2>1, <2>3, <3>1, Changed
    <3> QED
      BY <2>1, <2>3, <3>2 DEF IsChange
  <2> QED
    BY <2>2, <2>3
<1>6. /\ db'.account = [db.account EXCEPT ![a].email = p.text]
      /\ db' = [db EXCEPT !.account = db'.account, !.business = db'.business, !.fact = db'.fact]
      /\ BusinessWritten(db, db', b, p) /\ FactsWritten(db, db', b, p)
  <2>1. db \in Drafts
    BY <1>1, TablesFacts
  <2>2. Saves(db, db', a, b, p)
    BY <1>1, <1>2, <1>3, <1>5, <2>1, Saved
  <2> QED
    BY <2>2 DEF Saves
<1>7. /\ db'.account \in Seq(AccountRow) /\ Rows(db'.account) = Rows(db.account)
      /\ \A c \in Rows(db.account) : /\ db'.account[c].username = db.account[c].username
                                     /\ db'.account[c].provider = db.account[c].provider
                                     /\ db'.account[c].subject = db.account[c].subject
                                     /\ db'.account[c].business = db.account[c].business
  <2>1. db \in Drafts
    BY <1>1, TablesFacts
  <2> DEFINE t == db'.account
             email == p.text
  <2>2. t = [db.account EXCEPT ![a].email = email] /\ email \in Nat
    BY <1>5, <1>6
  <2> HIDE DEF t, email
  <2>3. AccountsWritten(db, t)
    BY <1>2, <2>1, <2>2, EmailOnly
  <2> QED
    BY <2>3 DEF AccountsWritten, t
<1>8. db'.business \in Seq(BusinessRow) /\ Rows(db'.business) = Rows(db.business)
  <2>1. \A c \in Rows(db.business) : db.business[c] \in BusinessRow
    BY <1>1, TablesFacts
  <2> QED
    BY <1>3, <1>5, <1>6, <2>1, BusinessesAfterSave DEF BusinessWritten
<1>9. db'.fact \in Seq(FactRows)
  BY <1>6 DEF FactsWritten
<1>10. db' \in Tables /\ db'.session = db.session /\ db'.handoff = db.handoff
  BY <1>1, <1>6, <1>7, <1>8, <1>9 DEF Types, Tables
<1>11. Later(db, db')
  BY <1>7 DEF Later
<1>12. AccountsHeld'
  BY <1>1, <1>7, <1>8 DEF AccountsHeld, KeysUnique
<1>13. OwnersHeld'
  BY <1>1, <1>7, <1>8 DEF OwnersHeld
<1>14. SessionsHeld'
  BY <1>1, <1>5, <1>7, <1>10 DEF SessionsHeld
<1>15. CodesHeld'
  BY <1>1, <1>5, <1>7, <1>10 DEF CodesHeld
<1>16. TabsHeld'
  BY <1>1 DEF IInv, TabsHeld
<1>17. \A r \in Requests : Held(db', request'[r])
  BY <1>1, <1>11, HeldStill
<1>18. FactsHeld'
  <2>1. \A i \in Rows(db.fact) : db.fact[i].managed /\ db.fact[i].business \in Rows(db.business)
    BY <1>1 DEF FactsHeld
  <2>2. ManagedStill(db, db', b)
    <3>1. db \in Drafts /\ \A i \in Rows(db.fact) : db.fact[i].managed
      BY <1>1, <2>1, TablesFacts
    <3> QED
      BY <1>3, <1>5, <1>6, <3>1, CurrentAfterSave
  <2> QED
    BY <1>1, <1>3, <1>5a, <1>8, <2>1, <2>2 DEF FactsHeld, ManagedStill
<1>19. ProfileCoherent'
  <2>1. db \in Drafts /\ \A i \in Rows(db.fact) : db.fact[i].managed
    BY <1>1, TablesFacts DEF FactsHeld
  <2>2. \A c \in Rows(db.business) : Coherent(db, corpus, told, c)
    BY <1>1, CoherentAll
  <2>3. /\ p.menu = told'[b].menu
        /\ ~told'[b].edited => {m \in Menus : <<b, m>> \in corpus} = {p.menu} \ {Null}
    <3>1. CASE sent = Untouched
      BY <1>3, <1>4a, <1>5, <1>5a, <2>2, <3>1 DEF Coherent
    <3>2. CASE sent # Untouched
      BY <1>4a, <1>5, <1>5a, <3>2
    <3> QED
      BY <3>1, <3>2
  <2>4. Coherent(db', corpus, told', b)
    BY <1>3, <1>5, <1>6, <2>1, <2>3, CoherentSaved
  <2>5. ASSUME NEW c \in Rows(db.business), c # b  PROVE Coherent(db', corpus, told', c)
    <3>1. told[c] = told'[c] /\ b \in Nat
      BY <1>1, <1>3, <1>5a, <2>5 DEF FactsHeld
    <3> QED
      BY <1>3, <1>5, <1>6, <2>1, <2>2, <2>5, <3>1, CoherentOthers
  <2> QED
    BY <1>1, <1>8, <2>4, <2>5, CoherentAll
<1>20. Types'
  BY <1>1, <1>5, <1>5a, <1>10 DEF Types
<1> QED
  BY <1>7, <1>12, <1>13, <1>14, <1>15, <1>16, <1>17, <1>18, <1>19, <1>20 DEF IInv

\* The last statement of signup: the account and all its sessions.
Attaches(d, e, a, b) ==
    /\ e = [d EXCEPT !.account = e.account, !.session = e.session]
    /\ e.account \in Seq(AccountRow) /\ Rows(e.account) = Rows(d.account)
    /\ e.account[a].username = d.account[a].username
    /\ e.account[a].provider = d.account[a].provider
    /\ e.account[a].subject = d.account[a].subject
    /\ e.account[a].business = b
    /\ \A c \in Rows(d.account) : c # a => e.account[c] = d.account[c]
    /\ e.session \subseteq SessionRow
    /\ \A s \in e.session : \E u \in d.session :
          /\ s.token = u.token /\ s.account = u.account
          /\ s.business = IF u.account = a THEN b ELSE u.business
          /\ s = IF u.account = a THEN [u EXCEPT !.business = b] ELSE u

LEMMA Attached ==
    ASSUME NEW d \in Drafts, NEW a \in Rows(d.account), NEW b \in Rows(d.business)
    PROVE  Attaches(d, AttachBusiness(d, a, b).db, a, b)
<1> DEFINE row  == [d.account[a] EXCEPT !.business = b]
           t    == [d.account EXCEPT ![a] = row]
           live == {IF s.account = a THEN [s EXCEPT !.business = b] ELSE s : s \in d.session}
           e    == AttachBusiness(d, a, b).db
<1>1. d.account \in Seq(AccountRow) /\ d.account[a] \in AccountRow /\ d.session \subseteq SessionRow
      /\ b \in Nat
  BY RowsOf DEF Drafts
<1>2. /\ row \in AccountRow /\ row.username = d.account[a].username
      /\ row.provider = d.account[a].provider /\ row.subject = d.account[a].subject
      /\ row.business = b
  BY <1>1 DEF AccountRow
<1>3. e = [d EXCEPT !.account = t, !.session = live]
  BY DEF AttachBusiness, Answer, Exists
<1> HIDE DEF row
<1>4. IsChange(AccountRow, d.account, a, row, t)
  BY <1>1, <1>2, Changed
<1>5. ASSUME NEW u \in d.session
      PROVE  /\ [u EXCEPT !.business = b] \in SessionRow
             /\ [u EXCEPT !.business = b].token = u.token
             /\ [u EXCEPT !.business = b].account = u.account
             /\ [u EXCEPT !.business = b].business = b
             /\ u \in SessionRow
  <2>1. u \in SessionRow
    BY <1>1
  <2> QED
    BY <1>1, <2>1 DEF SessionRow
<1>6. live \subseteq SessionRow
  BY <1>5
<1>7. \A s \in live : \E u \in d.session :
         /\ s.token = u.token /\ s.account = u.account
         /\ s.business = IF u.account = a THEN b ELSE u.business
         /\ s = IF u.account = a THEN [u EXCEPT !.business = b] ELSE u
  <2> TAKE s \in live
  <2>1. PICK u \in d.session : s = IF u.account = a THEN [u EXCEPT !.business = b] ELSE u
    OBVIOUS
  <2>2. CASE u.account = a
    BY <1>5, <2>1, <2>2
  <2>3. CASE u.account # a
    BY <2>1, <2>3
  <2> QED
    BY <2>2, <2>3
<1> HIDE DEF t, live, e
<1>8. e.account = t /\ e.session = live
  BY <1>3 DEF Drafts
<1>9. e = [d EXCEPT !.account = e.account, !.session = e.session]
  BY <1>3, <1>8
<1> QED
  BY <1>2, <1>4, <1>6, <1>7, <1>8, <1>9 DEF IsChange, Attaches, e

\* The whole of signup: d with the business, e with its profile, f with the rule.
Onboards(a, p, d, e, f) ==
    LET b == Len(db.business) + 1 IN
    /\ db.account[a].business = Null
    /\ d = [db EXCEPT !.business = d.business]
    /\ Rows(d.business) = Rows(db.business) \cup {b}
    /\ \A c \in Rows(db.business) : d.business[c] = db.business[c]
    /\ Saves(d, e, a, b, p)
    /\ f = [e EXCEPT !.rule = f.rule]
    /\ f.rule \in Seq(RuleRows)
    /\ Attaches(f, db', a, b)
    /\ corpus' = corpus \cup MenuRows(b, p)
    /\ told' = Append(told, [menu |-> p.menu, edited |-> FALSE])

LEMMA OnboardWrites ==
    ASSUME Types, AccountsHeld, SessionsHeld, NEW token, NEW menu, NEW located \in BOOLEAN,
           Onboard(token, menu, located)
    PROVE  \E a \in Rows(db.account), p \in Profiles, d \in Drafts, e \in Drafts, f \in Drafts :
              Onboards(a, p, d, e, f)
<1> DEFINE who  == AccountForSession(db, token)
           a    == who.account
           p    == [text |-> minted.saves + 1, menu |-> menu]
           b    == Len(db.business) + 1
           nb   == [status |-> "active", profile |-> Null, located |-> located]
           d    == CreateBusiness(db, located).db
           e    == SaveProfile(d, a, b, p, located)
           f    == InsertOwnerRule(e, b, TRUE).db
<1>1. /\ who # Null /\ who.business = Null /\ p \in Profiles
      /\ db' = AttachBusiness(f, a, b).db
      /\ corpus' = corpus \cup MenuRows(b, p)
      /\ told' = Append(told, [menu |-> p.menu, edited |-> FALSE])
  BY DEF Onboard, MaySetUp, CreateBusiness, Answer
<1> HIDE DEF who, p
<1>2. a \in Rows(db.account) /\ db.account[a].business = Null
  BY <1>1, SignedIn DEF who
<1>3. db \in Drafts /\ db.business \in Seq(LooseRow) /\ Len(db.business) \in Nat
      /\ b \in Nat
  BY TablesFacts DEF Drafts
<1>4. d = [db EXCEPT !.business = Append(@, nb)]
  BY DEF CreateBusiness, Answer
<1>5. nb \in LooseRow
  BY DEF LooseRow
<1> HIDE DEF nb, d
<1>6. /\ d \in Drafts /\ d = [db EXCEPT !.business = d.business] /\ d.account = db.account
      /\ Rows(d.business) = Rows(db.business) \cup {b}
      /\ \A c \in Rows(db.business) : d.business[c] = db.business[c]
  <2> DEFINE table == Append(db.business, nb)
  <2>1. /\ table \in Seq(LooseRow) /\ Rows(table) = Rows(db.business) \cup {b}
        /\ \A c \in Rows(db.business) : table[c] = db.business[c]
    <3>1. IsAppend(LooseRow, db.business, nb, table)
      BY <1>3, <1>5, Appended
    <3> QED
      BY <3>1 DEF IsAppend
  <2>2. d = [db EXCEPT !.business = table]
    BY <1>4
  <2> HIDE DEF table
  <2> QED
    BY <1>3, <2>1, <2>2 DEF Drafts
<1>7. Saves(d, e, a, b, p)
  BY <1>1, <1>2, <1>6, Saved
<1> HIDE DEF e
<1>8. e \in Drafts /\ Rows(e.account) = Rows(d.account) /\ Rows(e.business) = Rows(d.business)
  <2>1. AccountsWritten(d, e.account)
    <3>1. p.text \in Nat /\ a \in Rows(d.account)
      BY <1>1, <1>2, <1>6, FactsOf
    <3>2. e.account = [d.account EXCEPT ![a].email = p.text]
      BY <1>7 DEF Saves
    <3> QED
      BY <1>6, <3>1, <3>2, EmailOnly
  <2>2. e = [d EXCEPT !.account = e.account, !.business = e.business, !.fact = e.fact]
        /\ e.business \in Seq(LooseRow) /\ e.fact \in Seq(FactRows)
        /\ Rows(e.business) = Rows(d.business)
    BY <1>7 DEF Saves, BusinessWritten, FactsWritten
  <2> QED
    BY <1>6, <2>1, <2>2 DEF AccountsWritten, Drafts
<1>9. f = [e EXCEPT !.rule = f.rule] /\ f.rule \in Seq(RuleRows) /\ f \in Drafts
      /\ f.account = e.account /\ b \in Rows(f.business)
  <2> DEFINE table == Append(e.rule, [business |-> b, enabled |-> TRUE])
  <2>1. table \in Seq(RuleRows)
    <3>1. [business |-> b, enabled |-> TRUE] \in RuleRows
      BY <1>3 DEF RuleRows
    <3> QED
      BY <1>8, <3>1, Appended DEF Drafts, IsAppend
  <2>2. f = [e EXCEPT !.rule = table]
    BY <1>6, <1>8 DEF InsertOwnerRule, Answer, Exists
  <2> HIDE DEF table, f
  <2> QED
    BY <1>6, <1>8, <2>1, <2>2 DEF Drafts
<1> HIDE DEF f
<1>10. Attaches(f, db', a, b)
  BY <1>1, <1>2, <1>3, <1>6, <1>8, <1>9, Attached
<1>11. Onboards(a, p, d, e, f)
  BY <1>1, <1>2, <1>6, <1>7, <1>9, <1>10 DEF Onboards
<1> QED
  BY <1>1, <1>2, <1>6, <1>8, <1>9, <1>11

LEMMA OnboardKeeps ==
    ASSUME IInv, NEW token \in Tokens, NEW menu \in Menus \cup {Null}, NEW located \in BOOLEAN,
           Onboard(token, menu, located)
    PROVE  IInv' /\ Rows(db'.account) = Rows(db.account)
<1> DEFINE b == Len(db.business) + 1
<1>1. /\ Types /\ AccountsHeld /\ OwnersHeld /\ SessionsHeld /\ CodesHeld /\ FactsHeld
      /\ ProfileCoherent
      /\ minted' = [minted EXCEPT !.saves = @ + 1] /\ minted.saves + 1 \in 1..MaxSaves
      /\ UNCHANGED <<request, tab, redeemed>>
  BY DEF IInv, Onboard, Profiles
<1>2. PICK a \in Rows(db.account), p \in Profiles, d \in Drafts, e \in Drafts, f \in Drafts :
         Onboards(a, p, d, e, f)
  BY <1>1, OnboardWrites
<1>3. /\ Rows(db.business) = 1..Len(db.business) /\ b \in Nat /\ b \notin Rows(db.business)
      /\ b # Null /\ Null \notin Nat /\ db \in Drafts
  BY <1>1, TablesFacts
<1>4. /\ db.account[a].business = Null
      /\ d.account = db.account /\ d.session = db.session /\ d.handoff = db.handoff
      /\ d.fact = db.fact
      /\ Rows(d.business) = Rows(db.business) \cup {b}
      /\ \A c \in Rows(db.business) : d.business[c] = db.business[c]
      /\ corpus' = corpus \cup MenuRows(b, p)
      /\ told' = Append(told, [menu |-> p.menu, edited |-> FALSE])
  BY <1>2, <1>3 DEF Onboards, Drafts
<1>4a. /\ told' \in Seq(Sent) /\ Rows(told') = Rows(told) \cup {b}
       /\ told'[b] = [menu |-> p.menu, edited |-> FALSE]
       /\ \A c \in Rows(told) : told'[c] = told[c]
       /\ Rows(told) = Rows(db.business)
  <2> DEFINE row == [menu |-> p.menu, edited |-> FALSE]
  <2>1. row \in Sent
    BY DEF Sent, Profiles
  <2>2. told \in Seq(Sent) /\ Rows(told) = Rows(db.business)
    BY <1>1 DEF Types, FactsHeld
  <2>3. Len(told) = Len(db.business)
    BY <1>3, <2>2, RowsOf
  <2>4. told' = Append(told, row)
    BY <1>4
  <2> HIDE DEF row
  <2>5. IsAppend(Sent, told, row, told')
    BY <2>1, <2>2, <2>4, Appended
  <2> QED
    BY <2>2, <2>3, <2>5 DEF IsAppend, row
<1>5. /\ BusinessWritten(d, e, b, p) /\ FactsWritten(d, e, b, p) /\ AccountsWritten(d, e.account)
      /\ e.session = d.session /\ e.handoff = d.handoff
  <2>1. Saves(d, e, a, b, p)
    BY <1>2 DEF Onboards
  <2>2. AccountsWritten(d, e.account)
    BY <1>4, <2>1, FactsOf, EmailOnly DEF Saves
  <2>3. e = [d EXCEPT !.account = e.account, !.business = e.business, !.fact = e.fact]
    BY <2>1 DEF Saves
  <2> QED
    BY <2>1, <2>2, <2>3 DEF Saves, Drafts
<1>6. /\ Attaches(f, db', a, b) /\ f.account = e.account /\ f.business = e.business
      /\ f.fact = e.fact /\ f.session = e.session /\ f.handoff = e.handoff
      /\ f.rule \in Seq(RuleRows) /\ f.connection = {}
  BY <1>2 DEF Onboards, Drafts
<1>7. /\ db' = [f EXCEPT !.account = db'.account, !.session = db'.session]
      /\ db'.account \in Seq(AccountRow) /\ db'.session \subseteq SessionRow
  BY <1>6 DEF Attaches
<1>8. /\ db'.business = e.business /\ db'.fact = e.fact /\ db'.handoff = db.handoff
  BY <1>4, <1>5, <1>6, <1>7 DEF Drafts
<1>9. e.business \in Seq(BusinessRow) /\ Rows(e.business) = Rows(db.business) \cup {b}
  <2>1. b \in Rows(d.business)
    BY <1>4
  <2>2. \A c \in Rows(d.business) : c # b => d.business[c] \in BusinessRow
    BY <1>1, <1>4, TablesFacts
  <2> QED
    BY <1>4, <1>5, <2>1, <2>2, BusinessesAfterSave DEF BusinessWritten
<1>10. db' \in Tables
  <2>1. e.fact \in Seq(FactRows)
    BY <1>5 DEF FactsWritten
  <2> QED
    BY <1>6, <1>7, <1>8, <1>9, <2>1 DEF Drafts, Tables
<1>11. /\ Rows(db'.account) = Rows(db.account) /\ db'.account[a].business = b
       /\ \A c \in Rows(db.account) :
             /\ db'.account[c].username = db.account[c].username
             /\ db'.account[c].provider = db.account[c].provider
             /\ db'.account[c].subject = db.account[c].subject
             /\ c # a => db'.account[c].business = db.account[c].business
  BY <1>4, <1>5, <1>6 DEF AccountsWritten, Attaches
<1>12. \A s \in db'.session : \E u \in db.session :
          /\ s.token = u.token /\ s.account = u.account
          /\ s.business = IF u.account = a THEN b ELSE u.business
          /\ s = IF u.account = a THEN [u EXCEPT !.business = b] ELSE u
  BY <1>4, <1>5, <1>6 DEF Attaches
<1>13. /\ minted' \in [tokens : 0..MaxTokens, codes : 0..MaxCodes, saves : 0..MaxSaves]
       /\ minted'.tokens = minted.tokens /\ minted'.codes = minted.codes
  BY <1>1, AccountsAssumption DEF Types
<1>14. Later(db, db')
  BY <1>4, <1>11 DEF Later
<1>15. AccountsHeld'
  BY <1>1, <1>8, <1>9, <1>11 DEF AccountsHeld, KeysUnique
<1>16. OwnersHeld'
  <2>1. ASSUME NEW c \in Rows(db'.business)
        PROVE  \E k \in Rows(db'.account) : db'.account[k].business = c
    <3>1. CASE c = b
      BY <1>11, <3>1
    <3>2. CASE c \in Rows(db.business)
      <4>1. PICK k \in Rows(db.account) : db.account[k].business = c
        BY <1>1, <3>2 DEF OwnersHeld
      <4>2. k # a
        BY <1>1, <1>4, <3>2, <4>1, TablesFacts
      <4> QED
        BY <1>11, <4>1, <4>2
    <3> QED
      BY <1>8, <1>9, <3>1, <3>2
  <2>2. ASSUME NEW k \in Rows(db'.account), NEW c \in Rows(db'.account),
               db'.account[k].business = db'.account[c].business, k # c
        PROVE  db'.account[k].business = Null
    <3>1. \A m \in Rows(db.account) : db.account[m].business # b
      BY <1>1, <1>3 DEF AccountsHeld
    <3>2. k # a /\ c # a
      BY <1>11, <2>2, <3>1
    <3> QED
      BY <1>1, <1>11, <2>2, <3>2 DEF OwnersHeld
  <2> QED
    BY <2>1, <2>2 DEF OwnersHeld
<1>17. SessionsHeld'
  <2>1. ASSUME NEW s \in db'.session
        PROVE  /\ s.token <= minted'.tokens
               /\ s.account \in Rows(db'.account)
               /\ s.business \in {Null, db'.account[s.account].business}
    <3>1. PICK u \in db.session :
             /\ s.token = u.token /\ s.account = u.account
             /\ s.business = IF u.account = a THEN b ELSE u.business
      BY <1>12
    <3>2. u.token <= minted.tokens /\ u.account \in Rows(db.account)
          /\ u.business \in {Null, db.account[u.account].business}
      BY <1>1 DEF SessionsHeld
    <3>3. CASE u.account = a
      BY <1>11, <1>13, <3>1, <3>2, <3>3
    <3>4. CASE u.account # a
      BY <1>11, <1>13, <3>1, <3>2, <3>4
    <3> QED
      BY <3>3, <3>4
  <2>2. ASSUME NEW s \in db'.session, NEW v \in db'.session, s.token = v.token
        PROVE  s = v
    <3>1. PICK u \in db.session : /\ s.token = u.token
                                  /\ s = IF u.account = a THEN [u EXCEPT !.business = b] ELSE u
      BY <1>12
    <3>2. PICK w \in db.session : /\ v.token = w.token
                                  /\ v = IF w.account = a THEN [w EXCEPT !.business = b] ELSE w
      BY <1>12
    <3>3. u = w
      BY <1>1, <2>2, <3>1, <3>2 DEF SessionsHeld
    <3> QED
      BY <3>1, <3>2, <3>3
  <2> QED
    BY <2>1, <2>2 DEF SessionsHeld
<1>18. CodesHeld'
  BY <1>1, <1>8, <1>11, <1>13 DEF CodesHeld
<1>19. TabsHeld'
  BY <1>1 DEF IInv, TabsHeld
<1>20. \A r \in Requests : Held(db', request'[r])
  BY <1>1, <1>14, HeldStill
<1>21. MenuRows(b, p) \subseteq {b} \X Menus /\ {m \in Menus : <<b, m>> \in corpus'} = {p.menu} \ {Null}
  <2>1. p.menu \in Menus \cup {Null} /\ Null \notin Menus
    BY AccountsAssumption DEF Profiles
  <2>2. \A m : <<b, m>> \notin corpus
    BY <1>1, <1>3 DEF FactsHeld
  <2>3. \A m : <<b, m>> \in corpus' <=> <<b, m>> \in MenuRows(b, p)
    BY <1>4, <2>2
  <2>4. CASE p.menu = Null
    BY <2>1, <2>3, <2>4 DEF MenuRows
  <2>5. CASE p.menu # Null
    BY <2>1, <2>3, <2>5 DEF MenuRows
  <2> QED
    BY <2>4, <2>5
<1>22. FactsHeld'
  <2>1. \A i \in Rows(db.fact) : db.fact[i].managed /\ db.fact[i].business \in Rows(db.business)
    BY <1>1 DEF FactsHeld
  <2>2. ManagedStill(d, e, b)
    BY <1>3, <1>4, <1>5, <2>1, CurrentAfterSave
  <2>3. \A m \in corpus' : m[1] \in Rows(db'.business)
    BY <1>1, <1>4, <1>8, <1>9, <1>21 DEF FactsHeld
  <2> QED
    BY <1>4, <1>4a, <1>8, <1>9, <2>1, <2>2, <2>3 DEF FactsHeld, ManagedStill
<1>23. ProfileCoherent'
  <2>1. \A i \in Rows(d.fact) : d.fact[i].managed
    BY <1>1, <1>4 DEF FactsHeld
  <2>2. Coherent(e, corpus', told', b)
    <3>1. p.menu = told'[b].menu
      BY <1>4a
    <3> QED
      BY <1>3, <1>5, <1>21, <2>1, <3>1, CoherentSaved
  <2>3. ASSUME NEW c \in Rows(db.business)  PROVE Coherent(e, corpus', told', c)
    <3>1. Coherent(db, corpus, told, c)
      BY <1>1, CoherentAll
    <3>2. Coherent(d, corpus, told, c)
      <4>1. CurrentFacts(d, c) = CurrentFacts(db, c)
        BY <1>4 DEF CurrentFacts
      <4>2. d.business[c] = db.business[c] /\ d.fact = db.fact
        BY <1>4
      <4> QED
        BY <3>1, <4>1, <4>2 DEF Coherent
    <3>3. c # b /\ c \in Rows(d.business)
      BY <1>3, <1>4
    <3>4. {m \in Menus : <<c, m>> \in corpus} = {m \in Menus : <<c, m>> \in corpus'}
      BY <1>4, <1>21, <3>3
    <3>5. told[c] = told'[c]
      BY <1>4a, <2>3
    <3> QED
      BY <1>3, <1>5, <2>1, <3>2, <3>3, <3>4, <3>5, CoherentOthers
  <2>4. \A c : Coherent(db', corpus', told', c) <=> Coherent(e, corpus', told', c)
    BY <1>8 DEF Coherent, CurrentFacts
  <2> QED
    BY <1>8, <1>9, <2>2, <2>3, <2>4, CoherentAll
<1>24. Types'
  <2>1. corpus' \subseteq Nat \X Menus
    BY <1>1, <1>3, <1>4, <1>21 DEF Types
  <2> QED
    BY <1>1, <1>4a, <1>10, <1>13, <2>1 DEF Types
<1> QED
  BY <1>11, <1>15, <1>16, <1>17, <1>18, <1>19, <1>20, <1>22, <1>23, <1>24 DEF IInv

-----------------------------------------------------------------------------
\* The theorems.

LEMMA InitHolds == Init => IInv
<1> SUFFICES ASSUME Init  PROVE IInv
  OBVIOUS
<1>1. db = Empty /\ Rows(<<>>) = {}
  BY DEF Init, Rows
<1>2. /\ db.account = <<>> /\ db.business = <<>> /\ db.session = {} /\ db.handoff = {}
      /\ db.fact = <<>> /\ db.rule = <<>> /\ db.connection = {}
  BY <1>1 DEF Empty
<1>3. db \in Tables
  <2>1. \A S : <<>> \in Seq(S)
    BY EmptySeq
  <2> QED
    BY <1>1, <2>1 DEF Empty, Tables
<1>4. Types
  <2>1. minted \in [tokens : 0..MaxTokens, codes : 0..MaxCodes, saves : 0..MaxSaves]
    BY AccountsAssumption DEF Init
  <2>2. request \in [Requests -> Request]
    BY IdleHeld DEF Init
  <2> QED
    BY <1>3, <2>1, <2>2, EmptySeq DEF Init, Types
<1>5. AccountsHeld
  BY <1>1, <1>2 DEF AccountsHeld, KeysUnique
<1>6. OwnersHeld
  BY <1>1, <1>2 DEF OwnersHeld
<1>7. SessionsHeld
  BY <1>2 DEF SessionsHeld
<1>8. CodesHeld
  BY <1>2 DEF Init, CodesHeld
<1>9. TabsHeld
  BY DEF Init, TabsHeld
<1>10. FactsHeld
  BY <1>1, <1>2 DEF Init, FactsHeld
<1>11. ProfileCoherent
  BY <1>1, <1>2 DEF ProfileCoherent
<1>12. \A r \in Requests : Held(db, request[r])
  BY IdleHeld DEF Init
<1> QED
  BY <1>4, <1>5, <1>6, <1>7, <1>8, <1>9, <1>10, <1>11, <1>12 DEF IInv

LEMMA NextKeeps == IInv /\ [Next]_vars => IInv'
<1> SUFFICES ASSUME IInv, [Next]_vars  PROVE IInv'
  OBVIOUS
<1>1. CASE UNCHANGED vars
  <2>1. UNCHANGED <<db, corpus, request, tab, minted, redeemed, told>>
    BY <1>1 DEF vars
  <2> QED
    BY <2>1, NoRows DEF IInv, Types, TabsHeld
<1>2. ASSUME NEW r \in Requests,
             \/ \E n \in Usernames : Register(r, n) \/ Login(r, n)
             \/ \E t \in Tabs : Callback(r, t)
             \/ \E c \in Codes : Redeem(r, c)
             \/ Serve(r)
             \/ Crash(r)
      PROVE  IInv'
  BY <1>2, RegisterKeeps, LoginKeeps, CallbackKeeps, RedeemKeeps, CreateKeeps,
     OpenSessionKeeps, SuggestKeeps, HandOffKeeps, ReloadKeeps, CrashKeeps DEF Serve
<1>3. ASSUME NEW t \in Tabs,
             \/ Abandon(t)
             \/ \E s \in Subjects, i \in {"register", "login"} : Start(t, s, i)
      PROVE  IInv'
  <2>1. CASE Abandon(t)
    BY <2>1, AbandonKeeps
  <2>2. CASE \E s \in Subjects, i \in {"register", "login"} : Start(t, s, i)
    BY <2>2, StartKeeps
  <2> QED
    BY <1>3, <2>1, <2>2
<1>4. ASSUME NEW token \in Tokens,
             \/ Logout(token)
             \/ \E located \in BOOLEAN :
                   \/ \E m \in Menus \cup {Null} : Onboard(token, m, located)
                   \/ \E sent \in Menus \cup {Null, Untouched} :
                         UpdateProfile(token, sent, located)
      PROVE  IInv'
  BY <1>4, LogoutKeeps, UpdateProfileKeeps, OnboardKeeps
<1>5. ASSUME \E s \in db.session : SessionExpires(s)  PROVE IInv'
  BY <1>5, SessionExpiresKeeps
<1>6. ASSUME \E h \in db.handoff : HandoffExpires(h)  PROVE IInv'
  BY <1>6, HandoffExpiresKeeps
<1> QED
  BY <1>1, <1>2, <1>3, <1>4, <1>5, <1>6 DEF Next

LEMMA Invariance == Spec => []IInv
  BY InitHolds, NextKeeps, PTL DEF Spec

\* Rows are what their tables say and no foreign key dangles, in whatever order
\* the requests of sign-in and signup interleave and die.
THEOREM WellTyped == Spec => []TypeOK
<1>1. IInv => TypeOK
  <2> SUFFICES ASSUME IInv  PROVE TypeOK
    OBVIOUS
  <2>1. Types
    BY DEF IInv
  <2>2. \A a \in Rows(db.account) : /\ db.account[a] \in AccountRow
                                    /\ db.account[a].business \in Rows(db.business) \cup {Null}
    BY <2>1, TablesFacts DEF IInv, AccountsHeld
  <2>3. \A b \in Rows(db.business) : db.business[b] \in BusinessRow
    BY <2>1, TablesFacts
  <2>4. \A s \in db.session : s \in SessionRow /\ s.account \in Rows(db.account)
    BY <2>1, TablesFacts DEF IInv, SessionsHeld
  <2>5. \A h \in db.handoff : h \in HandoffRow /\ h.account \in Rows(db.account)
    BY <2>1, TablesFacts DEF IInv, CodesHeld
  <2>6. \A r \in Requests :
           /\ request[r] \in Request
           /\ request[r].account \in Rows(db.account) \cup {Null}
           /\ At(r, "session") \/ At(r, "handoff") \/ At(r, "reload") =>
                 request[r].account # Null
    BY <2>1 DEF IInv, Types, Held, At
  <2> QED
    BY <2>2, <2>3, <2>4, <2>5, <2>6 DEF TypeOK
<1> QED
  BY <1>1, Invariance, PTL

\* Of two first sign-ins of one person, or two registrations of one name, the
\* unique index lets one through, however their look-ups interleaved
\* (repository_pg.py create_account).
THEOREM OneAccountEach == Spec => []KeysUnique
<1>1. IInv => KeysUnique
  BY DEF IInv, AccountsHeld
<1> QED
  BY <1>1, Invariance, PTL

\* A code is answered with its account once, however often it is posted: it is
\* deleted by the statement that reads it, and no code is minted twice
\* (repository_pg.py consume_oauth_handoff).
THEOREM CodesSpentOnce == Spec => []CodeRedeemedOnce
<1>1. IInv => CodeRedeemedOnce
  BY DEF IInv, CodesHeld, CodeRedeemedOnce
<1> QED
  BY <1>1, Invariance, PTL

\* Signup makes a business and its owner in one transaction, and only for an
\* account that has none (handlers/onboarding.py).
THEOREM EveryBusinessOwned == Spec => []OneOwnerPerBusiness
<1>1. IInv => OneOwnerPerBusiness
  <2> SUFFICES ASSUME IInv, NEW b \in Rows(db.business)
               PROVE  Cardinality({a \in Rows(db.account) : db.account[a].business = b}) = 1
    BY DEF OneOwnerPerBusiness
  <2>1. PICK a \in Rows(db.account) : db.account[a].business = b
    BY DEF IInv, OwnersHeld
  <2>2. b # Null
    BY TablesFacts DEF IInv
  <2>3. {c \in Rows(db.account) : db.account[c].business = b} = {a}
    BY <2>1, <2>2 DEF IInv, OwnersHeld
  <2> QED
    BY <2>3, FS_Singleton
<1> QED
  BY <1>1, Invariance, PTL

\* A session opened from what was read before signup attached the business still
\* answers with the business of its account (repository_pg.py attach_business).
THEOREM SessionsFollowTheAccount == Spec => []SessionSeesAccount
<1>1. IInv => SessionSeesAccount
  BY WhoIs DEF IInv, SessionSeesAccount
<1> QED
  BY <1>1, Invariance, PTL

\* After any number of saves, by signup or by the editor, with or without a menu,
\* the current facts of a business are those of its stored profile and the
\* profile's menu is the one its owner last sent; until she sends one in an edit,
\* it is the one memory holds (handlers/profile.py, handlers/onboarding.py).
THEOREM ProfilesStayCoherent == Spec => []ProfileCoherent
<1>1. IInv => ProfileCoherent
  BY DEF IInv
<1> QED
  BY <1>1, Invariance, PTL

\* An account row appears in no step but create_account.
LEMMA OnlyCreateAdds ==
    ASSUME IInv, [Next]_vars, ~\E r \in Requests : Create(r)
    PROVE  Rows(db'.account) = Rows(db.account)
<1>1. ASSUME db' = db \/ \E t : db' = [db EXCEPT !.session = t] \/ db' = [db EXCEPT !.handoff = t]
      PROVE  Rows(db'.account) = Rows(db.account)
  BY <1>1 DEF IInv, Types, Tables
<1>2. CASE UNCHANGED vars
  BY <1>2 DEF vars
<1>3. ASSUME NEW r \in Requests,
             \/ \E n \in Usernames : Register(r, n) \/ Login(r, n)
             \/ \E t \in Tabs : Callback(r, t)
             \/ Suggest(r) \/ Reload(r) \/ Crash(r)
      PROVE  db' = db
  BY <1>3 DEF Register, Login, Callback, Suggest, Reload, Crash
<1>4. ASSUME NEW r \in Requests, NEW c \in Codes, Redeem(r, c)
      PROVE  \E t : db' = [db EXCEPT !.handoff = t]
  BY <1>4 DEF Redeem, ConsumeHandoff, Answer
<1>5. ASSUME NEW r \in Requests, OpenSession(r)
      PROVE  db' = db \/ \E t : db' = [db EXCEPT !.session = t]
  BY <1>5 DEF OpenSession, CreateSession, Answer, Refused
<1>6. ASSUME NEW r \in Requests, HandOff(r)
      PROVE  db' = db \/ \E t : db' = [db EXCEPT !.handoff = t]
  BY <1>6 DEF HandOff, CreateHandoff, Answer, Refused
<1>7. ASSUME NEW t \in Tabs,
             \/ Abandon(t)
             \/ \E s \in Subjects, i \in {"register", "login"} : Start(t, s, i)
      PROVE  db' = db
  BY <1>7 DEF Abandon, Start
<1>8. ASSUME NEW token \in Tokens, Logout(token)
      PROVE  \E t : db' = [db EXCEPT !.session = t]
  BY <1>8 DEF Logout, DeleteSession, Answer
<1>9. ASSUME NEW token \in Tokens, NEW sent \in Menus \cup {Null, Untouched},
             NEW located \in BOOLEAN, UpdateProfile(token, sent, located)
      PROVE  Rows(db'.account) = Rows(db.account)
  BY <1>9, UpdateProfileKeeps
<1>10. ASSUME NEW token \in Tokens, NEW located \in BOOLEAN, NEW m \in Menus \cup {Null},
              Onboard(token, m, located)
       PROVE  Rows(db'.account) = Rows(db.account)
  BY <1>10, OnboardKeeps
<1>11. ASSUME NEW s \in db.session, SessionExpires(s)
       PROVE  \E t : db' = [db EXCEPT !.session = t]
  BY <1>11 DEF SessionExpires
<1>12. ASSUME NEW h \in db.handoff, HandoffExpires(h)
       PROVE  \E t : db' = [db EXCEPT !.handoff = t]
  BY <1>12 DEF HandoffExpires
<1> QED
  BY <1>1, <1>2, <1>3, <1>4, <1>5, <1>6, <1>7, <1>8, <1>9, <1>10, <1>11, <1>12
  DEF Next, Serve

\* Whoever gets a Google account came in through the page that asks for the
\* invite, however long the sign-in took and whatever happened meanwhile: the
\* signed state carries the intent, and only it opens the way to create_account
\* (handlers/oauth_google.py).
THEOREM InviteBeforeAccount == Spec => GoogleAccountsInvited
<1> DEFINE Invited ==
      \A a \in Rows(db'.account) \ Rows(db.account) :
         db'.account[a].provider = "google" =>
             \E r \in Requests : /\ At(r, "create")
                                 /\ request[r].intent = "register"
                                 /\ request[r].subject = db'.account[a].subject
<1>1. IInv /\ [Next]_vars => Invited
  <2> SUFFICES ASSUME IInv, [Next]_vars  PROVE Invited
    OBVIOUS
  <2>1. CASE ~\E r \in Requests : Create(r)
    BY <2>1, OnlyCreateAdds
  <2>2. ASSUME NEW r \in Requests, Create(r)  PROVE Invited
    <3> DEFINE row  == NewRow(r)
               made == CreateAccount(db, row)
               new  == Len(db.account) + 1
    <3>1. /\ Types /\ AccountsHeld /\ request[r] \in Request /\ Held(db, request[r])
          /\ request[r].pc = "create" /\ db' = made.db
      BY <2>2 DEF IInv, Types, Create, At
    <3>2. /\ row \in AccountRow /\ (row.subject # Null <=> row.provider = "google")
          /\ row.subject = request[r].subject /\ row.business = Null
      BY <3>1, NewRowOf DEF Held
    <3> HIDE DEF row
    <3>3. \/ made.db = db
          \/ made.db = [db EXCEPT !.account = Append(db.account, row)]
      BY <3>1, <3>2, CreateAdds
    <3> HIDE DEF made
    <3>4. CASE made.db = db
      BY <3>1, <3>4
    <3>5. CASE made.db = [db EXCEPT !.account = Append(db.account, row)]
      <4>1. db'.account = Append(db.account, row)
        BY <3>1, <3>5 DEF Types, Tables
      <4>2. IsAppend(AccountRow, db.account, row, db'.account)
        BY <3>1, <3>2, <4>1, TablesFacts, Appended
      <4>3. \A a \in Rows(db'.account) \ Rows(db.account) : db'.account[a] = row
        BY <4>2 DEF IsAppend
      <4> QED
        BY <3>1, <3>2, <4>3 DEF Held, At
    <3> QED
      BY <3>3, <3>4, <3>5
  <2> QED
    BY <2>1, <2>2
<1> QED
  BY <1>1, Invariance, PTL DEF Spec, GoogleAccountsInvited
=============================================================================
