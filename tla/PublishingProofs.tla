-------------------------- MODULE PublishingProofs ---------------------------
(***************************************************************************)
(* Theorems about posts and review mails, for any number of publish        *)
(* requests, mail workers, cycles and revisions, with answers in doubt.    *)
(* PostedOnce is not inductive: it needs that whoever is about to call is  *)
(* the one holder of a receipt that says running, and that such a receipt  *)
(* keeps the recommendation from being reopened.                           *)
(***************************************************************************)
EXTENDS Publishing, FiniteSetTheorems, TLAPS

\* A row not taken back belongs to the approval in force, and a draft that was
\* ever shown belongs to a row.
Approvals ==
    /\ \A c \in Cycles : row[c].status # "absent" => c <= find.cycle
    /\ \A c \in Cycles : row[c].status # "absent" /\ ~row[c].superseded =>
                            c = find.cycle /\ find.status # "proposed"
    /\ \A c \in Cycles : row[c].status = "completed" => row[c].output \in Revisions
    /\ \A d \in DraftIds : draft[d] # "absent" => row[d[1]].status # "absent"
    /\ \A p \in Publishers : inv[p].pc # "idle" => draft[inv[p].draft] # "absent"

\* What the receipt of a post says of the world.
PostRow(d) ==
    /\ tool[<<"post", d>>] \in {"absent", "running", "succeeded", "failed"}
    /\ tool[<<"post", d>>] = "absent" => acted[<<"post", d>>] = 0
    /\ tool[<<"post", d>>] = "succeeded" => acted[<<"post", d>>] = 1
    /\ acted[<<"post", d>>] <= 1

\* What a publish request knows when it has its receipt.
Holder(p) ==
    /\ inv[p].pc \in {"call", "finish"} => tool[<<"post", inv[p].draft>>] = "running"
    /\ inv[p].pc = "call" => /\ acted[<<"post", inv[p].draft>>] = 0
                             /\ ~row[inv[p].draft[1]].superseded
    /\ inv[p].pc = "finish" =>
          /\ inv[p].outcome \in {"succeeded", "failed"}
          /\ inv[p].outcome = "succeeded" => acted[<<"post", inv[p].draft>>] = 1
    /\ inv[p].pc = "mark" => tool[<<"post", inv[p].draft>>] = "succeeded"

Posts ==
    /\ \A d \in DraftIds : PostRow(d)
    /\ \A p \in Publishers : Holder(p)
    /\ \A p, q \in Publishers :
          /\ inv[p].pc \in {"call", "finish"} /\ inv[q].pc \in {"call", "finish"}
          /\ inv[p].draft = inv[q].draft
          => p = q

Callers(d) == {m \in Mailers : inv[m].pc = "call" /\ inv[m].draft = d}

\* A mail receipt that says running has had one sender, who has sent or will.
MailRow(d) ==
    /\ tool[<<"mail", d>>] = "absent" => acted[<<"mail", d>>] = 0 /\ Callers(d) = {}
    /\ tool[<<"mail", d>>] = "running" =>
          \/ acted[<<"mail", d>>] = 0 /\ \A m, n \in Callers(d) : m = n
          \/ acted[<<"mail", d>>] = 1 /\ Callers(d) = {}

Mails == \A d \in DraftIds : MailRow(d)

IInv == TypeOK /\ Approvals /\ Posts /\ Mails /\ LiveIsPublished

-----------------------------------------------------------------------------
LEMMA Facts ==
    /\ MaxCycle \in Nat \ {0} /\ MaxRevision \in Nat \ {0} /\ MaxCalls \in Nat \ {0}
    /\ Idle \in Invocation /\ Idle.pc = "idle"
    /\ \A d \in DraftIds : d[1] \in Cycles /\ d[2] \in Revisions /\ d = <<d[1], d[2]>>
    /\ \A d \in DraftIds : <<"post", d>> \in Keys /\ <<"mail", d>> \in Keys
    /\ \A k \in Keys : \E d \in DraftIds : k = <<"post", d>> \/ k = <<"mail", d>>
    /\ \A c \in Cycles, r \in Revisions : <<c, r>> \in DraftIds
    /\ Publishers \cap Mailers = {} /\ Nothing \notin Keys
    /\ TypeOK /\ Ready => conn.location \in Locations
<1>1. <<1, 1>> \in DraftIds
  BY Assumptions DEF DraftIds, Cycles, Revisions
<1>2. (CHOOSE l \in Locations : TRUE) \in Locations
  BY Assumptions
<1>3. Idle \in Invocation /\ Idle.pc = "idle"
  BY <1>1, <1>2 DEF Idle, Invocation, Pcs
<1>4. TypeOK /\ Ready => conn.location \in Locations
  BY DEF TypeOK, Ready
<1> QED
  BY <1>3, <1>4, Assumptions DEF DraftIds, Keys

LEMMA KeysDiffer ==
    /\ \A d, e : <<"post", d>> # <<"mail", e>>
    /\ \A d, e : <<"post", d>> = <<"post", e>> => d = e
    /\ \A d, e : <<"mail", d>> = <<"mail", e>> => d = e
OBVIOUS

LEMMA KeyOf ==
    ASSUME TypeOK
    PROVE  /\ \A i \in Invocations : inv[i] \in Invocation /\ Key(i) \in Keys
                                     /\ inv[i].draft \in DraftIds
           /\ \A p \in Publishers : p \in Invocations /\ Key(p) = <<"post", inv[p].draft>>
           /\ \A m \in Mailers : m \in Invocations /\ m \notin Publishers
                                 /\ Key(m) = <<"mail", inv[m].draft>>
<1>1. \A i \in Invocations : inv[i] \in Invocation
  BY DEF TypeOK
<1>2. \A i \in Invocations : inv[i].draft \in DraftIds
  BY <1>1 DEF Invocation
<1> QED
  BY <1>1, <1>2, Facts DEF Key, Invocations

\* What the provider's answer leaves in the request.
LEMMA AnswerKept ==
    ASSUME TypeOK, NEW i \in Invocations, NEW o \in {"succeeded", "failed", "skipped"},
           Answered(i, o)
    PROVE  /\ inv' \in [Invocations -> Invocation]
           /\ inv'[i].pc = "finish" /\ inv'[i].draft = inv[i].draft /\ inv'[i].outcome = o
           /\ \A j \in Invocations \ {i} : inv'[j] = inv[j]
<1> DEFINE r == [inv[i] EXCEPT !.pc = "finish", !.outcome = o]
<1>1. inv \in [Invocations -> Invocation] /\ inv[i] \in Invocation
  BY DEF TypeOK
<1>2. r \in Invocation /\ r.pc = "finish" /\ r.draft = inv[i].draft /\ r.outcome = o
  BY <1>1 DEF Invocation, Pcs
<1>3. inv' = [inv EXCEPT ![i] = r]
  BY DEF Answered
<1> HIDE DEF r
<1> QED
  BY <1>1, <1>2, <1>3

\* A call ends with an answer, a post's with one that is not "skipped".
LEMMA CallAnswered ==
    ASSUME TypeOK, NEW i \in Invocations, CallActs(i) \/ CallFails(i)
    PROVE  /\ inv[i].pc = "call" /\ tool' = tool
           /\ UNCHANGED <<find, conn, row, draft>>
           /\ inv' \in [Invocations -> Invocation]
           /\ inv'[i].pc = "finish" /\ inv'[i].draft = inv[i].draft
           /\ i \in Publishers => inv'[i].outcome \in {"succeeded", "failed"}
           /\ \A j \in Invocations \ {i} : inv'[j] = inv[j]
<1>1. i \in Publishers => i \notin Mailers
  BY Facts
<1>2. PICK o \in {"succeeded", "failed", "skipped"} :
         Answered(i, o) /\ (i \in Publishers => o # "skipped")
  BY <1>1 DEF CallActs, CallFails
<1>3. inv[i].pc = "call" /\ tool' = tool /\ UNCHANGED <<find, conn, row, draft>>
  BY DEF CallActs, CallFails
<1> QED
  BY <1>2, <1>3, AnswerKept

LEMMA InitInv == Init => IInv
<1> SUFFICES ASSUME Init PROVE IInv
  OBVIOUS
<1>1. TypeOK
  BY Facts, Assumptions DEF Init, TypeOK, Rows, Cycles, Revisions
<1>2. \A i \in Invocations : inv[i].pc = "idle"
  BY Facts DEF Init
<1>3. Approvals
  BY <1>2 DEF Init, Approvals, Invocations, DraftIds
<1>4. Posts
  <2>1. \A d \in DraftIds : PostRow(d)
    <3>1. \A d \in DraftIds : tool[<<"post", d>>] = "absent" /\ acted[<<"post", d>>] = 0
      BY Facts DEF Init
    <3> SUFFICES ASSUME NEW d \in DraftIds PROVE PostRow(d)
      OBVIOUS
    <3>2. tool[<<"post", d>>] = "absent" /\ acted[<<"post", d>>] = 0
      BY <3>1
    <3>3. acted[<<"post", d>>] <= 1
      BY <3>2
    <3> QED
      BY <3>2, <3>3, Zenon DEF PostRow
  <2>2. \A p \in Publishers : inv[p].pc = "idle"
    BY <1>2 DEF Invocations
  <2>3. \A p \in Publishers : Holder(p)
    BY <2>2 DEF Holder
  <2> QED
    BY <2>1, <2>2, <2>3 DEF Posts
<1>5. Mails
  <2>1. \A d \in DraftIds : Callers(d) = {}
    BY <1>2 DEF Callers, Invocations
  <2> QED
    BY <2>1, Facts DEF Init, Mails, MailRow
<1>6. LiveIsPublished
  BY DEF Init, LiveIsPublished
<1> QED
  BY <1>1, <1>3, <1>4, <1>5, <1>6 DEF IInv

-----------------------------------------------------------------------------
\* The owner and the Maker. Only Reopen could disturb what a caller knows, and a
\* receipt that says running forbids it.

LEMMA CallerForbidsReopening ==
    ASSUME IInv, NEW p \in Publishers, inv[p].pc = "call"
    PROVE  Irreversible
<1>1. inv[p].draft \in DraftIds
  BY KeyOf DEF IInv
<1>2. tool[<<"post", inv[p].draft>>] = "running"
  BY DEF IInv, Posts, Holder
<1>3. row[inv[p].draft[1]].status # "absent"
  BY <1>1 DEF IInv, Approvals
<1>4. inv[p].draft[1] <= find.cycle
  BY <1>1, <1>3, Facts DEF IInv, Approvals
<1> QED
  BY <1>1, <1>2, <1>4 DEF Irreversible

\* Steps outside the tool layer keep what it knows, if they take back no row that
\* is being published and leave the live mark alone.
LEMMA OutsideKeeps ==
    ASSUME IInv, UNCHANGED <<tool, acted, inv>>,
           \A c \in Cycles : (\E p \in Publishers : inv[p].pc = "call" /\ inv[p].draft[1] = c)
                                => row'[c].superseded = row[c].superseded,
           find'.receipt = find.receipt,
           find'.status = "live" <=> find.status = "live"
    PROVE  Posts' /\ Mails' /\ LiveIsPublished'
<1>1. \A p \in Publishers : inv[p].draft[1] \in Cycles
  BY KeyOf, Facts DEF IInv
<1>2. Posts'
  BY <1>1 DEF IInv, Posts, PostRow, Holder
<1>3. Mails'
  <2>1. \A d \in DraftIds : Callers(d)' = Callers(d)
    BY DEF Callers
  <2> QED
    BY <2>1 DEF IInv, Mails, MailRow
<1>4. LiveIsPublished'
  BY DEF IInv, LiveIsPublished
<1> QED
  BY <1>2, <1>3, <1>4

LEMMA OwnerKeeps ==
    ASSUME IInv, Approve \/ Revise \/ Reopen
    PROVE  IInv'
<1>1. CASE Approve
  <2>1. TypeOK'
    BY <1>1, Facts DEF IInv, TypeOK, Approve, Rows
  <2>2. Approvals'
    BY <1>1, Facts DEF IInv, TypeOK, Approvals, Approve, Rows, Cycles, DraftIds
  <2>3. Posts' /\ Mails' /\ LiveIsPublished'
    BY <1>1, OutsideKeeps DEF IInv, TypeOK, Approve, Rows
  <2> QED
    BY <2>1, <2>2, <2>3 DEF IInv
<1>2. CASE Revise
  <2>1. TypeOK'
    <3>1. row[find.cycle] \in Rows /\ row \in [Cycles -> Rows]
      BY DEF IInv, TypeOK
    <3>2. row[find.cycle].revision + 1 \in Revisions
      BY <1>2, <3>1, Assumptions DEF Revise, Rows, Revisions
    <3>3. row' \in [Cycles -> Rows]
      BY <1>2, <3>1, <3>2 DEF Revise, Rows
    <3> QED
      BY <1>2, <3>3 DEF IInv, TypeOK, Revise
  <2>2. Approvals'
    BY <1>2, Facts DEF IInv, TypeOK, Approvals, Revise, Rows, Cycles, DraftIds
  <2>3. Posts' /\ Mails' /\ LiveIsPublished'
    BY <1>2, OutsideKeeps DEF IInv, TypeOK, Revise, Rows
  <2> QED
    BY <2>1, <2>2, <2>3 DEF IInv
<1>3. CASE Reopen
  <2>0. find.cycle \in Cycles /\ find.cycle + 1 \in Cycles
    <3>1. find.cycle \in Cycles
      BY DEF IInv, TypeOK
    <3>2. find.cycle < MaxCycle
      BY <1>3 DEF Reopen
    <3> QED
      BY <3>1, <3>2, Assumptions DEF Cycles
  <2>1. TypeOK'
    <3>1. find' \in [status : {"proposed", "accepted", "live"}, cycle : Cycles,
                      receipt : Keys \cup {Nothing}]
      BY <1>3, <2>0 DEF IInv, TypeOK, Reopen
    <3>2. row' \in [Cycles -> Rows]
      <4>1. row \in [Cycles -> Rows]
        BY DEF IInv, TypeOK
      <4>2. ASSUME NEW r \in Rows
            PROVE  [r EXCEPT !.superseded = TRUE,
                             !.status = IF @ = "working" THEN "cancelled" ELSE @] \in Rows
        BY DEF Rows
      <4> QED
        BY <1>3, <4>1, <4>2 DEF Reopen
    <3>3. draft' \in [DraftIds -> {"absent", "current", "superseded"}]
      BY <1>3 DEF IInv, TypeOK, Reopen
    <3> QED
      BY <1>3, <3>1, <3>2, <3>3 DEF IInv, TypeOK, Reopen
  <2>2. \A c \in Cycles : /\ row'[c].status = "absent" <=> row[c].status = "absent"
                          /\ row'[c].status # "absent" => row'[c].superseded
                          /\ row'[c].output = row[c].output
                          /\ row'[c].status = "completed" => row[c].status = "completed"
    BY <1>3 DEF IInv, TypeOK, Reopen, Rows
  <2>3. \A d \in DraftIds : draft'[d] = "absent" <=> draft[d] = "absent"
    BY <1>3 DEF IInv, TypeOK, Reopen
  <2>4. find'.cycle = find.cycle + 1 /\ find.cycle \in Nat
    <3>1. find.cycle \in Nat
      BY <2>0, Assumptions DEF Cycles
    <3> QED
      BY <1>3, <3>1 DEF IInv, TypeOK, Reopen
  <2>5. inv' = inv
    BY <1>3 DEF Reopen
  <2>6. Approvals'
    <3>1. \A c \in Cycles : row'[c].status # "absent" => c <= find'.cycle
      BY <2>2, <2>4 DEF IInv, Approvals, Cycles
    <3>2. \A d \in DraftIds : draft'[d] # "absent" => row'[d[1]].status # "absent"
      BY <2>2, <2>3, Facts DEF IInv, Approvals
    <3>3. \A p \in Publishers : inv'[p].pc # "idle" => draft'[inv'[p].draft] # "absent"
      BY <2>3, <2>5, KeyOf DEF IInv, Approvals
    <3>4. \A c \in Cycles : row'[c].status = "completed" => row'[c].output \in Revisions
      BY <2>2 DEF IInv, Approvals
    <3> QED
      BY <2>2, <3>1, <3>2, <3>3, <3>4 DEF Approvals
  <2>7. \A p \in Publishers : inv[p].pc # "call"
    BY <1>3, CallerForbidsReopening DEF Reopen
  <2>8. Posts' /\ Mails' /\ LiveIsPublished'
    BY <1>3, <2>7, OutsideKeeps DEF IInv, TypeOK, Reopen
  <2> QED
    BY <2>1, <2>6, <2>8 DEF IInv
<1> QED
  BY <1>1, <1>2, <1>3

LEMMA MakerKeeps ==
    ASSUME IInv,
           \/ \E c \in Cycles : MakerStores(c) \/ MakerCompletes(c) \/ MakerFails(c)
           \/ \E found \in SUBSET Locations : Connect(found)
           \/ \E l \in Locations : SelectLocation(l)
    PROVE  IInv'
<1>1. ASSUME NEW c \in Cycles, MakerStores(c) PROVE IInv'
  <2>1. <<c, row[c].revision>> \in DraftIds
    BY Facts DEF IInv, TypeOK, Rows
  <2>2. TypeOK'
    BY <1>1, Facts DEF IInv, TypeOK, MakerStores
  <2>3. \A d \in DraftIds : /\ draft[d] # "absent" => draft'[d] # "absent"
                            /\ draft'[d] # "absent" => draft[d] # "absent" \/ d[1] = c
    BY <1>1 DEF IInv, TypeOK, MakerStores
  <2>4. row[c].status # "absent" /\ row' = row /\ find' = find /\ inv' = inv
    BY <1>1 DEF MakerStores
  <2>5. Approvals'
    BY <2>3, <2>4, KeyOf, Facts DEF IInv, Approvals
  <2>6. Posts' /\ Mails' /\ LiveIsPublished'
    BY <1>1, OutsideKeeps DEF MakerStores
  <2> QED
    BY <2>2, <2>5, <2>6 DEF IInv
<1>2. ASSUME NEW c \in Cycles, MakerCompletes(c) \/ MakerFails(c) PROVE IInv'
  <2>1. TypeOK'
    <3>1. row[c] \in Rows /\ row[c].revision \in 0..MaxRevision
      BY Facts DEF IInv, TypeOK, Rows, Revisions
    <3>2. row' \in [Cycles -> Rows]
      BY <1>2, <3>1 DEF IInv, TypeOK, MakerCompletes, MakerFails, Rows
    <3> QED
      BY <1>2, <3>2 DEF IInv, TypeOK, MakerCompletes, MakerFails
  <2>2. /\ \A x \in Cycles : /\ row'[x].status = "absent" <=> row[x].status = "absent"
                             /\ row'[x].superseded = row[x].superseded
                             /\ row'[x].status = "completed" => row'[x].output \in Revisions
        /\ find' = find /\ draft' = draft /\ inv' = inv /\ tool' = tool /\ acted' = acted
    BY <1>2 DEF IInv, TypeOK, Approvals, MakerCompletes, MakerFails, Rows
  <2>3. Approvals'
    BY <2>2, Facts DEF IInv, Approvals
  <2>4. Posts' /\ Mails' /\ LiveIsPublished'
    BY <2>2, OutsideKeeps
  <2> QED
    BY <2>1, <2>3, <2>4 DEF IInv
<1>3. ASSUME (\E found \in SUBSET Locations : Connect(found))
             \/ \E l \in Locations : SelectLocation(l)
      PROVE  IInv'
  <2>1. conn' \in [offered : SUBSET Locations, location : Locations \cup {Nothing}]
    <3>1. ASSUME NEW found \in SUBSET Locations, Connect(found)
          PROVE  conn' \in [offered : SUBSET Locations, location : Locations \cup {Nothing}]
      <4> DEFINE at == IF \E l \in found : found = {l}
                       THEN CHOOSE l \in found : TRUE ELSE Nothing
      <4>1. at \in Locations \cup {Nothing}
        OBVIOUS
      <4>2. conn' = [offered |-> found, location |-> at]
        BY <3>1 DEF Connect
      <4> HIDE DEF at
      <4> QED
        BY <4>1, <4>2
    <3>2. ASSUME NEW l \in Locations, SelectLocation(l)
          PROVE  conn' \in [offered : SUBSET Locations, location : Locations \cup {Nothing}]
      BY <3>2 DEF IInv, TypeOK, SelectLocation
    <3> QED
      BY <1>3, <3>1, <3>2
  <2>2. UNCHANGED <<find, row, draft, tool, acted, posted, inv>>
    BY <1>3 DEF Connect, SelectLocation
  <2>3. TypeOK' /\ Approvals'
    BY <2>1, <2>2 DEF IInv, TypeOK, Approvals
  <2>4. Posts' /\ Mails' /\ LiveIsPublished'
    BY <2>2, OutsideKeeps
  <2> QED
    BY <2>3, <2>4 DEF IInv
<1> QED
  BY <1>1, <1>2, <1>3

-----------------------------------------------------------------------------
\* Steps of an invocation that stay clear of the receipt.

Clear == {"idle", "confirmed", "read", "start"}

LEMMA ClearKeeps ==
    ASSUME IInv, NEW i \in Invocations, UNCHANGED <<find, row, draft, tool, acted, posted>>,
           conn' = conn, inv' \in [Invocations -> Invocation],
           \A j \in Invocations \ {i} : inv'[j] = inv[j],
           inv'[i].pc \in Clear,
           i \in Publishers /\ inv'[i].pc # "idle" => draft[inv'[i].draft] # "absent"
    PROVE  IInv'
<1>1. TypeOK'
  BY DEF IInv, TypeOK
<1>2. Approvals'
  BY DEF IInv, Approvals, Invocations
<1>3. \A j \in Invocations : inv'[j] = inv[j] \/ inv'[j].pc \notin {"call", "finish", "mark"}
  BY DEF Clear
<1>4. Posts'
  <2>1. \A p \in Publishers : p \in Invocations
    BY DEF Invocations
  <2> QED
    BY <1>3, <2>1 DEF IInv, Posts, PostRow, Holder
<1>5. Mails'
  <2>1. \A d \in DraftIds : Callers(d)' \subseteq Callers(d)
    BY <1>3 DEF Callers, Invocations
  <2> QED
    BY <2>1 DEF IInv, Mails, MailRow
<1>6. LiveIsPublished'
  BY DEF IInv, LiveIsPublished
<1> QED
  BY <1>1, <1>2, <1>4, <1>5, <1>6 DEF IInv

LEMMA ReadingKeeps ==
    ASSUME IInv,
           \/ \E p \in Publishers, d \in DraftIds : Confirm(p, d)
           \/ \E p \in Publishers : ReadDraft(p) \/ ReadConnection(p)
           \/ \E m \in Mailers, c \in Cycles : Notify(m, c)
           \/ \E i \in Invocations : Crash(i)
    PROVE  IInv'
<1>1. ASSUME NEW p \in Publishers, NEW d \in DraftIds, Confirm(p, d) PROVE IInv'
  <2>1. p \in Invocations
    BY DEF Invocations
  <2>2. /\ inv' \in [Invocations -> Invocation]
        /\ inv'[p].pc = "confirmed" /\ inv'[p].draft = d
        /\ \A j \in Invocations \ {p} : inv'[j] = inv[j]
    <3> DEFINE r == [inv[p] EXCEPT !.pc = "confirmed", !.draft = d, !.seen = conn.location]
    <3>1. inv \in [Invocations -> Invocation] /\ inv[p] \in Invocation
      BY <2>1 DEF IInv, TypeOK
    <3>2. conn.location \in Locations
      BY <1>1, Facts DEF Confirm, IInv
    <3>3. r \in Invocation /\ r.pc = "confirmed" /\ r.draft = d
      BY <3>1, <3>2 DEF Invocation, Pcs
    <3>4. inv' = [inv EXCEPT ![p] = r]
      BY <1>1 DEF Confirm
    <3> HIDE DEF r
    <3> QED
      BY <2>1, <3>1, <3>3, <3>4
  <2> QED
    BY <1>1, <2>1, <2>2, ClearKeeps DEF Confirm, Clear, IInv, TypeOK
<1>2. ASSUME NEW p \in Publishers, ReadDraft(p) \/ ReadConnection(p) PROVE IInv'
  <2>1. p \in Invocations
    BY DEF Invocations
  <2>2. inv \in [Invocations -> Invocation] /\ inv[p] \in Invocation
    BY <2>1 DEF IInv, TypeOK
  <2>3. PICK r \in Invocation : /\ inv' = [inv EXCEPT ![p] = r]
                                /\ r.pc \in {"idle", "read", "start"}
                                /\ r.pc = "idle" \/ r.draft = inv[p].draft
    <3>1. CASE Stop(p)
      BY <3>1, Facts DEF Stop
    <3>2. CASE ReadDraft(p) /\ ~Stop(p)
      <4> DEFINE r == [inv[p] EXCEPT !.pc = "read"]
      <4>1. r \in Invocation /\ r.pc = "read" /\ r.draft = inv[p].draft
        BY <2>2 DEF Invocation, Pcs
      <4>2. inv' = [inv EXCEPT ![p] = r]
        BY <3>2 DEF ReadDraft, Move
      <4> HIDE DEF r
      <4> QED
        BY <4>1, <4>2
    <3>3. CASE ReadConnection(p) /\ ~Stop(p)
      <4> DEFINE r == [inv[p] EXCEPT !.pc = "start", !.to = conn.location]
      <4>1. conn.location \in Locations
        BY <3>3, Facts DEF ReadConnection, IInv
      <4>2. r \in Invocation /\ r.pc = "start" /\ r.draft = inv[p].draft
        BY <2>2, <4>1 DEF Invocation, Pcs
      <4>3. inv' = [inv EXCEPT ![p] = r]
        BY <3>3 DEF ReadConnection
      <4> HIDE DEF r
      <4> QED
        BY <4>2, <4>3
    <3> QED
      BY <1>2, <3>1, <3>2, <3>3
  <2>4. /\ inv' \in [Invocations -> Invocation] /\ inv'[p] = r
        /\ \A j \in Invocations \ {p} : inv'[j] = inv[j]
    BY <2>1, <2>2, <2>3
  <2>5. draft[inv[p].draft] # "absent"
    BY <1>2 DEF IInv, Approvals, ReadDraft, ReadConnection
  <2>6. UNCHANGED <<find, conn, row, draft, tool, acted, posted>>
    BY <1>2 DEF ReadDraft, ReadConnection
  <2> QED
    BY <2>1, <2>3, <2>4, <2>5, <2>6, ClearKeeps DEF Clear
<1>3. ASSUME NEW m \in Mailers, NEW c \in Cycles, Notify(m, c) PROVE IInv'
  <2>1. m \in Invocations /\ m \notin Publishers
    BY Facts DEF Invocations
  <2>2. <<c, row[c].output>> \in DraftIds
    BY <1>3, Facts DEF IInv, Approvals, Notify
  <2>3. /\ inv' \in [Invocations -> Invocation] /\ inv'[m].pc = "start"
        /\ \A j \in Invocations \ {m} : inv'[j] = inv[j]
    BY <1>3, <2>1, <2>2 DEF IInv, TypeOK, Notify, Invocation, Pcs
  <2> QED
    BY <1>3, <2>1, <2>3, ClearKeeps DEF Notify, Clear, IInv, TypeOK
<1>4. ASSUME NEW i \in Invocations, Crash(i) PROVE IInv'
  <2>1. /\ inv' \in [Invocations -> Invocation] /\ inv'[i].pc = "idle"
        /\ \A j \in Invocations \ {i} : inv'[j] = inv[j]
    BY <1>4, Facts DEF IInv, TypeOK, Crash, Stop
  <2> QED
    BY <1>4, <2>1, ClearKeeps DEF Crash, Clear, IInv, TypeOK
<1> QED
  BY <1>1, <1>2, <1>3, <1>4

-----------------------------------------------------------------------------
\* The receipt.

\* A step of the tool layer: it reads and writes one receipt.
ToolStep(i) == InvocationStep(i) \/ (i \in Publishers /\ MarkExecuted(i))

\* What such a step leaves alone.
Frame(i) ==
    /\ row' = row /\ draft' = draft
    /\ inv[i].pc # "idle"
    /\ inv'[i].pc = "idle" \/ inv'[i].draft = inv[i].draft
    /\ \A j \in Invocations \ {i} : inv'[j] = inv[j]
    /\ \A k \in Keys \ {Key(i)} : tool'[k] = tool[k] /\ acted'[k] = acted[k]
    /\ find'.cycle = find.cycle
    /\ find'.status = find.status \/ find'.status = "live"
    /\ i \in Mailers => find' = find

LEMMA StepFrame ==
    ASSUME IInv, NEW i \in Invocations, ToolStep(i)
    PROVE  TypeOK' /\ Frame(i)
<1>0. /\ inv[i] \in Invocation /\ Key(i) \in Keys /\ Idle \in Invocation /\ Idle.pc = "idle"
      /\ inv \in [Invocations -> Invocation]
  BY KeyOf, Facts DEF IInv, TypeOK
<1>a. i \in Publishers => i \notin Mailers
  BY Facts
<1>1. CASE StartTool(i)
  <2>1. inv' \in [Invocations -> Invocation]
    BY <1>0, <1>1 DEF StartTool, Move, Stop, Invocation, Pcs
  <2>2. tool' \in [Keys -> {"absent", "running", "succeeded", "failed", "skipped"}]
    BY <1>0, <1>1 DEF StartTool, IInv, TypeOK
  <2>3. TypeOK'
    BY <1>1, <2>1, <2>2 DEF StartTool, IInv, TypeOK
  <2>4. Frame(i)
    BY <1>0, <1>1 DEF StartTool, Move, Stop, Frame, IInv, TypeOK, Invocation
  <2> QED
    BY <2>3, <2>4
<1>2. CASE CallActs(i)
  <2>1. inv' \in [Invocations -> Invocation]
    BY <1>2, CallAnswered DEF IInv
  <2>2. acted' \in [Keys -> 0..MaxCalls]
    BY <1>0, <1>2, Facts DEF CallActs, IInv, TypeOK
  <2>3. posted' \subseteq Locations \X Locations
    BY <1>0, <1>2 DEF CallActs, IInv, TypeOK, Invocation
  <2>4. TypeOK'
    BY <1>2, <2>1, <2>2, <2>3 DEF CallActs, IInv, TypeOK
  <2>5. Frame(i)
    <3>1. \A k \in Keys \ {Key(i)} : acted'[k] = acted[k]
      BY <1>0, <1>2 DEF CallActs, IInv, TypeOK
    <3> QED
      BY <1>2, <3>1, CallAnswered DEF Frame, IInv
  <2> QED
    BY <2>4, <2>5
<1>3. CASE CallFails(i)
  <2>1. inv' \in [Invocations -> Invocation]
    BY <1>3, CallAnswered DEF IInv
  <2>2. TypeOK'
    BY <1>3, <2>1 DEF CallFails, IInv, TypeOK
  <2>3. Frame(i)
    <3>1. acted' = acted
      BY <1>3 DEF CallFails
    <3> QED
      BY <1>3, <3>1, CallAnswered DEF Frame, IInv
  <2> QED
    BY <2>2, <2>3
<1>4. CASE FinishTool(i)
  <2>1. inv' \in [Invocations -> Invocation]
    BY <1>0, <1>4 DEF FinishTool, Move, Stop, Invocation, Pcs
  <2>2. tool' \in [Keys -> {"absent", "running", "succeeded", "failed", "skipped"}]
    BY <1>0, <1>4 DEF FinishTool, IInv, TypeOK, Invocation
  <2>3. TypeOK'
    BY <1>4, <2>1, <2>2 DEF FinishTool, IInv, TypeOK
  <2>4. Frame(i)
    BY <1>0, <1>4 DEF FinishTool, Move, Stop, Frame, IInv, TypeOK, Invocation
  <2> QED
    BY <2>3, <2>4
<1>5. CASE i \in Publishers /\ MarkExecuted(i)
  <2>1. TypeOK'
    BY <1>0, <1>5 DEF MarkExecuted, Stop, IInv, TypeOK
  <2>2. Frame(i)
    BY <1>0, <1>a, <1>5 DEF MarkExecuted, Stop, Frame, IInv, TypeOK, Invocation
  <2> QED
    BY <2>1, <2>2
<1> QED
  BY <1>1, <1>2, <1>3, <1>4, <1>5 DEF ToolStep, InvocationStep

LEMMA FrameApprovals ==
    ASSUME IInv, NEW i \in Invocations, Frame(i)
    PROVE  Approvals'
<1>1. \A p \in Publishers : inv'[p].pc # "idle" =>
          inv[p].pc # "idle" /\ inv'[p].draft = inv[p].draft
  BY DEF Frame, Invocations
<1> QED
  BY <1>1 DEF IInv, Approvals, Frame

\* A mail worker touches no post, a publish request no mail.
LEMMA MailerFrame ==
    ASSUME IInv, NEW i \in Mailers, Frame(i)
    PROVE  Posts' /\ LiveIsPublished'
<1>1. /\ i \in Invocations /\ Key(i) = <<"mail", inv[i].draft>>
      /\ \A p \in Publishers : p \in Invocations \ {i}
  BY KeyOf, Facts DEF IInv, Invocations
<1>2. \A d \in DraftIds : <<"post", d>> \in Keys \ {Key(i)}
  BY <1>1, Facts, KeysDiffer
<1>3. \A d \in DraftIds : /\ tool'[<<"post", d>>] = tool[<<"post", d>>]
                          /\ acted'[<<"post", d>>] = acted[<<"post", d>>]
  BY <1>2 DEF Frame
<1>4. \A p \in Publishers : inv'[p] = inv[p] /\ inv[p].draft \in DraftIds
  BY <1>1, KeyOf DEF IInv, Frame
<1>5. Posts'
  BY <1>3, <1>4 DEF IInv, Posts, PostRow, Holder, Frame
<1>6. LiveIsPublished'
  <2>1. find.status = "live" => \E d \in DraftIds : find.receipt = <<"post", d>>
    BY Facts, KeysDiffer DEF IInv, TypeOK, LiveIsPublished
  <2>2. find' = find
    BY DEF Frame
  <2> QED
    BY <1>3, <2>1, <2>2 DEF IInv, LiveIsPublished
<1> QED
  BY <1>5, <1>6

LEMMA PublisherFrame ==
    ASSUME IInv, NEW i \in Publishers, Frame(i)
    PROVE  Mails'
<1>1. /\ i \in Invocations /\ Key(i) = <<"post", inv[i].draft>>
      /\ \A m \in Mailers : m \in Invocations \ {i}
  BY KeyOf, Facts DEF IInv, Invocations
<1>2. \A d \in DraftIds : <<"mail", d>> \in Keys \ {Key(i)}
  BY <1>1, Facts, KeysDiffer
<1>3. \A d \in DraftIds : /\ tool'[<<"mail", d>>] = tool[<<"mail", d>>]
                          /\ acted'[<<"mail", d>>] = acted[<<"mail", d>>]
  BY <1>2 DEF Frame
<1>4. \A d \in DraftIds : Callers(d)' = Callers(d)
  BY <1>1 DEF Callers, Frame
<1> QED
  BY <1>3, <1>4 DEF IInv, Mails, MailRow

-----------------------------------------------------------------------------
\* A post.

\* Nobody else holds a receipt that is absent, or that another request holds.
LEMMA OthersElsewhere ==
    ASSUME IInv, NEW p \in Publishers, NEW q \in Publishers \ {p},
           inv[q].draft = inv[p].draft,
           tool[<<"post", inv[p].draft>>] = "absent" \/ inv[p].pc \in {"call", "finish"}
    PROVE  inv[q].pc \notin {"call", "finish", "mark"}
<1>1. Holder(p) /\ Holder(q)
  BY DEF IInv, Posts
<1>2. CASE tool[<<"post", inv[p].draft>>] = "absent"
  BY <1>1, <1>2 DEF Holder
<1>3. CASE inv[p].pc \in {"call", "finish"}
  BY <1>1, <1>3 DEF IInv, Posts, Holder
<1> QED
  BY <1>2, <1>3

\* What the step does to its own receipt, and that this fits the others.
LEMMA PostStep ==
    ASSUME IInv, NEW p \in Publishers, NEW d0 \in DraftIds, inv[p].draft = d0,
           Frame(p), PostRow(d0)', Holder(p)',
           \/ /\ tool'[<<"post", d0>>] = tool[<<"post", d0>>]
              /\ acted'[<<"post", d0>>] = acted[<<"post", d0>>]
              /\ inv'[p].pc \in {"call", "finish"} => inv[p].pc \in {"call", "finish"}
           \/ tool[<<"post", d0>>] = "absent"
           \/ inv[p].pc \in {"call", "finish"}
    PROVE  Posts'
<1>1. /\ p \in Invocations /\ Key(p) = <<"post", d0>> /\ d0 \in DraftIds
      /\ \A q \in Publishers : q \in Invocations /\ inv[q].draft \in DraftIds
  BY KeyOf DEF IInv
<1>2. \A d \in DraftIds \ {d0} : /\ tool'[<<"post", d>>] = tool[<<"post", d>>]
                                 /\ acted'[<<"post", d>>] = acted[<<"post", d>>]
  BY <1>1, Facts, KeysDiffer DEF Frame
<1>3. \A d \in DraftIds : PostRow(d)'
  BY <1>2 DEF IInv, Posts, PostRow
<1>4. \A q \in Publishers \ {p} : inv'[q] = inv[q]
  BY <1>1 DEF Frame
<1>5. ASSUME NEW q \in Publishers \ {p} PROVE Holder(q)'
  <2>1. Holder(q)
    BY DEF IInv, Posts
  <2>2. CASE inv[q].draft # d0
    BY <1>1, <1>2, <1>4, <2>1, <2>2 DEF Holder, Frame
  <2>3. CASE inv[q].draft = d0 /\ inv[q].pc \notin {"call", "finish", "mark"}
    BY <1>4, <2>3 DEF Holder
  <2>4. CASE /\ inv[q].draft = d0
             /\ tool'[<<"post", d0>>] = tool[<<"post", d0>>]
             /\ acted'[<<"post", d0>>] = acted[<<"post", d0>>]
    BY <1>4, <2>1, <2>4 DEF Holder, Frame
  <2> QED
    BY <2>2, <2>3, <2>4, OthersElsewhere
<1>6. ASSUME NEW q \in Publishers, NEW r \in Publishers,
             inv'[q].pc \in {"call", "finish"}, inv'[r].pc \in {"call", "finish"},
             inv'[q].draft = inv'[r].draft, q # r
      PROVE  FALSE
  <2>1. CASE q # p /\ r # p
    BY <1>4, <1>6, <2>1 DEF IInv, Posts
  <2>2. ASSUME NEW o \in Publishers \ {p},
               inv[o].pc \in {"call", "finish"}, inv[o].draft = d0,
               inv'[p].pc \in {"call", "finish"}
        PROVE  FALSE
    <3>1. CASE inv[p].pc \in {"call", "finish"}
      BY <2>2, <3>1 DEF IInv, Posts
    <3>2. CASE tool[<<"post", d0>>] = "absent"
      BY <2>2, <3>2, OthersElsewhere
    <3> QED
      BY <2>2, <3>1, <3>2
  <2>3. CASE q = p
    BY <1>4, <1>6, <2>2, <2>3 DEF Frame
  <2>4. CASE r = p
    BY <1>4, <1>6, <2>2, <2>4 DEF Frame
  <2> QED
    BY <2>1, <2>3, <2>4
<1> QED
  BY <1>3, <1>5, <1>6 DEF Posts

\* A live mark rests on a receipt that says succeeded, and nobody calls under one.
LEMMA LiveStays ==
    ASSUME IInv, NEW p \in Publishers, NEW d0 \in DraftIds, inv[p].draft = d0,
           Frame(p), find' = find,
           tool[<<"post", d0>>] = "succeeded" =>
              /\ tool'[<<"post", d0>>] = "succeeded"
              /\ acted'[<<"post", d0>>] = acted[<<"post", d0>>]
    PROVE  LiveIsPublished'
<1>1. p \in Invocations /\ Key(p) = <<"post", d0>>
  BY KeyOf DEF IInv
<1>2. find.status = "live" => find.receipt \in Keys /\ tool[find.receipt] = "succeeded"
  BY DEF IInv, TypeOK, LiveIsPublished
<1> QED
  BY <1>1, <1>2 DEF IInv, LiveIsPublished, Frame

LEMMA PublisherKeeps ==
    ASSUME IInv, NEW p \in Publishers, ToolStep(p),
           NEW d0 \in DraftIds, inv[p].draft = d0
    PROVE  IInv'
<1> DEFINE k0 == <<"post", d0>>
<1>1. /\ p \in Invocations /\ p \notin Mailers /\ Key(p) = k0 /\ k0 \in Keys
      /\ inv[p] \in Invocation /\ inv \in [Invocations -> Invocation] /\ Idle.pc = "idle"
  BY KeyOf, Facts DEF IInv, TypeOK
<1>2. TypeOK' /\ Frame(p)
  BY <1>1, StepFrame
<1>3. Approvals' /\ Mails'
  BY <1>1, <1>2, FrameApprovals, PublisherFrame
<1>4. PostRow(d0) /\ Holder(p) /\ acted[k0] \in Nat
  BY <1>1 DEF IInv, Posts, TypeOK
<1>5. CASE StartTool(p)
  <2>1. /\ acted' = acted /\ find' = find /\ row' = row
        /\ \/ inv'[p].pc = "idle" /\ tool' = tool
           \/ /\ tool[k0] = "absent" /\ tool'[k0] = "running"
              /\ inv'[p].pc = "call" /\ inv'[p].draft = d0 /\ ~row[d0[1]].superseded
    BY <1>1, <1>5 DEF StartTool, Move, Stop, IInv, TypeOK, Invocation
  <2>2. PostRow(d0)' /\ Holder(p)'
    BY <1>4, <2>1 DEF PostRow, Holder
  <2>3. Posts'
    BY <1>2, <2>1, <2>2, PostStep
  <2>4. LiveIsPublished'
    BY <1>2, <2>1, LiveStays
  <2> QED
    BY <1>2, <1>3, <2>3, <2>4 DEF IInv
<1>6. CASE CallActs(p)
  <2>1. /\ inv[p].pc = "call" /\ tool' = tool /\ find' = find
        /\ acted'[k0] = acted[k0] + 1
        /\ inv'[p].pc = "finish" /\ inv'[p].draft = d0
        /\ inv'[p].outcome \in {"succeeded", "failed"}
    <3>1. acted'[k0] = acted[k0] + 1
      BY <1>1, <1>6 DEF CallActs, IInv, TypeOK
    <3> QED
      BY <1>1, <1>6, <3>1, CallAnswered DEF IInv
  <2>2. tool[k0] = "running" /\ acted[k0] = 0
    BY <1>4, <2>1 DEF Holder
  <2>3. PostRow(d0)' /\ Holder(p)'
    BY <1>4, <2>1, <2>2 DEF PostRow, Holder
  <2>4. Posts'
    BY <1>2, <2>1, <2>3, PostStep
  <2>5. LiveIsPublished'
    BY <1>2, <2>1, <2>2, LiveStays
  <2> QED
    BY <1>2, <1>3, <2>4, <2>5 DEF IInv
<1>7. CASE CallFails(p)
  <2>1. /\ inv[p].pc = "call" /\ tool' = tool /\ acted' = acted /\ find' = find
        /\ inv'[p].pc = "finish" /\ inv'[p].draft = d0
        /\ inv'[p].outcome = "failed"
    <3>1. acted' = acted /\ Answered(p, "failed")
      BY <1>1, <1>7 DEF CallFails
    <3> QED
      BY <1>1, <1>7, <3>1, CallAnswered, AnswerKept DEF IInv
  <2>2. PostRow(d0)' /\ Holder(p)'
    BY <1>4, <2>1 DEF PostRow, Holder
  <2>3. Posts'
    BY <1>2, <2>1, <2>2, PostStep
  <2>4. LiveIsPublished'
    BY <1>2, <2>1, LiveStays
  <2> QED
    BY <1>2, <1>3, <2>3, <2>4 DEF IInv
<1>8. CASE FinishTool(p)
  <2>1. /\ inv[p].pc = "finish" /\ acted' = acted /\ find' = find
        /\ tool'[k0] = inv[p].outcome
        /\ \/ inv'[p].pc = "idle"
           \/ /\ inv[p].outcome = "succeeded"
              /\ inv'[p].pc = "mark" /\ inv'[p].draft = d0
    BY <1>1, <1>8 DEF FinishTool, Move, Stop, IInv, TypeOK, Invocation
  <2>2. /\ tool[k0] = "running" /\ inv[p].outcome \in {"succeeded", "failed"}
        /\ inv[p].outcome = "succeeded" => acted[k0] = 1
    BY <1>4, <2>1 DEF Holder
  <2>3. PostRow(d0)' /\ Holder(p)'
    BY <1>4, <2>1, <2>2 DEF PostRow, Holder
  <2>4. Posts'
    BY <1>2, <2>1, <2>3, PostStep
  <2>5. LiveIsPublished'
    BY <1>2, <2>1, <2>2, LiveStays
  <2> QED
    BY <1>2, <1>3, <2>4, <2>5 DEF IInv
<1>9. CASE MarkExecuted(p)
  <2>1. /\ inv[p].pc = "mark" /\ tool' = tool /\ acted' = acted /\ inv'[p].pc = "idle"
        /\ \/ find' = find
           \/ /\ find.receipt \in {Nothing, k0}
              /\ find'.status = "live" /\ find'.receipt = k0
    BY <1>1, <1>9 DEF MarkExecuted, Stop, IInv, TypeOK, Invocation
  <2>2. PostRow(d0)' /\ Holder(p)'
    BY <1>4, <2>1 DEF PostRow, Holder
  <2>3. Posts'
    BY <1>2, <2>1, <2>2, PostStep
  <2>4. tool[k0] = "succeeded" /\ acted[k0] = 1 /\ k0 # Nothing
    BY <1>1, <1>4, <2>1, Facts DEF Holder, PostRow
  <2>5. LiveIsPublished'
    <3>1. CASE find' = find
      BY <2>1, <3>1 DEF IInv, LiveIsPublished
    <3>2. CASE find'.status = "live" /\ find'.receipt = k0
      BY <2>1, <2>4, <3>2 DEF LiveIsPublished
    <3> QED
      BY <2>1, <3>1, <3>2
  <2> QED
    BY <1>2, <1>3, <2>3, <2>5 DEF IInv
<1> QED
  BY <1>5, <1>6, <1>7, <1>8, <1>9 DEF ToolStep, InvocationStep

-----------------------------------------------------------------------------
\* A mail.

LEMMA MailerKeeps ==
    ASSUME IInv, NEW m \in Mailers, ToolStep(m),
           NEW d0 \in DraftIds, inv[m].draft = d0
    PROVE  IInv'
<1> DEFINE k0 == <<"mail", d0>>
<1>1. /\ m \in Invocations /\ m \notin Publishers /\ Key(m) = k0 /\ k0 \in Keys
      /\ inv[m] \in Invocation /\ inv \in [Invocations -> Invocation] /\ Idle.pc = "idle"
      /\ \A n \in Mailers : n \in Invocations
  BY KeyOf, Facts DEF IInv, TypeOK
<1>2. TypeOK' /\ Frame(m)
  BY <1>1, StepFrame
<1>3. Approvals' /\ Posts' /\ LiveIsPublished'
  BY <1>1, <1>2, FrameApprovals, MailerFrame
<1>4. \A d \in DraftIds \ {d0} : /\ tool'[<<"mail", d>>] = tool[<<"mail", d>>]
                                 /\ acted'[<<"mail", d>>] = acted[<<"mail", d>>]
                                 /\ Callers(d)' \subseteq Callers(d)
  <2>1. \A d \in DraftIds \ {d0} : <<"mail", d>> \in Keys \ {Key(m)}
    BY <1>1, Facts, KeysDiffer
  <2>2. \A d \in DraftIds \ {d0} : Callers(d)' \subseteq Callers(d)
    BY <1>1, <1>2, Facts DEF Frame, Callers, TypeOK
  <2> QED
    BY <1>2, <2>1, <2>2 DEF Frame
<1>5. acted[k0] \in Nat
  BY <1>1 DEF IInv, TypeOK
<1>6. \A d \in DraftIds : MailRow(d)
  BY DEF IInv, Mails
<1>7. \A d \in DraftIds \ {d0} : MailRow(d)'
  <2> SUFFICES ASSUME NEW d \in DraftIds \ {d0} PROVE MailRow(d)'
    OBVIOUS
  <2>1. MailRow(d)
    BY <1>6
  <2> QED
    BY <1>4, <2>1 DEF MailRow
<1>8. MailRow(d0)'
  <2>1. CASE StartTool(m)
    <3>1. /\ acted' = acted
          /\ \/ inv'[m].pc = "idle" /\ tool' = tool
             \/ tool[k0] = "absent" /\ tool'[k0] = "running"
             \/ tool[k0] = "failed" /\ tool'[k0] = "failed"
      BY <1>1, <2>1 DEF StartTool, Move, Stop, IInv, TypeOK, Invocation
    <3>2. Callers(d0)' \subseteq Callers(d0) \cup {m}
      BY <1>1, <1>2 DEF Frame, Callers
    <3>3. inv'[m].pc = "idle" => Callers(d0)' \subseteq Callers(d0)
      BY <3>2 DEF Callers
    <3>4. CASE inv'[m].pc = "idle" /\ tool' = tool
      BY <1>1, <1>6, <3>1, <3>3, <3>4 DEF MailRow
    <3>5. CASE tool[k0] = "absent" /\ tool'[k0] = "running"
      BY <1>1, <1>6, <3>1, <3>2, <3>5 DEF MailRow
    <3>6. CASE tool'[k0] = "failed"
      BY <3>6 DEF MailRow
    <3> QED
      BY <3>1, <3>4, <3>5, <3>6
  <2>2. CASE CallActs(m)
    <3>1. /\ tool' = tool /\ acted'[k0] = acted[k0] + 1
          /\ inv[m].pc = "call" /\ inv'[m].pc = "finish"
      <4>1. acted'[k0] = acted[k0] + 1
        BY <1>1, <2>2 DEF CallActs, IInv, TypeOK
      <4> QED
        BY <1>1, <2>2, <4>1, CallAnswered DEF IInv
    <3>2. m \in Callers(d0) /\ Callers(d0)' \subseteq Callers(d0) \ {m}
      BY <1>1, <1>2, <3>1 DEF Frame, Callers
    <3> QED
      BY <1>1, <1>5, <1>6, <3>1, <3>2 DEF MailRow
  <2>3. CASE CallFails(m)
    <3>1. tool' = tool /\ acted' = acted /\ inv[m].pc = "call" /\ inv'[m].pc = "finish"
      <4>1. acted' = acted
        BY <2>3 DEF CallFails
      <4> QED
        BY <1>1, <2>3, <4>1, CallAnswered DEF IInv
    <3>2. Callers(d0)' \subseteq Callers(d0)
      BY <1>1, <1>2, <3>1 DEF Frame, Callers
    <3> QED
      BY <1>1, <1>6, <3>1, <3>2 DEF MailRow
  <2>4. CASE FinishTool(m)
    <3>1. tool'[k0] \in {"succeeded", "failed", "skipped"}
      BY <1>1, <2>4 DEF FinishTool, IInv, TypeOK, Invocation
    <3> QED
      BY <3>1 DEF MailRow
  <2> QED
    BY <1>1, <2>1, <2>2, <2>3, <2>4 DEF ToolStep, InvocationStep
<1>9. Mails'
  BY <1>7, <1>8 DEF Mails
<1> QED
  BY <1>2, <1>3, <1>9 DEF IInv

-----------------------------------------------------------------------------
LEMMA StutterKeeps == IInv /\ UNCHANGED vars => IInv'
<1> SUFFICES ASSUME IInv, UNCHANGED vars PROVE IInv'
  OBVIOUS
<1>1. TypeOK' /\ Approvals'
  BY DEF IInv, vars, TypeOK, Approvals
<1>2. Posts' /\ Mails' /\ LiveIsPublished'
  BY OutsideKeeps DEF vars
<1> QED
  BY <1>1, <1>2 DEF IInv

LEMMA NextKeeps == IInv /\ [Next]_vars => IInv'
<1> SUFFICES ASSUME IInv, Next PROVE IInv'
  BY StutterKeeps
<1>1. CASE Approve \/ Revise \/ Reopen
  BY <1>1, OwnerKeeps
<1>2. CASE \/ \E c \in Cycles : MakerStores(c) \/ MakerCompletes(c) \/ MakerFails(c)
           \/ \E found \in SUBSET Locations : Connect(found)
           \/ \E l \in Locations : SelectLocation(l)
  BY <1>2, MakerKeeps
<1>3. CASE \/ \E p \in Publishers, d \in DraftIds : Confirm(p, d)
           \/ \E p \in Publishers : ReadDraft(p) \/ ReadConnection(p)
           \/ \E m \in Mailers, c \in Cycles : Notify(m, c)
           \/ \E i \in Invocations : Crash(i)
  BY <1>3, ReadingKeeps
<1>4. CASE \E i \in Invocations : ToolStep(i)
  BY <1>4, PublisherKeeps, MailerKeeps, KeyOf DEF Invocations, IInv
<1> QED
  BY <1>1, <1>2, <1>3, <1>4 DEF Next, ToolStep, Invocations

LEMMA Consistent == Spec => []IInv
BY InitInv, NextKeeps, PTL DEF Spec

-----------------------------------------------------------------------------
\* However many requests, crashes and answers in doubt there are, one revision is
\* published at most once (handlers/google_business.py, publish).
THEOREM NeverPostedTwice == Spec => []PostedOnce
<1>1. IInv => PostedOnce
  BY DEF IInv, Posts, PostRow, PostedOnce
<1> QED
  BY <1>1, Consistent, PTL

\* A recommendation is live exactly when a receipt that succeeded says so, for one
\* post that is out (repository_pg.py, mark_find_executed).
THEOREM LiveMeansPublished == Spec => []LiveIsPublished
<1>1. IInv => LiveIsPublished
  BY DEF IInv
<1> QED
  BY <1>1, Consistent, PTL

\* A mail whose receipt still says running is sent once and nobody else is about
\* to (tools/email.py:267).
THEOREM RunningMailSentOnce == Spec => []RunningMailNotRepeated
<1>1. ASSUME IInv PROVE RunningMailNotRepeated
  <2> SUFFICES ASSUME NEW d \in DraftIds, tool[<<"mail", d>>] = "running"
               PROVE  acted[<<"mail", d>>] + Cardinality(Callers(d)) <= 1
    BY DEF RunningMailNotRepeated, Callers
  <2>1. CASE Callers(d) = {}
    BY <1>1, <2>1, FS_EmptySet DEF IInv, Mails, MailRow
  <2>2. CASE Callers(d) # {}
    <3>1. PICK m \in Callers(d) : TRUE
      BY <2>2
    <3>2. acted[<<"mail", d>>] = 0 /\ \A x, y \in Callers(d) : x = y
      BY <1>1, <2>2 DEF IInv, Mails, MailRow
    <3>3. Callers(d) = {m}
      BY <3>1, <3>2
    <3>4. Cardinality(Callers(d)) = 1
      BY <3>3, FS_Singleton
    <3> QED
      BY <3>2, <3>4
  <2> QED
    BY <2>1, <2>2
<1> QED
  BY <1>1, Consistent, PTL

\* A post goes out only in the cycle whose approval stands: the receipt started
\* before it keeps reconsider_find away (repository_pg.py:1230).
THEOREM NothingPostedAfterReopening == Spec => PublishedUnderApproval
<1> DEFINE Under ==
      \A d \in DraftIds : acted'[<<"post", d>>] > acted[<<"post", d>>] =>
          find.cycle = d[1] /\ find.status # "proposed" /\ ~row[d[1]].superseded
<1>1. ASSUME IInv, [Next]_vars PROVE Under
  <2>1. CASE acted' = acted
    <3>1. ASSUME NEW d \in DraftIds PROVE ~(acted'[<<"post", d>>] > acted[<<"post", d>>])
      <4> DEFINE k == <<"post", d>>
      <4>1. k \in Keys
        BY Facts
      <4> HIDE DEF k
      <4>2. acted[k] \in Nat
        BY <1>1, <4>1 DEF IInv, TypeOK
      <4>3. ~(acted'[k] > acted[k])
        BY <2>1, <4>2
      <4> QED
        BY <4>3 DEF k
    <3> QED
      BY <3>1, Zenon
  <2>2. CASE \E i \in Invocations : CallActs(i)
    <3>1. PICK i \in Invocations : CallActs(i)
      BY <2>2
    <3>2. ASSUME NEW d \in DraftIds, acted'[<<"post", d>>] > acted[<<"post", d>>]
          PROVE  find.cycle = d[1] /\ find.status # "proposed" /\ ~row[d[1]].superseded
      <4>1. <<"post", d>> = Key(i)
        <5>1. Key(i) \in Keys /\ <<"post", d>> \in Keys
          BY <1>1, <3>2, Facts, KeyOf DEF IInv
        <5>2. acted \in [Keys -> 0..MaxCalls] /\ acted[<<"post", d>>] \in Nat
          BY <1>1, <5>1 DEF IInv, TypeOK
        <5>3. acted' = [acted EXCEPT ![Key(i)] = @ + 1]
          BY <3>1 DEF CallActs
        <5>4. CASE <<"post", d>> # Key(i)
          <6>1. acted'[<<"post", d>>] = acted[<<"post", d>>]
            BY <5>1, <5>2, <5>3, <5>4
          <6> QED
            BY <3>2, <5>2, <6>1
        <5> QED
          BY <5>4
      <4>2. i \in Publishers /\ inv[i].draft = d
        BY <1>1, <4>1, KeyOf DEF IInv, Invocations
      <4>3. ~row[d[1]].superseded
        BY <1>1, <3>1, <4>2 DEF IInv, Posts, Holder, CallActs
      <4>4. row[d[1]].status # "absent" /\ d[1] \in Cycles
        BY <1>1, <3>1, <4>2, Facts DEF IInv, Approvals, CallActs
      <4> QED
        BY <1>1, <4>3, <4>4 DEF IInv, Approvals
    <3> QED
      BY <3>2
  <2> QED
    BY <1>1, <2>1, <2>2
       DEF Next, vars, Approve, Revise, Reopen, MakerStores, MakerCompletes, MakerFails,
           Connect, SelectLocation, Confirm, ReadDraft, ReadConnection, MarkExecuted, Notify, InvocationStep,
           StartTool, CallFails, FinishTool, Crash
<1>2. IInv /\ [Next]_vars => [Under]_vars
  BY <1>1
<1> QED
  BY <1>2, Consistent, PTL DEF Spec, PublishedUnderApproval

\* The receipt of a post that says succeeded or failed is never rewritten
\* (repository_pg.py, start_tool_execution and finish_tool_execution).
THEOREM PostReceiptsStand == Spec => PostReceiptsHold
<1> DEFINE Stand ==
      \A d \in DraftIds : tool[<<"post", d>>] \in {"succeeded", "failed"} =>
          tool'[<<"post", d>>] = tool[<<"post", d>>]
<1>1. ASSUME IInv, [Next]_vars PROVE Stand
  <2>1. CASE tool' = tool
    BY <2>1
  <2>2. ASSUME NEW i \in Invocations, StartTool(i) \/ FinishTool(i) PROVE Stand
    <3>1. /\ tool \in [Keys -> {"absent", "running", "succeeded", "failed", "skipped"}]
          /\ Key(i) \in Keys
      BY <1>1, KeyOf DEF IInv, TypeOK
    <3>2. ASSUME NEW d \in DraftIds, tool[<<"post", d>>] \in {"succeeded", "failed"}
          PROVE  tool'[<<"post", d>>] = tool[<<"post", d>>]
      <4>1. CASE <<"post", d>> # Key(i)
        BY <2>2, <3>1, <4>1, Facts DEF StartTool, FinishTool
      <4>2. CASE <<"post", d>> = Key(i)
        <5>1. i \in Publishers /\ inv[i].draft = d /\ i \notin Mailers
          BY <1>1, <4>2, KeyOf, Facts DEF IInv, Invocations
        <5>2. Holder(i)
          BY <1>1, <5>1 DEF IInv, Posts
        <5>3. ~FinishTool(i)
          BY <3>2, <5>1, <5>2 DEF Holder, FinishTool
        <5> QED
          BY <2>2, <3>1, <3>2, <4>2, <5>1, <5>3 DEF StartTool
      <4> QED
        BY <4>1, <4>2
    <3> QED
      BY <3>2
  <2> QED
    BY <1>1, <2>1, <2>2
       DEF Next, vars, Approve, Revise, Reopen, MakerStores, MakerCompletes, MakerFails,
           Connect, SelectLocation, Confirm, ReadDraft, ReadConnection, MarkExecuted, Notify, InvocationStep,
           CallActs, CallFails, Crash
<1>2. IInv /\ [Next]_vars => [Stand]_vars
  BY <1>1
<1> QED
  BY <1>2, Consistent, PTL DEF Spec, PostReceiptsHold
=============================================================================
