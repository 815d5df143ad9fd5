----------------------------- MODULE Publishing -----------------------------
(***************************************************************************)
(* The tool layer of one recommendation: the owner confirms a Google       *)
(* Business post (handlers/google_business.py), the workflow mails the     *)
(* owner a finished draft (handlers/maker_email.py, tools/email.py), and   *)
(* both go through tool_execution receipts, while the owner may revise the *)
(* draft, reopen the recommendation or choose another location.            *)
(*                                                                         *)
(* A repository method is one serializable transaction.  Between           *)
(* start_tool_execution, the provider call, finish_tool_execution and      *)
(* mark_find_executed anything else may happen, and the invocation may     *)
(* die.  The Maker is reduced to what MakerTask.tla shows of it: drafts    *)
(* are stored and completed one at a time while the approval stands.       *)
(***************************************************************************)
EXTENDS Naturals, FiniteSets

CONSTANTS Publishers,  \* concurrent publish requests
          Mailers,     \* concurrent NotifyOwner invocations
          Locations,   \* Business Profile locations of the connected account
          MaxCycle,    \* bound on decision cycles
          MaxRevision, \* bound on revisions of one task
          MaxCalls,    \* bound on calls of one receipt that took effect
          InDoubt,     \* may a provider act although its answer is an error?
          Nothing      \* NULL in a column

Cycles      == 1..MaxCycle
Revisions   == 1..MaxRevision
DraftIds    == Cycles \X Revisions
Invocations == Publishers \cup Mailers

\* The idempotency key of a receipt: the task and its revision, under each tool.
Keys == {"post", "mail"} \X DraftIds

ASSUME Assumptions ==
    /\ MaxCycle \in Nat \ {0} /\ MaxRevision \in Nat \ {0} /\ MaxCalls \in Nat \ {0}
    /\ Publishers \cap Mailers = {} /\ Locations # {}
    /\ InDoubt \in BOOLEAN /\ Nothing \notin Keys \cup Locations

VARIABLES
    find,   \* status, decision cycle and execution receipt
    conn,   \* the Business Profile connection: what it offers, what was chosen
    row,    \* [Cycles -> the Maker task of that cycle]
    draft,  \* [DraftIds -> is the artifact absent, current, superseded]
    tool,   \* [Keys -> status of the tool_execution row]
    acted,  \* [Keys -> calls that took effect at the provider]
    posted, \* locations a post went to, with the location the owner confirmed
    inv     \* [Invocations -> program counter and locals]

vars == <<find, conn, row, draft, tool, acted, posted, inv>>

Rows == [status : {"absent", "working", "completed", "failed", "cancelled"},
         revision : Revisions, output : 0..MaxRevision, superseded : BOOLEAN]

\* "confirmed": the dialog was answered; "read": the draft was read and is good;
\* "start": so is the connection; "call": the receipt says running; "finish": the
\* provider has answered; "mark": the receipt is finished, the find not yet live.
Pcs == {"idle", "confirmed", "read", "start", "call", "finish", "mark"}

Invocation == [pc : Pcs, draft : DraftIds, seen : Locations, to : Locations,
               outcome : {"succeeded", "failed", "skipped"}]

Idle == [pc |-> "idle", draft |-> <<1, 1>>, seen |-> CHOOSE l \in Locations : TRUE,
         to |-> CHOOSE l \in Locations : TRUE, outcome |-> "failed"]

Key(i) == <<IF i \in Publishers THEN "post" ELSE "mail", inv[i].draft>>

Init ==
    /\ find = [status |-> "proposed", cycle |-> 1, receipt |-> Nothing]
    /\ conn = [offered |-> {}, location |-> Nothing]
    /\ row = [c \in Cycles |-> [status |-> "absent", revision |-> 1, output |-> 0,
                                superseded |-> FALSE]]
    /\ draft = [d \in DraftIds |-> "absent"]
    /\ tool = [k \in Keys |-> "absent"]
    /\ acted = [k \in Keys |-> 0]
    /\ posted = {}
    /\ inv = [i \in Invocations |-> Idle]

-----------------------------------------------------------------------------
\* The owner and the Maker.

Approve ==
    /\ find.status = "proposed"
    /\ find' = [find EXCEPT !.status = "accepted"]
    /\ row' = [row EXCEPT ![find.cycle].status = "working"]
    /\ UNCHANGED <<conn, draft, tool, acted, posted, inv>>

\* insert_artifact: only under the approval, which "live" ends too.
MakerStores(c) ==
    LET new == <<c, row[c].revision>>
        base == <<c, row[c].output>> IN
    /\ row[c].status = "working" /\ draft[new] = "absent"
    /\ find.status = "accepted" /\ find.cycle = c
    /\ draft' = [d \in DraftIds |-> IF d = new THEN "current"
                                    ELSE IF d = base THEN "superseded" ELSE draft[d]]
    /\ UNCHANGED <<find, conn, row, tool, acted, posted, inv>>

MakerCompletes(c) ==
    /\ row[c].status = "working" /\ draft[<<c, row[c].revision>>] # "absent"
    /\ row' = [row EXCEPT ![c].status = "completed", ![c].output = row[c].revision]
    /\ UNCHANGED <<find, conn, draft, tool, acted, posted, inv>>

MakerFails(c) ==
    /\ row[c].status = "working"
    /\ row' = [row EXCEPT ![c].status = "failed"]
    /\ UNCHANGED <<find, conn, draft, tool, acted, posted, inv>>

\* request_maker_revision.
Revise ==
    LET r == row[find.cycle] IN
    /\ find.status = "accepted" /\ r.status = "completed" /\ ~r.superseded
    /\ r.revision < MaxRevision
    /\ row' = [row EXCEPT ![find.cycle].status = "working",
                          ![find.cycle].revision = r.revision + 1]
    /\ UNCHANGED <<find, conn, draft, tool, acted, posted, inv>>

\* A customer-facing tool is running or has succeeded in this or an earlier cycle.
Irreversible ==
    \E d \in DraftIds : /\ d[1] <= find.cycle
                        /\ tool[<<"post", d>>] \in {"running", "succeeded"}

\* reconsider_find (its Meter check is in MeterLedger.tla).
Reopen ==
    /\ find.status = "accepted" /\ ~Irreversible
    /\ find.cycle < MaxCycle
    /\ find' = [find EXCEPT !.status = "proposed", !.cycle = @ + 1]
    /\ row' = [c \in Cycles |->
                  IF row[c].status = "absent" \/ row[c].superseded THEN row[c]
                  ELSE [row[c] EXCEPT !.superseded = TRUE,
                           !.status = IF @ = "working" THEN "cancelled" ELSE @]]
    /\ draft' = [d \in DraftIds |-> IF draft[d] = "current" THEN "superseded"
                                    ELSE draft[d]]
    /\ UNCHANGED <<conn, tool, acted, posted, inv>>

\* The callback of the sign-in at Google: the connection is written over, with the
\* locations that account has now, and chosen when there is only one.  An account
\* without locations, or an error of the provider, writes nothing.
Connect(found) ==
    /\ found # {}
    /\ conn' = [offered  |-> found,
                location |-> IF \E l \in found : found = {l}
                             THEN CHOOSE l \in found : TRUE ELSE Nothing]
    /\ UNCHANGED <<find, row, draft, tool, acted, posted, inv>>

\* select_external_connection.
SelectLocation(l) ==
    /\ l \in conn.offered
    /\ conn' = [conn EXCEPT !.location = l]
    /\ UNCHANGED <<find, row, draft, tool, acted, posted, inv>>

-----------------------------------------------------------------------------
\* One invocation: publish() or notify().

Move(i, pc) == inv' = [inv EXCEPT ![i].pc = pc]
Stop(i) == inv' = [inv EXCEPT ![i] = Idle]

\* _current_artifact: the task is completed with exactly this draft.
Publishable(d) ==
    /\ row[d[1]].status = "completed" /\ row[d[1]].output = d[2]
    /\ draft[d] = "current"

\* ConnectionRecord.is_ready
Ready == conn.location # Nothing

\* The owner answers the dialog, which shows the draft and the destination; the
\* request carries the draft only.
Confirm(p, d) ==
    /\ inv[p].pc = "idle" /\ draft[d] # "absent" /\ Ready
    /\ inv' = [inv EXCEPT ![p] = [@ EXCEPT !.pc = "confirmed", !.draft = d, !.seen = conn.location]]
    /\ UNCHANGED <<find, conn, row, draft, tool, acted, posted>>

ReadDraft(p) ==
    /\ inv[p].pc = "confirmed"
    /\ IF Publishable(inv[p].draft) THEN Move(p, "read") ELSE Stop(p)
    /\ UNCHANGED <<find, conn, row, draft, tool, acted, posted>>

ReadConnection(p) ==
    /\ inv[p].pc = "read"
    /\ IF Ready
       THEN inv' = [inv EXCEPT ![p] = [@ EXCEPT !.pc = "start", !.to = conn.location]]
       ELSE Stop(p)
    /\ UNCHANGED <<find, conn, row, draft, tool, acted, posted>>

\* notify: a completed, current draft; otherwise the workflow just ends.
Notify(m, c) ==
    /\ inv[m].pc = "idle"
    /\ row[c].status = "completed" /\ ~row[c].superseded
    /\ draft[<<c, row[c].output>>] # "superseded"
    /\ inv' = [inv EXCEPT ![m] = [@ EXCEPT !.pc = "start", !.draft = <<c, row[c].output>>]]
    /\ UNCHANGED <<find, conn, row, draft, tool, acted, posted>>

\* A plausible bug: the receipt is started without looking at the task again.
StartToolUnguarded(i) ==
    LET k == Key(i) IN
    /\ inv[i].pc = "start"
    /\ IF tool[k] = "absent" \/ (i \in Mailers /\ tool[k] = "failed")
       THEN /\ Move(i, "call")
            /\ tool' = [tool EXCEPT ![k] = IF @ = "absent" THEN "running" ELSE @]
       ELSE Stop(i) /\ UNCHANGED tool
    /\ UNCHANGED <<find, conn, row, draft, acted, posted>>

\* A plausible bug: the publisher takes up a failed receipt as the mailer does.
StartToolAfterFailure(i) ==
    LET k == Key(i) IN
    /\ inv[i].pc = "start"
    /\ IF ~row[inv[i].draft[1]].superseded /\ tool[k] \in {"absent", "failed"}
       THEN /\ Move(i, "call")
            /\ tool' = [tool EXCEPT ![k] = IF @ = "absent" THEN "running" ELSE @]
       ELSE Stop(i) /\ UNCHANGED tool
    /\ UNCHANGED <<find, conn, row, draft, acted, posted>>

\* A plausible bug: an existing running receipt is taken for one's own.
StartToolTwice(i) ==
    LET k == Key(i) IN
    /\ inv[i].pc = "start"
    /\ IF ~row[inv[i].draft[1]].superseded /\ tool[k] \in {"absent", "running", "failed"}
       THEN /\ Move(i, "call")
            /\ tool' = [tool EXCEPT ![k] = IF @ = "absent" THEN "running" ELSE @]
       ELSE Stop(i) /\ UNCHANGED tool
    /\ UNCHANGED <<find, conn, row, draft, acted, posted>>

\* start_tool_execution: the key is inserted at most once, for a task not taken
\* back.  Only its creator publishes; a failed mail is tried again.
StartTool(i) ==
    LET k == Key(i)
        go == ~row[inv[i].draft[1]].superseded
              /\ (tool[k] = "absent" \/ (i \in Mailers /\ tool[k] = "failed")) IN
    /\ inv[i].pc = "start"
    /\ IF go THEN /\ Move(i, "call")
                  /\ tool' = [tool EXCEPT ![k] = IF @ = "absent" THEN "running" ELSE @]
             ELSE Stop(i) /\ UNCHANGED tool
    /\ UNCHANGED <<find, conn, row, draft, acted, posted>>

Answered(i, outcome) ==
    inv' = [inv EXCEPT ![i] = [@ EXCEPT !.pc = "finish", !.outcome = outcome]]

\* The provider does it; the answer may still be an error that leaves it in doubt.
CallActs(i) ==
    LET k == Key(i) IN
    /\ inv[i].pc = "call" /\ acted[k] < MaxCalls
    /\ acted' = [acted EXCEPT ![k] = @ + 1]
    /\ posted' = posted \cup IF i \in Publishers THEN {<<inv[i].seen, inv[i].to>>} ELSE {}
    /\ Answered(i, "succeeded") \/ (InDoubt /\ Answered(i, "failed"))
    /\ UNCHANGED <<find, conn, row, draft, tool>>

\* The provider refuses, or the call is never made: no credentials, mail off.
CallFails(i) ==
    /\ inv[i].pc = "call"
    /\ Answered(i, "failed") \/ (i \in Mailers /\ Answered(i, "skipped"))
    /\ UNCHANGED <<find, conn, row, draft, tool, acted, posted>>

\* A plausible bug: the owner's receipt is written as a success either way.
FinishToolOptimistic(i) ==
    /\ inv[i].pc = "finish"
    /\ tool' = [tool EXCEPT ![Key(i)] = IF @ = "running" THEN "succeeded" ELSE @]
    /\ IF i \in Publishers THEN Move(i, "mark") ELSE Stop(i)
    /\ UNCHANGED <<find, conn, row, draft, acted, posted>>

\* finish_tool_execution updates the row whatever its status is.
FinishTool(i) ==
    /\ inv[i].pc = "finish"
    /\ tool' = [tool EXCEPT ![Key(i)] = inv[i].outcome]
    /\ IF i \in Publishers /\ inv[i].outcome = "succeeded" THEN Move(i, "mark") ELSE Stop(i)
    /\ UNCHANGED <<find, conn, row, draft, acted, posted>>

\* mark_find_executed: refused when another receipt made it live already.
MarkExecuted(p) ==
    /\ inv[p].pc = "mark"
    /\ find' = IF find.receipt \in {Nothing, Key(p)}
               THEN [find EXCEPT !.status = "live", !.receipt = Key(p)]
               ELSE find
    /\ Stop(p)
    /\ UNCHANGED <<conn, row, draft, tool, acted, posted>>

Crash(i) ==
    /\ inv[i].pc # "idle"
    /\ Stop(i)
    /\ UNCHANGED <<find, conn, row, draft, tool, acted, posted>>

InvocationStep(i) ==
    StartTool(i) \/ CallActs(i) \/ CallFails(i) \/ FinishTool(i)

Next ==
    \/ Approve \/ Revise \/ Reopen
    \/ \E c \in Cycles : MakerStores(c) \/ MakerCompletes(c) \/ MakerFails(c)
    \/ \E found \in SUBSET Locations : Connect(found)
    \/ \E l \in Locations : SelectLocation(l)
    \/ \E p \in Publishers : \/ \E d \in DraftIds : Confirm(p, d)
                             \/ ReadDraft(p) \/ ReadConnection(p) \/ MarkExecuted(p)
    \/ \E m \in Mailers, c \in Cycles : Notify(m, c)
    \/ \E i \in Invocations : InvocationStep(i) \/ Crash(i)

Spec == Init /\ [][Next]_vars

-----------------------------------------------------------------------------
\* Properties.

TypeOK ==
    /\ find \in [status : {"proposed", "accepted", "live"}, cycle : Cycles,
                 receipt : Keys \cup {Nothing}]
    /\ conn \in [offered : SUBSET Locations, location : Locations \cup {Nothing}]
    /\ row \in [Cycles -> Rows]
    /\ draft \in [DraftIds -> {"absent", "current", "superseded"}]
    /\ tool \in [Keys -> {"absent", "running", "succeeded", "failed", "skipped"}]
    /\ acted \in [Keys -> 0..MaxCalls]
    /\ posted \subseteq Locations \X Locations
    /\ inv \in [Invocations -> Invocation]

\* A revision is published at most once, however many clicks, crashes and
\* errors in doubt there are.
PostedOnce == \A d \in DraftIds : acted[<<"post", d>>] <= 1

\* A recommendation is live under exactly one receipt, which succeeded and
\* stands for one post out in the world.
LiveIsPublished ==
    /\ find.status = "live" <=> find.receipt # Nothing
    /\ find.status = "live" => /\ find.receipt[1] = "post"
                               /\ tool[find.receipt] = "succeeded"
                               /\ acted[find.receipt] = 1

\* Nothing is published for a decision that was taken back: a post goes out in
\* the cycle whose approval stands, never after Return to For You.
PublishedUnderApproval ==
    [][\A d \in DraftIds : acted'[<<"post", d>>] > acted[<<"post", d>>] =>
          find.cycle = d[1] /\ find.status # "proposed" /\ ~row[d[1]].superseded]_vars

\* What a receipt says once finished is never rewritten for a post, and is the
\* truth as far as the provider told it.
PostReceiptsHold ==
    [][\A d \in DraftIds : tool[<<"post", d>>] \in {"succeeded", "failed"} =>
          tool'[<<"post", d>>] = tool[<<"post", d>>]]_vars

\* A live recommendation stays live, under the same receipt, in the same cycle.
LiveIsFinal == [][find.status = "live" => find' = find]_vars

\* A recommendation that was reopened has nothing out in the world from its
\* earlier cycles (decisions.py: a tool that has already changed a
\* customer-facing external system must be corrected through a new task).
ReopenedIsClean == \A d \in DraftIds : d[1] < find.cycle => acted[<<"post", d>>] = 0

\* A review mail whose receipt still says running, because its sender died or is
\* waiting, is not sent a second time, and nobody else is about to.
RunningMailNotRepeated ==
    \A d \in DraftIds : tool[<<"mail", d>>] = "running" =>
        acted[<<"mail", d>>] + Cardinality({m \in Mailers : inv[m].pc = "call"
                                                            /\ inv[m].draft = d}) <= 1

\* MULTI_TENANT_AGENT_PLATFORM.md: "If a previous SES call is still in doubt,
\* Brass Tacks does not automatically resend and risk a duplicate email."
MailedOnce == \A d \in DraftIds : acted[<<"mail", d>>] <= 1

\* google_business.py: "The exact artifact revision, tenant connection and owner
\* approval are revalidated immediately before the provider call."
PublishedIsCurrent ==
    [][\A d \in DraftIds : acted'[<<"post", d>>] > acted[<<"post", d>>] =>
          Publishable(d)]_vars

\* app.html: "I reviewed this exact revision and want to publish it publicly to
\* the destination above."
PublishedWhereConfirmed == \A pair \in posted : pair[1] = pair[2]
=============================================================================
