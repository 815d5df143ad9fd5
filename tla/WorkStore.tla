----------------------------- MODULE WorkStore -----------------------------
(***************************************************************************)
(* What is kept of one recommendation once it is on the board, and the     *)
(* methods of PostgresRepository over it: the find's own columns,          *)
(* decision_event, work_task, artifact, tool_execution, email_event,       *)
(* ledger_entry and find_outcome.  Each operator takes the stored rows to  *)
(* the rows it leaves and the value it answers.                            *)
(*                                                                         *)
(* Rows are never deleted, so an id is a position.  A lease is reduced to  *)
(* whether it has expired, next_attempt_at to whether it has come (due);   *)
(* measured_at and reported_at are ticks of one clock; executed_at is a    *)
(* day, day 0 the one the find was made on.  task_event, a log nothing     *)
(* reads back, is left out.                                                *)
(***************************************************************************)
EXTENDS Naturals, Sequences, FiniteSets, SequencesExt, Listing

CONSTANTS Null,
          Own,       \* the business the recommendation belongs to
          Window     \* verify_after, in days after the find was made

NewWork(status) ==
    [status |-> status, cycle |-> 1, reopened |-> FALSE, tool |-> Null,
     executed |-> Null, event |-> <<>>, task |-> <<>>, art |-> <<>>, exec |-> <<>>,
     mail |-> <<>>, ledger |-> <<>>, outcome |-> <<>>, minted |-> 0, tick |-> 0]

Answer(w, value) == [w |-> w, ans |-> value, ok |-> TRUE]
Refused(w)       == [w |-> w, ans |-> Null, ok |-> FALSE]

Judgeable  == {"accepted", "live"}
Active     == {"queued", "retry", "running", "waiting_user"}
ReviewTool == "ses.send_review_email"      \* REVERSIBLE_REVIEW_TOOLS

-----------------------------------------------------------------------------
\* Decisions.

Decision(from, to) ==
    CASE from = "rejected" /\ to = "accepted" -> "undo_pass"
      [] from \in {"proposed", "later"} /\ to = "accepted" -> "accepted"
      [] from \in {"proposed", "later"} /\ to = "rejected" -> "passed"
      [] from \in {"proposed", "later"} /\ to = "later"    -> "saved_later"
      [] OTHER -> Null

SetStatus(w, b, status) ==
    IF b # Own \/ w.status = "withheld" THEN Refused(w)
    ELSE IF w.status = status THEN Answer(w, FALSE)
    ELSE IF Decision(w.status, status) = Null THEN Refused(w)
    ELSE Answer([w EXCEPT !.status = status,
                          !.event = Append(@, [cycle |-> w.cycle,
                                               type |-> Decision(w.status, status)])],
                TRUE)

DecisionEvents(w, n) == Limit(Reverse(w.event), n)

Published(w) == \E x \in DOMAIN w.exec : /\ w.exec[x].tool # ReviewTool
                                         /\ w.exec[x].status \in {"running", "succeeded"}

\* A task the reopening supersedes: whatever is still to be done is cancelled.
Superseded(row) ==
    LET open == row.status \in Active IN
    IF row.superseded THEN row
    ELSE [row EXCEPT !.status     = IF open THEN "cancelled" ELSE @,
                     !.cancelled  = @ \/ open,
                     !.superseded = TRUE, !.token = Null, !.expired = FALSE,
                     !.due = TRUE]

\* A draft another one takes the place of.
Replaced(row) == [row EXCEPT !.superseded = TRUE]

\* The approval an imported row never logged is logged before it is reopened.
Backfilled(w) ==
    IF \E i \in DOMAIN w.event : /\ w.event[i].cycle = w.cycle
                                 /\ w.event[i].type \in {"accepted", "undo_pass"}
    THEN w.event
    ELSE Append(w.event, [cycle |-> w.cycle, type |-> "accepted"])

Reconsider(w, b) ==
    IF b # Own THEN Refused(w)
    ELSE IF w.status = "proposed" /\ w.reopened THEN Answer(w, FALSE)
    ELSE IF w.status # "accepted" \/ w.ledger # <<>> \/ Published(w) THEN Refused(w)
    ELSE Answer([w EXCEPT !.status = "proposed", !.cycle = @ + 1, !.reopened = TRUE,
                          !.event = Append(Backfilled(w), [cycle |-> w.cycle + 1,
                                                           type |-> "reopened"]),
                          !.task  = [t \in DOMAIN @ |-> Superseded(@[t])],
                          !.art   = [a \in DOMAIN @ |-> Replaced(@[a])]],
                TRUE)

-----------------------------------------------------------------------------
\* Tasks.

TaskRow(cycle) ==
    [cycle |-> cycle, status |-> "queued", attempts |-> 0, dispatches |-> 0,
     token |-> Null, expired |-> FALSE, due |-> TRUE, superseded |-> FALSE,
     cancelled |-> FALSE, output |-> Null, revision |-> 1, workflow |-> FALSE]

Open(row) == ~row.superseded /\ ~row.cancelled

CreateTask(w, b) ==
    LET same == {t \in DOMAIN w.task : w.task[t].cycle = w.cycle} IN
    IF b # Own \/ w.status # "accepted" THEN Refused(w)
    ELSE IF same # {} THEN Answer(w, <<CHOOSE t \in same : TRUE, FALSE>>)
    ELSE Answer([w EXCEPT !.task = Append(@, TaskRow(w.cycle))],
                <<Len(w.task) + 1, TRUE>>)

GetTask(w, t, b) == IF t \in DOMAIN w.task /\ b \in {Own, Null} THEN w.task[t] ELSE Null

PrepareDispatch(w, t) ==
    IF /\ t \in DOMAIN w.task /\ Open(w.task[t])
       /\ w.task[t].status \in {"queued", "retry"} /\ w.task[t].due
    THEN Answer([w EXCEPT !.task[t].dispatches = @ + 1], t)
    ELSE Answer(w, Null)

RecordWorkflow(w, t) ==
    IF t \in DOMAIN w.task THEN Answer([w EXCEPT !.task[t].workflow = TRUE], t)
    ELSE Answer(w, Null)

Claimable(row) ==
    /\ Open(row)
    /\ \/ row.status \in {"queued", "retry"} /\ row.due
       \/ row.status = "running" /\ row.expired

\* The row a worker holds, as it is then.
Claimed(row, token) ==
    [row EXCEPT !.status = "running", !.token = token, !.expired = FALSE,
                !.attempts = row.attempts + 1, !.due = TRUE]

ClaimTask(w, t) ==
    IF t \in DOMAIN w.task /\ Claimable(w.task[t])
    THEN Answer([w EXCEPT !.minted = @ + 1, !.task[t] = Claimed(@, w.minted + 1)],
                w.minted + 1)
    ELSE Answer(w, Null)

TaskCanContinue(w, t, token) ==
    /\ t \in DOMAIN w.task /\ Open(w.task[t])
    /\ w.task[t].status = "running" /\ w.task[t].token = token
    /\ w.status = "accepted" /\ w.cycle = w.task[t].cycle

\* The row a worker lets go of, as it is then.
Released(row, status, due) ==
    [row EXCEPT !.status = status, !.due = due, !.token = Null, !.expired = FALSE]

CompleteTask(w, t, token, output) ==
    LET kept == IF output # Null THEN output ELSE w.task[t].output
        done == Released(w.task[t], "completed", TRUE)
    IN  IF /\ t \in DOMAIN w.task
           /\ \/ w.task[t].status = "running" /\ w.task[t].token = token
              \/ w.task[t].status = "completed"
        THEN Answer([w EXCEPT !.task[t] = [done EXCEPT !.output = kept]], t)
        ELSE Refused(w)

FailTask(w, t, token, retryable) ==
    IF t \in DOMAIN w.task /\ w.task[t].status = "running" /\ w.task[t].token = token
    THEN Answer([w EXCEPT !.task[t] = Released(@, IF retryable THEN "retry" ELSE "failed",
                                               ~retryable)], t)
    ELSE Refused(w)

ListTasks(w, statuses, n) ==
    Limit(Newest({t \in DOMAIN w.task : statuses = {} \/ w.task[t].status \in statuses}), n)

\* The oldest few of each business; there is one business here.
ListDispatchable(w, each, n) ==
    LET ready == {t \in DOMAIN w.task : /\ w.task[t].status \in {"queued", "retry"}
                                        /\ Open(w.task[t]) /\ w.task[t].due}
    IN  Limit(Limit(InOrder(ready), each), n)

Stale(row) == row.status = "running" /\ Open(row) /\ row.token # Null /\ row.expired

RecoverStale(w, most) ==
    Answer([w EXCEPT !.task = [t \in DOMAIN @ |->
               IF Stale(@[t])
               THEN Released(@[t], IF @[t].attempts < most THEN "retry" ELSE "failed", TRUE)
               ELSE @[t]]],
           Cardinality({t \in DOMAIN w.task : Stale(w.task[t])}))

RequestRevision(w, b) ==
    LET done == {t \in DOMAIN w.task : /\ w.task[t].cycle = w.cycle
                                       /\ w.task[t].status = "completed"
                                       /\ ~w.task[t].superseded
                                       /\ w.task[t].output # Null}
    IN  IF b # Own \/ w.status # "accepted" \/ done = {} THEN Refused(w)
        ELSE LET t    == CHOOSE t \in done : \A u \in done : u <= t
                 free == Released(w.task[t], "queued", TRUE)
             IN  Answer([w EXCEPT !.task[t] = [free EXCEPT !.attempts = 0, !.workflow = FALSE,
                                                           !.revision = @ + 1]], t)

-----------------------------------------------------------------------------
\* Drafts.

InsertArtifact(w, t, key, revision, parent) ==
    LET mayWrite == /\ t \in DOMAIN w.task /\ w.task[t].status = "running"
                    /\ ~w.task[t].superseded
                    /\ w.status = "accepted" /\ w.cycle = w.task[t].cycle
        higher   == IF parent = Null THEN revision
                    ELSE IF w.art[parent].revision + 1 > revision
                    THEN w.art[parent].revision + 1 ELSE revision
        same     == {a \in DOMAIN w.art : w.art[a].key = key}
        row      == [task |-> t, key |-> key, cycle |-> w.task[t].cycle,
                     revision |-> higher, superseded |-> FALSE]
        stored   == IF same = {} THEN Append(w.art, row) ELSE w.art
        id       == IF same = {} THEN Len(w.art) + 1 ELSE CHOOSE a \in same : TRUE
    IN  IF ~mayWrite \/ (parent # Null /\ parent \notin DOMAIN w.art) THEN Refused(w)
        ELSE Answer([w EXCEPT !.art = [a \in DOMAIN stored |->
                        IF a = parent /\ a # id THEN Replaced(stored[a]) ELSE stored[a]]], id)

GetArtifacts(w) ==
    Sorted(DOMAIN w.art, LAMBDA a, c : \/ w.art[a].revision > w.art[c].revision
                                       \/ w.art[a].revision = w.art[c].revision /\ a > c)

ArtifactByKey(w, key) ==
    LET same == {a \in DOMAIN w.art : w.art[a].key = key} IN
    IF same = {} THEN Null ELSE CHOOSE a \in same : TRUE

-----------------------------------------------------------------------------
\* Tools, the mail's receipts, the execution of the recommendation.

StartTool(w, t, b, tool, key) ==
    LET same == {x \in DOMAIN w.exec : w.exec[x].key = key} IN
    IF \/ t \notin DOMAIN w.task \/ b # Own \/ ~Open(w.task[t])
       \/ w.task[t].status = "cancelled"
    THEN Refused(w)
    ELSE IF same # {} THEN Answer(w, <<CHOOSE x \in same : TRUE, FALSE>>)
    ELSE Answer([w EXCEPT !.exec = Append(@, [task |-> t, tool |-> tool, key |-> key,
                                              status |-> "running", ref |-> Null])],
                <<Len(w.exec) + 1, TRUE>>)

FinishTool(w, x, status, ref) ==
    IF x \in DOMAIN w.exec
    THEN Answer([w EXCEPT !.exec[x].status = status, !.exec[x].ref = ref], x)
    ELSE Refused(w)

ToolExecutions(w, t, n) ==
    Limit(Newest({x \in DOMAIN w.exec : w.exec[x].task = t}), n)

MarkExecuted(w, b, x, day) ==
    IF b # Own \/ x \notin DOMAIN w.exec \/ w.tool \notin {Null, x} THEN Refused(w)
    ELSE Answer([w EXCEPT !.status = "live", !.tool = x,
                          !.executed = IF @ = Null THEN day ELSE @], Null)

\* The mail the notice is about: by its own id if it carries one, else by the
\* provider's message id.
MailOf(w, x, ref) ==
    LET hits == {y \in DOMAIN w.exec : /\ w.exec[y].tool = ReviewTool
                                       /\ IF x # Null THEN y = x
                                          ELSE w.exec[y].ref # Null /\ w.exec[y].ref = ref}
    IN  IF hits = {} THEN Null ELSE CHOOSE y \in hits : \A z \in hits : z <= y

RecordEmailEvent(w, id, x, ref, type) ==
    LET known == {i \in DOMAIN w.mail : w.mail[i].id = id}
        mail  == MailOf(w, x, ref)
    IN  IF mail = Null THEN Answer(w, Null)
        ELSE IF known # {} THEN Answer(w, <<CHOOSE i \in known : TRUE, FALSE>>)
        ELSE Answer([w EXCEPT !.mail = Append(@, [id |-> id, exec |-> mail, type |-> type])],
                    <<Len(w.mail) + 1, TRUE>>)

EmailEvents(w, x, n) ==
    Limit(InOrder({i \in DOMAIN w.mail : w.mail[i].exec = x}), n)

-----------------------------------------------------------------------------
\* Verdicts, and what the owner counted.

DueDay(w) == IF w.executed = Null THEN Window ELSE w.executed + Window

Due(w, today) == w.status \in Judgeable /\ DueDay(w) <= today /\ w.ledger = <<>>

Entry(period, verdict, cents, tick) ==
    [period |-> period, verdict |-> verdict, cents |-> cents, at |-> tick]

\* ledger_period_idx: one verdict for a find over a period.
InsertLedger(w, period, verdict, cents) ==
    IF \E i \in DOMAIN w.ledger : w.ledger[i].period = period THEN Refused(w)
    ELSE Answer([w EXCEPT !.tick = @ + 1,
                          !.ledger = Append(@, Entry(period, verdict, cents, w.tick + 1))],
                Len(w.ledger) + 1)

UpdateLedger(w, b, period, verdict, cents) ==
    LET hits == {i \in DOMAIN w.ledger : /\ w.ledger[i].period = period
                                         /\ w.ledger[i].verdict = "estimated"}
    IN  IF b # Own \/ hits = {} THEN Refused(w)
        ELSE LET i == CHOOSE i \in hits : TRUE IN
             Answer([w EXCEPT !.tick = @ + 1,
                        !.ledger[i] = Entry(period, verdict, cents, w.tick + 1)], i)

RecordOutcome(w, b, cents) ==
    IF b # Own \/ w.status \notin Judgeable THEN Refused(w)
    ELSE Answer([w EXCEPT !.tick = @ + 1,
                          !.outcome = Append(@, [cents |-> cents, at |-> w.tick + 1])],
                Len(w.outcome) + 1)

OutcomeHistory(w) == Reverse(w.outcome)

\* DISTINCT ON (find_id) ... ORDER BY reported_at DESC
OutcomeReports(w) == Limit(OutcomeHistory(w), 1)

\* max(reported_at) is after measured_at, ordered by the end of the period
Remeasurable(w) ==
    LET later == {i \in DOMAIN w.ledger :
                     /\ w.ledger[i].verdict = "estimated"
                     /\ \E k \in DOMAIN w.outcome : w.outcome[k].at > w.ledger[i].at}
    IN  Sorted(later, LAMBDA i, j : w.ledger[i].period < w.ledger[j].period)

Verdicts(w, verdict) == {i \in DOMAIN w.ledger : w.ledger[i].verdict = verdict}

\* The sum skips what was not measured.
LedgerSummary(w) ==
    LET measured == {i \in Verdicts(w, "verified") : w.ledger[i].cents # Null} IN
        [verified |-> Cardinality(Verdicts(w, "verified")),
         estimated |-> Cardinality(Verdicts(w, "estimated")),
         miss |-> Cardinality(Verdicts(w, "miss")),
         cents |-> SumFunction([i \in measured |-> w.ledger[i].cents])]
=============================================================================
