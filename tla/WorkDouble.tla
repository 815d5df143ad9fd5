----------------------------- MODULE WorkDouble -----------------------------
(***************************************************************************)
(* InMemoryRepository over the rows of WorkStore: the same calls about one *)
(* recommendation, translated from the double's dictionaries and loops.    *)
(***************************************************************************)
EXTENDS Naturals, Sequences, FiniteSets, SequencesExt, Listing

CONSTANTS Null, Own, Window

Answer(w, value) == [w |-> w, ans |-> value, ok |-> TRUE]
Refused(w)       == [w |-> w, ans |-> Null, ok |-> FALSE]
Matching(rows, P(_)) == InOrder({i \in DOMAIN rows : P(rows[i])})
Known(rows, i)   == i \in DOMAIN rows

\* next((row for row in rows if ...), None)
Next1(hits) == IF Len(hits) = 0 THEN Null ELSE hits[1]

-----------------------------------------------------------------------------
SetStatus(w, b, status) ==
    LET normal == w.status \in {"proposed", "later"}
                  /\ status \in {"accepted", "rejected", "later"}
        undo   == w.status = "rejected" /\ status = "accepted"
        type   == IF undo THEN "undo_pass" ELSE IF status = "accepted" THEN "accepted"
                  ELSE IF status = "rejected" THEN "passed" ELSE "saved_later"
    IN  IF b # Own \/ w.status = "withheld" THEN Refused(w)
        ELSE IF w.status = status THEN Answer(w, FALSE)
        ELSE IF ~(normal \/ undo) THEN Refused(w)
        ELSE Answer([w EXCEPT !.status = status,
                              !.event = Append(@, [cycle |-> w.cycle, type |-> type])],
                    TRUE)

DecisionEvents(w, n) == Slice(Reverse(w.event), n)

TasksToClose(w) == Matching(w.task, LAMBDA row : row.cycle <= w.cycle /\ ~row.superseded)

Irreversible(w) ==
    \E x \in DOMAIN w.exec : /\ w.exec[x].status \in {"running", "succeeded"}
                             /\ w.exec[x].tool # "ses.send_review_email"
                             /\ \E t \in ToSet(TasksToClose(w)) : w.exec[x].task = t

Closed(row) ==
    IF row.status \in {"queued", "retry", "running", "waiting_user"}
    THEN [row EXCEPT !.superseded = TRUE, !.status = "cancelled", !.cancelled = TRUE,
                     !.token = Null, !.expired = FALSE, !.due = TRUE]
    ELSE [row EXCEPT !.superseded = TRUE]

Reconsider(w, b) ==
    LET accepted == \E i \in DOMAIN w.event :
                        /\ w.event[i].cycle = w.cycle
                        /\ w.event[i].type \in {"accepted", "undo_pass"}
        logged   == IF accepted THEN w
                    ELSE [w EXCEPT !.event =
                              Append(@, [cycle |-> w.cycle, type |-> "accepted"])]
        closing  == ToSet(TasksToClose(w))
        art(a)   == IF ~w.art[a].superseded /\ w.art[a].cycle <= w.cycle
                    THEN [w.art[a] EXCEPT !.superseded = TRUE] ELSE w.art[a]
    IN  IF b # Own THEN Refused(w)
        ELSE IF w.status = "proposed" /\ w.reopened THEN Answer(w, FALSE)
        ELSE IF w.status # "accepted" \/ w.ledger # <<>> THEN Refused(w)
        ELSE IF Irreversible(w) THEN Refused(logged)
        ELSE Answer([logged EXCEPT
                        !.task = [t \in DOMAIN @ |-> IF t \in closing THEN Closed(@[t])
                                                     ELSE @[t]],
                        !.art = [a \in DOMAIN @ |-> art(a)],
                        !.cycle = w.cycle + 1, !.status = "proposed", !.reopened = TRUE,
                        !.event = Append(@, [cycle |-> w.cycle + 1,
                                             type |-> "reopened"])],
                    TRUE)

-----------------------------------------------------------------------------
CreateTask(w, b) ==
    LET existing == Next1(Matching(w.task, LAMBDA row : row.cycle = w.cycle)) IN
    IF b # Own \/ w.status # "accepted" THEN Refused(w)
    ELSE IF existing # Null THEN Answer(w, <<existing, FALSE>>)
    ELSE Answer([w EXCEPT !.task = Append(@,
                    [cycle |-> w.cycle, status |-> "queued", attempts |-> 0,
                     dispatches |-> 0, token |-> Null, expired |-> FALSE, due |-> TRUE,
                     superseded |-> FALSE, cancelled |-> FALSE, output |-> Null,
                     revision |-> 1, workflow |-> FALSE])],
                <<Len(w.task) + 1, TRUE>>)

GetTask(w, t, b) ==
    IF ~Known(w.task, t) \/ (b # Null /\ b # Own) THEN Null ELSE w.task[t]

PrepareDispatch(w, t) ==
    IF ~Known(w.task, t) THEN Answer(w, Null)
    ELSE IF w.task[t].status \notin {"queued", "retry"} \/ ~w.task[t].due
    THEN Answer(w, Null)
    ELSE Answer([w EXCEPT !.task[t].dispatches = @ + 1], t)

RecordWorkflow(w, t) ==
    IF ~Known(w.task, t) THEN Answer(w, Null)
    ELSE Answer([w EXCEPT !.task[t].workflow = TRUE], t)

\* A retry is claimed whether or not its time has come.
ClaimTask(w, t) ==
    IF ~Known(w.task, t) THEN Answer(w, Null)
    ELSE IF \/ w.task[t].status \in {"queued", "retry"}
            \/ w.task[t].status = "running" /\ w.task[t].expired
    THEN Answer([w EXCEPT !.minted = @ + 1,
                    !.task[t] = [@ EXCEPT !.status = "running", !.token = w.minted + 1,
                                          !.expired = FALSE,
                                          !.attempts = w.task[t].attempts + 1, !.due = TRUE]],
                w.minted + 1)
    ELSE Answer(w, Null)

TaskCanContinue(w, t, token) ==
    IF ~Known(w.task, t) THEN FALSE
    ELSE LET row == w.task[t] IN
         /\ w.status = "accepted" /\ row.status = "running" /\ row.token = token
         /\ ~row.superseded /\ ~row.cancelled /\ w.cycle = row.cycle

\* A completed row is handed back as it is, whatever the caller brings.
CompleteTask(w, t, token, output) ==
    IF ~Known(w.task, t) THEN Refused(w)
    ELSE IF w.task[t].status = "completed" THEN Answer(w, t)
    ELSE IF w.task[t].token # token \/ w.task[t].status # "running" THEN Refused(w)
    ELSE Answer([w EXCEPT !.task[t] = [@ EXCEPT !.status = "completed", !.output = output,
                                                !.token = Null, !.expired = FALSE]], t)

FailTask(w, t, token, retryable) ==
    IF ~Known(w.task, t) THEN Refused(w)
    ELSE IF w.task[t].token # token \/ w.task[t].status # "running" THEN Refused(w)
    ELSE Answer([w EXCEPT !.task[t] =
                    [@ EXCEPT !.status = IF retryable THEN "retry" ELSE "failed",
                              !.due = ~retryable, !.token = Null, !.expired = FALSE]], t)

\* One priority, so the newest first.
ListTasks(w, statuses, n) ==
    Slice(Reverse(Matching(w.task,
                           LAMBDA row : statuses = {} \/ row.status \in statuses)), n)

\* The loop stops after the row that fills the list, so a limit of none lets
\* one through.
ListDispatchable(w, each, n) ==
    LET ready == Matching(w.task, LAMBDA row : /\ row.status \in {"queued", "retry"}
                                               /\ ~row.superseded /\ ~row.cancelled
                                               /\ row.due)
    IN  Slice(Slice(ready, each), IF n = 0 THEN 1 ELSE n)

\* A plausible bug: an expired lease is put back whatever its attempts.
RecoverStaleForever(w, most) ==
    LET stale == {t \in DOMAIN w.task : w.task[t].status = "running" /\ w.task[t].expired}
    IN  Answer([w EXCEPT !.task = [t \in DOMAIN @ |->
                   IF t \notin stale THEN @[t]
                   ELSE [@[t] EXCEPT !.status = "retry", !.due = TRUE,
                                     !.token = Null, !.expired = FALSE]]],
               Cardinality(stale))

RecoverStale(w, most) ==
    LET stale == {t \in DOMAIN w.task : /\ w.task[t].status = "running"
                                        /\ ~w.task[t].superseded /\ ~w.task[t].cancelled
                                        /\ w.task[t].expired}
    IN  Answer([w EXCEPT !.task = [t \in DOMAIN @ |->
                   IF t \notin stale THEN @[t]
                   ELSE [@[t] EXCEPT
                            !.status = IF w.task[t].attempts < most THEN "retry"
                                       ELSE "failed",
                            !.due = TRUE, !.token = Null, !.expired = FALSE]]],
               Cardinality(stale))

RequestRevision(w, b) ==
    LET candidates == Matching(w.task, LAMBDA row : /\ row.cycle = w.cycle
                                                    /\ ~row.superseded
                                                    /\ row.status = "completed"
                                                    /\ row.output # Null)
    IN  IF b # Own \/ w.status # "accepted" \/ Len(candidates) = 0 THEN Refused(w)
        ELSE LET t == candidates[Len(candidates)] IN
             Answer([w EXCEPT !.task[t] =
                        [@ EXCEPT !.status = "queued", !.attempts = 0, !.due = TRUE,
                                  !.expired = FALSE, !.token = Null, !.workflow = FALSE,
                                  !.revision = w.task[t].revision + 1]], t)

-----------------------------------------------------------------------------
ArtifactByKey(w, key) == Next1(Matching(w.art, LAMBDA row : row.key = key))

\* The key is looked up before the parent is.
InsertArtifact(w, t, key, revision, parent) ==
    LET number == IF parent = Null \/ w.art[parent].revision + 1 <= revision
                  THEN revision ELSE w.art[parent].revision + 1
        marked == [a \in DOMAIN w.art |-> IF a = parent
                                          THEN [w.art[a] EXCEPT !.superseded = TRUE]
                                          ELSE w.art[a]]
    IN  IF ~Known(w.task, t) THEN Refused(w)
        ELSE IF \/ w.task[t].status # "running" \/ w.task[t].superseded
                \/ w.status # "accepted" \/ w.cycle # w.task[t].cycle
        THEN Refused(w)
        ELSE IF ArtifactByKey(w, key) # Null THEN Answer(w, ArtifactByKey(w, key))
        ELSE IF parent # Null /\ ~Known(w.art, parent) THEN Refused(w)
        ELSE Answer([w EXCEPT !.art = Append(marked,
                        [task |-> t, key |-> key, cycle |-> w.task[t].cycle,
                         revision |-> number, superseded |-> FALSE])],
                    Len(w.art) + 1)

\* Newest first, whatever its revision.
GetArtifacts(w) == Reverse(InOrder(DOMAIN w.art))

-----------------------------------------------------------------------------
StartTool(w, t, b, tool, key) ==
    LET existing == Next1(Matching(w.exec, LAMBDA row : row.key = key)) IN
    IF ~Known(w.task, t) \/ b # Own THEN Refused(w)
    ELSE IF w.task[t].superseded \/ w.task[t].cancelled \/ w.task[t].status = "cancelled"
    THEN Refused(w)
    ELSE IF existing # Null THEN Answer(w, <<existing, FALSE>>)
    ELSE Answer([w EXCEPT !.exec = Append(@, [task |-> t, tool |-> tool, key |-> key,
                                              status |-> "running", ref |-> Null])],
                <<Len(w.exec) + 1, TRUE>>)

FinishTool(w, x, status, ref) ==
    IF ~Known(w.exec, x) THEN Refused(w)
    ELSE Answer([w EXCEPT !.exec[x] = [@ EXCEPT !.status = status, !.ref = ref]], x)

ToolExecutions(w, t, n) ==
    Slice(Reverse(Matching(w.exec, LAMBDA row : row.task = t)), n)

MarkExecuted(w, b, x, day) ==
    IF b # Own \/ ~Known(w.exec, x) THEN Refused(w)
    ELSE IF w.tool # Null /\ w.tool # x THEN Refused(w)
    ELSE Answer([w EXCEPT !.tool = x, !.status = "live",
                          !.executed = IF w.executed # Null THEN @ ELSE day], Null)

\* A notice already stored is answered before anything is looked up, and one
\* with an id nobody has falls back on the provider's message id.
RecordEmailEvent(w, id, x, ref, type) ==
    LET stored == Next1(Matching(w.mail, LAMBDA row : row.id = id))
        byRef  == Next1(Matching(w.exec, LAMBDA row : /\ row.tool = "ses.send_review_email"
                                                      /\ row.ref = ref))
        tool   == IF x # Null /\ Known(w.exec, x) THEN x ELSE byRef
    IN  IF stored # Null THEN Answer(w, <<stored, FALSE>>)
        ELSE IF tool = Null THEN Answer(w, Null)
        ELSE Answer([w EXCEPT !.mail = Append(@, [id |-> id, exec |-> tool, type |-> type])],
                    <<Len(w.mail) + 1, TRUE>>)

\* rows[-n:], the newest n, oldest first
EmailEvents(w, x, n) ==
    LET rows == Matching(w.mail, LAMBDA row : row.exec = x) IN
    IF n = 0 THEN <<>> ELSE SubSeq(rows, IF Len(rows) > n THEN Len(rows) - n + 1 ELSE 1,
                                   Len(rows))

-----------------------------------------------------------------------------
EffectiveDue(w) == IF w.executed # Null THEN w.executed + Window ELSE Window

Due(w, today) ==
    /\ w.status \in {"accepted", "live"}
    /\ EffectiveDue(w) <= today
    /\ Len(w.ledger) = 0

InsertLedger(w, period, verdict, cents) ==
    IF Next1(Matching(w.ledger, LAMBDA e : e.period = period)) # Null THEN Refused(w)
    ELSE Answer([w EXCEPT !.tick = @ + 1,
                    !.ledger = Append(@, [period |-> period, verdict |-> verdict,
                                          cents |-> cents, at |-> w.tick + 1])],
                Len(w.ledger) + 1)

UpdateLedger(w, b, period, verdict, cents) ==
    LET i == Next1(Matching(w.ledger, LAMBDA e : b = Own /\ e.period = period)) IN
    IF i = Null THEN Refused(w)
    ELSE IF w.ledger[i].verdict # "estimated" THEN Refused(w)
    ELSE Answer([w EXCEPT !.tick = @ + 1,
                    !.ledger[i] = [@ EXCEPT !.verdict = verdict, !.cents = cents,
                                            !.at = w.tick + 1]], i)

RecordOutcome(w, b, cents) ==
    IF b # Own THEN Refused(w)
    ELSE IF w.status \notin {"accepted", "live"} THEN Refused(w)
    ELSE Answer([w EXCEPT !.tick = @ + 1,
                    !.outcome = Append(@, [cents |-> cents, at |-> w.tick + 1])],
                Len(w.outcome) + 1)

OutcomeHistory(w) == Ranked(w.outcome, LAMBDA r, s : r.at > s.at)

\* The last report of the find in the order they were made.
OutcomeReports(w) == IF w.outcome = <<>> THEN <<>> ELSE <<w.outcome[Len(w.outcome)]>>

Remeasurable(w) ==
    LET current == OutcomeReports(w)
        due == Matching(w.ledger, LAMBDA e : /\ e.verdict = "estimated" /\ current # <<>>
                                             /\ ~(current[1].at <= e.at))
    IN  Ranked(due, LAMBDA i, j : w.ledger[i].period < w.ledger[j].period)

LedgerSummary(w) ==
    LET entries(v) == Matching(w.ledger, LAMBDA e : e.verdict = v)
        measured   == {i \in ToSet(entries("verified")) : w.ledger[i].cents # Null}
    IN  [verified |-> Len(entries("verified")), estimated |-> Len(entries("estimated")),
         miss |-> Len(entries("miss")),
         cents |-> SumFunction([i \in measured |-> w.ledger[i].cents])]
=============================================================================
