----------------------------- MODULE MakerTask -----------------------------
(***************************************************************************)
(* The durable control plane between an owner's Do it and a Maker draft:   *)
(* recommendations, work_task rows, artifacts, the SQS queue in front of   *)
(* Step Functions, the Maker Lambda (handlers/maker.py), the reconciler    *)
(* (handlers/task_reconciler.py) and the owner's requests                  *)
(* (handlers/decision.py, handlers/ask.py).                                *)
(*                                                                         *)
(* Every repository method is one serializable transaction, hence one      *)
(* action; a handler that calls several is several actions, and any other  *)
(* actor, or the Lambda's own death, may come between two of them.         *)
(*                                                                         *)
(* maker_task_idempotency_key makes (find, decision cycle) the identity of *)
(* a task, maker_artifact_idempotency_key makes (task, revision) that of a *)
(* draft: both are the indices of the functions below.                     *)
(***************************************************************************)
EXTENDS Naturals, FiniteSets

CONSTANTS Finds,        \* recommendations
          Workers,      \* concurrent invocations of the Maker Lambda
          Nobody,       \* NULL in a claim_token column, or an idle worker's task
          MaxCycle,     \* bound on decision cycles
          MaxRevision,  \* MAX_REVISIONS (handlers/ask.py): the soft ceiling
          RevisionCap,  \* bound on revisions, which the ceiling leaves open
          MaxAttempts,  \* MAX_ATTEMPTS (handlers/maker.py, task_reconciler.py)
          AttemptCap,   \* bound on attempt_count, which the code leaves open
          QueueCap,     \* bound on dispatches of one task not yet started
          LeaseOutlived \* may an invocation outlive its lease?

Cycles    == 1..MaxCycle
Revisions == 1..RevisionCap
Tasks     == Finds \X Cycles

ASSUME Assumptions ==
    /\ MaxCycle \in Nat \ {0} /\ MaxRevision \in Nat \ {0}
    /\ RevisionCap \in Nat /\ MaxRevision <= RevisionCap
    /\ MaxAttempts \in Nat \ {0} /\ AttemptCap \in Nat /\ QueueCap \in Nat
    /\ MaxAttempts <= AttemptCap
    /\ LeaseOutlived \in BOOLEAN
    /\ Nobody \notin Workers /\ Nobody \notin Tasks

VARIABLES
    find,     \* [Finds -> status and decision cycle]
    task,     \* [Tasks -> the work_task row]
    art,      \* [Tasks -> [Revisions -> is the draft absent, current, superseded]]
    pending,  \* [Tasks -> dispatches in SQS or Step Functions, not yet started]
    owed,     \* [Finds -> what an owner request still has to do for the find]
    worker    \* [Workers -> program counter and locals of process_task]

vars == <<find, task, art, pending, owed, worker>>

FindStatus == {"proposed", "accepted", "rejected"}
TaskStatus == {"absent", "queued", "retry", "running", "completed", "failed",
               "cancelled"}
Waiting    == {"queued", "retry"}
Active     == Waiting \cup {"running"}

TaskRow == [status : TaskStatus, attempt : 0..AttemptCap, revision : Revisions,
            base : 0..RevisionCap, output : 0..RevisionCap,
            token : Workers \cup {Nobody}, lease : {"none", "held", "expired"},
            due : BOOLEAN, dispatched : BOOLEAN, superseded : BOOLEAN]

NoRow == [status |-> "absent", attempt |-> 0, revision |-> 1, base |-> 0,
          output |-> 0, token |-> Nobody, lease |-> "none", due |-> TRUE,
          dispatched |-> FALSE, superseded |-> FALSE]

\* "claim": the row has been read and looks claimable.  The others hold a claim:
\* "check" reads the find, "lookup" the stored draft, "model" calls the model,
\* "store" inserts the draft, "recheck" asks again whether to go on, "complete"
\* closes the task, "error" schedules the retry.
Holding == {"check", "lookup", "model", "store", "recheck", "complete", "error"}

WorkerState == [pc : Holding \cup {"idle", "claim"}, task : Tasks \cup {Nobody},
                attempt : 0..AttemptCap, revision : Revisions, base : 0..RevisionCap]

Idle == [pc |-> "idle", task |-> Nobody, attempt |-> 0, revision |-> 1, base |-> 0]

Init ==
    /\ find = [f \in Finds |-> [status |-> "proposed", cycle |-> 1]]
    /\ task = [t \in Tasks |-> NoRow]
    /\ art = [t \in Tasks |-> [r \in Revisions |-> "absent"]]
    /\ pending = [t \in Tasks |-> 0]
    /\ owed = [f \in Finds |-> [step |-> "nothing", cycle |-> 1]]
    /\ worker = [w \in Workers |-> Idle]

-----------------------------------------------------------------------------
\* Predicates the code evaluates in SQL.

CurrentTask(f) == <<f, find[f].cycle>>

\* The find is still approved in the cycle the task was created for.
Approved(t) == find[t[1]] = [status |-> "accepted", cycle |-> t[2]]

\* A plausible bug: the status list forgets "retry".
DispatchableQueuedOnly(t) ==
    /\ task[t].status = "queued"
    /\ ~task[t].superseded
    /\ task[t].due

Dispatchable(t) ==
    /\ task[t].status \in Waiting
    /\ ~task[t].superseded
    /\ task[t].due

Stale(t) ==
    /\ task[t].status = "running"
    /\ task[t].lease = "expired"
    /\ ~task[t].superseded

\* A plausible bug: a running row is claimed before its lease has ended.
ClaimableTooEarly(t) ==
    \/ Dispatchable(t)
    \/ task[t].status = "running" /\ ~task[t].superseded

Claimable(t) == Dispatchable(t) \/ Stale(t)

OwnsClaim(w) ==
    LET t == worker[w].task IN
    /\ task[t].status = "running"
    /\ task[t].token = w

CanContinue(w) ==
    /\ OwnsClaim(w)
    /\ ~task[worker[w].task].superseded
    /\ Approved(worker[w].task)

CurrentDrafts(t) == {r \in Revisions : art[t][r] = "current"}

-----------------------------------------------------------------------------
\* Owner requests.  One request per find is in flight at a time; the reconciler
\* stands for a second, concurrent dispatcher.

Go(f, step, c) == owed' = [owed EXCEPT ![f] = [step |-> step, cycle |-> c]]
Done(f) == Go(f, "nothing", 1)

\* Do it, Undo Pass, or a repeated Do it: set_find_status commits before
\* dispatch_maker begins.
Approve(f) ==
    /\ owed[f].step = "nothing"
    /\ find' = [find EXCEPT ![f].status = "accepted"]
    /\ Go(f, "create", 1)
    /\ UNCHANGED <<task, art, pending, worker>>

PassFind(f) ==
    /\ owed[f].step = "nothing"
    /\ find[f].status = "proposed"
    /\ find' = [find EXCEPT ![f].status = "rejected"]
    /\ UNCHANGED <<task, art, pending, owed, worker>>

\* INSERT ... ON CONFLICT DO NOTHING under the find's row lock.
Created(f) ==
    IF task[CurrentTask(f)].status = "absent"
    THEN [task EXCEPT ![CurrentTask(f)].status = "queued"]
    ELSE task

\* dispatch_maker, first half: the find may have been reopened meanwhile, and
\* a repeated click does not dispatch a queued task again.
CreateTask(f) ==
    LET row == task[CurrentTask(f)] IN
    /\ owed[f].step = "create"
    /\ IF find[f].status # "accepted"
       THEN UNCHANGED task /\ Done(f)
       ELSE /\ task' = Created(f)
            /\ IF row.status = "absent" \/ row.status = "retry"
                  \/ (row.status = "queued" /\ ~row.dispatched)
               THEN Go(f, "dispatch", find[f].cycle)
               ELSE Done(f)
    /\ UNCHANGED <<find, art, pending, worker>>

\* prepare_task_dispatch commits dispatch_count, then SQS is called: it may
\* accept the message or fail, and the caller may die in between.
Dispatch(t) ==
    /\ task' = [task EXCEPT ![t].dispatched = TRUE]
    /\ \/ /\ pending[t] < QueueCap
          /\ pending' = [pending EXCEPT ![t] = @ + 1]
       \/ UNCHANGED pending

DispatchOwed(f) ==
    LET t == <<f, owed[f].cycle>> IN
    /\ owed[f].step = "dispatch"
    /\ Done(f)
    /\ \/ Dispatchable(t) /\ Dispatch(t)
       \/ ~Dispatchable(t) /\ UNCHANGED <<task, pending>>
    /\ UNCHANGED <<find, art, worker>>

\* The request's Lambda dies: nothing it still owed will be done by it.
RequestDies(f) ==
    /\ owed[f].step # "nothing"
    /\ Done(f)
    /\ UNCHANGED <<find, task, art, pending, worker>>

Superseded(row) ==
    [row EXCEPT !.status = IF @ \in Active THEN "cancelled" ELSE @,
                !.superseded = TRUE, !.token = Nobody, !.lease = "none",
                !.due = TRUE]

\* Return to For You, in one transaction: cancel or supersede every task of the
\* find, supersede its drafts, open the next cycle.  What else refuses it is in
\* the modules of what it asks: a published post (Publishing), a verdict of the
\* Meter (MeterLedger).
Reconsider(f) ==
    /\ find[f].status = "accepted"
    /\ find[f].cycle < MaxCycle
    /\ task' = [t \in Tasks |->
                   IF t[1] = f /\ task[t].status # "absent" /\ ~task[t].superseded
                   THEN Superseded(task[t]) ELSE task[t]]
    /\ art' = [t \in Tasks |-> [r \in Revisions |->
                   IF t[1] = f /\ art[t][r] = "current" THEN "superseded"
                   ELSE art[t][r]]]
    /\ find' = [find EXCEPT ![f] = [status |-> "proposed", cycle |-> @.cycle + 1]]
    /\ UNCHANGED <<pending, owed, worker>>

\* "Make it shorter": the ceiling is read first, over the drafts of every cycle.
AskRevision(f) ==
    /\ owed[f].step = "nothing"
    /\ find[f].status = "accepted"
    /\ \A c \in Cycles, r \in Revisions : art[<<f, c>>][r] # "absent" => r < MaxRevision
    /\ Go(f, "revise", 1)
    /\ UNCHANGED <<find, task, art, pending, worker>>

\* A plausible bug: a revision is accepted while the draft is still being made.
RevisableAnyTime(f) ==
    LET row == task[CurrentTask(f)] IN
    /\ find[f].status = "accepted"
    /\ row.status # "absent" /\ ~row.superseded

\* Then the completed task is queued again, in a transaction of its own.
Revisable(f) ==
    LET row == task[CurrentTask(f)] IN
    /\ find[f].status = "accepted"
    /\ row.status = "completed" /\ ~row.superseded /\ row.output # 0

RequestRevision(f) ==
    LET t == CurrentTask(f) IN
    /\ owed[f].step = "revise"
    /\ Revisable(f)
    /\ task[t].revision < RevisionCap
    /\ task' = [task EXCEPT ![t] =
                  [@ EXCEPT !.status = "queued", !.attempt = 0,
                            !.revision = task[t].revision + 1,
                            !.base = task[t].output, !.token = Nobody,
                            !.lease = "none", !.due = TRUE]]
    /\ Go(f, "dispatch", t[2])
    /\ UNCHANGED <<find, art, pending, worker>>

RefuseRevision(f) ==
    /\ owed[f].step = "revise"
    /\ ~Revisable(f)
    /\ Done(f)
    /\ UNCHANGED <<find, task, art, pending, worker>>

-----------------------------------------------------------------------------
\* The reconciler.

Recovered(row) ==
    [row EXCEPT !.status = IF row.attempt < MaxAttempts THEN "retry" ELSE "failed",
                !.token = Nobody, !.lease = "none", !.due = TRUE]

\* recover_stale_tasks: all expired leases in one transaction.
RecoverStale ==
    /\ \E t \in Tasks : Stale(t)
    /\ task' = [t \in Tasks |-> IF Stale(t) THEN Recovered(task[t]) ELSE task[t]]
    /\ UNCHANGED <<find, art, pending, owed, worker>>

\* An approved find with no current draft gets its task, if it has none.
ReconcileCreate(f) ==
    /\ find[f].status = "accepted"
    /\ \A c \in Cycles : CurrentDrafts(<<f, c>>) = {}
    /\ task' = Created(f)
    /\ UNCHANGED <<find, art, pending, owed, worker>>

ReconcileDispatch(t) ==
    /\ Dispatchable(t)
    /\ Dispatch(t)
    /\ UNCHANGED <<find, art, owed, worker>>

-----------------------------------------------------------------------------
\* Time and the queue.

\* next_attempt_at passes.
BackoffElapses(t) ==
    /\ task[t].status = "retry" /\ ~task[t].due
    /\ task' = [task EXCEPT ![t].due = TRUE]
    /\ UNCHANGED <<find, art, pending, owed, worker>>

\* lease_expires_at passes.  The Lambda is killed at 600 s, two minutes before
\* the 720 s lease ends, so its holder is gone unless LeaseOutlived.
LeaseExpires(t) ==
    /\ task[t].status = "running" /\ task[t].lease = "held"
    /\ LeaseOutlived \/ \A w \in Workers :
          ~(worker[w].task = t /\ worker[w].pc \in Holding /\ task[t].token = w)
    /\ task' = [task EXCEPT ![t].lease = "expired"]
    /\ UNCHANGED <<find, art, pending, owed, worker>>

\* A message that fails to start a workflow five times goes to the dead-letter
\* queue, and a workflow may give up before the Lambda runs.
DispatchLost(t) ==
    /\ pending[t] > 0
    /\ pending' = [pending EXCEPT ![t] = @ - 1]
    /\ UNCHANGED <<find, task, art, owed, worker>>

-----------------------------------------------------------------------------
\* handlers/maker.py: process_task in one invocation w.

To(w, pc) == worker' = [worker EXCEPT ![w].pc = pc]
Exit(w) == worker' = [worker EXCEPT ![w] = Idle]

\* get_task: a settled task ends the invocation at once.
Begin(w, t) ==
    /\ worker[w].pc = "idle"
    /\ pending[t] > 0
    /\ pending' = [pending EXCEPT ![t] = @ - 1]
    /\ IF task[t].superseded \/ task[t].status \in {"completed", "failed", "cancelled"}
       THEN UNCHANGED worker
       ELSE worker' = [worker EXCEPT ![w] = [Idle EXCEPT !.pc = "claim", !.task = t]]
    /\ UNCHANGED <<find, task, art, owed>>

\* claim_task: the one atomic step that makes an invocation the task's worker.
Claim(w) ==
    LET t == worker[w].task IN
    /\ worker[w].pc = "claim"
    /\ \/ /\ Claimable(t)
          /\ task[t].attempt < AttemptCap
          /\ task' = [task EXCEPT ![t] =
                        [@ EXCEPT !.status = "running", !.token = w,
                                  !.lease = "held", !.due = TRUE,
                                  !.attempt = task[t].attempt + 1]]
          /\ worker' = [worker EXCEPT ![w] =
                        [pc |-> "check", task |-> t, attempt |-> task[t].attempt + 1,
                         revision |-> task[t].revision, base |-> task[t].base]]
       \/ /\ ~Claimable(t)
          /\ Exit(w)
          /\ UNCHANGED task
    /\ UNCHANGED <<find, art, pending, owed>>

Failed(row) == [row EXCEPT !.status = "failed", !.token = Nobody, !.lease = "none",
                           !.due = TRUE]

Retrying(row) == [row EXCEPT !.status = "retry", !.token = Nobody, !.lease = "none",
                             !.due = FALSE]

\* get_find_context: without the approval the task fails for good.
CheckFind(w) ==
    LET t == worker[w].task IN
    /\ worker[w].pc = "check"
    /\ IF find[t[1]].status = "accepted"
       THEN To(w, "lookup") /\ UNCHANGED task
       ELSE /\ Exit(w)
            /\ task' = IF OwnsClaim(w) THEN [task EXCEPT ![t] = Failed(@)] ELSE task
    /\ UNCHANGED <<find, art, pending, owed>>

\* get_artifact_by_idempotency_key: an earlier attempt may have stored the draft.
Lookup(w) ==
    /\ worker[w].pc = "lookup"
    /\ IF art[worker[w].task][worker[w].revision] # "absent"
       THEN To(w, "recheck") ELSE To(w, "model")
    /\ UNCHANGED <<find, task, art, pending, owed>>

\* The model refuses, times out or answers nonsense.
ModelFails(w) ==
    /\ worker[w].pc = "model"
    /\ To(w, "error")
    /\ UNCHANGED <<find, task, art, pending, owed>>

\* can_continue() once the model has answered.
ModelAnswers(w) ==
    /\ worker[w].pc = "model"
    /\ IF CanContinue(w) THEN To(w, "store") ELSE Exit(w)
    /\ UNCHANGED <<find, task, art, pending, owed>>

\* A plausible bug: insert_artifact trusts the can_continue() before it.
StoreDraftUnguarded(w) ==
    LET t == worker[w].task
        r == worker[w].revision
        b == worker[w].base IN
    /\ worker[w].pc = "store"
    /\ art' = [art EXCEPT ![t] = [i \in Revisions |->
                  IF i = r /\ @[i] = "absent" THEN "current"
                  ELSE IF i = b /\ i # r THEN "superseded" ELSE @[i]]]
    /\ To(w, "recheck")
    /\ UNCHANGED <<find, task, pending, owed>>

\* A plausible bug: the draft being revised stays on the board.
StoreDraftKeepsBase(w) ==
    LET t == worker[w].task IN
    /\ worker[w].pc = "store"
    /\ IF task[t].status = "running" /\ ~task[t].superseded /\ Approved(t)
       THEN /\ art' = [art EXCEPT ![t][worker[w].revision] =
                          IF @ = "absent" THEN "current" ELSE @]
            /\ To(w, "recheck")
       ELSE UNCHANGED art /\ To(w, "error")
    /\ UNCHANGED <<find, task, pending, owed>>

\* insert_artifact checks the task and the find, not the claim.  A stored draft
\* is returned as it is; the base draft of a revision is superseded.
StoreDraft(w) ==
    LET t == worker[w].task
        r == worker[w].revision
        b == worker[w].base IN
    /\ worker[w].pc = "store"
    /\ IF task[t].status = "running" /\ ~task[t].superseded /\ Approved(t)
       THEN /\ art' = [art EXCEPT ![t] = [i \in Revisions |->
                          IF i = r /\ @[i] = "absent" THEN "current"
                          ELSE IF i = b /\ i # r THEN "superseded" ELSE @[i]]]
            /\ To(w, "recheck")
       ELSE UNCHANGED art /\ To(w, "error")
    /\ UNCHANGED <<find, task, pending, owed>>

\* task_can_continue() after the write.
RecheckClaim(w) ==
    /\ worker[w].pc = "recheck"
    /\ IF CanContinue(w) THEN To(w, "complete") ELSE Exit(w)
    /\ UNCHANGED <<find, task, art, pending, owed>>

\* A plausible bug: the re-check is thought to make the claim's token redundant.
CompleteTaskWithoutToken(w) ==
    LET t == worker[w].task IN
    /\ worker[w].pc = "complete"
    /\ Exit(w)
    /\ task' = [task EXCEPT ![t] =
                  [@ EXCEPT !.status = "completed", !.output = worker[w].revision,
                            !.token = Nobody, !.lease = "none", !.due = TRUE]]
    /\ UNCHANGED <<find, art, pending, owed>>

\* complete_task: by the claim's token, or unconditionally on a completed row.
CompleteTask(w) ==
    LET t == worker[w].task IN
    /\ worker[w].pc = "complete"
    /\ Exit(w)
    /\ task' = IF OwnsClaim(w) \/ task[t].status = "completed"
               THEN [task EXCEPT ![t] =
                       [@ EXCEPT !.status = "completed", !.output = worker[w].revision,
                                 !.token = Nobody, !.lease = "none", !.due = TRUE]]
               ELSE task
    /\ UNCHANGED <<find, art, pending, owed>>

\* A plausible bug: fail_task by the row's id and status alone.
HandleErrorWithoutToken(w) ==
    LET t == worker[w].task IN
    /\ worker[w].pc = "error"
    /\ Exit(w)
    /\ task' = IF task[t].status # "running" THEN task
               ELSE [task EXCEPT ![t] = IF worker[w].attempt < MaxAttempts
                                        THEN Retrying(@) ELSE Failed(@)]
    /\ UNCHANGED <<find, art, pending, owed>>

\* fail_task by the claim's token; a lost claim changes nothing.
HandleError(w) ==
    LET t == worker[w].task IN
    /\ worker[w].pc = "error"
    /\ Exit(w)
    /\ task' = IF ~OwnsClaim(w) THEN task
               ELSE [task EXCEPT ![t] = IF worker[w].attempt < MaxAttempts
                                        THEN Retrying(@) ELSE Failed(@)]
    /\ UNCHANGED <<find, art, pending, owed>>

\* The invocation is killed at its timeout, dies, or an exception leaves it; the
\* workflow invokes it again after a Lambda service error.
Crash(w) ==
    /\ worker[w].pc # "idle"
    /\ Exit(w)
    /\ \/ /\ pending[worker[w].task] < QueueCap
          /\ pending' = [pending EXCEPT ![worker[w].task] = @ + 1]
       \/ UNCHANGED pending
    /\ UNCHANGED <<find, task, art, owed>>

WorkerStep(w) ==
    \/ Claim(w) \/ CheckFind(w) \/ Lookup(w) \/ ModelFails(w) \/ ModelAnswers(w)
    \/ StoreDraft(w) \/ RecheckClaim(w) \/ CompleteTask(w) \/ HandleError(w)

OwnerStep(f) ==
    \/ Approve(f) \/ PassFind(f) \/ CreateTask(f) \/ DispatchOwed(f)
    \/ RequestDies(f) \/ Reconsider(f) \/ AskRevision(f)
    \/ RequestRevision(f) \/ RefuseRevision(f)

Next ==
    \/ \E f \in Finds : OwnerStep(f) \/ ReconcileCreate(f)
    \/ RecoverStale
    \/ \E t \in Tasks : \/ ReconcileDispatch(t) \/ BackoffElapses(t)
                        \/ LeaseExpires(t) \/ DispatchLost(t)
                        \/ \E w \in Workers : Begin(w, t)
    \/ \E w \in Workers : WorkerStep(w) \/ Crash(w)

Spec == Init /\ [][Next]_vars

\* Step Functions and SQS retry until a dispatch runs, so an invocation that is
\* started again and again is not killed at the same line for ever (SF); the
\* reconciler runs on a schedule and clocks advance (WF).
Fairness ==
    /\ WF_vars(RecoverStale)
    /\ \A f \in Finds : WF_vars(ReconcileCreate(f))
    /\ \A t \in Tasks :
          /\ WF_vars(BackoffElapses(t)) /\ WF_vars(LeaseExpires(t))
          /\ SF_vars(ReconcileDispatch(t) /\ pending'[t] > pending[t])
          /\ SF_vars(\E w \in Workers : Begin(w, t))
    /\ \A w \in Workers : SF_vars(WorkerStep(w))

FairSpec == Spec /\ Fairness

-----------------------------------------------------------------------------
\* Properties.

TypeOK ==
    /\ find \in [Finds -> [status : FindStatus, cycle : Cycles]]
    /\ task \in [Tasks -> TaskRow]
    /\ art \in [Tasks -> [Revisions -> {"absent", "current", "superseded"}]]
    /\ pending \in [Tasks -> 0..QueueCap]
    /\ owed \in [Finds -> [step : {"nothing", "create", "dispatch", "revise"},
                           cycle : Cycles]]
    /\ worker \in [Workers -> WorkerState]

\* A draft is on the board only while the approval it was made for stands: a
\* worker whose claim was taken away by Return to For You never leaves one
\* behind (insert_artifact's guard against reconsider_find).
DraftsFollowApproval ==
    \A t \in Tasks : CurrentDrafts(t) # {} => Approved(t)

\* An owner never sees two current drafts of one recommendation, through
\* revisions, retries and decision cycles.
OneCurrentDraft ==
    \A t \in Tasks, u \in Tasks : \A r \in CurrentDrafts(t), s \in CurrentDrafts(u) :
        t[1] = u[1] => t = u /\ r = s

\* A completed task points at the draft of its own revision, and that draft is
\* the current one: what is emailed and published is what was asked for.
CompletedShowsItsDraft ==
    \A t \in Tasks :
        task[t].status = "completed" /\ ~task[t].superseded =>
            task[t].output = task[t].revision /\ art[t][task[t].revision] = "current"

\* A task closed by Return to For You is never claimed, retried, completed or
\* revised again, whoever still works on it.
SupersededIsFinal ==
    [][\A t \in Tasks : task[t].superseded =>
          /\ task'[t].superseded
          /\ task'[t].status = task[t].status
          /\ task'[t].output = task[t].output]_vars

\* Only the holder of the current claim moves a running task out of "running",
\* unless its lease has ended or the owner took the recommendation back.
OnlyHolderSettles ==
    [][\A t \in Tasks :
          task[t].status = "running" /\ task'[t].status # "running"
          /\ task[t].lease = "held" /\ ~task'[t].superseded =>
              \E w \in Workers : worker[w].task = t /\ task[t].token = w
                                 /\ worker'[w] = Idle]_vars

\* MULTI_TENANT_AGENT_PLATFORM.md: "Atomic worker claims with leases and bounded
\* retries"; at the attempt limit an expired lease leads to "failed".
AttemptsBounded == \A t \in Tasks : task[t].attempt <= MaxAttempts

\* Every approval is answered: its task completes or fails for good, or the
\* owner takes it back, whatever messages and invocations are lost.
ApprovalAnswered ==
    \A f \in Finds : \A c \in Cycles :
        find[f] = [status |-> "accepted", cycle |-> c] ~>
            \/ task[<<f, c>>].status \in {"completed", "failed"}
            \/ find[f] # [status |-> "accepted", cycle |-> c]

-----------------------------------------------------------------------------
\* Why the invariants hold: the inductive invariant, for leases that outlast
\* the invocations that hold them.

\* The board once the k-th draft of a task is stored: the earlier ones superseded.
Drafts(k) == [r \in Revisions |-> IF r < k THEN "superseded"
                                  ELSE IF r = k THEN "current" ELSE "absent"]

Stored(t) == art[t] = Drafts(task[t].revision)

\* A row not taken back belongs to the approval in force; between its request
\* and its completion the board shows the draft being revised or its successor.
LiveRow(t) ==
    LET row == task[t] IN
    /\ Approved(t)
    /\ row.base = row.revision - 1
    /\ row.output = IF row.status = "completed" THEN row.revision ELSE row.base
    /\ Stored(t) \/ (row.status # "completed" /\ art[t] = Drafts(row.base))

\* A row taken back is closed, unclaimed, off the board, and of an earlier cycle.
ClosedRow(t) ==
    /\ task[t].status \in {"completed", "failed", "cancelled"}
    /\ task[t].token = Nobody
    /\ CurrentDrafts(t) = {}
    /\ t[2] < find[t[1]].cycle

RowInv(t) ==
    /\ task[t].status = "absent" => task[t] = NoRow /\ art[t] = Drafts(0)
    /\ task[t].status # "absent" /\ ~task[t].superseded => LiveRow(t)
    /\ task[t].superseded => ClosedRow(t)

\* A claim is good until the owner takes the task back, and its holder knows
\* the row it works for; from "recheck" on the draft is on the board.
GoodClaim(w) ==
    LET row == task[worker[w].task] IN
    /\ row.status = "running" /\ row.token = w /\ row.lease = "held"
    /\ ~row.superseded
    /\ worker[w].revision = row.revision /\ worker[w].base = row.base
    /\ worker[w].pc \in {"recheck", "complete"} => Stored(worker[w].task)

WorkerInv(w) ==
    /\ worker[w].pc # "idle" => worker[w].task \in Tasks
    /\ worker[w].pc \in Holding =>
          \/ GoodClaim(w)
          \/ /\ task[worker[w].task].superseded
             /\ task[worker[w].task].status = "cancelled"

IInv ==
    /\ TypeOK
    /\ \A t \in Tasks : RowInv(t)
    /\ \A w \in Workers : WorkerInv(w)

-----------------------------------------------------------------------------
\* The owner's view of a find: which draft of the current cycle is on the board.
Shown(f) == IF \E r \in Revisions : art[CurrentTask(f)][r] = "current"
            THEN CHOOSE r \in Revisions : art[CurrentTask(f)][r] = "current"
            ELSE 0

Contract == INSTANCE DraftContract WITH
    status <- [f \in Finds |-> find[f].status],
    cycle  <- [f \in Finds |-> find[f].cycle],
    wanted <- [f \in Finds |-> IF find[f].status = "accepted"
                               THEN task[CurrentTask(f)].revision ELSE 0],
    shown  <- [f \in Finds |-> Shown(f)]

\* The control plane keeps the promise of DraftContract.tla.
ImplementsContract == Contract!Spec
=============================================================================
