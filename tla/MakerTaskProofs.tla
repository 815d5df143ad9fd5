-------------------------- MODULE MakerTaskProofs --------------------------
(***************************************************************************)
(* Proofs about MakerTask, for every number of recommendations, workers,   *)
(* decision cycles, revisions and attempts, and that it implements         *)
(* DraftContract: whatever queues, leases, retries and crashes do, the     *)
(* owner sees one draft after another, each asked for, and none without an *)
(* approval in force.                                                      *)
(***************************************************************************)
EXTENDS MakerTask, TLAPS

\* An invocation that is not idle works for a task.
Assigned == \A w \in Workers : worker[w].pc # "idle" => worker[w].task \in Tasks

TypeInv == TypeOK /\ Assigned

LEMMA ConstantFacts ==
    /\ 1 \in Cycles /\ 1 \in Revisions
    /\ 0 \in 0..AttemptCap /\ 0 \in 0..RevisionCap /\ 0 \in 0..QueueCap
    /\ Revisions \subseteq 0..RevisionCap
    /\ MaxCycle \in Nat /\ RevisionCap \in Nat /\ AttemptCap \in Nat /\ QueueCap \in Nat
BY Assumptions DEF Cycles, Revisions

LEMMA RowTypes ==
    ASSUME NEW row \in TaskRow
    PROVE  /\ NoRow \in TaskRow
           /\ Superseded(row) \in TaskRow
           /\ Recovered(row) \in TaskRow
           /\ Failed(row) \in TaskRow
           /\ Retrying(row) \in TaskRow
BY ConstantFacts DEF TaskRow, NoRow, Superseded, Recovered, Failed, Retrying,
                     TaskStatus, Active, Waiting

LEMMA IdleType == Idle \in WorkerState
BY ConstantFacts DEF Idle, WorkerState, Holding

LEMMA TypeInit == Init => TypeInv
<1> SUFFICES ASSUME Init PROVE TypeInv
  OBVIOUS
<1>1. NoRow \in TaskRow
  BY ConstantFacts DEF NoRow, TaskRow, TaskStatus, Active, Waiting
<1>2. TypeOK
  BY <1>1, IdleType, ConstantFacts DEF Init, TypeOK, FindStatus
<1>3. Assigned
  BY DEF Init, Assigned, Idle
<1> QED
  BY <1>2, <1>3 DEF TypeInv

\* What a request may still owe.
Owing == [step : {"nothing", "create", "dispatch", "revise"}, cycle : Cycles]

LEMMA DispatchTypes ==
    ASSUME TypeOK, NEW t \in Tasks, Dispatch(t)
    PROVE  task' \in [Tasks -> TaskRow] /\ pending' \in [Tasks -> 0..QueueCap]
<1>1. task' \in [Tasks -> TaskRow]
  <2>1. task[t] \in TaskRow
    BY DEF TypeOK
  <2>2. [task[t] EXCEPT !.dispatched = TRUE] \in TaskRow
    BY <2>1 DEF TaskRow
  <2>3. task' = [task EXCEPT ![t] = [task[t] EXCEPT !.dispatched = TRUE]]
    BY DEF Dispatch, TypeOK
  <2> QED
    BY <2>2, <2>3 DEF TypeOK
<1>2. pending' \in [Tasks -> 0..QueueCap]
  BY ConstantFacts DEF Dispatch, TypeOK
<1> QED
  BY <1>1, <1>2

LEMMA OwnerTypes ==
    ASSUME TypeInv, NEW f \in Finds, OwnerStep(f) \/ ReconcileCreate(f)
    PROVE  TypeInv'
<1> USE DEF TypeInv
<1>a. /\ CurrentTask(f) \in Tasks
      /\ task[CurrentTask(f)] \in TaskRow
  BY DEF TypeOK, CurrentTask, Tasks
<1>b. Created(f) \in [Tasks -> TaskRow]
  BY <1>a DEF TypeOK, Created, TaskRow, TaskStatus, Active, Waiting
<1>c. UNCHANGED worker => Assigned'
  BY DEF Assigned
<1>1. CASE Approve(f)
  BY <1>1, <1>c, ConstantFacts DEF Approve, TypeOK, Go, FindStatus
<1>2. CASE PassFind(f)
  BY <1>2, <1>c DEF PassFind, TypeOK, FindStatus
<1>3. CASE CreateTask(f)
  <2>1. task' \in [Tasks -> TaskRow]
    BY <1>3, <1>b DEF CreateTask, TypeOK
  <2>2. Done(f) \/ Go(f, "dispatch", find[f].cycle)
    BY <1>3 DEF CreateTask
  <2>3. owed' \in [Finds -> Owing]
    BY <2>2, ConstantFacts DEF TypeOK, Owing, Go, Done
  <2> QED
    BY <1>3, <1>c, <2>1, <2>3 DEF CreateTask, TypeOK, Owing
<1>4. CASE DispatchOwed(f)
  <2> DEFINE t == <<f, owed[f].cycle>>
  <2>1. t \in Tasks
    BY DEF TypeOK, Tasks
  <2>2. Dispatch(t) \/ UNCHANGED <<task, pending>>
    BY <1>4 DEF DispatchOwed
  <2>3. owed' \in [Finds -> Owing]
    BY <1>4, ConstantFacts DEF DispatchOwed, TypeOK, Owing, Go, Done
  <2> QED
    BY <1>4, <1>c, <2>1, <2>2, <2>3, DispatchTypes DEF DispatchOwed, TypeOK, Owing
<1>5. CASE RequestDies(f)
  BY <1>5, <1>c, ConstantFacts DEF RequestDies, TypeOK, Go, Done
<1>6. CASE Reconsider(f)
  <2>1. task' \in [Tasks -> TaskRow]
    BY <1>6, RowTypes DEF Reconsider, TypeOK
  <2>2. art' \in [Tasks -> [Revisions -> {"absent", "current", "superseded"}]]
    BY <1>6 DEF Reconsider, TypeOK
  <2>3. find' \in [Finds -> [status : FindStatus, cycle : Cycles]]
    BY <1>6, ConstantFacts DEF Reconsider, TypeOK, FindStatus, Cycles
  <2> QED
    BY <1>6, <1>c, <2>1, <2>2, <2>3 DEF Reconsider, TypeOK
<1>7. CASE AskRevision(f)
  BY <1>7, <1>c, ConstantFacts DEF AskRevision, TypeOK, Go
<1>8. CASE RequestRevision(f)
  <2> DEFINE t   == CurrentTask(f)
             row == [task[t] EXCEPT !.status = "queued", !.attempt = 0,
                                    !.revision = task[t].revision + 1,
                                    !.base = task[t].output, !.token = Nobody,
                                    !.lease = "none", !.due = TRUE]
  <2>0. task[t].revision + 1 \in Revisions
    BY <1>8, <1>a, ConstantFacts DEF RequestRevision, TaskRow, Revisions
  <2>1. row \in TaskRow
    BY <2>0, <1>a, ConstantFacts DEF TaskRow, TaskStatus, Active, Waiting
  <2>2. task' = [task EXCEPT ![t] = row]
    BY <1>8 DEF RequestRevision
  <2>3. task' \in [Tasks -> TaskRow]
    BY <2>1, <2>2 DEF TypeOK
  <2> QED
    BY <1>8, <1>a, <1>c, <2>3 DEF RequestRevision, TypeOK, Go, CurrentTask
<1>9. CASE RefuseRevision(f)
  BY <1>9, <1>c, ConstantFacts DEF RefuseRevision, TypeOK, Go, Done
<1>10. CASE ReconcileCreate(f)
  BY <1>10, <1>b, <1>c DEF ReconcileCreate, TypeOK
<1> QED
  BY <1>1, <1>2, <1>3, <1>4, <1>5, <1>6, <1>7, <1>8, <1>9, <1>10 DEF OwnerStep

LEMMA ClockTypes ==
    ASSUME TypeInv, NEW t \in Tasks,
           \/ ReconcileDispatch(t) \/ BackoffElapses(t)
           \/ LeaseExpires(t) \/ DispatchLost(t)
    PROVE  TypeInv'
<1> USE DEF TypeInv
<1>a. task[t] \in TaskRow
  BY DEF TypeOK
<1>c. UNCHANGED worker => Assigned'
  BY DEF Assigned
<1>1. CASE ReconcileDispatch(t)
  BY <1>1, <1>c, DispatchTypes DEF ReconcileDispatch, TypeOK
<1>2. CASE BackoffElapses(t)
  <2>1. [task[t] EXCEPT !.due = TRUE] \in TaskRow
    BY <1>a DEF TaskRow
  <2>2. task' = [task EXCEPT ![t] = [task[t] EXCEPT !.due = TRUE]]
    BY <1>2 DEF BackoffElapses, TypeOK
  <2> QED
    BY <1>2, <1>c, <2>1, <2>2 DEF BackoffElapses, TypeOK
<1>3. CASE LeaseExpires(t)
  <2>1. [task[t] EXCEPT !.lease = "expired"] \in TaskRow
    BY <1>a DEF TaskRow
  <2>2. task' = [task EXCEPT ![t] = [task[t] EXCEPT !.lease = "expired"]]
    BY <1>3 DEF LeaseExpires, TypeOK
  <2> QED
    BY <1>3, <1>c, <2>1, <2>2 DEF LeaseExpires, TypeOK
<1>4. CASE DispatchLost(t)
  BY <1>4, <1>c, ConstantFacts DEF DispatchLost, TypeOK
<1> QED
  BY <1>1, <1>2, <1>3, <1>4

LEMMA RecoverTypes ==
    ASSUME TypeInv, RecoverStale
    PROVE  TypeInv'
<1>1. task' \in [Tasks -> TaskRow]
  BY RowTypes DEF RecoverStale, TypeInv, TypeOK
<1> QED
  BY <1>1 DEF RecoverStale, TypeInv, TypeOK, Assigned

\* A worker that moves on, keeps its task; one that exits has none.
LEMMA WorkerMoves ==
    ASSUME TypeInv, NEW w \in Workers, worker[w].pc # "idle",
           \/ Exit(w)
           \/ \E pc \in Holding : To(w, pc)
    PROVE  worker' \in [Workers -> WorkerState] /\ Assigned'
<1> USE DEF TypeInv
<1>a. worker[w] \in WorkerState
  BY DEF TypeOK
<1>1. CASE Exit(w)
  BY <1>1, IdleType DEF Exit, TypeOK, Assigned, Idle
<1>2. ASSUME NEW pc \in Holding, To(w, pc)
      PROVE  worker' \in [Workers -> WorkerState] /\ Assigned'
  <2>1. [worker[w] EXCEPT !.pc = pc] \in WorkerState
    BY <1>a DEF WorkerState
  <2>2. worker' = [worker EXCEPT ![w] = [worker[w] EXCEPT !.pc = pc]]
    BY <1>2 DEF To, TypeOK
  <2>3. worker'[w].task = worker[w].task
    BY <1>a, <2>2 DEF TypeOK, WorkerState
  <2>4. \A v \in Workers : v # w => worker'[v] = worker[v]
    BY <2>2 DEF TypeOK
  <2>5. Assigned'
    BY <2>3, <2>4 DEF Assigned
  <2> QED
    BY <2>1, <2>2, <2>5 DEF TypeOK
<1> QED
  BY <1>1, <1>2

LEMMA BeginTypes ==
    ASSUME TypeInv, NEW w \in Workers, NEW t \in Tasks, Begin(w, t)
    PROVE  TypeInv'
<1> USE DEF TypeInv
<1>1. pending' \in [Tasks -> 0..QueueCap]
  BY ConstantFacts DEF Begin, TypeOK
<1>2. [Idle EXCEPT !.pc = "claim", !.task = t] \in WorkerState
  BY ConstantFacts DEF Idle, WorkerState, Holding
<1>3. worker' \in [Workers -> WorkerState]
  BY <1>2 DEF Begin, TypeOK
<1>4. Assigned'
  BY DEF Begin, TypeOK, Assigned, Idle
<1> QED
  BY <1>1, <1>3, <1>4 DEF Begin, TypeOK

LEMMA WorkerTypes ==
    ASSUME TypeInv, NEW w \in Workers, WorkerStep(w) \/ Crash(w)
    PROVE  TypeInv'
<1> USE DEF TypeInv
<1> DEFINE t == worker[w].task
<1>p. worker[w].pc # "idle"
  BY DEF WorkerStep, Claim, CheckFind, Lookup, ModelFails, ModelAnswers, StoreDraft,
         RecheckClaim, CompleteTask, HandleError, Crash
<1>a. t \in Tasks /\ task[t] \in TaskRow /\ worker[w] \in WorkerState
  BY <1>p DEF TypeOK, Assigned
<1>r. worker[w].revision \in Revisions /\ worker[w].revision \in 0..RevisionCap
  BY <1>a, ConstantFacts DEF WorkerState
<1>h. {"lookup", "recheck", "model", "error", "store", "complete"} \subseteq Holding
  BY DEF Holding
<1>1. CASE Claim(w)
  <2>1. CASE ~Claimable(t)
    BY <1>1, <1>p, <2>1, WorkerMoves DEF Claim, TypeOK
  <2>2. CASE Claimable(t)
    <3> DEFINE n   == task[t].attempt + 1
               row == [task[t] EXCEPT !.status = "running", !.token = w,
                                      !.lease = "held", !.due = TRUE, !.attempt = n]
               st  == [pc |-> "check", task |-> t, attempt |-> n,
                       revision |-> task[t].revision, base |-> task[t].base]
    <3>1. n \in 0..AttemptCap
      BY <1>1, <1>a, <2>2, ConstantFacts DEF Claim, TaskRow
    <3>2. row \in TaskRow
      BY <3>1, <1>a DEF TaskRow, TaskStatus, Active, Waiting
    <3>3. st \in WorkerState
      BY <3>1, <1>a DEF TaskRow, WorkerState, Holding
    <3>4. task' = [task EXCEPT ![t] = row] /\ worker' = [worker EXCEPT ![w] = st]
      BY <1>1, <2>2 DEF Claim
    <3>5. task' \in [Tasks -> TaskRow] /\ worker' \in [Workers -> WorkerState]
      BY <3>2, <3>3, <3>4 DEF TypeOK
    <3>6. Assigned'
      BY <3>4, <1>a DEF TypeOK, Assigned
    <3> QED
      BY <1>1, <3>5, <3>6 DEF Claim, TypeOK
  <2> QED
    BY <2>1, <2>2
<1>2. CASE CheckFind(w)
  <2>1. task' \in [Tasks -> TaskRow]
    BY <1>2, <1>a, RowTypes DEF CheckFind, TypeOK
  <2>2. Exit(w) \/ To(w, "lookup")
    BY <1>2 DEF CheckFind
  <2> QED
    BY <1>2, <1>p, <1>h, <2>1, <2>2, WorkerMoves DEF CheckFind, TypeOK
<1>3. CASE Lookup(w)
  BY <1>3, <1>p, <1>h, WorkerMoves DEF Lookup, TypeOK
<1>4. CASE ModelFails(w)
  BY <1>4, <1>p, <1>h, WorkerMoves DEF ModelFails, TypeOK
<1>5. CASE ModelAnswers(w)
  BY <1>5, <1>p, <1>h, WorkerMoves DEF ModelAnswers, TypeOK
<1>6. CASE StoreDraft(w)
  <2>1. art' \in [Tasks -> [Revisions -> {"absent", "current", "superseded"}]]
    BY <1>6, <1>a DEF StoreDraft, TypeOK
  <2>2. To(w, "recheck") \/ To(w, "error")
    BY <1>6 DEF StoreDraft
  <2> QED
    BY <1>6, <1>p, <1>h, <2>1, <2>2, WorkerMoves DEF StoreDraft, TypeOK
<1>7. CASE RecheckClaim(w)
  BY <1>7, <1>p, <1>h, WorkerMoves DEF RecheckClaim, TypeOK
<1>8. CASE CompleteTask(w)
  <2> DEFINE row == [task[t] EXCEPT !.status = "completed", !.output = worker[w].revision,
                                    !.token = Nobody, !.lease = "none", !.due = TRUE]
  <2>1. row \in TaskRow
    BY <1>a, <1>r DEF TaskRow, TaskStatus, Active, Waiting
  <2>2. task' = [task EXCEPT ![t] = row] \/ task' = task
    BY <1>8 DEF CompleteTask
  <2>3. task' \in [Tasks -> TaskRow]
    BY <2>1, <2>2 DEF TypeOK
  <2> QED
    BY <1>8, <1>p, <2>3, WorkerMoves DEF CompleteTask, TypeOK
<1>9. CASE HandleError(w)
  <2>1. task' \in [Tasks -> TaskRow]
    BY <1>9, <1>a, RowTypes DEF HandleError, TypeOK
  <2> QED
    BY <1>9, <1>p, <2>1, WorkerMoves DEF HandleError, TypeOK
<1>10. CASE Crash(w)
  <2>1. pending' \in [Tasks -> 0..QueueCap]
    BY <1>10, <1>a, ConstantFacts DEF Crash, TypeOK
  <2> QED
    BY <1>10, <1>p, <2>1, WorkerMoves DEF Crash, TypeOK
<1> QED
  BY <1>1, <1>2, <1>3, <1>4, <1>5, <1>6, <1>7, <1>8, <1>9, <1>10 DEF WorkerStep

LEMMA TypeStep == TypeInv /\ [Next]_vars => TypeInv'
<1> SUFFICES ASSUME TypeInv, [Next]_vars PROVE TypeInv'
  OBVIOUS
<1>1. CASE UNCHANGED vars
  BY <1>1 DEF TypeInv, TypeOK, Assigned, vars
<1>2. CASE Next
  BY <1>2, OwnerTypes, ClockTypes, RecoverTypes, BeginTypes, WorkerTypes DEF Next
<1> QED
  BY <1>1, <1>2

\* Every reachable state is of its type: no row, draft, request or invocation
\* ever leaves the statuses, counters and links the code's queries know.
THEOREM TypeCorrect == Spec => []TypeOK
<1>1. TypeInv => TypeOK
  BY DEF TypeInv
<1> QED
  BY <1>1, TypeInit, TypeStep, PTL DEF Spec

-----------------------------------------------------------------------------
(***************************************************************************)
(* DraftsFollowApproval needs no assumption on leases: insert_artifact and *)
(* reconsider_find are two transactions over the same rows, and that is    *)
(* enough.                                                                 *)
(***************************************************************************)

Safe == TypeInv /\ DraftsFollowApproval

\* Nothing but Reconsider takes an approval away.
LEMMA ApprovalKept ==
    ASSUME TypeInv, Next, NEW t \in Tasks, Approved(t), ~ Reconsider(t[1])
    PROVE  Approved(t)'
<1> USE DEF TypeInv
<1>a. t[1] \in Finds
  BY DEF Tasks
<1>1. ASSUME NEW f \in Finds, Approve(f) PROVE Approved(t)'
  BY <1>1, <1>a DEF Approve, Approved, TypeOK
<1>2. ASSUME NEW f \in Finds, PassFind(f) PROVE Approved(t)'
  BY <1>2, <1>a DEF PassFind, Approved, TypeOK
<1>3. ASSUME NEW f \in Finds, Reconsider(f) PROVE Approved(t)'
  BY <1>3, <1>a DEF Reconsider, Approved, TypeOK
<1>4. CASE UNCHANGED find
  BY <1>4 DEF Approved
<1> QED
  BY <1>1, <1>2, <1>3, <1>4
  DEF Next, OwnerStep, WorkerStep, CreateTask, DispatchOwed, RequestDies, AskRevision,
      RequestRevision, RefuseRevision, ReconcileCreate, RecoverStale, ReconcileDispatch,
      BackoffElapses, LeaseExpires, DispatchLost, Begin, Claim, CheckFind, Lookup,
      ModelFails, ModelAnswers, StoreDraft, RecheckClaim, CompleteTask, HandleError, Crash

\* Only StoreDraft puts a draft on the board, and only under its approval.
LEMMA DraftsArrive ==
    ASSUME TypeInv, Next, NEW t \in Tasks, NEW r \in Revisions,
           art'[t][r] = "current", art[t][r] # "current"
    PROVE  Approved(t) /\ UNCHANGED find
<1> USE DEF TypeInv
<1>1. ASSUME NEW w \in Workers, StoreDraft(w) PROVE Approved(t) /\ UNCHANGED find
  BY <1>1 DEF StoreDraft, TypeOK
<1>2. ASSUME NEW f \in Finds, Reconsider(f) PROVE FALSE
  BY <1>2 DEF Reconsider, TypeOK
<1>3. CASE UNCHANGED art
  BY <1>3
<1> QED
  BY <1>1, <1>2, <1>3
  DEF Next, OwnerStep, WorkerStep, Approve, PassFind, CreateTask, DispatchOwed,
      RequestDies, AskRevision, RequestRevision, RefuseRevision, ReconcileCreate,
      RecoverStale, ReconcileDispatch, BackoffElapses, LeaseExpires, DispatchLost, Begin,
      Claim, CheckFind, Lookup, ModelFails, ModelAnswers, RecheckClaim, CompleteTask,
      HandleError, Crash

LEMMA SafeInit == Init => Safe
BY TypeInit DEF Init, Safe, DraftsFollowApproval, CurrentDrafts

LEMMA SafeStep == Safe /\ [Next]_vars => Safe'
<1> SUFFICES ASSUME Safe, [Next]_vars PROVE DraftsFollowApproval'
  BY TypeStep DEF Safe
<1> USE DEF Safe
<1>1. CASE UNCHANGED vars
  BY <1>1 DEF DraftsFollowApproval, CurrentDrafts, Approved, vars
<1>2. CASE Next
  <2> SUFFICES ASSUME NEW t \in Tasks, NEW r \in Revisions, art'[t][r] = "current"
               PROVE  Approved(t)'
    BY DEF DraftsFollowApproval, CurrentDrafts
  <2>1. CASE art[t][r] # "current"
    BY <1>2, <2>1, DraftsArrive DEF Approved
  <2>2. CASE art[t][r] = "current"
    <3>1. Approved(t)
      BY <2>2 DEF DraftsFollowApproval, CurrentDrafts
    <3>2. ~ Reconsider(t[1])
      BY <2>2 DEF Reconsider, TypeInv, TypeOK
    <3> QED
      BY <1>2, <3>1, <3>2, ApprovalKept
  <2> QED
    BY <2>1, <2>2
<1> QED
  BY <1>1, <1>2

\* A draft on the board always belongs to an approval in force, even if an
\* invocation outlives its lease and works on after the task was taken back.
THEOREM DraftsAreApproved == Spec => []DraftsFollowApproval
<1>1. Safe => DraftsFollowApproval
  BY DEF Safe
<1> QED
  BY <1>1, SafeInit, SafeStep, PTL DEF Spec

-----------------------------------------------------------------------------
(***************************************************************************)
(* The inductive invariant, when no invocation outlives its lease.         *)
(***************************************************************************)

LEMMA IInvTypes == IInv => TypeInv
BY DEF IInv, TypeInv, Assigned, WorkerInv

LEMMA IInvInit == Init => IInv
<1> SUFFICES ASSUME Init PROVE IInv
  OBVIOUS
<1>1. TypeOK
  BY TypeInit DEF TypeInv
<1>2. ASSUME NEW t \in Tasks PROVE RowInv(t)
  <2>1. task[t] = NoRow
    BY <1>2 DEF Init
  <2>2. art[t] = Drafts(0)
    BY <1>2, Assumptions DEF Init, Drafts, Revisions
  <2> QED
    BY <2>1, <2>2 DEF RowInv, NoRow
<1>3. ASSUME NEW w \in Workers PROVE WorkerInv(w)
  BY <1>3 DEF Init, WorkerInv, Idle, Holding
<1> QED
  BY <1>1, <1>2, <1>3 DEF IInv

\* A row, its drafts and its find unchanged.
LEMMA RowFrame ==
    ASSUME NEW t \in Tasks, RowInv(t), find'[t[1]] = find[t[1]],
           task'[t] = task[t], art'[t] = art[t]
    PROVE  RowInv(t)'
BY DEF RowInv, LiveRow, ClosedRow, Approved, Stored, CurrentDrafts, Drafts

\* A row that moves among the statuses before completion, for the same work.
LEMMA RowMoves ==
    ASSUME NEW t \in Tasks, RowInv(t), find'[t[1]] = find[t[1]], art'[t] = art[t],
           task[t].status \notin {"absent", "completed"}, ~task[t].superseded,
           task'[t].status \notin {"absent", "completed"}, ~task'[t].superseded,
           task'[t].revision = task[t].revision, task'[t].base = task[t].base,
           task'[t].output = task[t].output
    PROVE  RowInv(t)'
<1>1. LiveRow(t)
  BY DEF RowInv
<1>2. LiveRow(t)'
  BY <1>1 DEF LiveRow, Approved, Stored, Drafts
<1> QED
  BY <1>2 DEF RowInv

\* A worker whose own state, row and drafts are unchanged.
LEMMA Bystander ==
    ASSUME NEW w \in Workers, WorkerInv(w), worker'[w] = worker[w],
           worker[w].pc \in Holding =>
              /\ task'[worker[w].task] = task[worker[w].task]
              /\ art'[worker[w].task] = art[worker[w].task]
    PROVE  WorkerInv(w)'
<1>1. CASE worker[w].pc \in Holding
  BY <1>1 DEF WorkerInv, GoodClaim, Stored, Drafts
<1>2. CASE worker[w].pc \notin Holding
  BY <1>2 DEF WorkerInv
<1> QED
  BY <1>1, <1>2

\* One row changes, and nobody works for it.
LEMMA OneRowStep ==
    ASSUME IInv, TypeInv', NEW t \in Tasks, UNCHANGED <<find, worker>>,
           \A u \in Tasks : u # t => task'[u] = task[u] /\ art'[u] = art[u],
           \A w \in Workers : worker[w].pc \in Holding => worker[w].task # t,
           RowInv(t)'
    PROVE  IInv'
<1>1. ASSUME NEW u \in Tasks PROVE RowInv(u)'
  BY <1>1, RowFrame DEF IInv
<1>2. ASSUME NEW w \in Workers PROVE WorkerInv(w)'
  <2>1. worker[w].pc \in Holding => worker[w].task \in Tasks /\ worker[w].task # t
    BY <1>2 DEF IInv, WorkerInv, Holding
  <2> QED
    BY <1>2, <2>1, Bystander DEF IInv
<1> QED
  BY <1>1, <1>2 DEF IInv, TypeInv

\* A worker moves, and perhaps changes the row it alone works for.
LEMMA OneWorkerStep ==
    ASSUME IInv, TypeInv', NEW w \in Workers, NEW t \in Tasks, UNCHANGED find,
           \A u \in Tasks : u # t => task'[u] = task[u] /\ art'[u] = art[u],
           \A v \in Workers : v # w => worker'[v] = worker[v],
           \/ task'[t] = task[t] /\ art'[t] = art[t]
           \/ \A v \in Workers :
                 v # w /\ worker[v].pc \in Holding => worker[v].task # t,
           RowInv(t)', WorkerInv(w)'
    PROVE  IInv'
<1>1. ASSUME NEW u \in Tasks PROVE RowInv(u)'
  BY <1>1, RowFrame DEF IInv
<1>2. ASSUME NEW v \in Workers, v # w PROVE WorkerInv(v)'
  <2>1. worker[v].pc \in Holding =>
           /\ worker[v].task \in Tasks
           /\ worker[v].task = t => task'[t] = task[t] /\ art'[t] = art[t]
    BY <1>2 DEF IInv, WorkerInv, Holding
  <2> QED
    BY <1>2, <2>1, Bystander DEF IInv
<1> QED
  BY <1>1, <1>2 DEF IInv, TypeInv

\* Whoever works for a task finds it running under its own claim, or cancelled.
LEMMA Holders ==
    ASSUME IInv, NEW w \in Workers, worker[w].pc \in Holding
    PROVE  /\ worker[w].task \in Tasks
           /\ \/ GoodClaim(w)
              \/ /\ task[worker[w].task].superseded
                 /\ task[worker[w].task].status = "cancelled"
BY DEF IInv, WorkerInv, Holding

LEMMA NoHolder ==
    ASSUME IInv, NEW t \in Tasks,
           \/ task[t].status \notin {"running", "cancelled"}
           \/ ~task[t].superseded /\ task[t].lease = "expired"
    PROVE  \A w \in Workers : worker[w].pc \in Holding => worker[w].task # t
BY Holders DEF GoodClaim

LEMMA OneHolder ==
    ASSUME IInv, NEW w \in Workers, worker[w].pc \in Holding, GoodClaim(w)
    PROVE  \A v \in Workers :
              v # w /\ worker[v].pc \in Holding => worker[v].task # worker[w].task
BY Holders DEF GoodClaim

\* Decisions do not disturb rows: a row that is live has its approval already.
LEMMA DecisionStep ==
    ASSUME IInv, TypeInv', NEW f \in Finds, Approve(f) \/ PassFind(f)
    PROVE  IInv'
<1>0. /\ UNCHANGED <<task, art, worker>>
      /\ find \in [Finds -> [status : FindStatus, cycle : Cycles]]
  BY DEF Approve, PassFind, IInv, TypeOK
<1>1. ASSUME NEW t \in Tasks PROVE RowInv(t)'
  <2>0. t[1] \in Finds
    BY DEF Tasks
  <2>1. find'[t[1]].cycle = find[t[1]].cycle
    BY <1>0, <2>0 DEF Approve, PassFind
  <2>2. Approved(t) => Approved(t)'
    BY <1>0, <2>0 DEF Approve, PassFind, Approved
  <2>3. RowInv(t)
    BY DEF IInv
  <2> QED
    BY <1>0, <2>1, <2>2, <2>3
    DEF RowInv, LiveRow, ClosedRow, Stored, CurrentDrafts, Drafts
<1>2. ASSUME NEW w \in Workers PROVE WorkerInv(w)'
  BY <1>0, <1>2, Bystander DEF IInv
<1> QED
  BY <1>1, <1>2 DEF IInv, TypeInv

\* A created row is live: its cycle is the find's, its board empty.
LEMMA CreatedStep ==
    ASSUME IInv, TypeInv', NEW f \in Finds, find[f].status = "accepted",
           task' = Created(f), UNCHANGED <<find, art, worker>>
    PROVE  IInv'
<1> PICK t \in Tasks : t = CurrentTask(f)
  BY DEF IInv, TypeOK, CurrentTask, Tasks
<1>0. /\ t[1] = f /\ t[2] = find[f].cycle
      /\ task \in [Tasks -> TaskRow]
      /\ find[f] \in [status : FindStatus, cycle : Cycles]
  BY DEF IInv, TypeOK, CurrentTask
<1>a. CASE task[t].status # "absent"
  <2>1. task' = task
    BY <1>a DEF Created
  <2> QED
    BY <2>1, RowFrame, Bystander DEF IInv, TypeInv
<1>b. CASE task[t].status = "absent"
  <2>1. task[t] = NoRow /\ art[t] = Drafts(0)
    BY <1>0, <1>b DEF IInv, RowInv
  <2>2. task' = [task EXCEPT ![t].status = "queued"]
    BY <1>b DEF Created
  <2>3. task'[t] = [NoRow EXCEPT !.status = "queued"]
    BY <1>0, <2>1, <2>2
  <2>4. Approved(t)'
    BY <1>0 DEF Approved
  <2>5. LiveRow(t)'
    BY <2>1, <2>3, <2>4 DEF LiveRow, NoRow, Drafts
  <2>6. RowInv(t)'
    BY <2>3, <2>5 DEF RowInv, NoRow
  <2>7. \A u \in Tasks : u # t => task'[u] = task[u] /\ art'[u] = art[u]
    BY <2>2, <1>0
  <2>8. \A w \in Workers : worker[w].pc \in Holding => worker[w].task # t
    BY <1>0, <1>b, NoHolder
  <2> QED
    BY <1>0, <2>6, <2>7, <2>8, OneRowStep
<1> QED
  BY <1>a, <1>b

LEMMA DispatchStep ==
    ASSUME IInv, TypeInv', NEW t \in Tasks, Dispatchable(t), Dispatch(t),
           UNCHANGED <<find, art, worker>>
    PROVE  IInv'
<1>1. task[t] \in TaskRow /\ task \in [Tasks -> TaskRow]
  BY DEF IInv, TypeOK
<1>2. task' = [task EXCEPT ![t] = [task[t] EXCEPT !.dispatched = TRUE]]
  BY <1>1 DEF Dispatch
<1>3. RowInv(t)'
  <2>1. task'[t] = [task[t] EXCEPT !.dispatched = TRUE]
    BY <1>1, <1>2
  <2>2. task[t].status \in Waiting /\ ~task[t].superseded
    BY DEF Dispatchable
  <2> QED
    BY <1>1, <2>1, <2>2, RowMoves DEF TaskRow, Waiting, IInv
<1>4. \A w \in Workers : worker[w].pc \in Holding => worker[w].task # t
  BY NoHolder DEF Dispatchable, Waiting
<1> QED
  BY <1>1, <1>2, <1>3, <1>4, OneRowStep

\* Return to For You closes every row of the find and clears its board.
LEMMA ReconsiderStep ==
    ASSUME IInv, TypeInv', NEW f \in Finds, Reconsider(f)
    PROVE  IInv'
<1>0. /\ task \in [Tasks -> TaskRow] /\ find \in [Finds -> [status : FindStatus, cycle : Cycles]]
      /\ UNCHANGED worker
  BY DEF IInv, TypeOK, Reconsider
<1>1. ASSUME NEW t \in Tasks PROVE RowInv(t)'
  <2>0. t[1] \in Finds /\ t[2] \in Cycles /\ RowInv(t)
    BY DEF Tasks, IInv
  <2>1. CASE t[1] # f
    <3>1. task'[t] = task[t] /\ find'[t[1]] = find[t[1]]
      BY <1>0, <2>0, <2>1 DEF Reconsider
    <3>2. art'[t] = art[t]
      BY <2>1 DEF Reconsider, IInv, TypeOK
    <3> QED
      BY <2>0, <3>1, <3>2, RowFrame
  <2>2. CASE t[1] = f
    <3>1. find'[t[1]].cycle = find[t[1]].cycle + 1
      BY <1>0, <2>0, <2>2 DEF Reconsider
    <3>2. CurrentDrafts(t)' = {}
      BY <2>2 DEF Reconsider, CurrentDrafts
    <3>3. CASE task[t].status = "absent"
      <4>1. task[t] = NoRow /\ art[t] = Drafts(0)
        BY <2>0, <3>3 DEF RowInv
      <4>2. task'[t] = task[t]
        BY <3>3 DEF Reconsider
      <4>3. art'[t] = art[t]
        BY <4>1, Assumptions DEF Reconsider, Drafts, Revisions
      <4> QED
        BY <4>1, <4>2, <4>3 DEF RowInv, NoRow, Drafts
    <3>4. CASE task[t].superseded
      <4>1. ClosedRow(t)
        BY <2>0, <3>4 DEF RowInv
      <4>2. task'[t] = task[t]
        BY <3>4 DEF Reconsider
      <4>3. ClosedRow(t)'
        BY <1>0, <2>0, <3>1, <3>2, <4>1, <4>2 DEF ClosedRow, Cycles
      <4> QED
        BY <3>4, <4>2, <4>3 DEF RowInv, ClosedRow
    <3>5. CASE task[t].status # "absent" /\ ~task[t].superseded
      <4>1. LiveRow(t)
        BY <2>0, <3>5 DEF RowInv
      <4>2. task'[t] = Superseded(task[t])
        BY <2>2, <3>5 DEF Reconsider
      <4>3. /\ task'[t].status \in {"completed", "failed", "cancelled"}
            /\ task'[t].token = Nobody /\ task'[t].superseded
        BY <1>0, <3>5, <4>2
        DEF Superseded, TaskRow, TaskStatus, Active, Waiting
      <4>4. t[2] < find'[t[1]].cycle
        BY <2>0, <3>1, <4>1 DEF LiveRow, Approved, Cycles
      <4> QED
        BY <3>2, <4>3, <4>4 DEF RowInv, ClosedRow
    <3> QED
      BY <3>3, <3>4, <3>5
  <2> QED
    BY <2>1, <2>2
<1>2. ASSUME NEW w \in Workers PROVE WorkerInv(w)'
  <2>0. WorkerInv(w) /\ worker'[w] = worker[w]
    BY <1>0 DEF IInv
  <2>1. CASE worker[w].pc \notin Holding
    BY <2>0, <2>1, Bystander
  <2>2. CASE worker[w].pc \in Holding
    <3> DEFINE t == worker[w].task
    <3>1. t \in Tasks
      BY <2>2, Holders
    <3>2. CASE GoodClaim(w) /\ t[1] = f
      <4>1. task'[t] = Superseded(task[t])
        BY <3>1, <3>2 DEF Reconsider, GoodClaim
      <4>2. task'[t].superseded /\ task'[t].status = "cancelled"
        BY <1>0, <3>1, <3>2, <4>1 DEF Superseded, GoodClaim, TaskRow, Active, Waiting
      <4> QED
        BY <2>0, <3>1, <4>2 DEF WorkerInv
    <3>3. CASE GoodClaim(w) /\ t[1] # f
      <4>1. task'[t] = task[t]
        BY <1>0, <3>1, <3>3 DEF Reconsider
      <4>2. art'[t] = art[t]
        BY <3>1, <3>3 DEF Reconsider, IInv, TypeOK
      <4> QED
        BY <2>0, <4>1, <4>2, Bystander
    <3>4. CASE task[t].superseded /\ task[t].status = "cancelled"
      <4>1. task'[t] = task[t]
        BY <1>0, <3>1, <3>4 DEF Reconsider
      <4> QED
        BY <2>0, <3>1, <3>4, <4>1 DEF WorkerInv
    <3> QED
      BY <2>2, <3>2, <3>3, <3>4, Holders
  <2> QED
    BY <2>1, <2>2
<1> QED
  BY <1>1, <1>2 DEF IInv, TypeInv

\* The completed row's draft becomes the base of the next one.
LEMMA RevisionStep ==
    ASSUME IInv, TypeInv', NEW f \in Finds, RequestRevision(f)
    PROVE  IInv'
<1> PICK t \in Tasks : t = CurrentTask(f)
  BY DEF IInv, TypeOK, CurrentTask, Tasks
<1> DEFINE row == [task[t] EXCEPT !.status = "queued", !.attempt = 0,
                                  !.revision = task[t].revision + 1,
                                  !.base = task[t].output, !.token = Nobody,
                                  !.lease = "none", !.due = TRUE]
<1>0. /\ task \in [Tasks -> TaskRow] /\ task[t] \in TaskRow
      /\ UNCHANGED <<find, art, worker>>
  BY DEF IInv, TypeOK, RequestRevision
<1>1. task[t].status = "completed" /\ ~task[t].superseded
  BY DEF RequestRevision, Revisable
<1>2. LiveRow(t)
  BY <1>0, <1>1 DEF IInv, RowInv
<1>3. task' = [task EXCEPT ![t] = row]
  BY DEF RequestRevision
<1>4. task'[t] = row
  BY <1>0, <1>3
<1>5. /\ task'[t].status = "queued" /\ ~task'[t].superseded
      /\ task'[t].revision = task[t].revision + 1
      /\ task'[t].base = task[t].output /\ task'[t].output = task[t].output
  BY <1>0, <1>1, <1>4 DEF TaskRow
<1>6. task[t].output = task[t].revision /\ art[t] = Drafts(task[t].revision)
  BY <1>1, <1>2 DEF LiveRow, Stored
<1>7. task'[t].base = task'[t].revision - 1
  BY <1>0, <1>5, <1>6 DEF TaskRow, Revisions
<1>8. LiveRow(t)'
  BY <1>0, <1>2, <1>5, <1>6, <1>7 DEF LiveRow, Approved, Drafts
<1>9. RowInv(t)'
  BY <1>5, <1>8 DEF RowInv
<1>10. \A w \in Workers : worker[w].pc \in Holding => worker[w].task # t
  BY <1>0, <1>1, NoHolder
<1> QED
  BY <1>0, <1>3, <1>9, <1>10, OneRowStep

LEMMA OwnerInv ==
    ASSUME IInv, TypeInv', NEW f \in Finds, OwnerStep(f) \/ ReconcileCreate(f)
    PROVE  IInv'
<1>0. IInv /\ TypeInv' /\ UNCHANGED <<find, task, art, worker>> => IInv'
  BY RowFrame, Bystander DEF IInv, TypeInv
<1>1. CASE Approve(f) \/ PassFind(f)
  BY <1>1, DecisionStep
<1>2. CASE CreateTask(f)
  <2>1. CASE find[f].status # "accepted"
    BY <1>0, <1>2, <2>1 DEF CreateTask
  <2>2. CASE find[f].status = "accepted"
    BY <1>2, <2>2, CreatedStep DEF CreateTask
  <2> QED
    BY <2>1, <2>2
<1>3. CASE DispatchOwed(f)
  <2> PICK t \in Tasks : t = <<f, owed[f].cycle>>
    BY DEF IInv, TypeOK, Tasks
  <2>1. CASE Dispatchable(t) /\ Dispatch(t)
    BY <1>3, <2>1, DispatchStep DEF DispatchOwed
  <2>2. CASE UNCHANGED <<task, pending>>
    BY <1>0, <1>3, <2>2 DEF DispatchOwed
  <2> QED
    BY <1>3, <2>1, <2>2 DEF DispatchOwed
<1>4. CASE RequestDies(f) \/ AskRevision(f) \/ RefuseRevision(f)
  BY <1>0, <1>4 DEF RequestDies, AskRevision, RefuseRevision
<1>5. CASE Reconsider(f)
  BY <1>5, ReconsiderStep
<1>6. CASE RequestRevision(f)
  BY <1>6, RevisionStep
<1>7. CASE ReconcileCreate(f)
  BY <1>7, CreatedStep DEF ReconcileCreate
<1> QED
  BY <1>1, <1>2, <1>3, <1>4, <1>5, <1>6, <1>7 DEF OwnerStep

\* The reconciler takes back expired claims only, and those have no holder left.
LEMMA RecoverInv ==
    ASSUME IInv, TypeInv', RecoverStale
    PROVE  IInv'
<1>0. task \in [Tasks -> TaskRow] /\ UNCHANGED <<find, art, worker>>
  BY DEF IInv, TypeOK, RecoverStale
<1>1. ASSUME NEW t \in Tasks PROVE RowInv(t)'
  <2>1. CASE Stale(t)
    <3>1. task'[t] = Recovered(task[t])
      BY <2>1 DEF RecoverStale
    <3>2. /\ task'[t].status \in {"retry", "failed"} /\ ~task'[t].superseded
          /\ task'[t].revision = task[t].revision /\ task'[t].base = task[t].base
          /\ task'[t].output = task[t].output
      BY <1>0, <2>1, <3>1 DEF Recovered, TaskRow, Stale
    <3> QED
      BY <1>0, <2>1, <3>2, RowMoves DEF Stale, IInv
  <2>2. CASE ~Stale(t)
    <3>1. task'[t] = task[t]
      BY <2>2 DEF RecoverStale
    <3> QED
      BY <1>0, <3>1, RowFrame DEF IInv
  <2> QED
    BY <2>1, <2>2
<1>2. ASSUME NEW w \in Workers PROVE WorkerInv(w)'
  <2>1. worker[w].pc \in Holding => task'[worker[w].task] = task[worker[w].task]
    BY Holders DEF RecoverStale, Stale, GoodClaim
  <2> QED
    BY <1>0, <2>1, Bystander DEF IInv
<1> QED
  BY <1>1, <1>2 DEF IInv, TypeInv

LEMMA ClockInv ==
    ASSUME IInv, TypeInv', ~LeaseOutlived, NEW t \in Tasks,
           \/ ReconcileDispatch(t) \/ BackoffElapses(t)
           \/ LeaseExpires(t) \/ DispatchLost(t)
    PROVE  IInv'
<1>0. task \in [Tasks -> TaskRow] /\ task[t] \in TaskRow /\ RowInv(t)
  BY DEF IInv, TypeOK
<1>s. task[t].status \in {"retry", "running"} => ~task[t].superseded
  BY <1>0 DEF RowInv, ClosedRow
<1>1. CASE ReconcileDispatch(t)
  BY <1>1, DispatchStep DEF ReconcileDispatch
<1>2. CASE BackoffElapses(t)
  <2>1. task' = [task EXCEPT ![t] = [task[t] EXCEPT !.due = TRUE]]
    BY <1>0, <1>2 DEF BackoffElapses
  <2>2. task'[t] = [task[t] EXCEPT !.due = TRUE] /\ task[t].status = "retry"
    BY <1>0, <1>2, <2>1 DEF BackoffElapses
  <2>3. RowInv(t)'
    BY <1>0, <1>2, <1>s, <2>2, RowMoves DEF BackoffElapses, TaskRow
  <2>4. \A w \in Workers : worker[w].pc \in Holding => worker[w].task # t
    BY <2>2, NoHolder
  <2> QED
    BY <1>0, <1>2, <2>1, <2>3, <2>4, OneRowStep DEF BackoffElapses
<1>3. CASE LeaseExpires(t)
  <2>1. task' = [task EXCEPT ![t] = [task[t] EXCEPT !.lease = "expired"]]
    BY <1>0, <1>3 DEF LeaseExpires
  <2>2. task'[t] = [task[t] EXCEPT !.lease = "expired"] /\ task[t].status = "running"
    BY <1>0, <1>3, <2>1 DEF LeaseExpires
  <2>3. RowInv(t)'
    BY <1>0, <1>3, <1>s, <2>2, RowMoves DEF LeaseExpires, TaskRow
  <2>4. \A w \in Workers : worker[w].pc \in Holding => worker[w].task # t
    BY <1>3, <2>2, Holders DEF LeaseExpires, GoodClaim
  <2> QED
    BY <1>0, <1>3, <2>1, <2>3, <2>4, OneRowStep DEF LeaseExpires
<1>4. CASE DispatchLost(t)
  BY <1>4, RowFrame, Bystander DEF DispatchLost, IInv, TypeInv
<1> QED
  BY <1>1, <1>2, <1>3, <1>4

LEMMA BeginInv ==
    ASSUME IInv, TypeInv', NEW w \in Workers, NEW t \in Tasks, Begin(w, t)
    PROVE  IInv'
<1>0. worker \in [Workers -> WorkerState]
  BY DEF IInv, TypeOK
<1>1. \A v \in Workers : v # w => worker'[v] = worker[v]
  BY <1>0 DEF Begin
<1>2. WorkerInv(w)'
  <2>1. worker'[w] = worker[w] \/ worker'[w] = [Idle EXCEPT !.pc = "claim", !.task = t]
    BY <1>0 DEF Begin
  <2>2. CASE worker'[w] = worker[w]
    BY <2>2, Bystander DEF IInv, Begin
  <2>3. CASE worker'[w] = [Idle EXCEPT !.pc = "claim", !.task = t]
    BY <2>3 DEF WorkerInv, Idle, Holding
  <2> QED
    BY <2>1, <2>2, <2>3
<1>3. RowInv(t)'
  BY RowFrame DEF Begin, IInv
<1> QED
  BY <1>1, <1>2, <1>3, OneWorkerStep DEF Begin

\* The claim gives the row one holder, who has read the row it claimed.
LEMMA ClaimInv ==
    ASSUME IInv, TypeInv', NEW w \in Workers, Claim(w)
    PROVE  IInv'
<1> PICK t \in Tasks : t = worker[w].task
  BY DEF IInv, WorkerInv, Claim
<1>0. /\ worker \in [Workers -> WorkerState] /\ worker[w].pc = "claim"
      /\ task \in [Tasks -> TaskRow] /\ task[t] \in TaskRow
      /\ UNCHANGED <<find, art>> /\ RowInv(t)
  BY DEF IInv, TypeOK, Claim
<1>1. CASE ~Claimable(t)
  <2>1. UNCHANGED task /\ worker' = [worker EXCEPT ![w] = Idle]
    BY <1>1 DEF Claim, Exit
  <2>2. WorkerInv(w)'
    BY <1>0, <2>1 DEF WorkerInv, Idle, Holding
  <2>3. RowInv(t)'
    BY <1>0, <2>1, RowFrame
  <2> QED
    BY <1>0, <2>1, <2>2, <2>3, OneWorkerStep
<1>2. CASE Claimable(t)
  <2> DEFINE n   == task[t].attempt + 1
             row == [task[t] EXCEPT !.status = "running", !.token = w,
                                    !.lease = "held", !.due = TRUE, !.attempt = n]
             st  == [pc |-> "check", task |-> t, attempt |-> n,
                     revision |-> task[t].revision, base |-> task[t].base]
  <2>1. task' = [task EXCEPT ![t] = row] /\ worker' = [worker EXCEPT ![w] = st]
    BY <1>2 DEF Claim
  <2>2. task'[t] = row /\ worker'[w] = st
    BY <1>0, <2>1
  <2>3. task[t].status \in {"queued", "retry", "running"} /\ ~task[t].superseded
    BY <1>2 DEF Claimable, Dispatchable, Stale, Waiting
  <2>4. RowInv(t)'
    BY <1>0, <2>2, <2>3, RowMoves DEF TaskRow
  <2>5. WorkerInv(w)'
    <3>1. /\ worker'[w].pc = "check" /\ worker'[w].task = t
          /\ worker'[w].revision = task[t].revision /\ worker'[w].base = task[t].base
      BY <2>2
    <3>2. /\ task'[t].status = "running" /\ task'[t].token = w
          /\ task'[t].lease = "held" /\ ~task'[t].superseded
          /\ task'[t].revision = task[t].revision /\ task'[t].base = task[t].base
      BY <1>0, <2>2, <2>3 DEF TaskRow
    <3>3. GoodClaim(w)'
      BY <3>1, <3>2 DEF GoodClaim
    <3> QED
      BY <3>1, <3>3 DEF WorkerInv
  <2>6. \A v \in Workers : worker[v].pc \in Holding => worker[v].task # t
    BY <1>2, NoHolder DEF Claimable, Dispatchable, Stale, Waiting
  <2> QED
    BY <1>0, <2>1, <2>4, <2>5, <2>6, OneWorkerStep
<1> QED
  BY <1>1, <1>2

\* A step of the holder that leaves its row as it is.
LEMMA QuietStep ==
    ASSUME IInv, TypeInv', NEW w \in Workers, worker[w].pc # "idle",
           UNCHANGED <<find, task, art>>,
           \/ Exit(w)
           \/ /\ worker[w].pc \in Holding
              /\ \E pc \in Holding :
                    /\ To(w, pc)
                    /\ pc \in {"recheck", "complete"} /\ GoodClaim(w) =>
                          Stored(worker[w].task)
    PROVE  IInv'
<1> PICK t \in Tasks : t = worker[w].task
  BY DEF IInv, WorkerInv
<1>0. /\ worker \in [Workers -> WorkerState] /\ worker[w] \in WorkerState
  BY DEF IInv, TypeOK
<1>1. RowInv(t)'
  BY RowFrame DEF IInv
<1>2. \A v \in Workers : v # w => worker'[v] = worker[v]
  BY <1>0 DEF Exit, To
<1>3. WorkerInv(w)'
  <2>1. CASE Exit(w)
    BY <1>0, <2>1 DEF Exit, WorkerInv, Idle, Holding
  <2>2. ASSUME NEW pc \in Holding, To(w, pc), worker[w].pc \in Holding,
               pc \in {"recheck", "complete"} /\ GoodClaim(w) => Stored(worker[w].task)
        PROVE  WorkerInv(w)'
    <3>1. /\ worker'[w].pc = pc /\ worker'[w].task = t
          /\ worker'[w].revision = worker[w].revision
          /\ worker'[w].base = worker[w].base
      BY <1>0, <2>2 DEF To, WorkerState
    <3>2. CASE GoodClaim(w)
      <4>1. GoodClaim(w)'
        BY <2>2, <3>1, <3>2 DEF GoodClaim, Stored, Drafts
      <4> QED
        BY <3>1, <4>1 DEF WorkerInv
    <3>3. CASE task[t].superseded /\ task[t].status = "cancelled"
      BY <3>1, <3>3 DEF WorkerInv
    <3> QED
      BY <2>2, <3>2, <3>3, Holders
  <2> QED
    BY <2>1, <2>2
<1> QED
  BY <1>1, <1>2, <1>3, OneWorkerStep

\* A holder with a good claim works for a live row, stored or about to be.
LEMMA GoodRow ==
    ASSUME IInv, NEW w \in Workers, worker[w].pc \in Holding, GoodClaim(w)
    PROVE  LET t == worker[w].task IN
           /\ t \in Tasks /\ LiveRow(t) /\ OwnsClaim(w)
           /\ Stored(t) \/ art[t] = Drafts(task[t].base)
BY Holders DEF IInv, RowInv, GoodClaim, LiveRow, OwnsClaim

LEMMA CheckInv ==
    ASSUME IInv, TypeInv', NEW w \in Workers, CheckFind(w)
    PROVE  IInv'
<1>1. worker[w].pc \in Holding
  BY DEF CheckFind, Holding
<1>2. UNCHANGED <<find, task, art>>
  <2>1. CASE GoodClaim(w)
    <3>1. Approved(worker[w].task)
      BY <1>1, <2>1, GoodRow DEF LiveRow
    <3>2. find[worker[w].task[1]].status = "accepted"
      BY <3>1 DEF Approved
    <3> QED
      BY <3>2 DEF CheckFind
  <2>2. CASE ~GoodClaim(w)
    BY <1>1, <2>2, Holders DEF CheckFind, OwnsClaim
  <2> QED
    BY <2>1, <2>2
<1> QED
  BY <1>1, <1>2, QuietStep DEF CheckFind, Holding

\* The draft found in storage is the one the claim is for.
LEMMA LookupInv ==
    ASSUME IInv, TypeInv', NEW w \in Workers, Lookup(w)
    PROVE  IInv'
<1>1. worker[w].pc \in Holding
  BY DEF Lookup, Holding
<1>2. ASSUME GoodClaim(w), art[worker[w].task][worker[w].revision] # "absent"
      PROVE  Stored(worker[w].task)
  <2> DEFINE t == worker[w].task
             r == worker[w].revision
  <2>1. r \in Revisions
    BY DEF IInv, TypeOK, WorkerState
  <2>2. Stored(t) \/ art[t] = Drafts(task[t].base)
    BY <1>1, <1>2, GoodRow
  <2>3. r = task[t].revision /\ task[t].base = r - 1
    BY <1>1, <1>2, GoodRow DEF GoodClaim, LiveRow
  <2>4. Drafts(r - 1)[r] = "absent"
    BY <2>1 DEF Drafts, Revisions
  <2> QED
    BY <1>2, <2>2, <2>3, <2>4
<1> QED
  BY <1>1, <1>2, QuietStep DEF Lookup, Holding

\* A stored draft replaces the one it revises; a stored retry changes nothing.
LEMMA StoreLands ==
    ASSUME IInv, NEW w \in Workers, StoreDraft(w), NEW t \in Tasks, t = worker[w].task,
           task[t].status = "running", ~task[t].superseded, Approved(t)
    PROVE  /\ GoodClaim(w) /\ LiveRow(t)
           /\ art'[t] = Drafts(task[t].revision)
           /\ \A u \in Tasks : u # t => art'[u] = art[u]
           /\ To(w, "recheck") /\ UNCHANGED <<find, task>>
<1>1. GoodClaim(w) /\ LiveRow(t)
  BY Holders, GoodRow DEF StoreDraft, Holding
<1>2. /\ task[t].revision \in Revisions /\ worker[w].revision = task[t].revision
      /\ worker[w].base = task[t].revision - 1
  BY <1>1 DEF IInv, TypeOK, TaskRow, GoodClaim, LiveRow
<1>3. /\ art' = [art EXCEPT ![t] = [i \in Revisions |->
                    IF i = worker[w].revision /\ @[i] = "absent" THEN "current"
                    ELSE IF i = worker[w].base /\ i # worker[w].revision
                         THEN "superseded" ELSE @[i]]]
      /\ To(w, "recheck") /\ UNCHANGED <<find, task>>
  BY DEF StoreDraft
<1>4. art'[t] = Drafts(task[t].revision)
  <2>0. art'[t] = [i \in Revisions |->
                    IF i = worker[w].revision /\ art[t][i] = "absent" THEN "current"
                    ELSE IF i = worker[w].base /\ i # worker[w].revision
                         THEN "superseded" ELSE art[t][i]]
    BY <1>3 DEF IInv, TypeOK
  <2>1. CASE art[t] = Drafts(task[t].revision)
    BY <1>2, <2>0, <2>1 DEF Drafts, Revisions
  <2>2. CASE art[t] = Drafts(task[t].revision - 1)
    BY <1>2, <2>0, <2>2 DEF Drafts, Revisions
  <2> QED
    BY <1>1, <2>1, <2>2 DEF LiveRow, Stored
<1>5. \A u \in Tasks : u # t => art'[u] = art[u]
  BY <1>3 DEF IInv, TypeOK
<1> QED
  BY <1>1, <1>3, <1>4, <1>5

LEMMA StoreInv ==
    ASSUME IInv, TypeInv', NEW w \in Workers, StoreDraft(w)
    PROVE  IInv'
<1>1. worker[w].pc \in Holding /\ worker \in [Workers -> WorkerState]
      /\ worker[w] \in WorkerState
  BY DEF StoreDraft, Holding, IInv, TypeOK
<1> PICK t \in Tasks : t = worker[w].task
  BY <1>1, Holders
<1>2. CASE UNCHANGED art /\ To(w, "error")
  BY <1>1, <1>2, QuietStep DEF StoreDraft, Holding
<1>3. CASE task[t].status = "running" /\ ~task[t].superseded /\ Approved(t)
  <2>1. /\ GoodClaim(w) /\ LiveRow(t)
        /\ art'[t] = Drafts(task[t].revision)
        /\ \A u \in Tasks : u # t => art'[u] = art[u]
        /\ To(w, "recheck") /\ UNCHANGED <<find, task>>
    BY <1>3, StoreLands
  <2>3. /\ worker'[w].pc = "recheck" /\ worker'[w].task = t
        /\ worker'[w].revision = worker[w].revision /\ worker'[w].base = worker[w].base
    BY <1>1, <2>1 DEF To, WorkerState
  <2>5. \A v \in Workers : v # w => worker'[v] = worker[v]
    BY <1>1, <2>1 DEF To
  <2>6. Stored(t)'
    BY <2>1 DEF Stored, Drafts
  <2>7. RowInv(t)'
    <3>1. LiveRow(t)'
      BY <2>1, <2>6 DEF LiveRow, Approved
    <3> QED
      BY <1>3, <2>1, <3>1 DEF RowInv
  <2>8. WorkerInv(w)'
    <3>1. GoodClaim(w)'
      BY <2>1, <2>3, <2>6 DEF GoodClaim
    <3> QED
      BY <2>3, <3>1 DEF WorkerInv
  <2>9. \A v \in Workers : v # w /\ worker[v].pc \in Holding => worker[v].task # t
    BY <1>1, <2>1, OneHolder
  <2> QED
    BY <2>1, <2>5, <2>7, <2>8, <2>9, OneWorkerStep
<1> QED
  BY <1>2, <1>3 DEF StoreDraft

\* The row is completed by its holder, with its own draft on the board.
LEMMA CompleteInv ==
    ASSUME IInv, TypeInv', NEW w \in Workers, CompleteTask(w)
    PROVE  IInv'
<1>1. /\ worker[w].pc \in Holding /\ worker \in [Workers -> WorkerState]
      /\ worker[w].pc = "complete" /\ Exit(w) /\ UNCHANGED <<find, art>>
  BY DEF CompleteTask, Holding, IInv, TypeOK
<1> PICK t \in Tasks : t = worker[w].task
  BY <1>1, Holders
<1>2. CASE ~GoodClaim(w)
  <2>1. UNCHANGED task
    BY <1>1, <1>2, Holders DEF CompleteTask, OwnsClaim
  <2> QED
    BY <1>1, <2>1, QuietStep DEF Holding
<1>3. CASE GoodClaim(w)
  <2> DEFINE row == [task[t] EXCEPT !.status = "completed", !.output = worker[w].revision,
                                    !.token = Nobody, !.lease = "none", !.due = TRUE]
  <2>0. task \in [Tasks -> TaskRow] /\ task[t] \in TaskRow
    BY DEF IInv, TypeOK
  <2>1. LiveRow(t) /\ OwnsClaim(w) /\ Stored(t) /\ worker[w].revision = task[t].revision
        /\ ~task[t].superseded
    BY <1>1, <1>3, GoodRow DEF GoodClaim
  <2>2. task' = [task EXCEPT ![t] = row]
    BY <2>1 DEF CompleteTask
  <2>3. task'[t] = row
    BY <2>0, <2>2
  <2>4. /\ task'[t].status = "completed" /\ ~task'[t].superseded
        /\ task'[t].output = task[t].revision /\ task'[t].revision = task[t].revision
        /\ task'[t].base = task[t].base
    BY <2>0, <2>1, <2>3 DEF TaskRow
  <2>5. LiveRow(t)'
    BY <1>1, <2>1, <2>4 DEF LiveRow, Approved, Stored, Drafts
  <2>6. RowInv(t)'
    BY <2>4, <2>5 DEF RowInv
  <2>7. WorkerInv(w)' /\ \A v \in Workers : v # w => worker'[v] = worker[v]
    BY <1>1 DEF Exit, WorkerInv, Idle, Holding
  <2>8. \A v \in Workers : v # w /\ worker[v].pc \in Holding => worker[v].task # t
    BY <1>1, <1>3, OneHolder
  <2> QED
    BY <1>1, <2>0, <2>2, <2>6, <2>7, <2>8, OneWorkerStep
<1> QED
  BY <1>2, <1>3

\* The row is given up by its holder, for a later attempt or for good.
LEMMA ErrorInv ==
    ASSUME IInv, TypeInv', NEW w \in Workers, HandleError(w)
    PROVE  IInv'
<1>1. /\ worker[w].pc \in Holding /\ worker \in [Workers -> WorkerState]
      /\ worker[w].pc = "error" /\ Exit(w) /\ UNCHANGED <<find, art>>
  BY DEF HandleError, Holding, IInv, TypeOK
<1> PICK t \in Tasks : t = worker[w].task
  BY <1>1, Holders
<1>2. CASE ~GoodClaim(w)
  <2>1. UNCHANGED task
    BY <1>1, <1>2, Holders DEF HandleError, OwnsClaim
  <2> QED
    BY <1>1, <2>1, QuietStep DEF Holding
<1>3. CASE GoodClaim(w)
  <2> DEFINE row == IF worker[w].attempt < MaxAttempts
                    THEN Retrying(task[t]) ELSE Failed(task[t])
  <2>0. task \in [Tasks -> TaskRow] /\ task[t] \in TaskRow
    BY DEF IInv, TypeOK
  <2>1. OwnsClaim(w) /\ ~task[t].superseded /\ task[t].status = "running"
    BY <1>1, <1>3, GoodRow DEF GoodClaim
  <2>2. task' = [task EXCEPT ![t] = row]
    BY <2>1 DEF HandleError
  <2>3. task'[t] = row
    BY <2>0, <2>2
  <2>4. /\ task'[t].status \in {"retry", "failed"} /\ ~task'[t].superseded
        /\ task'[t].output = task[t].output /\ task'[t].revision = task[t].revision
        /\ task'[t].base = task[t].base
    BY <2>0, <2>1, <2>3 DEF TaskRow, Retrying, Failed
  <2>5. RowInv(t)'
    BY <1>1, <2>1, <2>4, RowMoves DEF IInv
  <2>6. WorkerInv(w)' /\ \A v \in Workers : v # w => worker'[v] = worker[v]
    BY <1>1 DEF Exit, WorkerInv, Idle, Holding
  <2>7. \A v \in Workers : v # w /\ worker[v].pc \in Holding => worker[v].task # t
    BY <1>1, <1>3, OneHolder
  <2> QED
    BY <1>1, <2>0, <2>2, <2>5, <2>6, <2>7, OneWorkerStep
<1> QED
  BY <1>2, <1>3

LEMMA WorkerStepInv ==
    ASSUME IInv, TypeInv', NEW w \in Workers, WorkerStep(w) \/ Crash(w)
    PROVE  IInv'
<1>1. CASE Claim(w)
  BY <1>1, ClaimInv
<1>2. CASE CheckFind(w)
  BY <1>2, CheckInv
<1>3. CASE Lookup(w)
  BY <1>3, LookupInv
<1>4. CASE ModelFails(w) \/ ModelAnswers(w)
  BY <1>4, QuietStep DEF ModelFails, ModelAnswers, Holding
<1>5. CASE StoreDraft(w)
  BY <1>5, StoreInv
<1>6. CASE RecheckClaim(w)
  BY <1>6, QuietStep DEF RecheckClaim, Holding, GoodClaim
<1>7. CASE CompleteTask(w)
  BY <1>7, CompleteInv
<1>8. CASE HandleError(w)
  BY <1>8, ErrorInv
<1>9. CASE Crash(w)
  BY <1>9, QuietStep DEF Crash
<1> QED
  BY <1>1, <1>2, <1>3, <1>4, <1>5, <1>6, <1>7, <1>8, <1>9 DEF WorkerStep

LEMMA IInvStep == ~LeaseOutlived /\ IInv /\ [Next]_vars => IInv'
<1> SUFFICES ASSUME ~LeaseOutlived, IInv, [Next]_vars PROVE IInv'
  OBVIOUS
<1>0. TypeInv'
  BY IInvTypes, TypeStep
<1>1. CASE UNCHANGED vars
  BY <1>0, <1>1, RowFrame, Bystander DEF IInv, TypeInv, vars
<1>2. CASE Next
  BY <1>0, <1>2, OwnerInv, RecoverInv, ClockInv, BeginInv, WorkerStepInv DEF Next
<1> QED
  BY <1>1, <1>2

\* Claims, rows and drafts agree in every reachable state: see IInv.
THEOREM Consistent == ~LeaseOutlived /\ Spec => []IInv
<1>1. CASE LeaseOutlived
  BY <1>1
<1>2. CASE ~LeaseOutlived
  <2>1. IInv /\ [Next]_vars => IInv'
    BY <1>2, IInvStep
  <2> QED
    BY <2>1, IInvInit, PTL DEF Spec
<1> QED
  BY <1>1, <1>2

\* What is on the board of a task: nothing, or one draft of a live row.
LEMMA Board ==
    ASSUME IInv, NEW t \in Tasks, NEW r \in CurrentDrafts(t)
    PROVE  Approved(t) /\ CurrentDrafts(t) = {r}
<1>1. RowInv(t) /\ r \in Revisions /\ art[t][r] = "current"
  BY DEF IInv, CurrentDrafts
<1>2. task[t].status # "absent" /\ ~task[t].superseded
  <2>1. ~task[t].superseded
    BY <1>1 DEF RowInv, ClosedRow
  <2>2. Drafts(0)[r] = "absent"
    BY <1>1 DEF Drafts, Revisions
  <2> QED
    BY <1>1, <2>1, <2>2 DEF RowInv
<1>3. LiveRow(t)
  BY <1>1, <1>2 DEF RowInv
<1>4. PICK k : art[t] = Drafts(k)
  BY <1>3 DEF LiveRow, Stored
<1>5. CurrentDrafts(t) \subseteq {k}
  BY <1>4 DEF CurrentDrafts, Drafts
<1> QED
  BY <1>3, <1>5 DEF LiveRow

\* The owner never has two current drafts of one recommendation.
THEOREM OneDraft == ~LeaseOutlived /\ Spec => []OneCurrentDraft
<1>1. IInv => OneCurrentDraft
  <2> SUFFICES ASSUME IInv, NEW t \in Tasks, NEW u \in Tasks,
                      NEW r \in CurrentDrafts(t), NEW s \in CurrentDrafts(u),
                      t[1] = u[1]
               PROVE  t = u /\ r = s
    BY DEF OneCurrentDraft
  <2>1. Approved(t) /\ Approved(u)
    BY Board
  <2>2. t[2] = u[2]
    BY <2>1 DEF Approved
  <2>3. t = u
    BY <2>2 DEF Tasks
  <2> QED
    BY <2>3, Board
<1> QED
  BY <1>1, Consistent, PTL

\* A completed task shows the draft of the revision that was asked for.
THEOREM CompletedDraft == ~LeaseOutlived /\ Spec => []CompletedShowsItsDraft
<1>1. IInv => CompletedShowsItsDraft
  <2> SUFFICES ASSUME IInv, NEW t \in Tasks,
                      task[t].status = "completed", ~task[t].superseded
               PROVE  /\ task[t].output = task[t].revision
                      /\ art[t][task[t].revision] = "current"
    BY DEF CompletedShowsItsDraft
  <2> DEFINE r == task[t].revision
  <2>1. LiveRow(t)
    BY DEF IInv, RowInv
  <2>2. task[t] \in TaskRow
    BY DEF IInv, TypeOK
  <2>3. r \in Revisions
    BY <2>2 DEF TaskRow
  <2>4. Drafts(r)[r] = "current"
    BY <2>3 DEF Drafts, Revisions
  <2> QED
    BY <2>1, <2>4 DEF LiveRow, Stored
<1> QED
  BY <1>1, Consistent, PTL

\* No step touches a row the owner has taken back, or what it had produced.
LEMMA ClosedRowsStay ==
    ASSUME IInv, [Next]_vars, NEW t \in Tasks, task[t].superseded
    PROVE  /\ task'[t].superseded /\ task'[t].status = task[t].status
           /\ task'[t].output = task[t].output
<1>0. /\ task \in [Tasks -> TaskRow]
      /\ task[t].status \in {"completed", "failed", "cancelled"}
  BY DEF IInv, TypeOK, RowInv, ClosedRow
<1>1. ASSUME NEW f \in Finds, OwnerStep(f) \/ ReconcileCreate(f)
      PROVE  task'[t] = task[t] \/ task'[t] = [task[t] EXCEPT !.dispatched = TRUE]
  BY <1>0, <1>1
  DEF OwnerStep, ReconcileCreate, Approve, PassFind, CreateTask, Created, DispatchOwed,
      Dispatch, Dispatchable, RequestDies, Reconsider, AskRevision, RequestRevision,
      Revisable, RefuseRevision, Waiting
<1>2. ASSUME RecoverStale PROVE task'[t] = task[t]
  BY <1>0, <1>2 DEF RecoverStale, Stale
<1>3. ASSUME NEW u \in Tasks, \/ ReconcileDispatch(u) \/ BackoffElapses(u)
                              \/ LeaseExpires(u) \/ DispatchLost(u)
                              \/ \E w \in Workers : Begin(w, u)
      PROVE  task'[t] = task[t] \/ task'[t] = [task[t] EXCEPT !.dispatched = TRUE]
  BY <1>0, <1>3
  DEF ReconcileDispatch, Dispatch, Dispatchable, BackoffElapses, LeaseExpires,
      DispatchLost, Begin, Waiting
<1>4. ASSUME NEW w \in Workers, WorkerStep(w) \/ Crash(w)
      PROVE  task'[t] = task[t]
  <2>1. CASE Claim(w)
    BY <1>0, <2>1 DEF Claim, Claimable, Dispatchable, Stale, Waiting
  <2>2. CASE CheckFind(w) \/ HandleError(w)
    BY <1>0, <2>2 DEF CheckFind, HandleError, OwnsClaim
  <2>3. CASE CompleteTask(w)
    <3>1. worker[w].pc \in Holding
      BY <2>3 DEF CompleteTask, Holding
    <3>2. worker[w].task = t => task[t].status = "cancelled"
      BY <1>0, <3>1, Holders DEF GoodClaim
    <3> QED
      BY <1>0, <2>3, <3>2 DEF CompleteTask, OwnsClaim
  <2>4. CASE UNCHANGED task
    BY <2>4
  <2> QED
    BY <1>4, <2>1, <2>2, <2>3, <2>4
    DEF WorkerStep, Crash, Lookup, ModelFails, ModelAnswers, StoreDraft, RecheckClaim
<1>5. ASSUME UNCHANGED vars PROVE task'[t] = task[t]
  BY <1>5 DEF vars
<1>6. task'[t] = task[t] \/ task'[t] = [task[t] EXCEPT !.dispatched = TRUE]
  BY <1>1, <1>2, <1>3, <1>4, <1>5 DEF Next
<1>7. task[t] \in TaskRow
  BY <1>0
<1>8. CASE task'[t] = [task[t] EXCEPT !.dispatched = TRUE]
  BY <1>7, <1>8 DEF TaskRow
<1> QED
  BY <1>6, <1>8

\* What Return to For You closed, stays closed.
THEOREM ClosedForGood == ~LeaseOutlived /\ Spec => SupersededIsFinal
<1>1. IInv /\ [Next]_vars =>
        [\A t \in Tasks : task[t].superseded =>
            /\ task'[t].superseded
            /\ task'[t].status = task[t].status
            /\ task'[t].output = task[t].output]_vars
  BY ClosedRowsStay
<1> QED
  BY <1>1, Consistent, PTL DEF Spec, SupersededIsFinal
-----------------------------------------------------------------------------
\* A row that one invocation settles.
LEMMA Settling ==
    ASSUME TypeInv, NEW w \in Workers, WorkerStep(w), NEW t \in Tasks,
           task[t].status = "running", task'[t].status # "running"
    PROVE  worker[w].task = t /\ task[t].token = w /\ worker'[w] = Idle
<1> DEFINE mine == worker[w].task
<1>0. /\ task \in [Tasks -> TaskRow] /\ worker \in [Workers -> WorkerState]
      /\ worker[w].pc # "idle" => mine \in Tasks
  BY DEF TypeInv, TypeOK, Assigned
<1>1. CASE Claim(w)
  <2>1. mine \in Tasks
    BY <1>0, <1>1 DEF Claim
  <2>2. \A u \in Tasks : task'[u] = task[u] \/ task'[u].status = "running"
    BY <1>0, <1>1, <2>1 DEF Claim, TaskRow
  <2> QED
    BY <2>2
<1>2. CASE CheckFind(w)
  <2>1. mine \in Tasks
    BY <1>0, <1>2 DEF CheckFind
  <2>2. task' # task => Exit(w) /\ OwnsClaim(w) /\ task' = [task EXCEPT ![mine] = Failed(@)]
    BY <1>2 DEF CheckFind
  <2> QED
    BY <1>0, <2>1, <2>2 DEF Exit, OwnsClaim
<1>3. CASE Lookup(w) \/ ModelFails(w) \/ ModelAnswers(w) \/ StoreDraft(w) \/ RecheckClaim(w)
  BY <1>3 DEF Lookup, ModelFails, ModelAnswers, StoreDraft, RecheckClaim
<1>4. CASE CompleteTask(w)
  <2> DEFINE row == [task[mine] EXCEPT !.status = "completed",
                        !.output = worker[w].revision, !.token = Nobody,
                        !.lease = "none", !.due = TRUE]
  <2>1. mine \in Tasks /\ Exit(w)
    BY <1>0, <1>4 DEF CompleteTask
  <2>2. task' # task => /\ OwnsClaim(w) \/ task[mine].status = "completed"
                        /\ task' = [task EXCEPT ![mine] = row]
    BY <1>4 DEF CompleteTask
  <2> HIDE DEF row
  <2>3. t = mine /\ OwnsClaim(w)
    BY <1>0, <2>1, <2>2
  <2> QED
    BY <1>0, <2>1, <2>3 DEF Exit, OwnsClaim
<1>5. CASE HandleError(w)
  <2>1. mine \in Tasks /\ Exit(w)
    BY <1>0, <1>5 DEF HandleError
  <2>2. task' # task => /\ OwnsClaim(w)
                        /\ \A u \in Tasks \ {mine} : task'[u] = task[u]
    BY <1>0, <1>5 DEF HandleError
  <2> QED
    BY <1>0, <2>1, <2>2 DEF Exit, OwnsClaim
<1> QED
  BY <1>1, <1>2, <1>3, <1>4, <1>5 DEF WorkerStep

\* Unless its lease has ended or the owner took the recommendation back, a running
\* task is settled by the invocation that holds its claim and by no other, even when
\* invocations outlive their leases.
THEOREM HoldersSettle == Spec => OnlyHolderSettles
<1> DEFINE Settled == \A t \in Tasks :
          task[t].status = "running" /\ task'[t].status # "running"
          /\ task[t].lease = "held" /\ ~task'[t].superseded =>
              \E w \in Workers : worker[w].task = t /\ task[t].token = w
                                 /\ worker'[w] = Idle
<1>1. TypeInv /\ [Next]_vars => [Settled]_vars
  <2> SUFFICES ASSUME TypeInv, Next, NEW t \in Tasks,
                      task[t].status = "running", task'[t].status # "running",
                      task[t].lease = "held", ~task'[t].superseded
               PROVE  \E w \in Workers : worker[w].task = t /\ task[t].token = w
                                         /\ worker'[w] = Idle
    OBVIOUS
  <2>0. task \in [Tasks -> TaskRow] /\ t \in Tasks
    BY DEF TypeInv, TypeOK
  <2>1. ASSUME NEW u \in Tasks, Dispatch(u)
        PROVE  task'[t].status = "running"
    BY <2>0, <2>1 DEF Dispatch, TaskRow
  <2>2. ASSUME NEW f \in Finds, task' = Created(f)
        PROVE  FALSE
    <3>1. CurrentTask(f) \in Tasks
      BY DEF TypeInv, TypeOK, CurrentTask, Tasks
    <3> QED
      BY <2>0, <2>2, <3>1 DEF Created
  <2>3. ASSUME NEW f \in Finds, OwnerStep(f) \/ ReconcileCreate(f)
        PROVE  FALSE
    <3>1. CASE Approve(f) \/ PassFind(f) \/ RequestDies(f) \/ AskRevision(f) \/ RefuseRevision(f)
      BY <3>1 DEF Approve, PassFind, RequestDies, AskRevision, RefuseRevision
    <3>2. CASE CreateTask(f) \/ ReconcileCreate(f)
      BY <2>2, <3>2 DEF CreateTask, ReconcileCreate
    <3>3. CASE DispatchOwed(f)
      <4>1. <<f, owed[f].cycle>> \in Tasks
        BY DEF TypeInv, TypeOK, Tasks
      <4> QED
        BY <2>1, <3>3, <4>1 DEF DispatchOwed
    <3>4. CASE Reconsider(f)
      BY <2>0, <3>4 DEF Reconsider, Superseded, TaskRow
    <3>5. CASE RequestRevision(f)
      <4>1. task[CurrentTask(f)].status = "completed"
        BY <3>5 DEF RequestRevision, Revisable
      <4>2. \A u \in Tasks \ {CurrentTask(f)} : task'[u] = task[u]
        BY <2>0, <3>5 DEF RequestRevision
      <4> QED
        BY <2>0, <4>1, <4>2
    <3> QED
      BY <2>3, <3>1, <3>2, <3>3, <3>4, <3>5 DEF OwnerStep
  <2>4. CASE RecoverStale
    BY <2>0, <2>4 DEF RecoverStale, Stale
  <2>5. ASSUME NEW u \in Tasks,
               \/ ReconcileDispatch(u) \/ BackoffElapses(u) \/ LeaseExpires(u)
               \/ DispatchLost(u) \/ \E w \in Workers : Begin(w, u)
        PROVE  FALSE
    <3>1. CASE ReconcileDispatch(u)
      BY <2>1, <3>1 DEF ReconcileDispatch
    <3>2. CASE BackoffElapses(u) \/ LeaseExpires(u)
      BY <2>0, <3>2 DEF BackoffElapses, LeaseExpires, TaskRow
    <3>3. CASE DispatchLost(u) \/ \E w \in Workers : Begin(w, u)
      BY <3>3 DEF DispatchLost, Begin
    <3> QED
      BY <2>5, <3>1, <3>2, <3>3
  <2>6. ASSUME NEW w \in Workers, WorkerStep(w) \/ Crash(w)
        PROVE  worker[w].task = t /\ task[t].token = w /\ worker'[w] = Idle
    BY <2>0, <2>6, Settling DEF Crash
  <2> QED
    BY <2>3, <2>4, <2>5, <2>6 DEF Next
<1> QED
  BY <1>1, TypeInit, TypeStep, PTL DEF Spec, OnlyHolderSettles

-----------------------------------------------------------------------------
\* What the contract sees of a find.
WantedOf(f) == IF find[f].status = "accepted" THEN task[CurrentTask(f)].revision ELSE 0

\* The row of the current cycle is missing or live, and its board is of one draft.
LEMMA CurrentRow ==
    ASSUME IInv, NEW f \in Finds
    PROVE  LET t == CurrentTask(f) IN
           /\ t \in Tasks /\ task[t] \in TaskRow /\ find[f].cycle \in Cycles
           /\ ~task[t].superseded
           /\ \/ task[t] = NoRow /\ art[t] = Drafts(0)
              \/ task[t].status # "absent" /\ LiveRow(t) /\ find[f].status = "accepted"
<1> PICK t \in Tasks : t = CurrentTask(f)
  BY DEF IInv, TypeOK, CurrentTask, Tasks
<1>1. /\ t[1] = f /\ t[2] = find[f].cycle /\ find[f].cycle \in Cycles
      /\ task[t] \in TaskRow
  BY DEF IInv, TypeOK, CurrentTask
<1>2. ~(find[f].cycle < find[f].cycle)
  BY <1>1 DEF Cycles
<1>3. ~task[t].superseded
  BY <1>1, <1>2 DEF IInv, RowInv, ClosedRow
<1>4. Approved(t) => find[f].status = "accepted"
  BY <1>1 DEF Approved
<1> QED
  BY <1>1, <1>3, <1>4 DEF IInv, RowInv, LiveRow

LEMMA ShownIs ==
    ASSUME NEW f \in Finds, NEW k \in 0..RevisionCap, art[CurrentTask(f)] = Drafts(k)
    PROVE  Shown(f) = k
<1>1. \A r \in Revisions : art[CurrentTask(f)][r] = "current" <=> r = k
  BY DEF Drafts
<1>2. CASE k = 0
  BY <1>1, <1>2 DEF Shown, Revisions
<1>3. CASE k # 0
  <2>1. k \in Revisions
    BY <1>3, Assumptions DEF Revisions
  <2> QED
    BY <1>1, <2>1 DEF Shown
<1> QED
  BY <1>2, <1>3

\* What the board of an approved find can show.
LEMMA ShownRange ==
    ASSUME IInv, NEW f \in Finds
    PROVE  LET row == task[CurrentTask(f)] IN
           /\ row.status = "absent" => Shown(f) = 0 /\ row.revision = 1
           /\ row.status # "absent" => Shown(f) \in {row.revision - 1, row.revision}
           /\ row.status = "completed" => Shown(f) = row.revision
<1> DEFINE t == CurrentTask(f)
<1>1. CASE task[t] = NoRow /\ art[t] = Drafts(0)
  <2>1. Shown(f) = 0
    BY <1>1, ShownIs, ConstantFacts
  <2> QED
    BY <1>1, <2>1 DEF NoRow
<1>2. CASE task[t].status # "absent" /\ LiveRow(t)
  <2>1. task[t].revision \in 0..RevisionCap /\ task[t].revision - 1 \in 0..RevisionCap
    BY CurrentRow, ConstantFacts DEF TaskRow, Revisions
  <2>2. art[t] = Drafts(task[t].revision) => Shown(f) = task[t].revision
    BY <2>1, ShownIs
  <2>3. art[t] = Drafts(task[t].revision - 1) => Shown(f) = task[t].revision - 1
    BY <2>1, ShownIs
  <2> QED
    BY <1>2, <2>2, <2>3 DEF LiveRow, Stored
<1> QED
  BY <1>1, <1>2, CurrentRow

\* A find whose decision, current row's revision and drafts are unchanged.
LEMMA SameView ==
    ASSUME NEW f \in Finds, find'[f] = find[f],
           task'[CurrentTask(f)].revision = task[CurrentTask(f)].revision,
           art'[CurrentTask(f)] = art[CurrentTask(f)]
    PROVE  WantedOf(f)' = WantedOf(f) /\ Shown(f)' = Shown(f)
<1>1. CurrentTask(f)' = CurrentTask(f)
  BY DEF CurrentTask
<1> QED
  BY <1>1 DEF WantedOf, Shown

\* Views unchanged: a stuttering step of the contract.
LEMMA Stutters ==
    ASSUME IInv, \A f \in Finds : /\ find'[f] = find[f]
                                  /\ WantedOf(f)' = WantedOf(f)
                                  /\ Shown(f)' = Shown(f)
    PROVE  UNCHANGED Contract!dcVars
<1>1. [f \in Finds |-> find[f].status]' = [f \in Finds |-> find[f].status]
  OBVIOUS
<1>2. [f \in Finds |-> find[f].cycle]' = [f \in Finds |-> find[f].cycle]
  OBVIOUS
<1>3. [f \in Finds |-> WantedOf(f)]' = [f \in Finds |-> WantedOf(f)]
  OBVIOUS
<1>4. [f \in Finds |-> Shown(f)]' = [f \in Finds |-> Shown(f)]
  OBVIOUS
<1> QED
  BY <1>1, <1>2, <1>3, <1>4 DEF Contract!dcVars, WantedOf

\* One find moves: each variable of the contract changes at that find only.
LEMMA OneFindMoves ==
    ASSUME NEW f \in Finds,
           \A g \in Finds : g # f => /\ find'[g] = find[g]
                                     /\ WantedOf(g)' = WantedOf(g)
                                     /\ Shown(g)' = Shown(g)
    PROVE  LET s == [g \in Finds |-> find[g].status]
               c == [g \in Finds |-> find[g].cycle]
               n == [g \in Finds |-> WantedOf(g)]
               b == [g \in Finds |-> Shown(g)]
           IN  /\ s' = [s EXCEPT ![f] = find'[f].status]
               /\ c' = [c EXCEPT ![f] = find'[f].cycle]
               /\ n' = [n EXCEPT ![f] = WantedOf(f)']
               /\ b' = [b EXCEPT ![f] = Shown(f)']
               /\ find'[f].status = find[f].status => s' = s
               /\ find'[f].cycle = find[f].cycle => c' = c
               /\ WantedOf(f)' = WantedOf(f) => n' = n
               /\ Shown(f)' = Shown(f) => b' = b
OBVIOUS

\* Steps that leave the decisions, the boards and the revisions alone.
LEMMA QuietView ==
    ASSUME IInv, UNCHANGED <<find, art>>,
           \A t \in Tasks : task'[t].revision = task[t].revision
    PROVE  UNCHANGED Contract!dcVars
<1>1. ASSUME NEW f \in Finds
      PROVE  WantedOf(f)' = WantedOf(f) /\ Shown(f)' = Shown(f)
  BY CurrentRow, SameView
<1> QED
  BY <1>1, Stutters

LEMMA ApproveMaps ==
    ASSUME IInv, NEW f \in Finds, Approve(f)
    PROVE  [Contract!Next]_Contract!dcVars
<1>0. /\ find \in [Finds -> [status : FindStatus, cycle : Cycles]]
      /\ UNCHANGED <<task, art>>
      /\ find' = [find EXCEPT ![f].status = "accepted"]
  BY DEF IInv, TypeOK, Approve
<1>1. CASE find[f].status = "accepted"
  <2>1. find' = find
    BY <1>0, <1>1
  <2> QED
    BY <1>0, <2>1, QuietView
<1>2. CASE find[f].status # "accepted"
  <2>1. find[f].status \in {"proposed", "rejected"}
    BY <1>0, <1>2 DEF FindStatus
  <2>2. find'[f].status = "accepted" /\ find'[f].cycle = find[f].cycle
    BY <1>0
  <2>3. CurrentTask(f)' = CurrentTask(f)
    BY <2>2 DEF CurrentTask
  <2>4. task[CurrentTask(f)].revision = 1
    BY <1>2, CurrentRow DEF NoRow
  <2>5. WantedOf(f)' = 1 /\ Shown(f)' = Shown(f)
    BY <1>0, <2>2, <2>3, <2>4 DEF WantedOf, Shown
  <2>6. \A g \in Finds : g # f => /\ find'[g] = find[g]
                                  /\ WantedOf(g)' = WantedOf(g)
                                  /\ Shown(g)' = Shown(g)
    BY <1>0, SameView
  <2>7. Contract!Accept(f)
    BY <2>1, <2>2, <2>5, <2>6, OneFindMoves DEF Contract!Accept, WantedOf
  <2> QED
    BY <2>7 DEF Contract!Next
<1> QED
  BY <1>1, <1>2

LEMMA PassMaps ==
    ASSUME IInv, NEW f \in Finds, PassFind(f)
    PROVE  [Contract!Next]_Contract!dcVars
<1>0. /\ find \in [Finds -> [status : FindStatus, cycle : Cycles]]
      /\ UNCHANGED <<task, art>> /\ find[f].status = "proposed"
      /\ find' = [find EXCEPT ![f].status = "rejected"]
  BY DEF IInv, TypeOK, PassFind
<1>1. find'[f].status = "rejected" /\ find'[f].cycle = find[f].cycle
  BY <1>0
<1>2. CurrentTask(f)' = CurrentTask(f)
  BY <1>1 DEF CurrentTask
<1>3. WantedOf(f)' = WantedOf(f) /\ Shown(f)' = Shown(f)
  BY <1>0, <1>1, <1>2 DEF WantedOf, Shown
<1>4. \A g \in Finds : g # f => /\ find'[g] = find[g]
                                /\ WantedOf(g)' = WantedOf(g)
                                /\ Shown(g)' = Shown(g)
  BY <1>0, SameView
<1>5. Contract!Pass(f)
  BY <1>0, <1>1, <1>3, <1>4, OneFindMoves DEF Contract!Pass, WantedOf
<1> QED
  BY <1>5 DEF Contract!Next

\* The next cycle's row has never been created: its board is empty.
LEMMA ReopenMaps ==
    ASSUME IInv, NEW f \in Finds, Reconsider(f)
    PROVE  [Contract!Next]_Contract!dcVars
<1>0. /\ find \in [Finds -> [status : FindStatus, cycle : Cycles]]
      /\ task \in [Tasks -> TaskRow]
      /\ find[f].status = "accepted" /\ find[f].cycle < MaxCycle
      /\ find' = [find EXCEPT ![f] = [status |-> "proposed", cycle |-> find[f].cycle + 1]]
  BY DEF IInv, TypeOK, Reconsider
<1>1. find'[f].status = "proposed" /\ find'[f].cycle = find[f].cycle + 1
  BY <1>0
<1>2. ASSUME NEW g \in Finds, g # f
      PROVE  /\ find'[g] = find[g]
             /\ WantedOf(g)' = WantedOf(g)
             /\ Shown(g)' = Shown(g)
  <2>1. find'[g] = find[g]
    BY <1>0, <1>2
  <2> PICK t \in Tasks : t = CurrentTask(g)
    BY <1>2, CurrentRow
  <2>2. t[1] # f
    BY <1>2 DEF CurrentTask
  <2>3. task'[t] = task[t]
    BY <2>2 DEF Reconsider
  <2>4. art'[t] = art[t]
    BY <2>2 DEF Reconsider, IInv, TypeOK
  <2> QED
    BY <1>2, <2>1, <2>3, <2>4, SameView
<1>3. WantedOf(f)' = 0
  BY <1>1 DEF WantedOf
<1>4. Shown(f)' = 0
  <2>0. find[f].cycle + 1 \in Cycles
    BY <1>0, Assumptions DEF Cycles
  <2> PICK t \in Tasks : t = <<f, find[f].cycle + 1>>
    BY <2>0 DEF Tasks
  <2>1. find[f].cycle \in Cycles /\ t[1] = f /\ t[2] = find[f].cycle + 1
    BY <1>0
  <2>2. t[2] # find[f].cycle /\ ~(t[2] < find[f].cycle)
    BY <2>1 DEF Cycles
  <2>3. ~Approved(t)
    BY <2>1, <2>2 DEF Approved
  <2>4. art[t] = Drafts(0)
    BY <2>1, <2>2, <2>3 DEF IInv, RowInv, LiveRow, ClosedRow
  <2>5. \A r \in Revisions : art[t][r] # "current"
    BY <2>4 DEF Drafts, Revisions
  <2>6. \A r \in Revisions : art'[t][r] # "current"
    BY <2>5 DEF Reconsider
  <2>7. CurrentTask(f)' = t
    BY <1>1 DEF CurrentTask
  <2> QED
    BY <2>6, <2>7 DEF Shown
<1>5. Contract!Reopen(f)
  BY <1>0, <1>1, <1>2, <1>3, <1>4, OneFindMoves DEF Contract!Reopen, WantedOf
<1> QED
  BY <1>5 DEF Contract!Next

\* The completed row's draft is on the board, and one more is wanted.
LEMMA RevisionMaps ==
    ASSUME IInv, NEW f \in Finds, RequestRevision(f)
    PROVE  [Contract!Next]_Contract!dcVars
<1> PICK t \in Tasks : t = CurrentTask(f)
  BY CurrentRow
<1>1. /\ task \in [Tasks -> TaskRow] /\ task[t] \in TaskRow
      /\ UNCHANGED <<find, art>>
      /\ find[f].status = "accepted" /\ task[t].status = "completed"
      /\ task[t].revision < RevisionCap
  BY DEF IInv, TypeOK, RequestRevision, Revisable
<1>2. /\ task'[t].revision = task[t].revision + 1
      /\ \A u \in Tasks : u # t => task'[u] = task[u]
  BY <1>1 DEF RequestRevision, TaskRow
<1>3. CurrentTask(f)' = t
  BY <1>1 DEF CurrentTask
<1>4. WantedOf(f) = task[t].revision /\ WantedOf(f)' = task[t].revision + 1
  BY <1>1, <1>2, <1>3 DEF WantedOf
<1>5. Shown(f) = task[t].revision /\ Shown(f)' = Shown(f)
  BY <1>1, <1>3, ShownRange DEF Shown
<1>6. ASSUME NEW g \in Finds, g # f
      PROVE  find'[g] = find[g] /\ WantedOf(g)' = WantedOf(g) /\ Shown(g)' = Shown(g)
  <2>1. CurrentTask(g) \in Tasks /\ CurrentTask(g) # t
    BY <1>6, CurrentRow DEF CurrentTask
  <2> QED
    BY <1>1, <1>2, <1>6, <2>1, SameView
<1>7. Contract!AskRevision(f)
  BY <1>1, <1>4, <1>5, <1>6, OneFindMoves DEF Contract!AskRevision, WantedOf
<1> QED
  BY <1>7 DEF Contract!Next

\* A draft stored for the first time is the next one; a draft stored again, or
\* refused because the approval is gone, changes nothing the owner sees.
LEMMA StoreMaps ==
    ASSUME IInv, NEW w \in Workers, StoreDraft(w)
    PROVE  [Contract!Next]_Contract!dcVars
<1> PICK t \in Tasks : t = worker[w].task
  BY Holders DEF StoreDraft, Holding
<1> PICK f \in Finds : f = t[1]
  BY DEF Tasks
<1>1. CASE UNCHANGED art
  BY <1>1, QuietView DEF StoreDraft
<1>2. CASE task[t].status = "running" /\ ~task[t].superseded /\ Approved(t)
  <2>1. /\ LiveRow(t) /\ UNCHANGED <<find, task>>
        /\ art'[t] = Drafts(task[t].revision)
        /\ \A u \in Tasks : u # t => art'[u] = art[u]
    BY <1>2, StoreLands
  <2>2. t = CurrentTask(f) /\ find[f].status = "accepted" /\ CurrentTask(f)' = t
    BY <1>2, <2>1 DEF Approved, CurrentTask, Tasks
  <2>3. task[t].revision \in 0..RevisionCap /\ task[t].revision - 1 \in 0..RevisionCap
    BY <2>2, CurrentRow, ConstantFacts DEF TaskRow, Revisions
  <2>4. \A r \in Revisions : art'[t][r] = "current" <=> r = task[t].revision
    BY <2>1, <2>3 DEF Drafts, Revisions
  <2>5. Shown(f)' = task[t].revision
    BY <2>2, <2>4, CurrentRow DEF Shown, TaskRow
  <2>6. WantedOf(f) = task[t].revision /\ WantedOf(f)' = WantedOf(f)
    BY <2>1, <2>2 DEF WantedOf
  <2>7. ASSUME NEW g \in Finds, g # f
        PROVE  find'[g] = find[g] /\ WantedOf(g)' = WantedOf(g) /\ Shown(g)' = Shown(g)
    <3>1. CurrentTask(g) \in Tasks /\ CurrentTask(g) # t
      BY <2>2, <2>7, CurrentRow DEF CurrentTask
    <3> QED
      BY <2>1, <2>7, <3>1, SameView
  <2>8. CASE Shown(f) = task[t].revision
    BY <2>1, <2>5, <2>6, <2>7, <2>8, Stutters
  <2>9. CASE Shown(f) = task[t].revision - 1
    <3>1. Shown(f) + 1 = WantedOf(f) /\ Shown(f)' = Shown(f) + 1
      BY <2>3, <2>5, <2>6, <2>9
    <3>2. Contract!Deliver(f)
      BY <2>1, <2>2, <2>6, <2>7, <3>1, OneFindMoves DEF Contract!Deliver, WantedOf
    <3> QED
      BY <3>2 DEF Contract!Next
  <2> QED
    BY <1>2, <2>2, <2>8, <2>9, ShownRange
<1> QED
  BY <1>1, <1>2 DEF StoreDraft

\* A row changed at most in the columns the contract does not see.
LEMMA OneRowQuiet ==
    ASSUME IInv, UNCHANGED <<find, art>>, NEW t \in Tasks, NEW row \in TaskRow,
           task' = [task EXCEPT ![t] = row], row.revision = task[t].revision
    PROVE  UNCHANGED Contract!dcVars
<1>1. \A u \in Tasks : task'[u].revision = task[u].revision
  BY DEF IInv, TypeOK
<1> QED
  BY <1>1, QuietView

\* Every other step: bookkeeping the owner does not see.
LEMMA OwnerQuiet ==
    ASSUME IInv, NEW f \in Finds,
           \/ CreateTask(f) \/ DispatchOwed(f) \/ RequestDies(f)
           \/ AskRevision(f) \/ RefuseRevision(f) \/ ReconcileCreate(f)
    PROVE  UNCHANGED Contract!dcVars
<1> PICK c \in Tasks : c = CurrentTask(f)
  BY CurrentRow
<1>0. task \in [Tasks -> TaskRow] /\ UNCHANGED <<find, art>>
  BY DEF IInv, TypeOK, CreateTask, DispatchOwed, RequestDies, AskRevision,
         RefuseRevision, ReconcileCreate
<1>1. ASSUME task' = Created(f) PROVE \A t \in Tasks : task'[t].revision = task[t].revision
  BY <1>0, <1>1 DEF Created, TaskRow
<1>2. ASSUME NEW t \in Tasks, Dispatch(t)
      PROVE  \A u \in Tasks : task'[u].revision = task[u].revision
  BY <1>0, <1>2 DEF Dispatch, TaskRow
<1>3. CASE UNCHANGED task
  BY <1>0, <1>3, QuietView
<1>4. CASE task' = Created(f)
  BY <1>0, <1>1, <1>4, QuietView
<1>5. CASE DispatchOwed(f)
  <2> PICK t \in Tasks : t = <<f, owed[f].cycle>>
    BY DEF IInv, TypeOK, Tasks
  <2>1. CASE Dispatch(t)
    BY <1>0, <1>2, <2>1, QuietView
  <2> QED
    BY <1>3, <1>5, <2>1 DEF DispatchOwed
<1> QED
  BY <1>3, <1>4, <1>5 DEF CreateTask, RequestDies, AskRevision, RefuseRevision,
                          ReconcileCreate

LEMMA WorkerQuiet ==
    ASSUME IInv, NEW w \in Workers,
           \/ Claim(w) \/ CheckFind(w) \/ Lookup(w) \/ ModelFails(w) \/ ModelAnswers(w)
           \/ RecheckClaim(w) \/ CompleteTask(w) \/ HandleError(w) \/ Crash(w)
    PROVE  UNCHANGED Contract!dcVars
<1> PICK t \in Tasks : t = worker[w].task
  BY DEF IInv, WorkerInv, Claim, CheckFind, Lookup, ModelFails, ModelAnswers,
         RecheckClaim, CompleteTask, HandleError, Crash
<1>1. /\ task \in [Tasks -> TaskRow] /\ task[t] \in TaskRow
      /\ UNCHANGED <<find, art>>
  BY DEF IInv, TypeOK, Claim, CheckFind, Lookup, ModelFails, ModelAnswers,
         RecheckClaim, CompleteTask, HandleError, Crash
<1>2. CASE UNCHANGED task
  BY <1>1, <1>2, QuietView
<1>3. CASE task' = [task EXCEPT ![t] =
                     [@ EXCEPT !.status = "running", !.token = w, !.lease = "held",
                               !.due = TRUE, !.attempt = task[t].attempt + 1]]
  BY <1>1, <1>3, QuietView DEF TaskRow
<1>4. CASE task' = [task EXCEPT ![t] = Failed(@)]
  BY <1>1, <1>4, QuietView DEF TaskRow, Failed
<1>5. CASE task' = [task EXCEPT ![t] = Retrying(@)]
  BY <1>1, <1>5, QuietView DEF TaskRow, Retrying
<1>6. CASE task' = [task EXCEPT ![t] =
                     [@ EXCEPT !.status = "completed", !.output = worker[w].revision,
                               !.token = Nobody, !.lease = "none", !.due = TRUE]]
  BY <1>1, <1>6, QuietView DEF TaskRow
<1>7. HandleError(w) => \/ UNCHANGED task
                        \/ task' = [task EXCEPT ![t] = Failed(@)]
                        \/ task' = [task EXCEPT ![t] = Retrying(@)]
  BY DEF HandleError
<1> QED
  BY <1>2, <1>3, <1>4, <1>5, <1>6, <1>7
    DEF Claim, CheckFind, Lookup, ModelFails, ModelAnswers, RecheckClaim,
        CompleteTask, Crash

LEMMA ClockQuiet ==
    ASSUME IInv, NEW t \in Tasks,
           \/ ReconcileDispatch(t) \/ BackoffElapses(t) \/ LeaseExpires(t)
           \/ DispatchLost(t) \/ \E w \in Workers : Begin(w, t)
    PROVE  UNCHANGED Contract!dcVars
<1>1. task \in [Tasks -> TaskRow] /\ task[t] \in TaskRow /\ UNCHANGED <<find, art>>
  BY DEF IInv, TypeOK, ReconcileDispatch, BackoffElapses, LeaseExpires, DispatchLost, Begin
<1>2. \A u \in Tasks : task'[u].revision = task[u].revision
  BY <1>1 DEF TaskRow, ReconcileDispatch, Dispatch, BackoffElapses, LeaseExpires,
              DispatchLost, Begin
<1> QED
  BY <1>1, <1>2, QuietView

LEMMA RecoverQuiet ==
    ASSUME IInv, RecoverStale
    PROVE  UNCHANGED Contract!dcVars
<1>1. \A t \in Tasks : task'[t].revision = task[t].revision
  <2>1. \A row \in TaskRow : Recovered(row).revision = row.revision
    BY DEF TaskRow, Recovered
  <2>2. ASSUME NEW t \in Tasks
        PROVE  task[t] \in TaskRow /\ task'[t] \in {task[t], Recovered(task[t])}
    BY DEF IInv, TypeOK, RecoverStale
  <2> QED
    BY <2>1, <2>2
<1> QED
  BY <1>1, QuietView DEF RecoverStale

\* Every step of the control plane is a step of the contract, or none.
LEMMA StepMaps ==
    IInv /\ [Next]_vars => [Contract!Next]_Contract!dcVars
<1> SUFFICES ASSUME IInv, [Next]_vars PROVE [Contract!Next]_Contract!dcVars
  OBVIOUS
<1>1. ASSUME NEW f \in Finds, OwnerStep(f) \/ ReconcileCreate(f)
      PROVE  [Contract!Next]_Contract!dcVars
  BY <1>1, ApproveMaps, PassMaps, ReopenMaps, RevisionMaps, OwnerQuiet DEF OwnerStep
<1>2. ASSUME NEW w \in Workers, WorkerStep(w) \/ Crash(w)
      PROVE  [Contract!Next]_Contract!dcVars
  BY <1>2, StoreMaps, WorkerQuiet DEF WorkerStep
<1>3. CASE UNCHANGED vars
  BY <1>3, QuietView DEF vars
<1> QED
  BY <1>1, <1>2, <1>3, ClockQuiet, RecoverQuiet DEF Next

LEMMA InitMaps == Init => Contract!Init
<1> SUFFICES ASSUME Init PROVE Contract!Init
  OBVIOUS
<1>1. IInv
  BY IInvInit
<1>2. \A f \in Finds : find[f].status = "proposed" /\ find[f].cycle = 1
  BY DEF Init
<1>3. \A f \in Finds : Shown(f) = 0 /\ WantedOf(f) = 0
  BY <1>1, <1>2, ShownRange, CurrentRow DEF WantedOf, NoRow
<1> QED
  BY <1>2, <1>3 DEF Contract!Init, WantedOf

\* Whatever queues, retries and crashes do, the owner sees drafts one at a time,
\* each asked for, and only under an approval in force.
THEOREM KeepsContract == ~LeaseOutlived /\ Spec => ImplementsContract
<1>1. IInv /\ [Next]_vars => [Contract!Next]_Contract!dcVars
  BY StepMaps
<1> QED
  BY <1>1, InitMaps, Consistent, PTL DEF Spec, ImplementsContract, Contract!Spec
=============================================================================
