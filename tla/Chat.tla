-------------------------------- MODULE Chat --------------------------------
\* A turn of the owner's conversation (handlers/ask.py, agents/ask.py) about one
\* recommendation: an instruction is carried out before anything is written down,
\* a question goes to a model. Both leave an agent_run row and two messages.
\* Of the agent_run rows of a business only the newest is ever asked about.
EXTENDS Integers

CONSTANTS
    Turns,          \* requests in flight
    StaleAfter,     \* STALE_RUN_AFTER, in units of the coarse clock
    MaxLosses       \* bound on functions killed and closing writes that fail

ASSUME ChatAssumption == StaleAfter \in Nat \ {0} /\ MaxLosses \in Nat

VARIABLES
    newest,     \* the newest agent_run row: whose, open, its age while it
                \* is (of a closed row nobody asks), and whether
                \* nobody is left who would close it (a fact no code can read);
                \* and, for the bound, the losses so far
    find,       \* status of the recommendation
    draft,      \* its Maker draft: "none", "making" or "ready"
    turn        \* the requests

chatVars == <<newest, find, draft, turn>>

Idle == [pc |-> "idle", word |-> "question", acted |-> "no", run |-> "none",
         asked |-> FALSE, answered |-> FALSE, told |-> "nothing"]

Statuses == {"absent", "proposed", "accepted", "rejected"}

ChatTypeOK ==
    /\ newest.open \in BOOLEAN /\ newest.lost \in BOOLEAN /\ newest.age \in 0..StaleAfter
    /\ newest.losses \in 0..MaxLosses
    /\ find \in Statuses /\ draft \in {"none", "making", "ready"}
    /\ \A t \in Turns :
          /\ turn[t].word \in {"question", "undo", "reconsider", "revise"}
          /\ turn[t].acted \in {"no", "changed", "handed_on"}
          /\ turn[t].run \in {"none", "open", "ok", "failed"}
          /\ turn[t].told \in {"nothing", "done", "error", "converged"}

ChatInit ==
    /\ newest = [by |-> "nobody", open |-> FALSE, age |-> 0, lost |-> FALSE,
                 losses |-> 0]
    /\ find = "absent" /\ draft = "none"
    /\ turn = [t \in Turns |-> Idle]

-----------------------------------------------------------------------------
\* agent_run rows.

StartRun(who) ==
    newest' = [newest EXCEPT !.by = who, !.open = TRUE, !.age = 0, !.lost = FALSE]
FinishRun(who) ==
    newest' = IF newest.by = who THEN [newest EXCEPT !.open = FALSE, !.age = 0] ELSE newest
\* Whoever would have closed the row is gone, or its closing failed.
LoseRun(who) ==
    /\ newest.losses < MaxLosses
    /\ newest' = [newest EXCEPT !.losses = @ + 1,
                                !.lost = @ \/ (newest.by = who /\ newest.open)]
\* finish_run on a path that swallows its error.
TryFinish(who) == FinishRun(who) \/ LoseRun(who)

-----------------------------------------------------------------------------
\* The owner at her board, and the Maker.

Decide ==
    /\ find \in {"proposed", "rejected"}
    /\ \/ find' = "accepted" /\ draft' = "making"
       \/ find' = "rejected" /\ UNCHANGED draft
    /\ UNCHANGED <<newest, turn>>

Reconsider ==
    /\ find = "accepted"
    /\ find' = "proposed" /\ draft' = "none"
    /\ UNCHANGED <<newest, turn>>

Deliver ==
    /\ draft = "making" /\ draft' = "ready"
    /\ UNCHANGED <<newest, find, turn>>

-----------------------------------------------------------------------------
Reply(t, told) == [turn[t] EXCEPT !.pc = "replied", !.told = told]

\* What she wrote is read as an instruction only where one is possible.
MayMean(word) ==
    CASE word = "undo" -> find = "rejected"
      [] word \in {"reconsider", "revise"} -> find = "accepted"
      [] OTHER -> TRUE

Hear(t) ==
    /\ turn[t].pc = "idle"
    /\ \E word \in {"question", "undo", "reconsider", "revise"} :
          /\ MayMean(word)
          /\ turn' = [turn EXCEPT ![t] = [Idle EXCEPT
                         !.pc = IF word = "question" THEN "open" ELSE "check", !.word = word]]
    /\ UNCHANGED <<newest, find, draft>>

\* Each command reads the recommendation again before it acts ...
StillMeans(word) ==
    CASE word = "undo" -> find \in {"rejected", "accepted"}
      [] word = "reconsider" -> find \in {"accepted", "proposed"}
      [] word = "revise" -> find = "accepted"

Check(t) ==
    /\ turn[t].pc = "check"
    /\ turn' = [turn EXCEPT ![t] = IF StillMeans(turn[t].word)
                                   THEN [@ EXCEPT !.pc = "act"] ELSE Reply(t, "error")]
    /\ UNCHANGED <<newest, find, draft>>

\* A draft at its limit of revisions: she is told that nothing was queued.
Converged(t) ==
    /\ turn[t].pc = "check" /\ turn[t].word = "revise" /\ find = "accepted"
    /\ turn' = [turn EXCEPT ![t] = Reply(t, "converged")]
    /\ UNCHANGED <<newest, find, draft>>

\* ... and then changes it, in a transaction with its own conditions.
UndoPass == find' = "accepted" /\ draft' = IF find = "accepted" THEN draft ELSE "making"
Reopen == find \in {"accepted", "proposed"} /\ find' = "proposed" /\ draft' = "none"
Revise == find = "accepted" /\ draft = "ready" /\ draft' = "making" /\ UNCHANGED find
Effect(word) ==
    \/ word = "undo" /\ UndoPass
    \/ word = "reconsider" /\ Reopen
    \/ word = "revise" /\ Revise

Act(t) ==
    /\ turn[t].pc = "act"
    /\ Effect(turn[t].word)
    /\ turn' = [turn EXCEPT ![t] = IF @.word = "reconsider"
                                   THEN [@ EXCEPT !.pc = "open", !.acted = "handed_on"]
                                   ELSE [@ EXCEPT !.pc = "dispatch", !.acted = "changed"]]
    /\ UNCHANGED newest

\* The transaction refuses, or cannot be committed.
ActRefused(t) ==
    /\ turn[t].pc = "act"
    /\ turn' = [turn EXCEPT ![t] = Reply(t, "error")]
    /\ UNCHANGED <<newest, find, draft>>

\* The task is handed to the Maker. Nothing guards this call: when it raises, the
\* recommendation is changed and the answer is an error.
HandOn(t) ==
    /\ turn[t].pc = "dispatch"
    /\ turn' = [turn EXCEPT ![t].pc = "open", ![t].acted = "handed_on"]
    /\ UNCHANGED <<newest, find, draft>>

HandOnRaises(t) ==
    /\ turn[t].pc = "dispatch"
    /\ turn' = [turn EXCEPT ![t] = Reply(t, "error")]
    /\ UNCHANGED <<newest, find, draft>>

\* The row of the turn. An instruction is already carried out: what goes wrong
\* from here on costs its receipt and not its answer.
Acted(t) == turn[t].acted = "handed_on"
Outcome(t) == IF Acted(t) THEN "done" ELSE "error"

OpenRun(t) ==
    /\ turn[t].pc = "open"
    /\ StartRun(t)
    /\ turn' = [turn EXCEPT ![t].pc = "question", ![t].run = "open"]
    /\ UNCHANGED <<find, draft>>

OpenFails(t) ==
    /\ turn[t].pc = "open"
    /\ turn' = [turn EXCEPT ![t] = Reply(t, Outcome(t))]
    /\ UNCHANGED <<newest, find, draft>>

StoreQuestion(t) ==
    /\ turn[t].pc = "question"
    /\ turn' = [turn EXCEPT ![t].asked = TRUE,
                            ![t].pc = IF Acted(t) THEN "answer" ELSE "reason"]
    /\ UNCHANGED <<newest, find, draft>>

\* run_ask: the model answers, and the row is closed before the answer is kept.
Reason(t) ==
    /\ turn[t].pc = "reason"
    /\ FinishRun(t)
    /\ turn' = [turn EXCEPT ![t].pc = "answer", ![t].run = "ok"]
    /\ UNCHANGED <<find, draft>>

StoreAnswer(t) ==
    /\ turn[t].pc = "answer"
    /\ turn' = [turn EXCEPT ![t] =
          IF Acted(t) THEN [@ EXCEPT !.answered = TRUE, !.pc = "close"]
          ELSE [Reply(t, "done") EXCEPT !.answered = TRUE]]
    /\ UNCHANGED <<newest, find, draft>>

Close(t) ==
    /\ turn[t].pc = "close"
    /\ FinishRun(t)
    /\ turn' = [turn EXCEPT ![t] = [Reply(t, "done") EXCEPT !.run = "ok"]]
    /\ UNCHANGED <<find, draft>>

\* A write or the model fails: the row is closed as failed, if that succeeds.
\* A plausible bug: the answer is an error whatever was done.
FailsAsError(t) ==
    /\ turn[t].pc \in {"question", "reason", "answer", "close"} /\ turn[t].run = "open"
    /\ TryFinish(t)
    /\ turn' = [turn EXCEPT ![t] = [Reply(t, "error") EXCEPT !.run = "failed"]]
    /\ UNCHANGED <<find, draft>>
Fails(t) ==
    /\ turn[t].pc \in {"question", "reason", "answer", "close"} /\ turn[t].run = "open"
    /\ TryFinish(t)
    /\ turn' = [turn EXCEPT ![t] = [Reply(t, Outcome(t)) EXCEPT !.run = "failed"]]
    /\ UNCHANGED <<find, draft>>

\* Only the memory of an answer that was given is lost.
AnswerNotKept(t) ==
    /\ turn[t].pc = "answer" /\ turn[t].run = "ok"
    /\ turn' = [turn EXCEPT ![t] = Reply(t, "done")]
    /\ UNCHANGED <<newest, find, draft>>

\* Counting the messages for the reply of a question is not guarded.
CountFails(t) ==
    /\ turn[t].pc = "replied" /\ turn[t].word = "question" /\ turn[t].asked
    /\ turn[t].told = "done"
    /\ turn' = [turn EXCEPT ![t].told = "error"]
    /\ UNCHANGED <<newest, find, draft>>

Leave(t) ==
    /\ turn[t].pc = "replied"
    /\ turn' = [turn EXCEPT ![t] = Idle]
    /\ UNCHANGED <<newest, find, draft>>

TurnDies(t) ==
    /\ turn[t].pc \notin {"idle", "replied"}
    /\ LoseRun(t)
    /\ turn' = [turn EXCEPT ![t] = Idle]
    /\ UNCHANGED <<find, draft>>

TurnStep(t) ==
    \/ Check(t) \/ Converged(t) \/ Act(t) \/ ActRefused(t) \/ HandOn(t)
    \/ HandOnRaises(t) \/ OpenRun(t) \/ OpenFails(t)
    \/ StoreQuestion(t) \/ Reason(t) \/ StoreAnswer(t) \/ Close(t) \/ Fails(t)
    \/ AnswerNotKept(t) \/ CountFails(t) \/ Leave(t)

ChatNext ==
    \/ Decide \/ Reconsider \/ Deliver
    \/ \E t \in Turns : Hear(t) \/ TurnStep(t) \/ TurnDies(t)

-----------------------------------------------------------------------------
\* A reply about an instruction says what happened to the recommendation, however
\* much of its receipt was lost (handlers/ask.py:556): "done" only if it was
\* carried out, and never an error once the Maker has it. A receipt that says "ok"
\* is whole: the messages it names are stored.
ChatTellsTruth ==
    \A t \in Turns :
        /\ turn[t].pc = "replied" /\ turn[t].word # "question" =>
              (turn[t].told = "done" <=> Acted(t))
        /\ turn[t].run = "ok" => turn[t].asked /\ (Acted(t) => turn[t].answered)
        /\ turn[t].answered => turn[t].asked
=============================================================================
