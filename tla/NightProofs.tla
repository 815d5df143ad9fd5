----------------------------- MODULE NightProofs ----------------------------
(***************************************************************************)
(* Theorems about the conversation and the night, for any number of turns, *)
(* nights, retries and losses: what a reply says is true, and an open      *)
(* agent_run row belongs to somebody.  Neither is inductive: a reply is    *)
(* true because of what the turn knows at each program counter before it.  *)
(***************************************************************************)
EXTENDS Night, TLAPS

TurnPcs == {"idle", "check", "act", "dispatch", "open", "question", "reason", "answer",
            "close", "replied"}
TurnRow == [pc : TurnPcs, word : {"question", "undo", "reconsider", "revise"},
            acted : {"no", "changed", "handed_on"}, run : {"none", "open", "ok", "failed"},
            asked : BOOLEAN, answered : BOOLEAN,
            told : {"nothing", "done", "error", "converged"}]
NightPcs == Agents \cup {"idle", "pressed", "queued", "observed", "reasoned", "measured"}
NightRow == [pc : NightPcs, left : 0..Retries]
RunRow == [by : {"nobody"} \cup Turns \cup Nights, open : BOOLEAN, age : 0..StaleAfter,
           lost : BOOLEAN, losses : 0..MaxLosses]

Types ==
    /\ newest \in RunRow /\ latest \in 0..Cooldown \cup {Null}
    /\ find \in Statuses /\ draft \in {"none", "making", "ready"}
    /\ turn \in [Turns -> TurnRow] /\ night \in [Nights -> NightRow]

\* What a turn has done and stored at each program counter.
Sound(q) ==
    /\ q.word = "question" => q.acted = "no"
    /\ q.pc \in {"idle", "check", "act", "dispatch", "open"} =>
          q.run = "none" /\ ~q.asked /\ ~q.answered
    /\ q.pc = "check" \/ q.pc = "act" => q.acted = "no"
    /\ q.pc = "dispatch" => q.acted = "changed"
    /\ q.pc \in {"open", "question", "reason", "answer", "close"} =>
          q.word = "question" \/ q.acted = "handed_on"
    /\ q.pc = "question" => q.run = "open" /\ ~q.asked /\ ~q.answered
    /\ q.pc = "reason" => q.run = "open" /\ q.asked /\ ~q.answered /\ q.acted = "no"
    /\ q.pc = "answer" => /\ q.asked /\ ~q.answered
                          /\ q.run = IF q.acted = "handed_on" THEN "open" ELSE "ok"
    /\ q.pc = "close" => q.run = "open" /\ q.asked /\ q.answered /\ q.acted = "handed_on"
    /\ q.pc = "replied" =>
          /\ q.word # "question" => (q.told = "done" <=> q.acted = "handed_on")
          /\ q.run = "ok" => q.asked /\ (q.acted = "handed_on" => q.answered)
          /\ q.answered => q.asked
          /\ q.run # "open"

IInv == Types /\ OpenRowIsWorked /\ \A t \in Turns : Sound(turn[t])

-----------------------------------------------------------------------------
LEMMA IdleFacts ==
    /\ Idle \in TurnRow /\ Sound(Idle) /\ Idle.pc = "idle" /\ Idle.run = "none"
    /\ Asleep \in NightRow /\ Asleep.pc = "idle"
<1>1. Idle \in TurnRow /\ Sound(Idle) /\ Idle.pc = "idle" /\ Idle.run = "none"
  BY DEF Idle, TurnRow, TurnPcs, Sound
<1>2. Asleep \in NightRow /\ Asleep.pc = "idle"
  BY NightAssumption DEF Asleep, NightRow, NightPcs
<1> QED
  BY <1>1, <1>2

\* The three things that are done to agent_run rows.
LEMMA RunRows ==
    ASSUME newest \in RunRow, NEW who \in Turns \cup Nights
    PROVE  /\ StartRun(who) => newest' \in RunRow /\ newest'.by = who
           /\ TryFinish(who) => /\ newest' \in RunRow
                                /\ newest'.open /\ ~newest'.lost =>
                                      /\ newest.open /\ ~newest.lost
                                      /\ newest.by # who /\ newest'.by = newest.by
<1> DEFINE Mine == newest'.open /\ ~newest'.lost =>
                         /\ newest.open /\ ~newest.lost
                         /\ newest.by # who /\ newest'.by = newest.by
<1>0. 0 \in 0..StaleAfter
  BY ChatAssumption
<1>1. StartRun(who) => newest' \in RunRow /\ newest'.by = who
  BY <1>0 DEF StartRun, RunRow
<1>2. ASSUME FinishRun(who) PROVE newest' \in RunRow /\ Mine
  <2>1. CASE newest.by = who
    <3>1. newest' = [newest EXCEPT !.open = FALSE, !.age = 0]
      BY <1>2, <2>1 DEF FinishRun
    <3>2. newest' \in RunRow /\ newest'.open = FALSE
      BY <1>0, <3>1 DEF RunRow
    <3> QED
      BY <3>2
  <2>2. CASE newest.by # who
    <3>1. newest' = newest
      BY <1>2, <2>2 DEF FinishRun
    <3> QED
      BY <2>2, <3>1
  <2> QED
    BY <2>1, <2>2
<1>3. ASSUME LoseRun(who) PROVE newest' \in RunRow /\ Mine
  <2>1. newest.losses + 1 \in 0..MaxLosses
    BY <1>3, ChatAssumption DEF LoseRun, RunRow
  <2>2. newest' = [newest EXCEPT !.losses = newest.losses + 1,
                                 !.lost = newest.lost \/ (newest.by = who /\ newest.open)]
    BY <1>3 DEF LoseRun
  <2>3. newest' \in RunRow
    BY <2>1, <2>2 DEF RunRow
  <2>4. /\ newest'.open = newest.open /\ newest'.by = newest.by
        /\ newest'.lost = (newest.lost \/ (newest.by = who /\ newest.open))
    BY <2>2 DEF RunRow
  <2> QED
    BY <2>3, <2>4
<1> HIDE DEF Mine
<1>4. TryFinish(who) => newest' \in RunRow /\ Mine
  BY <1>2, <1>3 DEF TryFinish
<1> QED
  BY <1>1, <1>4 DEF Mine

\* A turn moves on, and its row with it.
LEMMA TurnMoves ==
    ASSUME IInv, NEW t \in Turns, NEW q \in TurnRow, Sound(q),
           turn' = [turn EXCEPT ![t] = q], UNCHANGED <<latest, night>>,
           find' \in Statuses, draft' \in {"none", "making", "ready"},
           \/ /\ newest' = newest
              /\ turn[t].run = "open" /\ turn[t].pc # "idle" => q.run = "open" /\ q.pc # "idle"
           \/ StartRun(t) /\ q.run = "open" /\ q.pc # "idle"
           \/ TryFinish(t)
    PROVE  IInv'
<1>0. newest \in RunRow /\ turn \in [Turns -> TurnRow]
  BY DEF IInv, Types
<1>1. /\ turn' \in [Turns -> TurnRow] /\ turn'[t] = q
      /\ \A s \in Turns \ {t} : turn'[s] = turn[s]
  BY <1>0
<1>2. newest' \in RunRow
  BY <1>0, RunRows
<1>3. Types'
  BY <1>1, <1>2 DEF IInv, Types
<1>4. \A s \in Turns : Sound(turn'[s])
  BY <1>1 DEF IInv
<1>5. OpenRowIsWorked'
  <2>1. CASE /\ newest' = newest
             /\ turn[t].run = "open" /\ turn[t].pc # "idle" => q.run = "open" /\ q.pc # "idle"
    BY <1>1, <2>1 DEF IInv, OpenRowIsWorked
  <2>2. CASE StartRun(t) /\ q.run = "open" /\ q.pc # "idle"
    BY <1>0, <1>1, <2>2, RunRows DEF OpenRowIsWorked
  <2>3. CASE TryFinish(t)
    BY <1>0, <1>1, <2>3, RunRows DEF IInv, OpenRowIsWorked
  <2> QED
    BY <2>1, <2>2, <2>3
<1> QED
  BY <1>3, <1>4, <1>5 DEF IInv

\* Each step of a turn names the record it leaves behind; TurnMoves does the rest.
LEMMA TurnSteps ==
    ASSUME IInv, NEW t \in Turns, UNCHANGED <<latest, night>>,
           Hear(t) \/ TurnStep(t) \/ TurnDies(t)
    PROVE  IInv'
<1>0. /\ turn[t] \in TurnRow /\ Sound(turn[t]) /\ turn \in [Turns -> TurnRow]
      /\ find \in Statuses /\ draft \in {"none", "making", "ready"}
  BY DEF IInv, Types
<1>1. ASSUME Check(t) PROVE IInv'
  <2>1. CASE StillMeans(turn[t].word)
    <3> DEFINE q == [turn[t] EXCEPT !.pc = "act"]
    <3>1. q \in TurnRow /\ Sound(q) /\ q.pc # "idle" /\ q.run = turn[t].run
      BY <1>0, <1>1 DEF Check, TurnRow, TurnPcs, Sound
    <3>2. turn' = [turn EXCEPT ![t] = q] /\ UNCHANGED <<newest, find, draft>>
      BY <1>1, <2>1 DEF Check
    <3> HIDE DEF q
    <3> QED
      BY <1>0, <3>1, <3>2, TurnMoves
  <2>2. CASE ~StillMeans(turn[t].word)
    <3> DEFINE q == [turn[t] EXCEPT !.pc = "replied", !.told = "error"]
    <3>1. q \in TurnRow /\ Sound(q) /\ q.pc # "idle" /\ q.run = turn[t].run
      BY <1>0, <1>1 DEF Check, TurnRow, TurnPcs, Sound
    <3>2. turn' = [turn EXCEPT ![t] = q] /\ UNCHANGED <<newest, find, draft>>
      BY <1>1, <2>2 DEF Check, Reply
    <3> HIDE DEF q
    <3> QED
      BY <1>0, <3>1, <3>2, TurnMoves
  <2> QED
    BY <2>1, <2>2
<1>2. ASSUME Converged(t) PROVE IInv'
  <2> DEFINE q == [turn[t] EXCEPT !.pc = "replied", !.told = "converged"]
  <2>1. q \in TurnRow /\ Sound(q) /\ q.pc # "idle" /\ q.run = turn[t].run
    BY <1>0, <1>2 DEF Converged, Outcome, Acted, TurnRow, TurnPcs, Sound
  <2>2. turn' = [turn EXCEPT ![t] = q] /\ UNCHANGED <<newest, find, draft>>
    BY <1>2, <1>0 DEF Converged, Reply
  <2> HIDE DEF q
  <2> QED
    BY <1>0, <2>1, <2>2, TurnMoves
<1>3. ASSUME ActRefused(t) PROVE IInv'
  <2> DEFINE q == [turn[t] EXCEPT !.pc = "replied", !.told = "error"]
  <2>1. q \in TurnRow /\ Sound(q) /\ q.pc # "idle" /\ q.run = turn[t].run
    BY <1>0, <1>3 DEF ActRefused, Outcome, Acted, TurnRow, TurnPcs, Sound
  <2>2. turn' = [turn EXCEPT ![t] = q] /\ UNCHANGED <<newest, find, draft>>
    BY <1>3, <1>0 DEF ActRefused, Reply
  <2> HIDE DEF q
  <2> QED
    BY <1>0, <2>1, <2>2, TurnMoves
<1>4. ASSUME HandOn(t) PROVE IInv'
  <2> DEFINE q == [turn[t] EXCEPT !.pc = "open", !.acted = "handed_on"]
  <2>1. q \in TurnRow /\ Sound(q) /\ q.pc # "idle" /\ q.run = turn[t].run
    BY <1>0, <1>4 DEF HandOn, Outcome, Acted, TurnRow, TurnPcs, Sound
  <2>2. turn' = [turn EXCEPT ![t] = q] /\ UNCHANGED <<newest, find, draft>>
    BY <1>4, <1>0 DEF HandOn
  <2> HIDE DEF q
  <2> QED
    BY <1>0, <2>1, <2>2, TurnMoves
<1>5. ASSUME HandOnRaises(t) PROVE IInv'
  <2> DEFINE q == [turn[t] EXCEPT !.pc = "replied", !.told = "error"]
  <2>1. q \in TurnRow /\ Sound(q) /\ q.pc # "idle" /\ q.run = turn[t].run
    BY <1>0, <1>5 DEF HandOnRaises, Outcome, Acted, TurnRow, TurnPcs, Sound
  <2>2. turn' = [turn EXCEPT ![t] = q] /\ UNCHANGED <<newest, find, draft>>
    BY <1>5, <1>0 DEF HandOnRaises, Reply
  <2> HIDE DEF q
  <2> QED
    BY <1>0, <2>1, <2>2, TurnMoves
<1>6. ASSUME OpenRun(t) PROVE IInv'
  <2> DEFINE q == [turn[t] EXCEPT !.pc = "question", !.run = "open"]
  <2>1. q \in TurnRow /\ Sound(q) /\ q.pc # "idle" /\ q.run = "open"
    BY <1>0, <1>6 DEF OpenRun, Outcome, Acted, TurnRow, TurnPcs, Sound
  <2>2. turn' = [turn EXCEPT ![t] = q] /\ StartRun(t) /\ UNCHANGED <<find, draft>>
    BY <1>6, <1>0 DEF OpenRun
  <2> HIDE DEF q
  <2> QED
    BY <1>0, <2>1, <2>2, TurnMoves
<1>7. ASSUME OpenFails(t) PROVE IInv'
  <2> DEFINE q == [turn[t] EXCEPT !.pc = "replied", !.told = Outcome(t)]
  <2>1. q \in TurnRow /\ Sound(q) /\ q.pc # "idle" /\ q.run = turn[t].run
    BY <1>0, <1>7 DEF OpenFails, Outcome, Acted, TurnRow, TurnPcs, Sound
  <2>2. turn' = [turn EXCEPT ![t] = q] /\ UNCHANGED <<newest, find, draft>>
    BY <1>7, <1>0 DEF OpenFails, Reply
  <2> HIDE DEF q
  <2> QED
    BY <1>0, <2>1, <2>2, TurnMoves
<1>8. ASSUME StoreQuestion(t) PROVE IInv'
  <2> DEFINE q == [turn[t] EXCEPT !.asked = TRUE,
                              !.pc = IF Acted(t) THEN "answer" ELSE "reason"]
  <2>1. q \in TurnRow /\ Sound(q) /\ q.pc # "idle" /\ q.run = turn[t].run
    BY <1>0, <1>8 DEF StoreQuestion, Outcome, Acted, TurnRow, TurnPcs, Sound
  <2>2. turn' = [turn EXCEPT ![t] = q] /\ UNCHANGED <<newest, find, draft>>
    BY <1>8, <1>0 DEF StoreQuestion
  <2> HIDE DEF q
  <2> QED
    BY <1>0, <2>1, <2>2, TurnMoves
<1>9. ASSUME Reason(t) PROVE IInv'
  <2> DEFINE q == [turn[t] EXCEPT !.pc = "answer", !.run = "ok"]
  <2>1. q \in TurnRow /\ Sound(q)
    BY <1>0, <1>9 DEF Reason, Outcome, Acted, TurnRow, TurnPcs, Sound
  <2>2. turn' = [turn EXCEPT ![t] = q] /\ TryFinish(t) /\ UNCHANGED <<find, draft>>
    BY <1>9, <1>0 DEF Reason, TryFinish
  <2> HIDE DEF q
  <2> QED
    BY <1>0, <2>1, <2>2, TurnMoves
<1>10. ASSUME StoreAnswer(t) PROVE IInv'
  <2>1. CASE Acted(t)
    <3> DEFINE q == [turn[t] EXCEPT !.answered = TRUE, !.pc = "close"]
    <3>1. q \in TurnRow /\ Sound(q) /\ q.pc # "idle" /\ q.run = turn[t].run
      BY <1>0, <1>10, <2>1 DEF StoreAnswer, Acted, TurnRow, TurnPcs, Sound
    <3>2. turn' = [turn EXCEPT ![t] = q] /\ UNCHANGED <<newest, find, draft>>
      BY <1>10, <2>1 DEF StoreAnswer
    <3> HIDE DEF q
    <3> QED
      BY <1>0, <3>1, <3>2, TurnMoves
  <2>2. CASE ~Acted(t)
    <3> DEFINE q == [turn[t] EXCEPT !.pc = "replied", !.told = "done", !.answered = TRUE]
    <3>1. q \in TurnRow /\ Sound(q) /\ q.pc # "idle" /\ q.run = turn[t].run
      BY <1>0, <1>10, <2>2 DEF StoreAnswer, Acted, TurnRow, TurnPcs, Sound
    <3>2. turn' = [turn EXCEPT ![t] = q] /\ UNCHANGED <<newest, find, draft>>
      BY <1>10, <2>2 DEF StoreAnswer, Reply
    <3> HIDE DEF q
    <3> QED
      BY <1>0, <3>1, <3>2, TurnMoves
  <2> QED
    BY <2>1, <2>2
<1>11. ASSUME Close(t) PROVE IInv'
  <2> DEFINE q == [turn[t] EXCEPT !.pc = "replied", !.told = "done", !.run = "ok"]
  <2>1. q \in TurnRow /\ Sound(q)
    BY <1>0, <1>11 DEF Close, Outcome, Acted, TurnRow, TurnPcs, Sound
  <2>2. turn' = [turn EXCEPT ![t] = q] /\ TryFinish(t) /\ UNCHANGED <<find, draft>>
    BY <1>11, <1>0 DEF Close, Reply, TryFinish
  <2> HIDE DEF q
  <2> QED
    BY <1>0, <2>1, <2>2, TurnMoves
<1>12. ASSUME Fails(t) PROVE IInv'
  <2> DEFINE q == [turn[t] EXCEPT !.pc = "replied", !.told = Outcome(t), !.run = "failed"]
  <2>1. q \in TurnRow /\ Sound(q)
    BY <1>0, <1>12 DEF Fails, Outcome, Acted, TurnRow, TurnPcs, Sound
  <2>2. turn' = [turn EXCEPT ![t] = q] /\ TryFinish(t) /\ UNCHANGED <<find, draft>>
    BY <1>12, <1>0 DEF Fails, Reply
  <2> HIDE DEF q
  <2> QED
    BY <1>0, <2>1, <2>2, TurnMoves
<1>13. ASSUME AnswerNotKept(t) PROVE IInv'
  <2> DEFINE q == [turn[t] EXCEPT !.pc = "replied", !.told = "done"]
  <2>1. q \in TurnRow /\ Sound(q) /\ q.pc # "idle" /\ q.run = turn[t].run
    BY <1>0, <1>13 DEF AnswerNotKept, Outcome, Acted, TurnRow, TurnPcs, Sound
  <2>2. turn' = [turn EXCEPT ![t] = q] /\ UNCHANGED <<newest, find, draft>>
    BY <1>13, <1>0 DEF AnswerNotKept, Reply
  <2> HIDE DEF q
  <2> QED
    BY <1>0, <2>1, <2>2, TurnMoves
<1>14. ASSUME CountFails(t) PROVE IInv'
  <2> DEFINE q == [turn[t] EXCEPT !.told = "error"]
  <2>1. q \in TurnRow /\ Sound(q) /\ q.pc # "idle" /\ q.run = turn[t].run
    BY <1>0, <1>14 DEF CountFails, Outcome, Acted, TurnRow, TurnPcs, Sound
  <2>2. turn' = [turn EXCEPT ![t] = q] /\ UNCHANGED <<newest, find, draft>>
    BY <1>14, <1>0 DEF CountFails
  <2> HIDE DEF q
  <2> QED
    BY <1>0, <2>1, <2>2, TurnMoves
<1>15. ASSUME Leave(t) PROVE IInv'
  <2>1. /\ turn' = [turn EXCEPT ![t] = Idle] /\ turn[t].run # "open"
        /\ UNCHANGED <<newest, find, draft>>
    BY <1>0, <1>15 DEF Leave, Sound
  <2> QED
    BY <1>0, <2>1, IdleFacts, TurnMoves
<1>16. ASSUME TurnDies(t) PROVE IInv'
  <2>1. turn' = [turn EXCEPT ![t] = Idle] /\ TryFinish(t) /\ UNCHANGED <<find, draft>>
    BY <1>16 DEF TurnDies, TryFinish
  <2> QED
    BY <1>0, <2>1, IdleFacts, TurnMoves
<1>17. ASSUME Hear(t) PROVE IInv'
  <2>1. PICK word \in {"question", "undo", "reconsider", "revise"} :
           turn' = [turn EXCEPT ![t] = [Idle EXCEPT
                       !.pc = IF word = "question" THEN "open" ELSE "check", !.word = word]]
    BY <1>17 DEF Hear
  <2> DEFINE q == [Idle EXCEPT !.pc = IF word = "question" THEN "open" ELSE "check",
                               !.word = word]
  <2>2. q \in TurnRow /\ Sound(q)
    BY DEF Idle, TurnRow, TurnPcs, Sound
  <2>3. /\ turn' = [turn EXCEPT ![t] = q] /\ turn[t].pc = "idle"
        /\ UNCHANGED <<newest, find, draft>>
    BY <1>17, <2>1 DEF Hear
  <2> HIDE DEF q
  <2> QED
    BY <1>0, <2>2, <2>3, TurnMoves
<1>18. ASSUME Act(t) PROVE IInv'
  <2>0. find' \in Statuses /\ draft' \in {"none", "making", "ready"}
    BY <1>0, <1>18 DEF Act, Effect, UndoPass, Reopen, Revise, Statuses
  <2>1. CASE turn[t].word = "reconsider"
    <3> DEFINE q == [turn[t] EXCEPT !.pc = "open", !.acted = "handed_on"]
    <3>1. q \in TurnRow /\ Sound(q) /\ q.pc # "idle" /\ q.run = turn[t].run
      BY <1>0, <1>18, <2>1 DEF Act, TurnRow, TurnPcs, Sound
    <3>2. turn' = [turn EXCEPT ![t] = q] /\ UNCHANGED newest
      BY <1>18, <2>1 DEF Act
    <3> HIDE DEF q
    <3> QED
      BY <2>0, <3>1, <3>2, TurnMoves
  <2>2. CASE turn[t].word # "reconsider"
    <3> DEFINE q == [turn[t] EXCEPT !.pc = "dispatch", !.acted = "changed"]
    <3>1. turn[t].word # "question"
      BY <1>18 DEF Act, Effect
    <3>2. q \in TurnRow /\ Sound(q) /\ q.pc # "idle" /\ q.run = turn[t].run
      BY <1>0, <1>18, <3>1 DEF Act, TurnRow, TurnPcs, Sound
    <3>3. turn' = [turn EXCEPT ![t] = q] /\ UNCHANGED newest
      BY <1>18, <2>2 DEF Act
    <3> HIDE DEF q
    <3> QED
      BY <2>0, <3>2, <3>3, TurnMoves
  <2> QED
    BY <2>1, <2>2
<1> QED
  BY <1>1, <1>2, <1>3, <1>4, <1>5, <1>6, <1>7, <1>8, <1>9, <1>10, <1>11, <1>12, <1>13, <1>14,
     <1>15, <1>16, <1>17, <1>18 DEF TurnStep

-----------------------------------------------------------------------------
\* A night moves on, and the row of its agent with it.
LEMMA NightMoves ==
    ASSUME IInv, NEW n \in Nights, NEW q \in NightRow,
           night' = [night EXCEPT ![n] = q], UNCHANGED <<draft, turn>>,
           find' \in Statuses, latest' \in 0..Cooldown \cup {Null},
           \/ newest' = newest /\ (night[n].pc \in Agents => q.pc \in Agents)
           \/ StartRun(n) /\ q.pc \in Agents
           \/ TryFinish(n)
    PROVE  IInv'
<1>0. newest \in RunRow /\ night \in [Nights -> NightRow]
  BY DEF IInv, Types
<1>1. /\ night' \in [Nights -> NightRow] /\ night'[n] = q
      /\ \A m \in Nights \ {n} : night'[m] = night[m]
  BY <1>0
<1>2. newest' \in RunRow
  BY <1>0, RunRows
<1>3. Types'
  BY <1>1, <1>2 DEF IInv, Types
<1>4. \A t \in Turns : Sound(turn'[t])
  BY DEF IInv
<1>5. OpenRowIsWorked'
  <2>1. CASE newest' = newest /\ (night[n].pc \in Agents => q.pc \in Agents)
    BY <1>1, <2>1 DEF IInv, OpenRowIsWorked
  <2>2. CASE StartRun(n) /\ q.pc \in Agents
    BY <1>0, <1>1, <2>2, RunRows DEF OpenRowIsWorked
  <2>3. CASE TryFinish(n)
    BY <1>0, <1>1, <2>3, RunRows DEF IInv, OpenRowIsWorked
  <2> QED
    BY <2>1, <2>2, <2>3
<1> QED
  BY <1>3, <1>4, <1>5 DEF IInv

LEMMA NightSteps ==
    ASSUME IInv, NEW n \in Nights,
           \/ Press(n) \/ Invoke(n) \/ Schedule(n) \/ NightStep(n)
           \/ StoreFind(n) \/ Dies(n)
    PROVE  IInv'
<1>0. /\ night[n] \in NightRow /\ night \in [Nights -> NightRow]
      /\ find \in Statuses /\ latest \in 0..Cooldown \cup {Null}
      /\ 0 \in 0..Cooldown /\ Retries \in 0..Retries
  BY NightAssumption DEF IInv, Types
<1>1. [pc |-> "queued", left |-> Retries] \in NightRow
  BY <1>0 DEF NightRow, NightPcs
<1>2. \A pc \in NightPcs : [night[n] EXCEPT !.pc = pc] \in NightRow
  BY <1>0 DEF NightRow
<1>3. ASSUME Press(n) PROVE IInv'
  <2> DEFINE q == [night[n] EXCEPT !.pc = "pressed"]
  <2>1. q \in NightRow
    BY <1>2 DEF NightPcs
  <2>2. /\ night' = [night EXCEPT ![n] = q] /\ night[n].pc \notin Agents
        /\ UNCHANGED <<newest, find, draft, turn, latest>>
    BY <1>0, <1>3 DEF Press, Go, chatVars, Agents
  <2> HIDE DEF q
  <2> QED
    BY <1>0, <2>1, <2>2, NightMoves
<1>4. ASSUME Invoke(n) PROVE IInv'
  <2> DEFINE q == IF CoolingDown THEN Asleep ELSE [pc |-> "queued", left |-> Retries]
  <2>1. q \in NightRow
    BY <1>1, IdleFacts
  <2>2. /\ night' = [night EXCEPT ![n] = q] /\ night[n].pc \notin Agents
        /\ UNCHANGED <<newest, find, draft, turn, latest>>
    BY <1>4 DEF Invoke, chatVars, Agents
  <2> HIDE DEF q
  <2> QED
    BY <1>0, <2>1, <2>2, NightMoves
<1>5. ASSUME Schedule(n) PROVE IInv'
  <2>1. /\ night' = [night EXCEPT ![n] = [pc |-> "queued", left |-> Retries]]
        /\ night[n].pc \notin Agents /\ UNCHANGED <<newest, find, draft, turn, latest>>
    BY <1>5 DEF Schedule, chatVars, Agents
  <2> QED
    BY <1>0, <1>1, <2>1, NightMoves
<1>6. ASSUME NEW a \in Agents, Open(n, a) PROVE IInv'
  <2> DEFINE q == [night[n] EXCEPT !.pc = a]
  <2>1. q \in NightRow /\ q.pc \in Agents
    BY <1>0, <1>2 DEF NightPcs, NightRow
  <2>2. /\ night' = [night EXCEPT ![n] = q] /\ StartRun(n)
        /\ UNCHANGED <<find, draft, turn, latest>>
    BY <1>0, <1>6 DEF Open, Go
  <2> HIDE DEF q
  <2> QED
    BY <1>0, <2>1, <2>2, NightMoves
<1>7. ASSUME NEW a \in Agents, CloseRun(n, a) PROVE IInv'
  <2> DEFINE q == [night[n] EXCEPT !.pc = Closed[a]]
  <2>1. Closed[a] \in NightPcs
    BY DEF Closed, NightPcs, Agents
  <2>2. q \in NightRow
    BY <1>2, <2>1
  <2>3. /\ night' = [night EXCEPT ![n] = q] /\ TryFinish(n)
        /\ UNCHANGED <<find, draft, turn, latest>>
    BY <1>0, <1>7 DEF CloseRun, Go, TryFinish
  <2> HIDE DEF q
  <2> QED
    BY <1>0, <2>2, <2>3, NightMoves
<1>8. ASSUME NEW a \in Agents, Raise(n, a) PROVE IInv'
  BY <1>0, <1>8, IdleFacts, NightMoves DEF Raise
<1>9. ASSUME RaiseBetween(n) \/ Done(n) PROVE IInv'
  <2>1. /\ night' = [night EXCEPT ![n] = Asleep] /\ night[n].pc \notin Agents
        /\ UNCHANGED <<newest, find, draft, turn, latest>>
    BY <1>9 DEF RaiseBetween, Done, chatVars, Agents
  <2> QED
    BY <1>0, <2>1, IdleFacts, NightMoves
<1>10. ASSUME StoreFind(n) PROVE IInv'
  <2>1. find' \in Statuses /\ latest' \in 0..Cooldown \cup {Null}
    BY <1>0, <1>10 DEF StoreFind, Statuses
  <2>2. night' = [night EXCEPT ![n] = night[n]] /\ UNCHANGED <<newest, draft, turn>>
    BY <1>0, <1>10 DEF StoreFind
  <2> QED
    BY <1>0, <2>1, <2>2, NightMoves
<1>11. ASSUME Dies(n) PROVE IInv'
  <2>1. TryFinish(n) /\ UNCHANGED <<find, draft, turn, latest>>
    BY <1>11 DEF Dies, TryFinish
  <2>2. CASE night[n].left > 0
    <3> DEFINE q == [pc |-> "queued", left |-> night[n].left - 1]
    <3>1. night[n].left - 1 \in 0..Retries
      BY <1>0, <2>2, NightAssumption DEF NightRow
    <3>2. q \in NightRow
      BY <3>1 DEF NightRow, NightPcs
    <3>3. night' = [night EXCEPT ![n] = q]
      BY <1>11, <2>2 DEF Dies
    <3> HIDE DEF q
    <3> QED
      BY <1>0, <2>1, <3>2, <3>3, NightMoves
  <2>3. CASE ~(night[n].left > 0)
    <3>1. night' = [night EXCEPT ![n] = Asleep]
      BY <1>11, <2>3 DEF Dies
    <3> QED
      BY <1>0, <2>1, <3>1, IdleFacts, NightMoves
  <2> QED
    BY <2>2, <2>3
<1> QED
  BY <1>3, <1>4, <1>5, <1>6, <1>7, <1>8, <1>9, <1>10, <1>11 DEF NightStep

-----------------------------------------------------------------------------
LEMMA InitInv == Init => IInv
<1> SUFFICES ASSUME Init PROVE IInv
  OBVIOUS
<1>0. 0 \in 0..StaleAfter /\ 0 \in 0..MaxLosses
  BY ChatAssumption
<1>1. newest \in RunRow /\ newest.open = FALSE
  BY <1>0 DEF Init, ChatInit, RunRow
<1>2. /\ turn \in [Turns -> TurnRow] /\ night \in [Nights -> NightRow]
      /\ \A t \in Turns : turn[t] = Idle
  BY IdleFacts DEF Init, ChatInit
<1>3. Types
  BY <1>1, <1>2 DEF Init, ChatInit, Types, Statuses
<1> QED
  BY <1>1, <1>2, <1>3, IdleFacts DEF IInv, OpenRowIsWorked

\* What changes neither a turn nor a night, and leaves a row open or closed.
LEMMA RestMoves ==
    ASSUME IInv, UNCHANGED <<turn, night>>, newest' \in RunRow,
           newest'.open = newest.open, newest'.lost = newest.lost, newest'.by = newest.by,
           latest' \in 0..Cooldown \cup {Null},
           find' \in Statuses, draft' \in {"none", "making", "ready"}
    PROVE  IInv'
BY DEF IInv, Types, OpenRowIsWorked

LEMMA NextKeeps == IInv /\ [Next]_vars => IInv'
<1> SUFFICES ASSUME IInv, [Next]_vars PROVE IInv'
  OBVIOUS
<1>0. /\ newest \in RunRow /\ latest \in 0..Cooldown \cup {Null}
      /\ find \in Statuses /\ draft \in {"none", "making", "ready"}
  BY DEF IInv, Types
<1>1. ASSUME Decide \/ Reconsider \/ Deliver, UNCHANGED <<latest, night>> PROVE IInv'
  <2>1. find' \in Statuses /\ draft' \in {"none", "making", "ready"}
    BY <1>0, <1>1 DEF Decide, Reconsider, Deliver, Statuses
  <2>2. UNCHANGED <<newest, turn>>
    BY <1>1 DEF Decide, Reconsider, Deliver
  <2> QED
    BY <1>0, <1>1, <2>1, <2>2, RestMoves
<1>2. ASSUME ChatNext, UNCHANGED <<latest, night>> PROVE IInv'
  BY <1>1, <1>2, TurnSteps DEF ChatNext
<1>3. ASSUME Tick PROVE IInv'
  <2>1. \A cap \in Nat : \A age \in 0..cap : Older(age, cap) \in 0..cap
    BY DEF Older
  <2>2. latest' \in 0..Cooldown \cup {Null}
    <3>1. CASE latest = Null
      BY <1>3, <3>1 DEF Tick
    <3>2. CASE latest # Null
      BY <1>0, <1>3, <2>1, <3>2, NightAssumption DEF Tick
    <3> QED
      BY <3>1, <3>2
  <2>3. /\ newest' \in RunRow /\ newest'.open = newest.open
        /\ newest'.lost = newest.lost /\ newest'.by = newest.by
    <3>1. CASE newest.open
      <4> DEFINE older == Older(newest.age, StaleAfter)
      <4>1. older \in 0..StaleAfter
        BY <1>0, <2>1, ChatAssumption DEF RunRow
      <4>2. newest' = [newest EXCEPT !.age = older]
        BY <1>3, <3>1 DEF Tick
      <4> HIDE DEF older
      <4> QED
        BY <1>0, <4>1, <4>2 DEF RunRow
    <3>2. CASE ~newest.open
      BY <1>0, <1>3, <3>2 DEF Tick
    <3> QED
      BY <3>1, <3>2
  <2>4. UNCHANGED <<find, draft, turn, night>>
    BY <1>3 DEF Tick
  <2> QED
    BY <1>0, <2>2, <2>3, <2>4, RestMoves
<1>4. ASSUME UNCHANGED vars PROVE IInv'
  BY <1>0, <1>4, RestMoves DEF vars, chatVars
<1> QED
  BY <1>2, <1>3, <1>4, NightSteps DEF Next

LEMMA Holds == Spec => []IInv
BY InitInv, NextKeeps, PTL DEF Spec

\* A reply says what became of the recommendation, and an ok receipt is whole,
\* whatever fails or dies on the way.
THEOREM RepliesAreTrue == Spec => []ChatTellsTruth
<1>1. IInv => ChatTellsTruth
  <2> SUFFICES ASSUME IInv, NEW t \in Turns
      PROVE  /\ turn[t].pc = "replied" /\ turn[t].word # "question" =>
                   (turn[t].told = "done" <=> Acted(t))
             /\ turn[t].run = "ok" => turn[t].asked /\ (Acted(t) => turn[t].answered)
             /\ turn[t].answered => turn[t].asked
    BY DEF ChatTellsTruth
  <2>1. turn[t] \in TurnRow /\ Sound(turn[t])
    BY DEF IInv, Types
  <2> QED
    BY <2>1 DEF Sound, TurnRow, TurnPcs, Acted
<1> QED
  BY <1>1, Holds, PTL

\* Every path an agent or a turn takes to its end closes its row: one that is open
\* has somebody at work on it, or was left by a loss.
THEOREM OpenRowsHaveAnOwner == Spec => []OpenRowIsWorked
<1>1. IInv => OpenRowIsWorked
  BY DEF IInv
<1> QED
  BY <1>1, Holds, PTL
=============================================================================
