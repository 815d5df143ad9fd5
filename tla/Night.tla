------------------------------- MODULE Night --------------------------------
\* Who may start a night of the agents, and what is left of it when it ends: the
\* owner's button (handlers/run.py), the function it invokes (handlers/night.py,
\* night.py) with its three agents, one after the other, and the agent_run rows
\* they share with the conversation (Chat). Time is coarse: a unit is the bound
\* past which the button takes an open row for debris.
EXTENDS Chat

CONSTANTS
    Null,           \* no find yet
    Nights,         \* invocations of the night function in flight
    Cooldown,       \* NIGHT_COOLDOWN, in the units of StaleAfter
    Retries         \* how often Lambda repeats an asynchronous call that died

ASSUME NightAssumption == Cooldown \in Nat \ {0} /\ Retries \in Nat

VARIABLES
    latest,     \* age of the newest find, up to Cooldown
    night       \* the invocations

vars == <<chatVars, latest, night>>

Asleep == [pc |-> "idle", left |-> 0]

NightTypeOK ==
    /\ ChatTypeOK
    /\ latest \in 0..Cooldown \cup {Null}
    /\ \A n \in Nights : night[n].left \in 0..Retries

Init ==
    /\ ChatInit
    /\ latest = Null
    /\ night = [n \in Nights |-> Asleep]

Go(n, pc) == night' = [night EXCEPT ![n].pc = pc]
Working(n) == night[n].pc \notin {"idle", "pressed"}

-----------------------------------------------------------------------------
\* The button. It reads the newest row, then the newest find, and then invokes:
\* a row is believed only while it is young, a find holds for a day.

\* A plausible bug: an open row is believed for ever.
FreshForEver == newest.open
Fresh == newest.open /\ newest.age < StaleAfter
CoolingDown == latest # Null /\ latest < Cooldown

Press(n) ==
    /\ night[n].pc = "idle" /\ ~Fresh
    /\ Go(n, "pressed")
    /\ UNCHANGED <<chatVars, latest>>

Invoke(n) ==
    /\ night[n].pc = "pressed"
    /\ night' = [night EXCEPT ![n] =
          IF CoolingDown THEN Asleep ELSE [pc |-> "queued", left |-> Retries]]
    /\ UNCHANGED <<chatVars, latest>>

\* The schedule asks nothing.
Schedule(n) ==
    /\ night[n].pc = "idle"
    /\ night' = [night EXCEPT ![n] = [pc |-> "queued", left |-> Retries]]
    /\ UNCHANGED <<chatVars, latest>>

-----------------------------------------------------------------------------
\* run_night: each agent opens a row and closes it.

Agents == {"radar", "analyst", "meter"}
Opening == [a \in Agents |-> IF a = "radar" THEN {"queued"}
                             ELSE IF a = "analyst" THEN {"observed"} ELSE {"reasoned"}]
Closed == [a \in Agents |-> IF a = "radar" THEN "observed"
                            ELSE IF a = "analyst" THEN "reasoned" ELSE "measured"]

Open(n, a) ==
    /\ night[n].pc \in Opening[a]
    /\ StartRun(n) /\ Go(n, a)
    /\ UNCHANGED <<find, draft, turn, latest>>

\* One find is stored; the ones the pipeline holds back have a date as well.
StoreFind(n) ==
    /\ night[n].pc = "analyst"
    /\ latest' = 0
    /\ IF find = "absent" THEN find' \in {"absent", "proposed"} ELSE UNCHANGED find
    /\ UNCHANGED <<newest, draft, turn, night>>

\* The agent ends its run, as ok or as failed on a path it foresaw.
CloseRun(n, a) ==
    /\ night[n].pc = a
    /\ FinishRun(n) /\ Go(n, Closed[a])
    /\ UNCHANGED <<find, draft, turn, latest>>

\* It raises: closing_run closes the row if it can, and the handler gives the
\* tenant up. Nothing repeats it: the invocation itself ends well.
\* A plausible bug: the row is closed on the foreseen paths only.
RaiseUnclosed(n, a) ==
    /\ night[n].pc = a
    /\ night' = [night EXCEPT ![n] = Asleep]
    /\ UNCHANGED <<chatVars, latest>>
Raise(n, a) ==
    /\ night[n].pc = a
    /\ TryFinish(n)
    /\ night' = [night EXCEPT ![n] = Asleep]
    /\ UNCHANGED <<find, draft, turn, latest>>

\* Between two agents, or before the first.
RaiseBetween(n) ==
    /\ night[n].pc \in {"observed", "reasoned"}
    /\ night' = [night EXCEPT ![n] = Asleep]
    /\ UNCHANGED <<chatVars, latest>>

Done(n) ==
    /\ night[n].pc = "measured"
    /\ night' = [night EXCEPT ![n] = Asleep]
    /\ UNCHANGED <<chatVars, latest>>

\* The function is killed, or the tenant cannot be read before its night begins:
\* the invocation ends in an error and is repeated, and nobody looks at the
\* button's conditions again.
Dies(n) ==
    /\ Working(n)
    /\ LoseRun(n)
    /\ night' = [night EXCEPT ![n] =
          IF @.left > 0 THEN [pc |-> "queued", left |-> @.left - 1] ELSE Asleep]
    /\ UNCHANGED <<find, draft, turn, latest>>

Older(age, cap) == IF age < cap THEN age + 1 ELSE age

Tick ==
    /\ newest' = IF newest.open THEN [newest EXCEPT !.age = Older(@, StaleAfter)] ELSE newest
    /\ latest' = IF latest = Null THEN Null ELSE Older(latest, Cooldown)
    /\ UNCHANGED <<find, draft, turn, night>>

NightStep(n) ==
    \/ \E a \in Agents : Open(n, a) \/ CloseRun(n, a) \/ Raise(n, a)
    \/ RaiseBetween(n) \/ Done(n)

Next ==
    \/ ChatNext /\ UNCHANGED <<latest, night>>
    \/ Tick
    \/ \E n \in Nights :
          Press(n) \/ Invoke(n) \/ Schedule(n) \/ NightStep(n) \/ StoreFind(n) \/ Dies(n)

Spec == Init /\ [][Next]_vars

\* Time passes; a live function goes on; an owner who finds the button working
\* again and again presses it at last. Functions are killed a bounded number of
\* times (MaxLosses): with one killed over and over there is no night to promise.
Fairness ==
    /\ WF_vars(Tick)
    /\ \A n \in Nights : /\ WF_vars(NightStep(n)) /\ WF_vars(Invoke(n))
                         /\ SF_vars(Press(n))
    /\ \A t \in Turns : WF_vars(TurnStep(t) /\ UNCHANGED <<latest, night>>)

FairSpec == Spec /\ Fairness

-----------------------------------------------------------------------------
\* An open row that nobody works for was left by a killed function or by a
\* failed write, and by nothing else (agent_runs.py:32): every path an agent or a
\* turn takes to its end closes the row.
OpenRowIsWorked ==
    newest.open /\ ~newest.lost =>
        \/ \E n \in Nights : newest.by = n /\ night[n].pc \in Agents
        \/ \E t \in Turns : newest.by = t /\ turn[t].run = "open" /\ turn[t].pc # "idle"

\* An owner whose last recommendation is a day old gets a night when she keeps
\* asking for one, whatever rows earlier nights and conversations left open
\* (handlers/run.py:33).
EventuallyServed ==
    []<>(CoolingDown \/ \E n \in Nights : night[n].pc \in Agents)

\* The button starts no night while one is under way. handlers/run.py:19: "A night
\* already in flight is returned rather than started again, which is what a
\* double-click and an impatient reload would otherwise do."
NightInFlightIsReturned ==
    [][\A n \in Nights : night[n].pc = "pressed" /\ night'[n].pc = "queued" =>
          \A other \in Nights : ~Working(other)]_vars
=============================================================================
