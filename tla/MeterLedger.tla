----------------------------- MODULE MeterLedger -----------------------------
(***************************************************************************)
(* The ledger of one recommendation: the owner reports what a move earned  *)
(* (handlers/outcome.py), each night the Meter judges it (agents/meter.py, *)
(* called last by run_night), and the owner may reopen the recommendation  *)
(* or see it executed meanwhile.                                           *)
(*                                                                         *)
(* A night reads the reports when it starts (build_outcome_source in       *)
(* handlers/night.py), before Radar and the Analyst have worked for a      *)
(* minute or more, and the due finds only when the Meter's turn comes.     *)
(* Each repository method is one transaction or one autocommitted          *)
(* statement; record_find_outcome is two of them.                          *)
(*                                                                         *)
(* Verdicts judge one find at a time, so one find shows every race.  Days  *)
(* and timestamps are two clocks: measured_at and reported_at are compared *)
(* with each other only, and no two of them are equal.                     *)
(***************************************************************************)
EXTENDS MeterMath

CONSTANTS Nights,     \* runs of the night, the nightly one and the owner's
          Reporters,  \* concurrent requests of the owner's session
          Figures,    \* <<amount, basis>> the owner may report
          Predicted,  \* predicted_daily_cents
          Window,     \* days from created_at to verify_after
          MaxDay,     \* bound on the calendar
          MaxCycle,   \* bound on decision cycles
          MaxReports, \* bound on requests of the owner
          MaxCrashes  \* bound on nights that die

ASSUME LedgerAssumptions ==
    /\ Figures \subseteq Int \X Bases /\ Figures # {} /\ Predicted \in Nat
    /\ Window \in Nat \ {0} /\ MaxDay \in Nat /\ Window <= MaxDay
    /\ MaxCycle \in Nat \ {0} /\ MaxReports \in Nat /\ MaxCrashes \in Nat

VARIABLES
    find,     \* status, decision cycle, executed_at
    today,    \* the date; the recommendation was created on day 0
    clock,    \* the last timestamp taken
    reports,  \* find_outcome rows: reported_at and what was reported
    ledger,   \* [Starts -> the ledger_entry of the window starting that day]
    request,  \* [Reporters -> program counter and locals of record_outcome]
    night,    \* [Nights -> program counter and locals of run_night]
    asked,    \* requests so far
    crashes   \* nights that died

vars == <<find, today, clock, reports, ledger, request, night, asked, crashes>>

\* The daily_cents column, computed when the figure is reported.
Daily(f) == DailyCents(f[1], f[2])

Cents    == {Daily(f) : f \in Figures}
Starts   == 0..MaxDay
Measured == {"verified", "miss"}

\* period_start names a window, period_end being Window days later: it is the
\* day of execution, or else of creation.
NoStart == MaxDay + 1
NotYet  == MaxDay + 1

Entry   == [verdict : {"absent", "estimated"} \cup Measured,
            actual : Cents \cup {NoFigure}, at : Nat]
NoEntry == [verdict |-> "absent", actual |-> NoFigure, at |-> 0]

\* "allow": the moment is taken; "insert": the status was read and is good.
Request     == [pc : {"idle", "allow", "insert"}, at : Nat, said : Figures]
IdleRequest == [pc |-> "idle", at |-> 0, said |-> CHOOSE f \in Figures : TRUE]

\* "due": the reports are read; "insert": the find is due; "review": the second
\* pass; "update": estimates to replace, one row at a time.
Night     == [pc : {"idle", "due", "insert", "review", "update"}, today : Starts,
              figure : Cents \cup {NoFigure}, start : Starts \cup {NoStart},
              todo : SUBSET Starts]
IdleNight == [pc |-> "idle", today |-> 0, figure |-> NoFigure,
              start |-> NoStart, todo |-> {}]

Judgeable == {"accepted", "live"}  \* JUDGEABLE_STATUSES

Init ==
    /\ find = [status |-> "proposed", cycle |-> 1, executed |-> NotYet]
    /\ today = 0 /\ clock = 0 /\ reports = {}
    /\ ledger = [s \in Starts |-> NoEntry]
    /\ request = [r \in Reporters |-> IdleRequest]
    /\ night = [n \in Nights |-> IdleNight]
    /\ asked = 0 /\ crashes = 0

Judged == {s \in Starts : ledger[s].verdict # "absent"}

\* DISTINCT ON (find_id) ... ORDER BY reported_at DESC.
Newest == IF reports = {} THEN NoFigure
          ELSE Daily((CHOOSE r \in reports : \A q \in reports : q.at <= r.at).said)

-----------------------------------------------------------------------------
\* The owner and the calendar.  A move passed on is like one not decided: the
\* Meter judges neither.

Approve ==
    /\ find.status = "proposed"
    /\ find' = [find EXCEPT !.status = "accepted"]
    /\ UNCHANGED <<today, clock, reports, ledger, request, night, asked, crashes>>

\* mark_find_executed, after Publishing.tla's receipt.
Execute ==
    /\ find.status = "accepted"
    /\ find' = [find EXCEPT !.status = "live", !.executed = today]
    /\ UNCHANGED <<today, clock, reports, ledger, request, night, asked, crashes>>

\* reconsider_find: refused once the Meter has a result (and after an outside
\* action, see Publishing.tla).  The reports stay.
Reopen ==
    /\ find.status = "accepted" /\ find.cycle < MaxCycle
    /\ Judged = {}
    /\ find' = [find EXCEPT !.status = "proposed", !.cycle = @ + 1]
    /\ UNCHANGED <<today, clock, reports, ledger, request, night, asked, crashes>>

NextDay ==
    /\ today < MaxDay
    /\ today' = today + 1
    /\ UNCHANGED <<find, clock, reports, ledger, request, night, asked, crashes>>

-----------------------------------------------------------------------------
\* record_outcome: the moment, the SELECT, the INSERT.

AskToReport(r, f) ==
    /\ request[r].pc = "idle" /\ asked < MaxReports
    /\ clock' = clock + 1 /\ asked' = asked + 1
    /\ request' = [request EXCEPT ![r] = [pc |-> "allow", at |-> clock + 1,
                                          said |-> f]]
    /\ UNCHANGED <<find, today, reports, ledger, night, crashes>>

CheckStatus(r) ==
    /\ request[r].pc = "allow"
    /\ request' = [request EXCEPT ![r] = IF find.status \in Judgeable
                                         THEN [@ EXCEPT !.pc = "insert"]
                                         ELSE IdleRequest]
    /\ UNCHANGED <<find, today, clock, reports, ledger, night, asked, crashes>>

InsertReport(r) ==
    /\ request[r].pc = "insert"
    /\ reports' = reports \cup {[at |-> request[r].at, said |-> request[r].said]}
    /\ request' = [request EXCEPT ![r] = IdleRequest]
    /\ UNCHANGED <<find, today, clock, ledger, night, asked, crashes>>

-----------------------------------------------------------------------------
\* run_night, as far as the Meter sees it.

StartNight(n) ==
    /\ night[n].pc = "idle"
    /\ night' = [night EXCEPT ![n].pc = "due", ![n].today = today,
                              ![n].figure = Newest]
    /\ UNCHANGED <<find, today, clock, reports, ledger, request, asked, crashes>>

\* The first day of the window, and whether it has closed for this night.
Start  == IF find.executed = NotYet THEN 0 ELSE find.executed
Due(n) == find.status \in Judgeable /\ Start + Window <= night[n].today

\* A plausible bug: a find is due again in a window that has no verdict.
FindDuePerWindow(n) ==
    /\ night[n].pc = "due"
    /\ night' = [night EXCEPT ![n] =
          IF Due(n) /\ Start \notin Judged
          THEN [@ EXCEPT !.pc = "insert", !.start = Start]
          ELSE [@ EXCEPT !.pc = "review"]]
    /\ UNCHANGED <<find, today, clock, reports, ledger, request, asked, crashes>>

\* A plausible bug: what was published is no longer judged.
FindDueUnpublished(n) ==
    /\ night[n].pc = "due"
    /\ night' = [night EXCEPT ![n] =
          IF Due(n) /\ find.status = "accepted" /\ Judged = {}
          THEN [@ EXCEPT !.pc = "insert", !.start = Start]
          ELSE [@ EXCEPT !.pc = "review"]]
    /\ UNCHANGED <<find, today, clock, reports, ledger, request, asked, crashes>>

\* due_finds: judgeable, past its window, without any verdict.
FindDue(n) ==
    /\ night[n].pc = "due"
    /\ night' = [night EXCEPT ![n] =
          IF Due(n) /\ Judged = {}
          THEN [@ EXCEPT !.pc = "insert", !.start = Start]
          ELSE [@ EXCEPT !.pc = "review"]]
    /\ UNCHANGED <<find, today, clock, reports, ledger, request, asked, crashes>>

\* A plausible bug, and once a real one: the prediction is its own outcome.
InsertPrediction(n) ==
    LET s == night[n].start
        figure == IF night[n].figure = NoFigure THEN Predicted ELSE night[n].figure IN
    /\ night[n].pc = "insert"
    /\ IF ledger[s].verdict = "absent"
       THEN /\ clock' = clock + 1
            /\ ledger' = [ledger EXCEPT ![s] =
                  [verdict |-> Judge(Predicted, figure), actual |-> night[n].figure,
                   at |-> clock + 1]]
       ELSE UNCHANGED <<clock, ledger>>
    /\ night' = [night EXCEPT ![n].pc = "review"]
    /\ UNCHANGED <<find, today, reports, request, asked, crashes>>

\* insert_ledger_entry: the unique index lets the first verdict of a window stand.
InsertVerdict(n) ==
    LET s == night[n].start IN
    /\ night[n].pc = "insert"
    /\ IF ledger[s].verdict = "absent"
       THEN /\ clock' = clock + 1
            /\ ledger' = [ledger EXCEPT ![s] =
                  [verdict |-> Judge(Predicted, night[n].figure),
                   actual |-> night[n].figure, at |-> clock + 1]]
       ELSE UNCHANGED <<clock, ledger>>
    /\ night' = [night EXCEPT ![n].pc = "review"]
    /\ UNCHANGED <<find, today, reports, request, asked, crashes>>

\* A plausible bug: the comparison of the two timestamps is turned round.
RemeasurableOlder ==
    {s \in Starts : /\ ledger[s].verdict = "estimated"
                    /\ reports # {} /\ \A r \in reports : r.at < ledger[s].at}

\* Estimates with a report that is newer than they are.
Remeasurable ==
    {s \in Starts : /\ ledger[s].verdict = "estimated"
                    /\ \E r \in reports : r.at > ledger[s].at}

\* The second pass has nothing to do without a figure in hand.
Review(n) ==
    /\ night[n].pc = "review"
    /\ night' = [night EXCEPT ![n] =
          IF night[n].figure = NoFigure \/ Remeasurable = {} THEN IdleNight
          ELSE [@ EXCEPT !.pc = "update", !.todo = Remeasurable]]
    /\ UNCHANGED <<find, today, clock, reports, ledger, request, asked, crashes>>

\* The row is left, and the night goes on to the next one or ends.
RowDone(n, s) ==
    night' = [night EXCEPT ![n] = IF night[n].todo = {s} THEN IdleNight
                                  ELSE [night[n] EXCEPT !.todo = @ \ {s}]]

\* A plausible bug: the UPDATE does not ask again for an estimate.
UpdateAnyVerdict(n, s) ==
    /\ night[n].pc = "update" /\ s \in night[n].todo
    /\ clock' = clock + 1
    /\ ledger' = [ledger EXCEPT ![s] =
          [verdict |-> Judge(Predicted, night[n].figure),
           actual |-> night[n].figure, at |-> clock + 1]]
    /\ RowDone(n, s)
    /\ UNCHANGED <<find, today, reports, request, asked, crashes>>

\* update_ledger_entry: WHERE verdict = 'estimated'.
UpdateVerdict(n, s) ==
    /\ night[n].pc = "update" /\ s \in night[n].todo
    /\ IF ledger[s].verdict = "estimated"
       THEN /\ clock' = clock + 1
            /\ ledger' = [ledger EXCEPT ![s] =
                  [verdict |-> Judge(Predicted, night[n].figure),
                   actual |-> night[n].figure, at |-> clock + 1]]
       ELSE UNCHANGED <<clock, ledger>>
    /\ RowDone(n, s)
    /\ UNCHANGED <<find, today, reports, request, asked, crashes>>

\* The Lambda dies, or an agent before the Meter raises.
NightDies(n) ==
    /\ night[n].pc # "idle" /\ crashes < MaxCrashes
    /\ night' = [night EXCEPT ![n] = IdleNight]
    /\ crashes' = crashes + 1
    /\ UNCHANGED <<find, today, clock, reports, ledger, request, asked>>

NightStep(n) ==
    \/ FindDue(n) \/ InsertVerdict(n) \/ Review(n)
    \/ \E s \in Starts : UpdateVerdict(n, s)

Next ==
    \/ Approve \/ Execute \/ Reopen \/ NextDay
    \/ \E r \in Reporters : \/ \E f \in Figures : AskToReport(r, f)
                            \/ CheckStatus(r) \/ InsertReport(r)
    \/ \E n \in Nights : StartNight(n) \/ NightStep(n) \/ NightDies(n)

Spec == Init /\ [][Next]_vars

\* Nights are started again and again, and a night that does not die goes on.
Fairness == \A n \in Nights : WF_vars(StartNight(n)) /\ WF_vars(NightStep(n))

FairSpec == Spec /\ Fairness

-----------------------------------------------------------------------------
\* Properties.

TypeOK ==
    /\ find \in [status : {"proposed", "accepted", "live"}, cycle : 1..MaxCycle,
                 executed : Starts \cup {NotYet}]
    /\ today \in Starts /\ clock \in Nat /\ asked \in 0..MaxReports
    /\ reports \subseteq [at : Nat, said : Figures]
    /\ ledger \in [Starts -> Entry]
    /\ request \in [Reporters -> Request]
    /\ night \in [Nights -> Night]
    /\ crashes \in 0..MaxCrashes

\* What the owner's own amount says of a verdict.  Rounding to the cent moves the
\* bar of a quarter of the prediction by half a cent a day, and no further.
Fair(verdict, f) ==
    /\ verdict \in Measured
    /\ verdict = "verified" =>
          f[1] > 0 /\ 8 * f[1] >= Days[f[2]] * (2 * Predicted - 4)
    /\ verdict = "miss" => 8 * f[1] < Days[f[2]] * (2 * Predicted + 4)

\* A verdict that claims a measurement rests on a figure the owner reported before
\* it and is fair to the amount as it was reported, through the conversion to a
\* day, the snapshot and both passes; without a figure there is an estimate only
\* (agents/meter.py and meter.judge: the Meter never invents an outcome).
HonestVerdicts ==
    \A s \in Judged :
        IF ledger[s].actual = NoFigure THEN ledger[s].verdict = "estimated"
        ELSE \E r \in reports : /\ r.at < ledger[s].at
                               /\ Daily(r.said) = ledger[s].actual
                               /\ Fair(ledger[s].verdict, r.said)

\* A published miss or win is never rewritten, and no verdict is ever withdrawn.
MeasuredIsFinal ==
    [][\A s \in Starts :
          /\ ledger[s].verdict \in Measured => ledger'[s] = ledger[s]
          /\ ledger[s].verdict = "estimated" =>
                ledger'[s] = ledger[s] \/ ledger'[s].verdict \in Measured]_vars

\* RECONSIDER_DECISION_CYCLES.md: a Meter result blocks reopening the old move.
ReopenedHasNoVerdict == find.status = "proposed" => Judged = {}

\* test_owner_outcome_flow.py: the newest correction is the one judged.
NewestIsJudged ==
    [][\A s \in Starts :
          ledger'[s].verdict \in Measured /\ ledger[s].verdict \notin Measured =>
              ledger'[s].actual = Newest]_vars

WindowClosed == find.status \in Judgeable /\ Start + Window <= today

\* A move whose window has closed gets its verdict, unless the owner takes the
\* approval back first or its execution opens a later window.
DueIsJudged == WindowClosed ~> (Judged # {} \/ ~WindowClosed)

Estimated == \E s \in Starts : ledger[s].verdict = "estimated"

NewerReport(s) == /\ ledger[s].verdict = "estimated"
                  /\ \E r \in reports : ledger[s].at < r.at

\* A report newer than an estimate replaces it, whatever other windows say.
NewerReportScored ==
    \A s \in Starts : NewerReport(s) ~> ledger[s].verdict \in Measured

\* handlers/outcome.py: "The Meter judges it when the measurement window closes".
ReportScored == (Estimated /\ reports # {}) ~> ~Estimated
=============================================================================
