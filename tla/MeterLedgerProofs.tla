-------------------------- MODULE MeterLedgerProofs --------------------------
(***************************************************************************)
(* Theorems about the arithmetic of the Meter, for every amount, period    *)
(* and prediction, and about the ledger, for every number of nights,       *)
(* requests, days and figures.  What makes HonestVerdicts inductive is     *)
(* where the figure a night carries comes from: a report stored when the   *)
(* night began, which stays stored because find_outcome is append-only.    *)
(* OneVerdict speaks of the history the runs keep (MCMeterLedger).         *)
(***************************************************************************)
EXTENDS MCMeterLedger, TLAPS

\* Half-up division of a magnitude, as daily_cents_from does it: the quotient is
\* the nearest one, and exactly half a period goes up.
LEMMA HalfUp ==
    ASSUME NEW n \in Nat, NEW d \in {1, 7, 30}
    PROVE  LET q == (n * 2 + d) \div (d * 2)
           IN  /\ q \in Nat
               /\ 2 * n < 2 * (q * d) + d
               /\ 2 * (q * d) <= 2 * n + d
<1>1. CASE d = 1
  BY <1>1
<1>2. CASE d = 7
  BY <1>2
<1>3. CASE d = 30
  BY <1>3
<1> QED
  BY <1>1, <1>2, <1>3

LEMMA PeriodDays ==
    ASSUME NEW b \in Bases
    PROVE  Days[b] \in {1, 7, 30}
BY DEF Bases, Days

\* daily_cents_from in terms of the magnitude it rounds.
LEMMA DailyCentsMagnitude ==
    ASSUME NEW a \in Int, NEW b \in Bases
    PROVE  \E q \in Nat :
              /\ q = (Abs(a) * 2 + Days[b]) \div (Days[b] * 2)
              /\ DailyCents(a, b) = IF a >= 0 THEN q ELSE -q
              /\ 2 * Abs(a) < 2 * (q * Days[b]) + Days[b]
              /\ 2 * (q * Days[b]) <= 2 * Abs(a) + Days[b]
<1>1. Abs(a) \in Nat
  BY DEF Abs
<1>2. Days[b] \in {1, 7, 30}
  BY PeriodDays
<1> DEFINE q == (Abs(a) * 2 + Days[b]) \div (Days[b] * 2)
<1>3. /\ q \in Nat
      /\ 2 * Abs(a) < 2 * (q * Days[b]) + Days[b]
      /\ 2 * (q * Days[b]) <= 2 * Abs(a) + Days[b]
  BY <1>1, <1>2, HalfUp
<1>4. DailyCents(a, b) = IF a >= 0 THEN q ELSE -q
  BY DEF DailyCents
<1> QED
  BY <1>3, <1>4

\* The stored daily figure is the nearest cent, and a tie goes away from zero.
THEOREM DailyCentsNearest ==
    ASSUME NEW a \in Int, NEW b \in Bases
    PROVE  LET twice == 2 * Abs(DailyCents(a, b) * Days[b] - a)
           IN  /\ DailyCents(a, b) \in Int
               /\ twice <= Days[b]
               /\ twice = Days[b] => Abs(DailyCents(a, b) * Days[b]) > Abs(a)
<1>1. Days[b] \in {1, 7, 30}
  BY PeriodDays
<1>2. PICK q \in Nat : /\ DailyCents(a, b) = IF a >= 0 THEN q ELSE -q
                       /\ 2 * Abs(a) < 2 * (q * Days[b]) + Days[b]
                       /\ 2 * (q * Days[b]) <= 2 * Abs(a) + Days[b]
  BY DailyCentsMagnitude
<1>3. CASE Days[b] = 1
  BY <1>2, <1>3 DEF Abs
<1>4. CASE Days[b] = 7
  BY <1>2, <1>4 DEF Abs
<1>5. CASE Days[b] = 30
  BY <1>2, <1>5 DEF Abs
<1> QED
  BY <1>1, <1>3, <1>4, <1>5

\* daily_cents_from is odd: a loss rounds as far from zero as the equal gain, as its
\* docstring promises.
THEOREM DailyCentsMirrored ==
    ASSUME NEW a \in Int, NEW b \in Bases
    PROVE  DailyCents(-a, b) = -DailyCents(a, b)
<1>1. Abs(-a) = Abs(a)
  BY DEF Abs
<1>2. PICK q \in Nat : /\ q = (Abs(a) * 2 + Days[b]) \div (Days[b] * 2)
                       /\ DailyCents(a, b) = IF a >= 0 THEN q ELSE -q
                       /\ 2 * Abs(a) < 2 * (q * Days[b]) + Days[b]
                       /\ 2 * (q * Days[b]) <= 2 * Abs(a) + Days[b]
  BY DailyCentsMagnitude
<1>3. DailyCents(-a, b) = IF -a >= 0 THEN q ELSE -q
  BY <1>1, <1>2 DEF DailyCents
<1>4. CASE a = 0
  <2>1. Days[b] \in {1, 7, 30}
    BY PeriodDays
  <2>2. q = 0
    <3>1. 2 * (q * Days[b]) <= Days[b]
      BY <1>2, <1>4, <2>1 DEF Abs
    <3>2. CASE Days[b] = 1
      BY <3>1, <3>2
    <3>3. CASE Days[b] = 7
      BY <3>1, <3>3
    <3>4. CASE Days[b] = 30
      BY <3>1, <3>4
    <3> QED
      BY <2>1, <3>2, <3>3, <3>4
  <2> QED
    BY <1>2, <1>3, <1>4, <2>2
<1>5. CASE a # 0
  BY <1>2, <1>3, <1>5
<1> QED
  BY <1>4, <1>5

\* The bar of judge, applied to a quotient that is off by at most half a period.
LEMMA RoundedBar ==
    ASSUME NEW a \in Int, NEW p \in Nat, NEW d \in Int, NEW q \in Nat,
           NEW days \in {1, 7, 30},
           d = IF a >= 0 THEN q ELSE -q,
           2 * Abs(a) < 2 * (q * days) + days,
           2 * (q * days) <= 2 * Abs(a) + days
    PROVE  IF d <= 0 \/ 4 * d < p THEN 8 * a < days * (2 * p + 4)
           ELSE a > 0 /\ 8 * a >= days * (2 * p - 4)
<1>1. CASE days = 1
  BY <1>1 DEF Abs
<1>2. CASE days = 7
  BY <1>2 DEF Abs
<1>3. CASE days = 30
  BY <1>3 DEF Abs
<1> QED
  BY <1>1, <1>2, <1>3

\* Rounding moves a verdict by half a cent a day at most: a win comes within that
\* much of a quarter of the prediction, and a miss stays below it by no more
\* (daily_cents_from and judge together).
THEOREM ScoredFairly ==
    ASSUME NEW a \in Int, NEW b \in Bases, NEW p \in Nat
    PROVE  LET verdict == Judge(p, DailyCents(a, b))
           IN  /\ verdict \in {"verified", "miss"}
               /\ verdict = "verified" => a > 0 /\ 8 * a >= Days[b] * (2 * p - 4)
               /\ verdict = "miss" => 8 * a < Days[b] * (2 * p + 4)
<1> DEFINE d == DailyCents(a, b)
<1>1. d \in Int
  BY DailyCentsNearest
<1>2. Judge(p, d) = IF d <= 0 \/ 4 * d < p THEN "miss" ELSE "verified"
  BY <1>1, NoFigureAssumption DEF Judge
<1>3. PICK q \in Nat : /\ d = IF a >= 0 THEN q ELSE -q
                       /\ 2 * Abs(a) < 2 * (q * Days[b]) + Days[b]
                       /\ 2 * (q * Days[b]) <= 2 * Abs(a) + Days[b]
  BY DailyCentsMagnitude
<1>4. Days[b] \in {1, 7, 30}
  BY PeriodDays
<1>5. IF d <= 0 \/ 4 * d < p THEN 8 * a < Days[b] * (2 * p + 4)
      ELSE a > 0 /\ 8 * a >= Days[b] * (2 * p - 4)
  <2> HIDE DEF d
  <2> QED
    BY <1>1, <1>3, <1>4, RoundedBar
<1> QED
  BY <1>2, <1>5

-----------------------------------------------------------------------------

\* Timestamps taken are past, the newest report exists, and what a night holds
\* was reported.
Provenance ==
    /\ \A r \in reports : r.at <= clock
    /\ reports # {} => \E r \in reports : \A q \in reports : q.at <= r.at
    /\ \A r \in Reporters : request[r].at <= clock
    /\ \A n \in Nights :
          /\ night[n].figure # NoFigure =>
                \E r \in reports : Daily(r.said) = night[n].figure
          /\ night[n].pc = "insert" => night[n].start \in Starts
          /\ night[n].pc = "update" => night[n].figure # NoFigure

IInv == TypeOK /\ Provenance /\ HonestVerdicts

LEMMA Facts ==
    /\ MaxDay \in Nat /\ MaxCycle \in Nat \ {0} /\ MaxReports \in Nat
    /\ MaxCrashes \in Nat
    /\ 0 \in Starts /\ 1 \in 1..MaxCycle
    /\ IdleRequest \in Request /\ IdleRequest.at = 0
    /\ IdleNight \in Night /\ NoEntry \in Entry
<1>1. PICK f \in Figures : TRUE
  BY LedgerAssumptions
<1>2. (CHOOSE g \in Figures : TRUE) \in Figures
  BY <1>1
<1> QED
  BY <1>2, LedgerAssumptions
     DEF Starts, IdleRequest, Request, IdleNight, Night, NoEntry, Entry, NoStart

\* judge gives one of three verdicts, and an estimate exactly without a figure.
LEMMA JudgeVerdict ==
    ASSUME NEW p, NEW a
    PROVE  /\ a = NoFigure => Judge(p, a) = "estimated"
           /\ a # NoFigure => Judge(p, a) \in Measured
BY DEF Judge, Measured

\* The figure a night starts with is NULL or was reported.
LEMMA NewestReported ==
    ASSUME IInv
    PROVE  /\ Newest \in Cents \cup {NoFigure}
           /\ Newest # NoFigure => \E r \in reports : Daily(r.said) = Newest
<1>1. CASE reports = {}
  BY <1>1 DEF Newest
<1>2. CASE reports # {}
  <2>1. PICK r \in reports : \A q \in reports : q.at <= r.at
    BY <1>2 DEF IInv, Provenance
  <2> DEFINE best == CHOOSE x \in reports : \A q \in reports : q.at <= x.at
  <2>2. best \in reports
    BY <2>1
  <2>3. Newest = Daily(best.said)
    BY <1>2 DEF Newest
  <2>4. Daily(best.said) \in Cents
    BY <2>2 DEF IInv, TypeOK, Cents
  <2> QED
    BY <2>2, <2>3, <2>4
<1> QED
  BY <1>1, <1>2

\* A reported figure is judged fairly, whatever it is.
LEMMA FairlyJudged ==
    ASSUME NEW f \in Figures
    PROVE  Fair(Judge(Predicted, Daily(f)), f)
<1>1. f[1] \in Int /\ f[2] \in Bases /\ Predicted \in Nat
  BY LedgerAssumptions
<1> QED
  BY <1>1, ScoredFairly DEF Fair, Daily, Measured

LEMMA StartIsADay ==
    ASSUME TypeOK
    PROVE  Start \in Starts
BY Facts DEF TypeOK, Start, NotYet

\* Judging puts one honest entry where none, or an estimate, was.
LEMMA Judging ==
    ASSUME IInv, NEW n \in Nights, NEW s \in Starts,
           clock' = clock + 1, reports' = reports,
           ledger' = [ledger EXCEPT ![s] =
              [verdict |-> Judge(Predicted, night[n].figure),
               actual |-> night[n].figure, at |-> clock + 1]]
    PROVE  /\ clock' \in Nat /\ ledger' \in [Starts -> Entry]
           /\ HonestVerdicts'
<1> DEFINE fig == night[n].figure
           new == [verdict |-> Judge(Predicted, fig), actual |-> fig, at |-> clock + 1]
<1>1. fig \in Cents \cup {NoFigure} /\ clock \in Nat
  BY DEF IInv, TypeOK, Night
<1>2. Judge(Predicted, fig) \in {"estimated"} \cup Measured
  BY JudgeVerdict
<1>3. new \in Entry
  BY <1>1, <1>2 DEF Entry
<1>4. ledger' = [ledger EXCEPT ![s] = new]
  OBVIOUS
<1>5. ledger' \in [Starts -> Entry]
  BY <1>3, <1>4 DEF IInv, TypeOK
<1>6. fig # NoFigure => \E r \in reports : /\ r.at < clock + 1
                                           /\ Daily(r.said) = fig
                                           /\ Fair(Judge(Predicted, fig), r.said)
  BY <1>1, FairlyJudged DEF IInv, Provenance, TypeOK
<1>7. ASSUME NEW t \in Judged'
      PROVE  IF ledger'[t].actual = NoFigure THEN ledger'[t].verdict = "estimated"
             ELSE \E r \in reports' : /\ r.at < ledger'[t].at
                                      /\ Daily(r.said) = ledger'[t].actual
                                      /\ Fair(ledger'[t].verdict, r.said)
  <2>1. t \in Starts /\ ledger'[t].verdict # "absent"
    BY DEF Judged
  <2>2. CASE t = s
    <3>1. ledger'[t] = new
      BY <1>4, <2>1, <2>2 DEF IInv, TypeOK
    <3> QED
      BY <3>1, <1>6, JudgeVerdict
  <2>3. CASE t # s
    <3>1. ledger'[t] = ledger[t]
      BY <1>4, <2>1, <2>3 DEF IInv, TypeOK
    <3>2. t \in Judged
      BY <3>1, <2>1 DEF Judged
    <3> QED
      BY <3>1, <3>2 DEF IInv, HonestVerdicts
  <2> QED
    BY <2>2, <2>3
<1> QED
  BY <1>1, <1>5, <1>7 DEF HonestVerdicts

\* Entries stay honest while the ledger is left alone, as reports only grow.
LEMMA LedgerKept ==
    ASSUME HonestVerdicts, ledger' = ledger, reports \subseteq reports'
    PROVE  HonestVerdicts'
<1>1. Judged' = Judged
  BY DEF Judged
<1> QED
  BY <1>1 DEF HonestVerdicts

LEMMA InitIInv == Init => IInv
<1> SUFFICES ASSUME Init PROVE IInv
  OBVIOUS
<1>1. TypeOK
  BY Facts DEF Init, TypeOK, NotYet
<1>2. Provenance
  BY Facts DEF Init, Provenance, IdleNight
<1>3. HonestVerdicts
  BY DEF Init, HonestVerdicts, Judged, NoEntry
<1> QED
  BY <1>1, <1>2, <1>3 DEF IInv

\* The owner's decisions and the calendar.
LEMMA OwnerStep ==
    ASSUME IInv, Approve \/ Execute \/ Reopen \/ NextDay
    PROVE  IInv'
<1>1. UNCHANGED <<clock, reports, ledger, request, night, asked, crashes>>
  BY DEF Approve, Execute, Reopen, NextDay
<1>2. /\ find' \in [status : {"proposed", "accepted", "live"}, cycle : 1..MaxCycle,
                    executed : Starts \cup {NotYet}]
      /\ today' \in Starts
  <2>1. /\ find \in [status : {"proposed", "accepted", "live"}, cycle : 1..MaxCycle,
                      executed : Starts \cup {NotYet}]
        /\ today \in Starts
    BY DEF IInv, TypeOK
  <2>2. CASE Approve
    BY <2>1, <2>2 DEF Approve
  <2>3. CASE Execute
    BY <2>1, <2>3 DEF Execute
  <2>4. CASE Reopen
    <3>1. find.cycle + 1 \in 1..MaxCycle
      BY <2>1, <2>4, Facts DEF Reopen
    <3> QED
      BY <2>1, <2>4, <3>1 DEF Reopen
  <2>5. CASE NextDay
    BY <2>1, <2>5, Facts DEF NextDay, Starts
  <2> QED
    BY <2>2, <2>3, <2>4, <2>5
<1>3. TypeOK'
  BY <1>1, <1>2 DEF IInv, TypeOK
<1>4. Provenance'
  BY <1>1 DEF IInv, Provenance
<1>5. HonestVerdicts'
  BY <1>1, LedgerKept DEF IInv
<1> QED
  BY <1>3, <1>4, <1>5 DEF IInv

\* The three statements of record_outcome.
LEMMA ReporterStep ==
    ASSUME IInv, NEW r \in Reporters,
           \/ \E f \in Figures : AskToReport(r, f)
           \/ CheckStatus(r) \/ InsertReport(r)
    PROVE  IInv'
<1>0. /\ clock \in Nat /\ asked \in 0..MaxReports /\ request[r] \in Request
      /\ request \in [Reporters -> Request]
  BY DEF IInv, TypeOK
<1>1. ASSUME NEW f \in Figures, AskToReport(r, f)
      PROVE  IInv'
  <2> DEFINE asking == [pc |-> "allow", at |-> clock + 1, said |-> f]
  <2>1. asking \in Request
    BY <1>0 DEF Request
  <2>2. request' = [request EXCEPT ![r] = asking]
    BY <1>1 DEF AskToReport
  <2>3. TypeOK'
    BY <1>0, <1>1, <2>1, <2>2, Facts DEF IInv, TypeOK, AskToReport
  <2>4. Provenance'
    <3>1. \A q \in Reporters : request'[q].at <= clock'
      BY <1>0, <1>1, <2>2 DEF IInv, TypeOK, Provenance, AskToReport, Request
    <3>2. \A q \in reports' : q.at <= clock'
      BY <1>0, <1>1 DEF IInv, TypeOK, Provenance, AskToReport
    <3> QED
      BY <1>1, <3>1, <3>2 DEF IInv, Provenance, AskToReport
  <2>5. HonestVerdicts'
    BY <1>1, LedgerKept DEF IInv, AskToReport
  <2> QED
    BY <2>3, <2>4, <2>5 DEF IInv
<1>2. CASE CheckStatus(r)
  <2>1. request' \in [Reporters -> Request]
    BY <1>0, <1>2, Facts DEF CheckStatus, Request
  <2>2. \A q \in Reporters : request'[q].at <= clock
    BY <1>0, <1>2, Facts DEF IInv, Provenance, CheckStatus, Request
  <2>3. TypeOK' /\ Provenance'
    BY <1>2, <2>1, <2>2 DEF IInv, TypeOK, Provenance, CheckStatus
  <2>4. HonestVerdicts'
    BY <1>2, LedgerKept DEF IInv, CheckStatus
  <2> QED
    BY <2>3, <2>4 DEF IInv
<1>3. CASE InsertReport(r)
  <2> DEFINE row == [at |-> request[r].at, said |-> request[r].said]
  <2>1. /\ row \in [at : Nat, said : Figures] /\ row.at <= clock
        /\ reports' = reports \cup {row}
    BY <1>0, <1>3 DEF IInv, Provenance, InsertReport, Request
  <2>2. request' \in [Reporters -> Request] /\ \A q \in Reporters : request'[q].at <= clock
    BY <1>0, <1>3, Facts DEF IInv, Provenance, InsertReport, Request
  <2>3. TypeOK'
    BY <1>3, <2>1, <2>2 DEF IInv, TypeOK, InsertReport
  <2>4. \E x \in reports' : \A q \in reports' : q.at <= x.at
    <3>1. CASE reports = {}
      BY <2>1, <3>1
    <3>2. CASE reports # {}
      <4>1. PICK x \in reports : \A q \in reports : q.at <= x.at
        BY <3>2 DEF IInv, Provenance
      <4>2. x.at \in Nat /\ row.at \in Nat /\ \A q \in reports : q.at \in Nat
        BY <2>1 DEF IInv, TypeOK
      <4>3. CASE row.at <= x.at
        BY <2>1, <4>1, <4>3
      <4>4. CASE x.at < row.at
        BY <2>1, <4>1, <4>2, <4>4
      <4> QED
        BY <4>2, <4>3, <4>4
    <3> QED
      BY <3>1, <3>2
  <2>5. Provenance'
    BY <1>3, <2>1, <2>2, <2>4 DEF IInv, Provenance, InsertReport
  <2>6. HonestVerdicts'
    BY <1>3, LedgerKept DEF IInv, InsertReport
  <2> QED
    BY <2>3, <2>5, <2>6 DEF IInv
<1> QED
  BY <1>1, <1>2, <1>3

\* A step that only moves a night keeps the invariant if the night it leaves
\* behind is one the invariant allows.
LEMMA NightMoves ==
    ASSUME IInv, NEW n \in Nights, NEW new \in Night,
           night' = [night EXCEPT ![n] = new],
           new.figure # NoFigure => \E r \in reports : Daily(r.said) = new.figure,
           new.pc = "insert" => new.start \in Starts,
           new.pc = "update" => new.figure # NoFigure
    PROVE  /\ night' \in [Nights -> Night]
           /\ \A m \in Nights :
                 /\ night'[m].figure # NoFigure =>
                       \E r \in reports : Daily(r.said) = night'[m].figure
                 /\ night'[m].pc = "insert" => night'[m].start \in Starts
                 /\ night'[m].pc = "update" => night'[m].figure # NoFigure
<1>1. night \in [Nights -> Night]
  BY DEF IInv, TypeOK
<1>2. ASSUME NEW m \in Nights
      PROVE  night'[m] = IF m = n THEN new ELSE night[m]
  BY <1>1
<1> QED
  BY <1>1, <1>2 DEF IInv, Provenance

\* The steps of one night.
LEMMA NightlyStep ==
    ASSUME IInv, NEW n \in Nights,
           StartNight(n) \/ NightStep(n) \/ NightDies(n)
    PROVE  IInv'
<1>0. /\ night[n] \in Night /\ clock \in Nat
      /\ night[n].figure # NoFigure => \E r \in reports : Daily(r.said) = night[n].figure
      /\ night[n].pc = "insert" => night[n].start \in Starts
  BY DEF IInv, TypeOK, Provenance
<1> DEFINE Kept(new) == /\ new \in Night
                        /\ night' = [night EXCEPT ![n] = new]
                        /\ new.figure # NoFigure => \E r \in reports : Daily(r.said) = new.figure
                        /\ new.pc = "insert" => new.start \in Starts
                        /\ new.pc = "update" => new.figure # NoFigure
<1>a. ASSUME NEW new, Kept(new),
             UNCHANGED <<find, today, clock, reports, ledger, request, asked>>,
             crashes' \in 0..MaxCrashes
      PROVE  IInv'
  <2>1. /\ night' \in [Nights -> Night]
        /\ \A m \in Nights :
              /\ night'[m].figure # NoFigure =>
                    \E r \in reports : Daily(r.said) = night'[m].figure
              /\ night'[m].pc = "insert" => night'[m].start \in Starts
              /\ night'[m].pc = "update" => night'[m].figure # NoFigure
    BY <1>a, NightMoves
  <2>2. TypeOK' /\ Provenance'
    BY <1>a, <2>1 DEF IInv, TypeOK, Provenance
  <2>3. HonestVerdicts'
    BY <1>a, LedgerKept DEF IInv
  <2> QED
    BY <2>2, <2>3 DEF IInv
<1>b. ASSUME NEW new, Kept(new), NEW s \in Starts,
             UNCHANGED <<find, today, reports, request, asked, crashes>>,
             \/ /\ clock' = clock + 1
                /\ ledger' = [ledger EXCEPT ![s] =
                      [verdict |-> Judge(Predicted, night[n].figure),
                       actual |-> night[n].figure, at |-> clock + 1]]
             \/ UNCHANGED <<clock, ledger>>
      PROVE  IInv'
  <2>1. /\ night' \in [Nights -> Night]
        /\ \A m \in Nights :
              /\ night'[m].figure # NoFigure =>
                    \E r \in reports : Daily(r.said) = night'[m].figure
              /\ night'[m].pc = "insert" => night'[m].start \in Starts
              /\ night'[m].pc = "update" => night'[m].figure # NoFigure
    BY <1>b, NightMoves
  <2>2. /\ clock' \in Nat /\ clock <= clock'
        /\ ledger' \in [Starts -> Entry] /\ HonestVerdicts'
    <3>1. CASE UNCHANGED <<clock, ledger>>
      BY <1>b, <1>0, <3>1, LedgerKept DEF IInv, TypeOK
    <3>2. CASE /\ clock' = clock + 1
               /\ ledger' = [ledger EXCEPT ![s] =
                     [verdict |-> Judge(Predicted, night[n].figure),
                      actual |-> night[n].figure, at |-> clock + 1]]
      <4>1. reports' = reports
        BY <1>b
      <4>2. /\ clock' \in Nat /\ ledger' \in [Starts -> Entry]
            /\ HonestVerdicts'
        BY <3>2, <4>1, Judging
      <4> QED
        BY <1>0, <3>2, <4>2
    <3> QED
      BY <1>b, <3>1, <3>2
  <2>3. TypeOK'
    BY <1>b, <2>1, <2>2 DEF IInv, TypeOK
  <2>4. Provenance'
    <3>1. /\ \A r \in reports : r.at \in Nat
          /\ \A r \in Reporters : request[r].at \in Nat
      BY DEF IInv, TypeOK, Request
    <3> QED
      BY <1>b, <1>0, <2>1, <2>2, <3>1 DEF IInv, Provenance
  <2> QED
    BY <2>2, <2>3, <2>4 DEF IInv
<1>1. CASE StartNight(n)
  <2> DEFINE new == [night[n] EXCEPT !.pc = "due", !.today = today, !.figure = Newest]
  <2>1. Kept(new)
    BY <1>0, <1>1, NewestReported DEF StartNight, Night, IInv, TypeOK
  <2> QED
    BY <1>1, <1>a, <2>1 DEF StartNight, IInv, TypeOK
<1>2. CASE FindDue(n)
  <2> DEFINE new == IF Due(n) /\ Judged = {}
                    THEN [night[n] EXCEPT !.pc = "insert", !.start = Start]
                    ELSE [night[n] EXCEPT !.pc = "review"]
  <2>1. Kept(new)
    BY <1>0, <1>2, StartIsADay DEF FindDue, Night, IInv
  <2> QED
    BY <1>2, <1>a, <2>1 DEF FindDue, IInv, TypeOK
<1>3. CASE InsertVerdict(n)
  <2> DEFINE new == [night[n] EXCEPT !.pc = "review"]
  <2>1. Kept(new)
    BY <1>0, <1>3 DEF InsertVerdict, Night
  <2>2. night[n].start \in Starts
    BY <1>0, <1>3 DEF InsertVerdict
  <2> QED
    BY <1>3, <1>b, <2>1, <2>2 DEF InsertVerdict
<1>4. CASE Review(n)
  <2> DEFINE new == IF night[n].figure = NoFigure \/ Remeasurable = {} THEN IdleNight
                    ELSE [night[n] EXCEPT !.pc = "update", !.todo = Remeasurable]
  <2>1. Remeasurable \subseteq Starts
    BY DEF Remeasurable
  <2>2. Kept(new)
    BY <1>0, <1>4, <2>1, Facts DEF Review, Night, IdleNight
  <2> QED
    BY <1>4, <1>a, <2>2 DEF Review, IInv, TypeOK
<1>5. ASSUME NEW s \in Starts, UpdateVerdict(n, s)
      PROVE  IInv'
  <2> DEFINE new == IF night[n].todo = {s} THEN IdleNight
                    ELSE [night[n] EXCEPT !.todo = night[n].todo \ {s}]
  <2>0. night[n].pc = "update" /\ night[n].figure # NoFigure
    BY <1>5 DEF UpdateVerdict, IInv, Provenance
  <2>1. Kept(new)
    BY <1>0, <1>5, <2>0, Facts DEF UpdateVerdict, RowDone, Night, IdleNight
  <2> QED
    BY <1>5, <1>b, <2>1 DEF UpdateVerdict
<1>6. CASE NightDies(n)
  <2>1. Kept(IdleNight)
    BY <1>6, Facts DEF NightDies, IdleNight
  <2>2. crashes' \in 0..MaxCrashes
    BY <1>6, Facts DEF NightDies, IInv, TypeOK
  <2> QED
    BY <1>6, <1>a, <2>1, <2>2 DEF NightDies
<1> QED
  BY <1>1, <1>2, <1>3, <1>4, <1>5, <1>6 DEF NightStep

LEMMA NextKeeps == IInv /\ [Next]_vars => IInv'
<1> SUFFICES ASSUME IInv, [Next]_vars
             PROVE  IInv'
  OBVIOUS
<1>1. CASE Next
  BY <1>1, OwnerStep, ReporterStep, NightlyStep DEF Next
<1>2. CASE UNCHANGED vars
  <2>1. TypeOK' /\ Provenance'
    BY <1>2 DEF vars, IInv, TypeOK, Provenance
  <2>2. HonestVerdicts'
    BY <1>2, LedgerKept DEF vars, IInv
  <2> QED
    BY <2>1, <2>2 DEF IInv
<1> QED
  BY <1>1, <1>2

LEMMA Invariant == Spec => []IInv
BY InitIInv, NextKeeps, PTL DEF Spec

\* Every variable keeps its type.
THEOREM LedgerTypes == Spec => []TypeOK
<1>1. IInv => TypeOK
  BY DEF IInv
<1> QED
  BY <1>1, Invariant, PTL

\* A measured verdict is the judgement of a figure the owner reported before it,
\* and an estimate carries none: the Meter never invents an outcome.
THEOREM NeverInvented == Spec => []HonestVerdicts
<1>1. IInv => HonestVerdicts
  BY DEF IInv
<1> QED
  BY <1>1, Invariant, PTL

\* However many nights run at once and wherever they die, a measured verdict is
\* never rewritten and an estimate only gives way to a measurement.
THEOREM NeverRewritten == Spec => MeasuredIsFinal
<1> DEFINE Final ==
      \A s \in Starts :
          /\ ledger[s].verdict \in Measured => ledger'[s] = ledger[s]
          /\ ledger[s].verdict = "estimated" =>
                ledger'[s] = ledger[s] \/ ledger'[s].verdict \in Measured
<1>1. IInv /\ [Next]_vars => [Final]_vars
  <2> SUFFICES ASSUME IInv, Next
               PROVE  Final
    OBVIOUS
  <2>0. ledger \in [Starts -> Entry]
    BY DEF IInv, TypeOK
  <2>1. ASSUME NEW n \in Nights, InsertVerdict(n)
        PROVE  Final
    BY <2>0, <2>1 DEF InsertVerdict, Measured, IInv, Provenance
  <2>2. ASSUME NEW n \in Nights, NEW s \in Starts, UpdateVerdict(n, s)
        PROVE  Final
    <3>1. Judge(Predicted, night[n].figure) \in Measured
      BY <2>2, JudgeVerdict DEF UpdateVerdict, IInv, Provenance
    <3> QED
      BY <2>0, <2>2, <3>1 DEF UpdateVerdict, Measured
  <2>3. ASSUME ledger' = ledger
        PROVE  Final
    BY <2>3
  <2>4. CASE Approve \/ Execute \/ Reopen \/ NextDay
    BY <2>3, <2>4 DEF Approve, Execute, Reopen, NextDay
  <2>5. ASSUME NEW r \in Reporters,
               \/ \E f \in Figures : AskToReport(r, f)
               \/ CheckStatus(r) \/ InsertReport(r)
        PROVE  Final
    BY <2>3, <2>5 DEF AskToReport, CheckStatus, InsertReport
  <2>6. ASSUME NEW n \in Nights,
               StartNight(n) \/ FindDue(n) \/ Review(n) \/ NightDies(n)
        PROVE  Final
    BY <2>3, <2>6 DEF StartNight, FindDue, Review, NightDies
  <2> QED
    BY <2>1, <2>2, <2>4, <2>5, <2>6 DEF Next, NightStep
<1> QED
  BY <1>1, Invariant, PTL DEF Spec, MeasuredIsFinal

-----------------------------------------------------------------------------
\* While no two nights have been under way at once, the one at work is alone, and
\* it goes on to insert a verdict only where there is none.
Alone ==
    ~overlapped =>
        /\ \A m, n \in Nights : night[m].pc # "idle" /\ night[n].pc # "idle" => m = n
        /\ \A n \in Nights : night[n].pc = "insert" => Judged = {}
        /\ \A s, t \in Judged : s = t

LEMMA VerdictsKept ==
    ASSUME ledger' = ledger
    PROVE  Judged' = Judged
BY DEF Judged

\* What one step does to the verdicts, to a night about to insert one, and to the
\* nights besides the one that moves.
LEMMA AloneStep ==
    ASSUME IInv, Alone, Next, ~overlapped,
           \A m, n \in Nights : night'[m].pc # "idle" /\ night'[n].pc # "idle" => m = n
    PROVE  /\ \A n \in Nights : night'[n].pc = "insert" => Judged' = {}
           /\ \A s, t \in Judged' : s = t
<1> DEFINE Good == /\ \A n \in Nights : night'[n].pc = "insert" => Judged' = {}
                   /\ \A s, t \in Judged' : s = t
<1>0. night \in [Nights -> Night] /\ ledger \in [Starts -> Entry]
  BY DEF IInv, TypeOK
<1>1. ASSUME ledger' = ledger,
             \A n \in Nights : night'[n].pc = "insert" => night[n].pc = "insert"
      PROVE  Good
  BY <1>1, VerdictsKept DEF Alone
<1>2. ASSUME UNCHANGED <<ledger, night>>
      PROVE  Good
  BY <1>1, <1>2
<1>3. CASE Approve \/ Execute \/ Reopen \/ NextDay
  BY <1>2, <1>3 DEF Approve, Execute, Reopen, NextDay
<1>4. ASSUME NEW r \in Reporters,
             \/ \E f \in Figures : AskToReport(r, f)
             \/ CheckStatus(r) \/ InsertReport(r)
      PROVE  Good
  BY <1>2, <1>4 DEF AskToReport, CheckStatus, InsertReport
<1>5. ASSUME NEW n \in Nights, StartNight(n) \/ Review(n) \/ NightDies(n)
      PROVE  Good
  <2>1. ledger' = ledger
    BY <1>5 DEF StartNight, Review, NightDies
  <2>2. \A m \in Nights \ {n} : night'[m] = night[m]
    BY <1>0, <1>5 DEF StartNight, Review, NightDies
  <2>3. night'[n].pc # "insert"
    <3>1. CASE StartNight(n)
      BY <1>0, <3>1 DEF StartNight, Night
    <3>2. CASE Review(n)
      BY <1>0, <3>2 DEF Review, Night, IdleNight
    <3>3. CASE NightDies(n)
      BY <1>0, <3>3 DEF NightDies, IdleNight
    <3> QED
      BY <1>5, <3>1, <3>2, <3>3
  <2> QED
    BY <1>1, <2>1, <2>2, <2>3
<1>6. ASSUME NEW n \in Nights, FindDue(n)
      PROVE  Good
  <2>1. Judged' = Judged
    BY <1>6, VerdictsKept DEF FindDue
  <2>2. \A m \in Nights \ {n} : night'[m] = night[m]
    BY <1>0, <1>6 DEF FindDue
  <2>3. night'[n].pc = "insert" => Judged = {}
    BY <1>0, <1>6 DEF FindDue, Night
  <2> QED
    BY <2>1, <2>2, <2>3 DEF Alone
<1>7. ASSUME NEW n \in Nights, InsertVerdict(n)
      PROVE  Good
  <2>1. Judged = {} /\ night[n].pc = "insert"
    BY <1>7 DEF Alone, InsertVerdict
  <2>2. night[n].start \in Starts
    BY <2>1 DEF IInv, Provenance
  <2>3. \A s \in Starts \ {night[n].start} : ledger'[s] = ledger[s]
    BY <1>0, <1>7 DEF InsertVerdict
  <2>4. Judged' \subseteq {night[n].start}
    BY <2>1, <2>3 DEF Judged
  <2>5. \A m \in Nights : night'[m].pc # "insert"
    <3>1. night'[n].pc = "review"
      BY <1>0, <1>7 DEF InsertVerdict, Night
    <3>2. \A m \in Nights \ {n} : night'[m] = night[m]
      BY <1>0, <1>7 DEF InsertVerdict
    <3> QED
      BY <2>1, <3>1, <3>2
  <2> QED
    BY <2>4, <2>5
<1>8. ASSUME NEW n \in Nights, NEW s \in Starts, UpdateVerdict(n, s)
      PROVE  Good
  <2>1. Judged' \subseteq Judged
    <3>1. \A t \in Starts : ledger'[t] # ledger[t] => t \in Judged
      BY <1>0, <1>8 DEF UpdateVerdict, Judged
    <3> QED
      BY <3>1 DEF Judged
  <2>2. night[n].pc = "update" /\ night'[n].pc # "insert"
    BY <1>0, <1>8 DEF UpdateVerdict, RowDone, Night, IdleNight
  <2>3. \A m \in Nights \ {n} : night'[m] = night[m]
    BY <1>0, <1>8 DEF UpdateVerdict, RowDone
  <2> QED
    BY <2>1, <2>2, <2>3 DEF Alone
<1> QED
  BY <1>3, <1>4, <1>5, <1>6, <1>7, <1>8 DEF Next, NightStep

\* While nights follow one another a recommendation has one verdict, whatever is
\* approved, executed, reopened or reported between and during them.
THEOREM VerdictsStandAlone == MCSpec => []OneVerdict
<1>1. MCInit => Init /\ Alone
  BY DEF MCInit, Init, Alone, Judged, NoEntry, IdleNight
<1>2. [MCNext]_mcVars => [Next]_vars
  BY DEF MCNext, mcVars
<1>3. IInv /\ Alone /\ [MCNext]_mcVars => Alone'
  <2> SUFFICES ASSUME IInv, Alone, [MCNext]_mcVars
               PROVE  Alone'
    OBVIOUS
  <2>1. CASE UNCHANGED mcVars
    BY <2>1, VerdictsKept DEF mcVars, vars, Alone
  <2>2. CASE MCNext
    <3> SUFFICES ASSUME ~overlapped'
                 PROVE  Alone'
      BY DEF Alone
    <3>1. /\ ~overlapped /\ Next
          /\ \A m, n \in Nights : night'[m].pc # "idle" /\ night'[n].pc # "idle" => m = n
      BY <2>2 DEF MCNext
    <3> QED
      BY <3>1, AloneStep DEF Alone
  <2> QED
    BY <2>1, <2>2
<1>4. Alone => OneVerdict
  BY DEF Alone, OneVerdict
<1> QED
  BY <1>1, <1>2, <1>3, <1>4, InitIInv, NextKeeps, PTL DEF MCSpec
=============================================================================
