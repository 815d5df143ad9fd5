------------------------------ MODULE MeterMath ------------------------------
(***************************************************************************)
(* meter.py, the pure half of the Meter: the daily figure of an amount the *)
(* owner reported over a period, and the verdict on a prediction.  Money   *)
(* is integer cents; NoFigure stands for None.                             *)
(***************************************************************************)
EXTENDS Integers

CONSTANT NoFigure

ASSUME NoFigureAssumption == NoFigure \notin Int

\* MEASUREMENT_BASES: the days each period covers.
Days == [day |-> 1, week |-> 7, month |-> 30]

Bases == DOMAIN Days

Abs(n) == IF n < 0 THEN -n ELSE n

\* daily_cents_from: half-up on the magnitude.
DailyCents(amount, basis) ==
    LET magnitude == (Abs(amount) * 2 + Days[basis]) \div (Days[basis] * 2)
    IN  IF amount >= 0 THEN magnitude ELSE -magnitude

\* judge, with DEFAULT_MISS_THRESHOLD = 1/4 and has_outcome_data iff there is a
\* figure (outcomes.py never says otherwise).  A prediction of zero sets no bar.
Judge(predicted, actual) ==
    IF actual = NoFigure THEN "estimated"
    ELSE IF actual <= 0 \/ 4 * actual < predicted THEN "miss" ELSE "verified"
=============================================================================
