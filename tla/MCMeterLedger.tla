---------------------------- MODULE MCMeterLedger ----------------------------
EXTENDS MeterLedger

\* Daily figures of 1 and 3 cents: with Predicted = 8 the bar is 2, so the first
\* is a miss and the second a win.
MCFigures == {<<7, "week">>, <<90, "month">>}

\* Whether two nights have ever been under way at once.
VARIABLE overlapped

mcVars == <<vars, overlapped>>

MCInit == Init /\ overlapped = FALSE

MCNext ==
    /\ Next
    /\ overlapped' = (overlapped \/ \E m, n \in Nights :
          m # n /\ night'[m].pc # "idle" /\ night'[n].pc # "idle")

MCSpec == MCInit /\ [][MCNext]_mcVars /\ Fairness

\* One find has one verdict while nights follow one another.  agents/meter.py, on
\* the window already on the row: "Recomputing it would write a second verdict for
\* one find instead of replacing the first."
OneVerdict == ~overlapped => \A s, t \in Judged : s = t
=============================================================================
