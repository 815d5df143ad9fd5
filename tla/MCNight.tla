------------------------------ MODULE MCNight -------------------------------
\* A small instance of Night, and the conversations beside it, for TLC.
EXTENDS Night, TLC

\* With the schedule off, so that only the owner's presses start nights.
ButtonSpec == Init /\ [][Next /\ \A n \in Nights : ~Schedule(n)]_vars
=============================================================================
