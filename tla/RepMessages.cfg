SPECIFICATION RepSpec
CONSTANTS
    Messages = {m1, m2}
    Senders = {r1, r2}
    MaxSends = 5
    MaxCutOff = 2
    MaxErrors = 1
SYMMETRY Symmetry
INVARIANTS BooksFollowMail RepeatsBounded
CHECK_DEADLOCK FALSE
