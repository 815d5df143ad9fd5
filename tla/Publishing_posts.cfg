SPECIFICATION MCSpec
CONSTANTS
    Publishers = {p1, p2}
    Mailers = {m1, m2}
    Locations = {here, there}
    MaxCycle = 2
    MaxRevision = 2
    MaxCalls = 2
    InDoubt = TRUE
    Nothing = Nothing
SYMMETRY Symmetry
INVARIANTS
    PostedOnce
    LiveIsPublished
    RunningMailNotRepeated
PROPERTIES
    PublishedUnderApproval
    PostReceiptsHold
CHECK_DEADLOCK FALSE
