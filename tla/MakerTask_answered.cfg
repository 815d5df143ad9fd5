SPECIFICATION FairSpec
CONSTANTS
    Finds = {f1}
    Workers = {w1}
    Nobody = Nobody
    MaxCycle = 2
    MaxRevision = 2
    RevisionCap = 2
    MaxAttempts = 2
    AttemptCap = 3
    QueueCap = 1
    LeaseOutlived = FALSE
PROPERTIES
    ApprovalAnswered
