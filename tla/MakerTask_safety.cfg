SPECIFICATION Spec
CONSTANTS
    Finds = {f1}
    Workers = {w1, w2}
    Nobody = Nobody
    MaxCycle = 2
    MaxRevision = 2
    RevisionCap = 3
    MaxAttempts = 2
    AttemptCap = 3
    QueueCap = 2
    LeaseOutlived = FALSE
SYMMETRY WorkerSymmetry
INVARIANTS
    OneCurrentDraft
    IInv
PROPERTIES
    SupersededIsFinal
    ImplementsContract
