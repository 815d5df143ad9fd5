SPECIFICATION FairSpec
CONSTANTS
    Null = Null
    Turns = {t1}
    Nights = {n1, n2}
    StaleAfter = 2
    MaxLosses = 1
    Cooldown = 2
    Retries = 1
INVARIANTS
    ChatTellsTruth
    OpenRowIsWorked
PROPERTIES
    EventuallyServed
CHECK_DEADLOCK FALSE
