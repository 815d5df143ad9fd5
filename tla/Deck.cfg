SPECIFICATION Spec
CONSTANTS
    a1 = a1
    a2 = a2
    b = b
    n = n
    m = m
    Null = Null
    Rows = {a1, a2, b, n, m}
    Fact <- MCFact
    Queries = {q1, q2}
    Levels = {5, 90}
    Ties <- MCTies
    PerQuery = 4
    Decks <- MCDecks
    Deployments = {{"refuter"}, {"refuter", "coster"}}
    MaxFinds = 2
    MaxPerSource = 1
    MinRows = 3
    MinSources = 2
    Absolute = 10
    Relative = 40
    MaxAnswers = 2
    MaxPurged = 1
INVARIANTS
    PromptIsFair
    BoardStandsUp
    FiguresAreEarned
    HeldForCause
    FailedForCause
CHECK_DEADLOCK FALSE
