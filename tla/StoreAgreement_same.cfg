SPECIFICATION Spec
CONSTANTS
    Null = Null
    Areas = {"signin", "profile", "connect", "runs", "memory", "maker", "tools", "meter"}
    Loose = {}
    Names = {"n1", "n2"}
    Subjects = {"s1"}
    Tokens = {"t1", "t2"}
    Codes = {"c1"}
    Ids = {1, 2}
    Edited = {1}
    Own = "own"
    Others = {"other"}
    Contents = {1, 2}
    Days = {0, 1}
    Periods = {1, 2}
    Window = 1
    Figures = {3, 5}
    Limits = {0, 1, 2}
    MaxRows = 2
    MaxClaims = 3
    MaxCited = 2
    MaxCycle = 2
    MaxRevision = 2
INVARIANTS
    AccountsAgree
    MemoriesAgree
    WorkAgrees
CHECK_DEADLOCK FALSE
