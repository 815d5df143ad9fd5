SPECIFICATION Spec
CONSTANTS
    Null = Null
    Requests = {r1, r2}
    Tabs = {t1, t2}
    Subjects = {s1}
    MaxNames = 2
    MaxAccounts = 2
    MaxTokens = 2
    MaxCodes = 1
    MaxSaves = 2
    Menus = {m1}
SYMMETRY AccountsSymmetry
INVARIANTS
    KeysUnique
    CodeRedeemedOnce
    OneOwnerPerBusiness
    SessionSeesAccount
    ProfileCoherent
PROPERTIES
    GoogleAccountsInvited
CHECK_DEADLOCK FALSE
