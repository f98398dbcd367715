\* see README.md, run monitor
SPECIFICATION FairSpec
CONSTANTS
    None = None
    auto = auto
    l1 = l1
    h1 = h1
    h2 = h2
    u1 = u1
    u2 = u2
    AutoLogin = auto
    Logins = {auto}
    Handlers = {}
    Users = {u1, u2}
    Client = "any"
    FailingRpcs = {}
    MaxRestarts = 1
INVARIANTS
    StatusMatchesWatcher
PROPERTIES
    StopBeforeCancel
    Heals
    Quiesces
CHECK_DEADLOCK FALSE
