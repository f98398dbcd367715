\* see README.md, run careful
SPECIFICATION FairSpec
CONSTANTS
    None = None
    auto = auto
    l1 = l1
    h1 = h1
    h2 = h2
    u1 = u1
    u2 = u2
    AutoLogin = auto
    Logins = {auto, l1}
    Handlers = {h1}
    Users = {u1}
    Client = "careful"
    FailingRpcs = {"login", "open"}
    MaxRestarts = 0
INVARIANTS
    MonitorReachable
PROPERTIES
    KeepsSession
    LoginsEnd
    StopIsHeeded
