\* see README.md, run lost_monitor
SPECIFICATION Spec
CONSTANTS
    None = None
    auto = auto
    l1 = l1
    h1 = h1
    h2 = h2
    u1 = u1
    u2 = u2
    AutoLogin = auto
    Logins = {auto, l1}
    Handlers = {}
    Users = {u1}
    Client = "polite"
    FailingRpcs = {}
    MaxRestarts = 0
INVARIANTS
    MonitorReachable
