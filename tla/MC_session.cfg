\* see README.md, run session
SPECIFICATION Spec
CONSTANTS
    None = None
    auto = auto
    l1 = l1
    h1 = h1
    h2 = h2
    u1 = u1
    u2 = u2
    AutoLogin = auto
    Logins = {auto, l1}
    Handlers = {h1, h2}
    Users = {u1}
    Client = "any"
    FailingRpcs <- AllRpcs
    MaxRestarts = 0
SYMMETRY HandlerSymmetry
INVARIANTS
    TypeOK
    NoPanic
    PendingHasLogin
    WatcherOwned
    SessionLive
    NoLostWakeup
