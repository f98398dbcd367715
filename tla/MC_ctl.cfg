\* see README.md, run ctl
SPECIFICATION CtlSpec
CONSTANTS
    None = None
    AutoLogin = auto
    Logins = {auto, l1}
    Handlers = {h1}
    Users = {u1}
    Client = "careful"
    FailingRpcs = {}
    MaxRestarts = 0
PROPERTIES
    ReportsOwnLogin
CHECK_DEADLOCK FALSE
