\* see README.md, run podstart
SPECIFICATION FairSpec
CONSTANTS
    grpcConnectRetries = 3
    Undialable = {2}
    MaxKills = 2
    MaxDeaths = 2
    MaxRefusals = 1
INVARIANTS
    TypeOK
    KeychainReady
    OneConnection
    ConnectedHere
PROPERTIES
    KeyKept
    NextRoundConnects
CHECK_DEADLOCK FALSE
