\* see README.md, run mail
SPECIFICATION FairSpec
CONSTANTS
    old = old
    a = a
    b = b
    c = c
    idOld = idOld
    idA = idA
    idB = idB
    Messages = {old, a, b, c}
    Backlog <- OldMail
    MessageID <- Ids
    Headless = {a}
    Folder <- Places
    Watchers = {1}
    FailingImap = {"search", "fetch", "folders", "lookup"}
    Expunging = TRUE
    maxSeenIDs = 1
INVARIANTS
    TypeOK
    NoneBelowHighWater
PROPERTIES
    EachLookedUp
    StoppedEnds
