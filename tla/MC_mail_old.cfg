\* see README.md, run mail_old
SPECIFICATION Spec
CONSTANTS
    old = old
    a = a
    b = b
    c = c
    idOld = idOld
    idA = idA
    idB = idB
    Messages = {old, a, b, c}
    Backlog <- OldMail
    MessageID <- Ids
    Headless = {}
    Folder <- Places
    Watchers = {1}
    FailingImap = {}
    Expunging = TRUE
    maxSeenIDs = 5
INVARIANTS
    OnlyNewMail
