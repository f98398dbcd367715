\* see README.md, run sidecar
SPECIFICATION Spec
CONSTANTS
    None = None
    a1 = a1
    w1 = w1
    w2 = w2
    mail = mail
    draft = draft
    idMail = idMail
    idDraft = idDraft
    Logins = {a1}
    Messages = {mail, draft}
    Backlog <- NoBacklog
    MessageID <- Ids
    Headless = {}
    Folder <- Places
    Watchers = {w1, w2}
    FailingImap = {"status"}
    maxSeenIDs = 2
    DefaultWindow = 1
    ConfigFiles <- Files
    MaxNotices = 4
    MaxCrashes = 1
SYMMETRY WatcherSymmetry
INVARIANTS
    TypeOK
    EachPostedOnce
    OncePerWatcher
