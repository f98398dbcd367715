\* see README.md, run discord
SPECIFICATION FairSpec
CONSTANTS
    m1 = m1
    m2 = m2
    m3 = m3
    m4 = m4
    Mails = {m1, m2, m3, m4}
    Window = 3
    Size <- BlockSize
    Limit = 4
    Suffix = 1
INVARIANTS
    TypeOK
    NothingStranded
    ListsAllThatFit
PROPERTIES
    LimitsRate
    EachFlushed
