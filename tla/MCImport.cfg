SPECIFICATION Spec
CONSTANTS
    i1 = i1
    i2 = i2
    i3 = i3
    l1 = l1
    l2 = l2
    l3 = l3
    note = note
    a = a
    b = b
    s1 = s1
    s2 = s2
    none = none
    Importer <- Importers
    File <- Files
    Content <- Contents
    Session <- Sessions
    NoSession = none
    SessionOf <- SessionOfFile
    Mentions <- MentionsOf
    Directory <- Directories
    MaxRuns = 4
    MaxExpired = 1
INVARIANTS
    TypeOK
    SessionImportedOnce
    EveryMentionCounted
    StatsIndependentOfOrder
