SPECIFICATION FairSpec
CONSTANTS
    f1 = f1
    f2 = f2
    c1 = c1
    Fact <- Facts
    Valid <- ValidAt
    Invalid <- InvalidAt
    Caller <- Callers
    Cap = 1
    MaxTime = 3
INVARIANTS
    TypeOK
    SurfacedWhenDue
    StampsReported
PROPERTIES
    SurfacedOnce
    DueFactsSurface
