SPECIFICATION Spec
CONSTANTS
    t1 = t1
    t2 = t2
    MaxFacts = 3
    MaxEdges = 4
    MaxDeltas = 1
    MinFacts = 1
    Task <- OneTask
    Op <- SerialOps
VIEW SerialView
INVARIANTS
    TypeOK
    MirrorExact
    AcceptedSidecarIsCurrent
    CascadeComplete
