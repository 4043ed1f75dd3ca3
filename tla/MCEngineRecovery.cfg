SPECIFICATION Spec
CONSTANTS
    t1 = t1
    t2 = t2
    MaxFacts = 3
    MaxEdges = 3
    MaxDeltas = 1
    MinFacts = 1
    Task <- OneTask
    Op <- RecoveryOps
PROPERTY
    OpenRecovers
