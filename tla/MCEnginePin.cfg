SPECIFICATION Spec
CONSTANTS
    t1 = t1
    t2 = t2
    MaxFacts = 2
    MaxEdges = 1
    MaxDeltas = 1
    MinFacts = 1
    Task <- TwoTasks
    Op <- PinOps
PROPERTY
    PinnedIsUnforgettable
