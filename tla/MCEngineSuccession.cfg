SPECIFICATION Spec
CONSTANTS
    t1 = t1
    t2 = t2
    MaxFacts = 3
    MaxEdges = 3
    MaxDeltas = 2
    MinFacts = 1
    Task <- TwoTasks
    Op <- SuccessionOps
SYMMETRY TaskSymmetry
VIEW TablesView
INVARIANT
    AtMostOneSuccessor
PROPERTY
    MergedGroupKeepsAMember
