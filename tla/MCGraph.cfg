SPECIFICATION Spec
CONSTANTS
    f1 = f1
    f2 = f2
    f3 = f3
    f4 = f4
    e1 = e1
    e2 = e2
    e3 = e3
    e4 = e4
    Fact <- Facts
    EdgeId <- Edges
    Source <- Sources
    Target <- Targets
    MaxEdges = 4
INVARIANTS
    TypeOK
    EdgesKeepTheirEnds
    QueriesAgree
PROPERTY
    ImplementsFactGraph
