SPECIFICATION PairSpec
CONSTANTS
    first = first
    second = second
    wide = wide
    writer = writer
    keeper = keeper
    saver = saver
    builder = builder
    partner = partner
    NoVec = NoVec
    Default = Default
    Identity <- Models
    Dim <- Dims
    MaxFacts = 2
    Batch = 1
    Task <- Callers
    Op <- Ops
    Pairs <- Meetings
SYMMETRY SameDim
INVARIANTS
    TypeOK
    Homogeneous
    UnfencedDecodes
    IndexCoversActive
    IndexFitsHandle
PROPERTY
    RollbackKept
