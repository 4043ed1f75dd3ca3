SPECIFICATION PairSpec
CONSTANTS
    first = first
    second = second
    wide = wide
    writer = writer
    keeper = keeper
    saver = saver
    builder = builder
    partner = partner
    NoVec = NoVec
    Default = Default
    Identity <- Models
    Dim <- Dims
    MaxFacts = 2
    Batch = 1
    Task <- DreamCallers
    Op <- DreamOps
    Pairs <- DreamMeetings
SYMMETRY SameDim
INVARIANT
    Reopenable
