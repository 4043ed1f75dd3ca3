SPECIFICATION FairSpec
CONSTANTS
    user = user
    machine = machine
    project = project
    other = other
    t1 = t1
    t2 = t2
    Path <- Paths
    MaxBatch = 2
    Task <- TwoTasks
    SharedFlush = FALSE
    Op <- CloseOps
INVARIANTS
    TypeOK
    TreeCoversScopes
PROPERTIES
    EnsuredPathResolves
    EnsuredEventuallyResolves
