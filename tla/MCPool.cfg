SPECIFICATION FairSpec
CONSTANTS
    scanner = scanner
    editor = editor
    reader = reader
    conn1 = conn1
    NoConn = NoConn
    Free = Free
    Call <- Callers
    Conn <- OneConn
    Kinds <- KindsOf
    RowCounts = {2}
INVARIANTS
    TypeOK
    ConnectionsConserved
    NoLostWakeup
    StreamOutcome
PROPERTY
    EveryCallReturns
