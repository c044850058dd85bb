\* One transaction per session over three sessions, the log truncated on every open.
SPECIFICATION Spec
CONSTANTS
    p1 = p1
    p2 = p2
    NoTxn = NoTxn
    Blank = Blank
    MaxLsn = 30
    PageKey <- Page2
    Txn <- Txn1
    MaxSessions = 3
    WorkSessions = 3
    ProcessDies = TRUE
    PowerFails = FALSE
    FailLsn = 0
    CheckpointWhen = "first"
SYMMETRY PageSymmetry
INVARIANT ReadsCommitted
PROPERTIES ImplementsAtomicStore
