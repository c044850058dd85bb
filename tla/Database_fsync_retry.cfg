\* fsync errors in Commit, answered by a rollback or by another COMMIT, and
\* power losses.
SPECIFICATION Spec
CONSTANTS
    p1 = p1
    p2 = p2
    NoTxn = NoTxn
    Blank = Blank
    MaxLsn = 30
    PageKey <- Page1
    Txn <- Txn2
    MaxSessions = 2
    WorkSessions = 1
    ProcessDies = FALSE
    PowerFails = TRUE
    FailLsn = 8
    CheckpointWhen = "never"
INVARIANT WriteAhead
