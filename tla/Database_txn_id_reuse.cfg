\* Ids restart at 1 over a log that still holds the last session's records.
SPECIFICATION Spec
CONSTANTS
    p1 = p1
    p2 = p2
    NoTxn = NoTxn
    Blank = Blank
    MaxLsn = 30
    PageKey <- Page2
    Txn <- Txn1
    MaxSessions = 2
    WorkSessions = 2
    ProcessDies = TRUE
    PowerFails = FALSE
    FailLsn = 0
    CheckpointWhen = "never"
INVARIANT RecoversCommitted
