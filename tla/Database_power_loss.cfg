\* Two transactions, then power losses during their work and during recovery.
SPECIFICATION Spec
CONSTANTS
    p1 = p1
    p2 = p2
    NoTxn = NoTxn
    Blank = Blank
    MaxLsn = 30
    PageKey <- Page2
    Txn <- Txn2
    MaxSessions = 3
    WorkSessions = 1
    ProcessDies = FALSE
    PowerFails = TRUE
    FailLsn = 0
    CheckpointWhen = "never"
SYMMETRY PageSymmetry
INVARIANTS TypeOK ReadsCommitted ForcedWhenIdle
PROPERTIES ImplementsAtomicStore
