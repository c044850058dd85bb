\* Two transactions on three pages, with a restart.
SPECIFICATION Spec
CONSTANTS
    NoTxn = NoTxn
    Txn <- Txn2
    SlotsPerPage = 2
    MaxPages = 3
    MaxOps = 2
    RowsOnOpen = 2
    MaxCrashes = 1
INVARIANTS TypeOK FreshPageNeverBlocks FileIsCommitted ReadsAreStable ScanMissesNothing
