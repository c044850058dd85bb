\* Three transactions, two pages: upgrades, crossed waits, two shared holders
\* under a waiting writer.  No symmetry: it is not sound for liveness.
SPECIFICATION FairSpec
CONSTANTS
    p1 = p1
    p2 = p2
    NoTxn = NoTxn
    Txn <- MCTxn
    PageKey <- MCPage
INVARIANTS TypeOK MutualExclusion TablesAgree SleeperIsBlocked SleeperHasYoungerBlocker
PROPERTIES StrictTwoPhase RequestsResolve
