\* An autocommit statement beside an explicit transaction of two statements,
\* on a table of up to two rows with two indexes.
SPECIFICATION Spec
CONSTANTS
    NoTxn = NoTxn
    NoTable = NoTable
    Txn <- Txn2
    Cat <- Cat2
    Table = "t"
    Stmt <- Statements
    Autocommit <- Autocommit1
    Value <- Values123
    FirstRows <- Rows012
    SlotsPerPage = 3
    MaxPages = 6
    MaxStmts = 2
    Query <- Queries
    Other <- OtherRows
    ClientAborts = TRUE
INVARIANTS IndexesAgree PrimaryKeyUnique NeverOutOfSync QueriesAreExact
PROPERTY CommitOrder
