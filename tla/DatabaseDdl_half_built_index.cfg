\* The process dies once, Persist does not fail.
SPECIFICATION Spec
CONSTANTS
    users = users
    orders = orders
    by_age = by_age
    ident = ident
    age = age
    note = note
    r1 = r1
    r2 = r2
    NoColumn = NoColumn
    NONE = NONE
    Formatted = Formatted
    NoRoot = NoRoot
    TableStatement <- Tables2
    IndexStatement <- Indexes1
    Row <- Rows2
    ExclusiveDdl = TRUE
    OneSessionPerLog = TRUE
    MaxObjects = 5
    MaxTxns = 2
    MaxCrashes = 1
    MaxFailures = 0
SYMMETRY RowSymmetry
INVARIANT IndexCoversEarlierRows
