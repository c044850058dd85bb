\* Two tables, an index and two rows; the process dies twice, Persist fails once.
SPECIFICATION Spec
CONSTANTS
    users = users
    orders = orders
    by_age = by_age
    ident = ident
    age = age
    note = note
    r1 = r1
    r2 = r2
    NoColumn = NoColumn
    NONE = NONE
    Formatted = Formatted
    NoRoot = NoRoot
    TableStatement <- Tables2
    IndexStatement <- Indexes1
    Row <- Rows2
    ExclusiveDdl = TRUE
    OneSessionPerLog = TRUE
    MaxObjects = 4
    MaxTxns = 2
    MaxCrashes = 2
    MaxFailures = 1
SYMMETRY RowSymmetry
INVARIANTS OpenNeverFails FreshObject AckedDdlSurvives CommittedRowsSurvive AckedIndexComplete LookupsSurviveReload
