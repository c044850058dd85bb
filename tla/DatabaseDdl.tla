---------------------------- MODULE DatabaseDdl ----------------------------
(***************************************************************************)
(* CREATE TABLE and CREATE INDEX (src/src/db/database.cpp and the DDL half *)
(* of src/src/sql/executor.cpp) over Catalog, the files of the objects,    *)
(* the log and the transactions of one client; a process that dies at any  *)
(* step of them, and the two phases of opening the database again.         *)
(*                                                                         *)
(* A page is the set of what it holds: Formatted and the rows of a heap    *)
(* page or of a leaf, the number of the root or NoRoot of an index header, *)
(* nothing at all for a page that was allocated and never written.  Page   *)
(* numbers start at 1.  An index entry is named by its row, and a tree is  *)
(* one leaf (BPlusTree has its shape).  Commit appends one Update record   *)
(* after the other, then the Commit record; TxnIds start at 1 in every     *)
(* process, and recovery looks at nothing else.                            *)
(***************************************************************************)
EXTENDS Catalog, FiniteSets

CONSTANTS
    TableStatement, \* CREATE TABLE statements: name, columns, primary_key_column
    IndexStatement, \* CREATE INDEX statements: name, table_name, column_name
    Row, Formatted, NoRoot,
    ExclusiveDdl,   \* no Begin between the check for active transactions and the end of a DDL statement
    OneSessionPerLog, \* a process that finds a log runs Checkpoint before it begins a transaction
    MaxObjects,     \* bound: ObjectIds
    MaxTxns,        \* bound: transactions
    MaxCrashes,     \* bound: deaths of the process
    MaxFailures     \* bound: errors of Persist

ASSUME DdlAssumption ==
    /\ {MaxObjects, MaxTxns, MaxCrashes, MaxFailures} \subseteq Nat
    /\ {ExclusiveDdl, OneSessionPerLog} \subseteq BOOLEAN
    /\ Formatted \notin Row /\ NoRoot \notin Row \cup Nat
    /\ \A s \in TableStatement, u \in TableStatement \cup IndexStatement :
          PkIndexName(s.name, s.primary_key_column) # u.name

VARIABLES
    objects,   \* objects_, all of them registered with the TransactionManager
    file,      \* the data file of an ObjectId, as a sequence of pages
    cache,     \* the pages of its BufferPool
    dirty,     \* the numbers of its dirty pages
    wal,       \* for every transaction since the last Checkpoint, in the order of Begin, its records
    next_txn_id, \* next_txn_id_
    txn,       \* the client's transaction
    call,      \* the DDL statement or constructor that is running
    txns, crashes, failures,
    \* history, for the properties only
    rows,      \* the committed rows of a table
    acked      \* the tables and indexes whose CREATE has returned

storagevars == <<objects, file, cache, dirty, wal>>
bounds      == <<txns, crashes, failures>>
vars        == <<catalogvars, storagevars, next_txn_id, txn, call, bounds, rows, acked>>

ObjectId == 0..MaxObjects - 1
TableName == {s.name : s \in TableStatement}

Zeroed == {}
Zeros(n) == [i \in 1..n |-> Zeroed]

\* The records of one transaction, which follow each other: its Begin, the
\* Updates of different pages, and whether it has a Commit record.
Entry(id) == [txn |-> id, updates |-> {}, commit |-> FALSE]
LastEntry == wal[Len(wal)]

\* dirtied: Transaction::DirtiedPages.  observed: the pools that had its
\* observer set by Begin.  added: the rows it has inserted, with their table.
NoTxn == [state |-> "none", observed |-> {}, dirtied |-> {}, added |-> {}]

\* at: where the call is.  todo: the objects it still has to attach.  of: the
\* statement.  DDL statements of one process do not overlap.
Idle == [at |-> "idle", todo |-> <<>>, of |-> [kind |-> "none", name |-> NoColumn]]
At(p) == call.at = p
Running == call.at \notin {"down", "failed"}

Init ==
    /\ CatalogInit
    /\ objects = {} /\ wal = <<>>
    /\ file = [o \in ObjectId |-> <<>>]
    /\ cache = [o \in ObjectId |-> <<>>] /\ dirty = [o \in ObjectId |-> {}]
    /\ txn = NoTxn /\ next_txn_id = 1 /\ call = Idle
    /\ txns = 0 /\ crashes = 0 /\ failures = 0
    /\ rows = [t \in TableName |-> {}] /\ acked = {}
-----------------------------------------------------------------------------
Heap(name) == FindTable(catalog, name)[1].heap_object_id
IndexesOf(name) == {i.object_id : i \in ToSet(IndexesOnTable(catalog, name))}
RowsIn(pages) == (UNION ToSet(pages)) \cap Row
Header(o) == cache[o][1]

\* A header of zeros names page 0, the header itself, as the root: Search
\* and Insert never reach a leaf.
Readable(o) == Header(o) # Zeroed
TreeRows(pages) ==
    IF pages = <<>> \/ pages[1] \in {Zeroed, {NoRoot}} THEN {}
    ELSE pages[CHOOSE p \in pages[1] : TRUE] \cap Row

\* The pages of an object after its rows have been given some more, and the
\* pages that this changes.
HeapWith(pages, new) ==
    LET last == Len(pages)
    IN  IF pages # <<>> /\ Formatted \in pages[last]
        THEN [pages |-> [pages EXCEPT ![last] = @ \cup new], changed |-> {last}]
        ELSE [pages |-> Append(pages, {Formatted} \cup new), changed |-> {last + 1}]

TreeWith(pages, new) ==
    LET leaf == Len(pages) + 1
        root == CHOOSE p \in pages[1] : TRUE
    IN  IF new = {} THEN [pages |-> pages, changed |-> {}]
        ELSE IF pages[1] = {NoRoot}
        THEN [pages |-> Append([pages EXCEPT ![1] = {leaf}], {Formatted} \cup new), changed |-> {1, leaf}]
        ELSE [pages |-> [pages EXCEPT ![root] = @ \cup new], changed |-> {root}]

\* AllocatePage has extended the file for every page that is new.
Grown(pages, to) == pages \o Zeros(Len(to) - Len(pages))
-----------------------------------------------------------------------------
\* Begin sets its observer on the pools that are registered at that time.
Observed == objects

\* What the client keeps to under OneSessionPerLog: no TxnId is used twice in a log.
IdsAreFresh == OneSessionPerLog /\ next_txn_id = 1 => wal = <<>>

Begin ==
    /\ txn.state = "none" /\ txns < MaxTxns
    /\ Running /\ call.of.kind # "open" /\ (ExclusiveDdl => At("idle"))
    /\ IdsAreFresh
    /\ wal' = Append(wal, Entry(next_txn_id)) /\ next_txn_id' = next_txn_id + 1
    /\ txn' = [NoTxn EXCEPT !.state = "active", !.observed = Observed]
    /\ txns' = txns + 1
    /\ UNCHANGED <<catalogvars, objects, file, cache, dirty, call, crashes, failures, rows, acked>>

\* ExecuteInsert: the heap file, then every index of the table.  A statement
\* on a table with an index that is not attached or not readable fails and is
\* rolled back, or ends the process.
Insert(name, r) ==
    /\ txn.state = "active"
    /\ FindTable(catalog, name) # <<>>
    /\ Heap(name) \in objects
    /\ \A o \in IndexesOf(name) : o \in objects /\ Readable(o)
    /\ \A t \in TableName : r \notin rows[t] /\ <<t, r>> \notin txn.added
    /\ LET touched == {Heap(name)} \cup IndexesOf(name)
           After(o) == IF o = Heap(name) THEN HeapWith(cache[o], {r}) ELSE TreeWith(cache[o], {r})
       IN  /\ cache' = [o \in ObjectId |-> IF o \in touched THEN After(o).pages ELSE cache[o]]
           /\ dirty' = [o \in ObjectId |-> IF o \in touched THEN dirty[o] \cup After(o).changed ELSE dirty[o]]
           /\ file' = [o \in ObjectId |-> IF o \in touched THEN Grown(file[o], After(o).pages) ELSE file[o]]
           /\ txn' = [txn EXCEPT !.dirtied = @ \cup UNION {{o} \X After(o).changed : o \in touched \cap txn.observed},
                                 !.added = @ \cup {<<name, r>>}]
    /\ UNCHANGED <<catalogvars, objects, wal, next_txn_id, call, bounds, rows, acked>>

\* AppendUpdate of the next dirtied page: one object after the other, in any
\* order, and the pages of an object in ascending order.
Image(o, p) == [object |-> o, page |-> p, image |-> cache[o][p]]
Logged(o, p) == \E r \in LastEntry.updates : r.object = o /\ r.page = p
Unlogged == {d \in txn.dirtied : ~Logged(d[1], d[2])}
Started(o) == \E r \in LastEntry.updates : r.object = o

LogUpdate(o, p) ==
    /\ txn.state \in {"active", "committing"}
    /\ <<o, p>> \in Unlogged
    /\ \A d \in Unlogged : IF d[1] = o THEN p <= d[2] ELSE ~Started(d[1])
    /\ wal' = [wal EXCEPT ![Len(wal)] = [LastEntry EXCEPT !.updates = @ \cup {Image(o, p)}]]
    /\ txn' = [txn EXCEPT !.state = "committing"]
    /\ UNCHANGED <<catalogvars, objects, file, cache, dirty, next_txn_id, call, bounds, rows, acked>>

\* AppendCommit and FlushThrough, which is the commit point.
LogCommit ==
    /\ txn.state \in {"active", "committing"}
    /\ Unlogged = {}
    /\ wal' = [wal EXCEPT ![Len(wal)] = [LastEntry EXCEPT !.commit = TRUE]]
    /\ rows' = [t \in TableName |-> rows[t] \cup {r \in Row : <<t, r>> \in txn.added}]
    /\ txn' = [txn EXCEPT !.state = "logged"]
    /\ UNCHANGED <<catalogvars, objects, file, cache, dirty, next_txn_id, call, bounds, acked>>

Flushed(o, pages) == [p \in DOMAIN file[o] |-> IF p \in pages THEN cache[o][p] ELSE file[o][p]]

\* FlushPages of the dirtied pages; the transaction ends.
ForcePages ==
    /\ txn.state = "logged"
    /\ file' = [o \in ObjectId |-> Flushed(o, {p \in DOMAIN file[o] : <<o, p>> \in txn.dirtied})]
    /\ dirty' = [o \in ObjectId |-> {p \in dirty[o] : <<o, p>> \notin txn.dirtied}]
    /\ txn' = NoTxn
    /\ UNCHANGED <<catalogvars, objects, cache, wal, next_txn_id, call, bounds, rows, acked>>

\* Abort: DiscardPage reads the dirtied pages back.  The files stay as long,
\* and nothing reads the Abort record.
Abort ==
    /\ txn.state = "active"
    /\ cache' = [o \in ObjectId |-> [p \in DOMAIN cache[o] |-> IF <<o, p>> \in txn.dirtied THEN file[o][p] ELSE cache[o][p]]]
    /\ dirty' = [o \in ObjectId |-> {p \in dirty[o] : <<o, p>> \notin txn.dirtied}]
    /\ txn' = NoTxn
    /\ UNCHANGED <<catalogvars, objects, file, wal, next_txn_id, call, bounds, rows, acked>>

\* Database::Checkpoint, which throws while a transaction is active.
Checkpoint ==
    /\ At("idle") /\ txn.state = "none" /\ wal # <<>>
    /\ file' = [o \in ObjectId |-> IF o \in objects THEN Flushed(o, dirty[o]) ELSE file[o]]
    /\ dirty' = [o \in ObjectId |-> IF o \in objects THEN {} ELSE dirty[o]]
    /\ wal' = <<>>
    /\ UNCHANGED <<catalogvars, objects, cache, next_txn_id, txn, call, bounds, rows, acked>>
-----------------------------------------------------------------------------
\* RequireNoActiveTransaction, and no other DDL statement is running.
MayRunDdl == At("idle") /\ txn.state = "none"

Object(id, kind) == [id |-> id, kind |-> kind]

\* Persist returned and the storage of the new objects is next, or Persist
\* threw and the exception leaves the statement.
PersistThen(of, todo) ==
    \/ Persist /\ call' = [at |-> "attach", todo |-> todo, of |-> of] /\ UNCHANGED failures
    \/ /\ failures < MaxFailures
       /\ PersistThrows /\ failures' = failures + 1 /\ UNCHANGED call

CreateTable(s) ==
    /\ MayRunDdl /\ catalog.next_object_id + 2 <= MaxObjects
    /\ CreateTableInCatalog(s.name, s.columns, s.primary_key_column)
    /\ LET id == catalog.next_object_id
           pk == PrimaryKeyIndex(catalog', s.name)
       IN  PersistThen([kind |-> "table", name |-> s.name],
               <<Object(id, "heap")>> \o [i \in DOMAIN pk |-> Object(pk[i].object_id, "index")])
    /\ UNCHANGED <<storagevars, next_txn_id, txn, txns, crashes, rows, acked>>

CreateIndex(s) ==
    /\ MayRunDdl /\ catalog.next_object_id + 1 <= MaxObjects
    /\ CreateIndexInCatalog(s.name, s.table_name, s.column_name)
    /\ PersistThen([kind |-> "index", name |-> s.name], <<Object(catalog.next_object_id, "index")>>)
    /\ UNCHANGED <<storagevars, next_txn_id, txn, txns, crashes, rows, acked>>

Next1 == Head(call.todo)
Attached(o) == objects' = objects \cup {o} /\ call' = [call EXCEPT !.at = "attach", !.todo = Tail(@)]

\* A DiskManager for the file, a BufferPool, and a HeapFile or the BPlusTree
\* of a file that has pages.
AttachStorage ==
    /\ At("attach") /\ call.todo # <<>>
    /\ Next1.kind = "heap" \/ file[Next1.id] # <<>>
    /\ cache' = [cache EXCEPT ![Next1.id] = file[Next1.id]]
    /\ Attached(Next1.id)
    /\ UNCHANGED <<catalogvars, file, dirty, wal, next_txn_id, txn, bounds, rows, acked>>

\* BPlusTree's constructor on an empty file: NewPage extends the file, the
\* header is written to the cached page ...
NewHeader ==
    /\ At("attach") /\ call.todo # <<>>
    /\ Next1.kind = "index" /\ file[Next1.id] = <<>>
    /\ file' = [file EXCEPT ![Next1.id] = Zeros(1)]
    /\ cache' = [cache EXCEPT ![Next1.id] = <<{NoRoot}>>]
    /\ dirty' = [dirty EXCEPT ![Next1.id] = {1}]
    /\ call' = [call EXCEPT !.at = "header"]
    /\ UNCHANGED <<catalogvars, objects, wal, next_txn_id, txn, bounds, rows, acked>>

\* ... and forced to the file before the tree is registered.
FlushHeader ==
    /\ At("header")
    /\ file' = [file EXCEPT ![Next1.id] = Flushed(Next1.id, {1})]
    /\ dirty' = [dirty EXCEPT ![Next1.id] = {}]
    /\ Attached(Next1.id)
    /\ UNCHANGED <<catalogvars, cache, wal, next_txn_id, txn, bounds, rows, acked>>

\* The database is open, or CREATE TABLE returns.
Return(name) == call' = Idle /\ acked' = acked \cup name

AttachDone ==
    /\ At("attach") /\ call.todo = <<>> /\ call.of.kind # "index"
    /\ Return(IF call.of.kind = "table" THEN {call.of.name} ELSE {})
    /\ UNCHANGED <<catalogvars, storagevars, next_txn_id, txn, bounds, rows>>

Created == FindIndex(catalog, call.of.name)[1]

\* The rows ExecuteCreateIndex's callback finds by a Scan of the table.
Backfill(o) == TreeWith(cache[o], RowsIn(cache[Heap(Created.table_name)]))

\* A failed CREATE TABLE may have left the table without storage.
Populate ==
    /\ At("attach") /\ call.todo = <<>> /\ call.of.kind = "index"
    /\ Heap(Created.table_name) \in objects
    /\ LET o == Created.object_id
       IN  /\ cache' = [cache EXCEPT ![o] = Backfill(o).pages]
           /\ dirty' = [dirty EXCEPT ![o] = Backfill(o).changed]
           /\ file' = [file EXCEPT ![o] = Grown(@, Backfill(o).pages)]
    /\ call' = [call EXCEPT !.at = "flush"]
    /\ UNCHANGED <<catalogvars, objects, wal, next_txn_id, txn, bounds, rows, acked>>

\* objects_.at() throws out of the callback: the index stays.
PopulateThrows ==
    /\ At("attach") /\ call.todo = <<>> /\ call.of.kind = "index"
    /\ Heap(Created.table_name) \notin objects
    /\ Return({})
    /\ UNCHANGED <<catalogvars, storagevars, next_txn_id, txn, bounds, rows>>

\* FlushAll, in any order of the pages.
FlushBackfill(p) ==
    /\ At("flush") /\ p \in dirty[Created.object_id]
    /\ file' = [file EXCEPT ![Created.object_id] = Flushed(Created.object_id, {p})]
    /\ dirty' = [dirty EXCEPT ![Created.object_id] = @ \ {p}]
    /\ UNCHANGED <<catalogvars, objects, cache, wal, next_txn_id, txn, call, bounds, rows, acked>>

\* Faulty variant: CREATE INDEX returns without FlushAll.
CreateIndexReturnsEarly ==
    /\ At("flush")
    /\ Return({call.of.name})
    /\ UNCHANGED <<catalogvars, storagevars, next_txn_id, txn, bounds, rows>>

CreateIndexReturns ==
    /\ At("flush") /\ dirty[Created.object_id] = {}
    /\ Return({call.of.name})
    /\ UNCHANGED <<catalogvars, storagevars, next_txn_id, txn, bounds, rows>>
-----------------------------------------------------------------------------
\* The process dies: files, metadata and log are all that is left.
Crash ==
    /\ Running /\ crashes < MaxCrashes
    /\ crashes' = crashes + 1
    /\ call' = [Idle EXCEPT !.at = "down"]
    /\ catalog' = Empty /\ objects' = {} /\ txn' = NoTxn /\ next_txn_id' = 1
    /\ cache' = [o \in ObjectId |-> <<>>] /\ dirty' = [o \in ObjectId |-> {}]
    /\ UNCHANGED <<metadata, file, wal, txns, failures, rows, acked>>

\* Faulty variant: the indexes are opened after recovery.
HeapsToOpen(cat) == [i \in DOMAIN cat.tables |-> Object(cat.tables[i].heap_object_id, "heap")]

\* The objects of the catalog: the tables' heap files, then the indexes.
ObjectsToOpen(cat) ==
    [i \in DOMAIN cat.tables |-> Object(cat.tables[i].heap_object_id, "heap")]
        \o [i \in DOMAIN cat.indexes |-> Object(cat.indexes[i].object_id, "index")]

\* objects_.at() finds the record's object and WritePage its page.
Replayable(record, known) ==
    (\E i \in DOMAIN known : known[i].id = record.object) /\ record.page <= Len(file[record.object])

\* RunRecovery: the TxnIds of the Commit records ...
Committed == {wal[i].txn : i \in {j \in DOMAIN wal : wal[j].commit}}

\* Faulty variant: recovery replays the Updates of every transaction.
RedoAll(i) == wal[i].updates

\* ... and the Updates with one of them, whichever transaction wrote these.
Redo(i) == IF wal[i].txn \in Committed THEN wal[i].updates ELSE {}

\* The page after the replay: the image of the last record of it.
Replayed(o, p) ==
    LET Records(i) == {r \in Redo(i) : r.object = o /\ r.page = p}
        hits == {i \in DOMAIN wal : Records(i) # {}}
    IN  IF hits = {} THEN file[o][p] ELSE (CHOOSE r \in Records(Max(hits)) : TRUE).image

\* Phase 1: the catalog is loaded and the log replayed into bare files, or
\* the constructor throws and the database cannot be opened.
Open ==
    /\ At("down")
    /\ catalog' = CatalogOnOpen
    /\ LET known == ObjectsToOpen(catalog')
       IN  IF \A i \in DOMAIN wal : \A r \in Redo(i) : Replayable(r, known)
           THEN /\ file' = [o \in ObjectId |-> [p \in DOMAIN file[o] |-> Replayed(o, p)]]
                /\ call' = [at |-> "attach", todo |-> known, of |-> [kind |-> "open", name |-> NoColumn]]
           ELSE call' = [call EXCEPT !.at = "failed"] /\ UNCHANGED file
    /\ UNCHANGED <<metadata, objects, cache, dirty, wal, next_txn_id, txn, bounds, rows, acked>>

\* The client has no more statements.
Quiescent == At("idle") /\ txn.state = "none" /\ UNCHANGED vars

Statement ==
    \/ Begin
    \/ \E t \in TableName, r \in Row : Insert(t, r)
    \/ \E d \in txn.dirtied : LogUpdate(d[1], d[2])
    \/ LogCommit
    \/ ForcePages
    \/ Abort
    \/ Checkpoint
    \/ \E s \in TableStatement : CreateTable(s)
    \/ \E s \in IndexStatement : CreateIndex(s)

Storage ==
    \/ AttachStorage
    \/ NewHeader
    \/ FlushHeader
    \/ AttachDone
    \/ Populate
    \/ PopulateThrows
    \/ \E p \in 1..2 * MaxTxns + 2 : FlushBackfill(p)
    \/ CreateIndexReturns

Next == Statement \/ Storage \/ Crash \/ Open \/ Quiescent

Spec == Init /\ [][Next]_vars

\* The machine stops: files whose growth was never synced are empty again.
PowerLoss ==
    /\ Running /\ crashes < MaxCrashes
    /\ crashes' = crashes + 1
    /\ call' = [Idle EXCEPT !.at = "down"]
    /\ catalog' = Empty /\ objects' = {} /\ txn' = NoTxn /\ next_txn_id' = 1
    /\ cache' = [o \in ObjectId |-> <<>>] /\ dirty' = [o \in ObjectId |-> {}]
    /\ \E lost \in SUBSET ObjectId : file' = [o \in ObjectId |-> IF o \in lost THEN <<>> ELSE file[o]]
    /\ UNCHANGED <<metadata, wal, txns, failures, rows, acked>>

PowerSpec == Init /\ [][Next \/ PowerLoss]_vars
-----------------------------------------------------------------------------
\* Between statements.
Settled == At("idle") /\ txn.state = "none"

\* Opening never throws: whatever step of a CREATE or of a commit the process
\* died in, every record of the log names an object that the metadata file
\* lists and a page inside its file.
OpenNeverFails == ~At("failed")

\* database.h:93-95: an object that is being created has no record in the log,
\* no page in its file and no storage, although ids are handed out before
\* Persist and taken back by a crash.
FreshObject ==
    (call.at \in {"attach", "header"} /\ call.of.kind \in {"table", "index"}) =>
        \A i \in DOMAIN call.todo :
            LET o == call.todo[i].id
            IN  /\ o \notin objects
                /\ \A n \in DOMAIN wal : \A r \in wal[n].updates : r.object # o
                /\ ~(At("header") /\ i = 1) => file[o] = <<>>

\* A CREATE that returned is in the metadata file from then on, and the
\* storage of everything it created is attached whenever the database is open.
AckedDdlSurvives ==
    \A n \in acked :
        /\ NameInUse(CatalogOnOpen, n)
        /\ At("idle") => {t.heap_object_id : t \in ToSet(FindTable(catalog, n))} \cup
                         {i.object_id : i \in ToSet(PrimaryKeyIndex(catalog, n) \o FindIndex(catalog, n))}
                             \subseteq objects

\* Rows that were committed are in the table's file, and no others, through
\* rollbacks, checkpoints, deaths in the middle of a CREATE and reopening.
CommittedRowsSurvive ==
    Settled => \A i \in DOMAIN catalog.tables :
        LET t == catalog.tables[i]
        IN  t.heap_object_id \in objects => RowsIn(cache[t.heap_object_id]) = rows[t.name]

\* The index holds the rows of its table.
Complete(i) == i.object_id \in objects /\ Readable(i.object_id) /\ TreeRows(cache[i.object_id]) = rows[i.table_name]

\* An index whose CREATE INDEX or CREATE TABLE returned holds exactly the
\* committed rows of its table: the backfill, which is in no transaction and
\* in no log, survives rollbacks and deaths of the process like the rows do.
AckedIndexComplete ==
    Settled => \A i \in ToSet(catalog.indexes) :
        (i.name \in acked \/ (i.is_primary_key /\ i.table_name \in acked)) => Complete(i)

\* database.h:105-107: there is no index that only covers rows inserted after
\* it existed.  The planner uses every index of the catalog.
IndexCoversEarlierRows ==
    Settled => \A i \in ToSet(catalog.indexes) :
        (i.object_id \in objects /\ Readable(i.object_id)) => rows[i.table_name] \subseteq TreeRows(cache[i.object_id])

\* btree.cpp:317-342: the header of an attached index is never left as the
\* bytes of a page that was allocated and not written.
HeadersReadable == Settled => \A i \in ToSet(catalog.indexes) : i.object_id \in objects => Readable(i.object_id)

\* The file read back gives the planner and the executor the answers the
\* catalog in memory gives, though the indexes come back in another order
\* and a primary key column may be called NONE.
LookupsSurviveReload ==
    (Running /\ (failures = 0 \/ At("attach"))) => SameLookups(catalog, CatalogOnOpen)

\* database.cpp:69-71: a CREATE that threw leaves the database as it was.
ListedIsAttached ==
    At("idle") => \A o \in ToSet(ObjectsToOpen(catalog)) : o.id \in objects
=============================================================================
