------------------------------ MODULE HeapFile ------------------------------
(***************************************************************************)
(* A table's heap file (src/src/storage/heap_file.cpp) over slotted pages  *)
(* (page.cpp) and the page locks of LockManager: Insert, Delete, GetRow,   *)
(* Scan and Find by concurrent transactions, their Commit or Abort, and    *)
(* the reconstruction of page_ids_ on open.                                *)
(*                                                                         *)
(* page_ids_mutex_ is held for the read of page_ids_ only; the page is     *)
(* locked afterwards, in a step of its own.  What a transaction does to a  *)
(* page it has locked is one step.  Commit, with its log, is one step      *)
(* here: Database has its parts.  A row is named by the transaction that   *)
(* inserted it and all rows have one length.                               *)
(***************************************************************************)
EXTENDS Naturals, Sequences, FiniteSets, SequencesExt

CONSTANTS Txn, NoTxn,
          SlotsPerPage,  \* rows that fit a page
          MaxPages,      \* bound: pages of the file
          MaxOps,        \* bound: operations of one transaction
          RowsOnOpen,    \* bound: rows earlier transactions left on the first page
          MaxCrashes     \* bound: restarts of the process

ASSUME HeapAssumption ==
    /\ {SlotsPerPage, MaxPages, MaxOps, RowsOnOpen, MaxCrashes} \subseteq Nat
    /\ SlotsPerPage > 0 /\ MaxPages > 0 /\ RowsOnOpen <= SlotsPerPage
    /\ IsFiniteSet(Txn) /\ Txn \subseteq Nat /\ NoTxn \notin Txn

VARIABLES
    locks, held_by_txn, status, request,   \* LockManager
    page_ids,      \* HeapFile::page_ids_
    next_page_id,  \* DiskManager::next_page_id_, the length of the file
    pages,         \* the cached pages
    disk,          \* the pages of the data file
    dirtied,       \* Transaction::DirtiedPages
    op,            \* the call a transaction is in, with its local variables
    ops,           \* how many it has made
    crashes,
    \* history, for the properties only
    table,         \* the committed records
    inserted, deleted,   \* a transaction's own changes
    seen,          \* the records it has read
    last_scan      \* what its previous Scan returned

lmvars   == <<locks, held_by_txn, status, request>>
filevars == <<page_ids, next_page_id, pages, disk, dirtied>>
histvars == <<table, inserted, deleted, seen, last_scan>>
vars     == <<lmvars, filevars, op, ops, crashes, histvars>>

PageId == 0..MaxPages - 1

LM == INSTANCE LockManager WITH PageKey <- PageId
-----------------------------------------------------------------------------
\* A page that was never written back is all zeros: no slot, no free space.
Zeroed == [formatted |-> FALSE, slots |-> <<>>]
InitHeapPage == [formatted |-> TRUE, slots |-> <<>>]

HasRoom(page) == page.formatted /\ Len(page.slots) < SlotsPerPage

InsertRecord(page, row) ==
    [page EXCEPT !.slots = Append(@, [row |-> row, deleted |-> FALSE])]

\* The slot keeps its number and its space.
DeleteRecord(page, s) == [page EXCEPT !.slots[s].deleted = TRUE]

Live(page, s) == s \in DOMAIN page.slots /\ ~page.slots[s].deleted

\* A record with its RID.
Record(pid, page, s) == [page_id |-> pid, slot_id |-> s, row |-> page.slots[s].row]

Records(pid, page) == {Record(pid, page, s) : s \in {i \in DOMAIN page.slots : Live(page, i)}}
-----------------------------------------------------------------------------
\* name: the function a thread is in.  todo: the pages it still has to lock
\* and look at.  arg: a slot or a row.  got: what it has collected.
Call(name, mode, todo, arg) ==
    [name |-> name, mode |-> mode, todo |-> todo, arg |-> arg, got |-> {}, from |-> table]

NoCall == [name |-> "none", mode |-> LM!kShared, todo |-> <<>>, arg |-> 0, got |-> {}, from |-> {}]

\* Faulty variant: the last page of the file is overlooked.
PageIdsShort(n) == [i \in 1..(IF n = 0 THEN 0 ELSE n - 1) |-> i - 1]

\* HeapFile's constructor takes all pages of the file.
PageIdsOnOpen(n) == [i \in 1..n |-> i - 1]

\* The first page with n rows on it.
FirstPage(n) == [formatted |-> TRUE, slots |-> [s \in 1..n |-> [row |-> NoTxn, deleted |-> FALSE]]]

\* A database is opened whose table is empty or has been used before.
Init ==
    /\ LM!Init
    /\ \E n \in 0..RowsOnOpen :
          /\ next_page_id = IF n = 0 THEN 0 ELSE 1
          /\ disk = [p \in PageId |-> IF n > 0 /\ p = 0 THEN FirstPage(n) ELSE Zeroed]
          /\ table = IF n = 0 THEN {} ELSE Records(0, FirstPage(n))
    /\ page_ids = PageIdsOnOpen(next_page_id)
    /\ pages = disk
    /\ dirtied = [t \in Txn |-> {}]
    /\ op = [t \in Txn |-> NoCall] /\ ops = [t \in Txn |-> 0] /\ crashes = 0
    /\ inserted = [t \in Txn |-> {}] /\ deleted = [t \in Txn |-> {}]
    /\ seen = [t \in Txn |-> {}]
    /\ last_scan = [t \in Txn |-> <<>>]

Active(t) == status[t] # "done"

\* The part of each function up to the release of page_ids_mutex_.
Enter(t, call) ==
    /\ status[t] = "running" /\ op[t].name = "none" /\ ops[t] < MaxOps
    /\ op' = [op EXCEPT ![t] = call]
    /\ ops' = [ops EXCEPT ![t] = @ + 1]
    /\ UNCHANGED <<lmvars, filevars, crashes, histvars>>

\* Bound: an insertion begins only if the file may still grow for it.
Insert(t) ==
    /\ next_page_id + Cardinality({u \in Txn : op[u].name = "insert"}) < MaxPages
    /\ Enter(t, Call("insert", LM!kExclusive, IF page_ids = <<>> THEN <<>> ELSE <<Last(page_ids)>>, t))

\* A RID whose page is not in page_ids_ is turned away.
GetRow(t, pid, s) ==
    pid \in ToSet(page_ids) /\ Enter(t, Call("get", LM!kShared, <<pid>>, s))

\* Faulty variant: a page is changed under a shared lock.
DeleteUnderShared(t, pid, s) ==
    pid \in ToSet(page_ids) /\ Enter(t, Call("delete", LM!kShared, <<pid>>, s))

Delete(t, pid, s) ==
    pid \in ToSet(page_ids) /\ Enter(t, Call("delete", LM!kExclusive, <<pid>>, s))

Scan(t) == Enter(t, Call("scan", LM!kShared, page_ids, 0))

\* The predicate: rows inserted by u (NoTxn: by an earlier transaction).
Find(t, u) == Enter(t, Call("find", LM!kShared, page_ids, u))

LockPage(t) ==
    /\ op[t].todo # <<>>
    /\ ~LM!AlreadyHolds(locks[Head(op[t].todo)], t, op[t].mode)
    /\ LM!AcquireLock(t, Head(op[t].todo), op[t].mode)
    /\ UNCHANGED <<filevars, op, ops, crashes, histvars>>

RecheckLock(t) ==
    /\ LM!Recheck(t)
    /\ UNCHANGED <<filevars, op, ops, crashes, histvars>>

\* t is in the function and has the lock on the page it is to look at next.
At(t, name) ==
    /\ op[t].name = name /\ op[t].todo # <<>> /\ status[t] = "running"
    /\ LM!AlreadyHolds(locks[Head(op[t].todo)], t, op[t].mode)

Here(t) == Head(op[t].todo)

Return(t) == op' = [op EXCEPT ![t] = NoCall]

PutRow(t, pid) ==
    LET page == InsertRecord(pages[pid], op[t].arg)
    IN  /\ pages' = [pages EXCEPT ![pid] = page]
        /\ dirtied' = [dirtied EXCEPT ![t] = @ \cup {pid}]
        /\ inserted' = [inserted EXCEPT ![t] = @ \cup {Record(pid, page, Len(page.slots))}]
        /\ Return(t)
-----------------------------------------------------------------------------
InsertIntoLast(t) ==
    /\ At(t, "insert")
    /\ HasRoom(pages[Here(t)])
    /\ PutRow(t, Here(t))
    /\ UNCHANGED <<lmvars, page_ids, next_page_id, disk, ops, crashes, table, deleted, seen, last_scan>>

LastIsFull(t) ==
    /\ At(t, "insert")
    /\ ~HasRoom(pages[Here(t)])
    /\ op' = [op EXCEPT ![t].todo = <<>>]
    /\ UNCHANGED <<lmvars, filevars, ops, crashes, histvars>>

\* Faulty variant: the page is published before it is locked.
NewHeapPagePublished(t) ==
    /\ op[t].name = "insert" /\ op[t].todo = <<>>
    /\ next_page_id' = next_page_id + 1
    /\ pages' = [pages EXCEPT ![next_page_id] = InitHeapPage]
    /\ dirtied' = [dirtied EXCEPT ![t] = @ \cup {next_page_id}]
    /\ op' = [op EXCEPT ![t].name = "insert_new", ![t].todo = <<next_page_id>>]
    /\ page_ids' = Append(page_ids, next_page_id)
    /\ UNCHANGED <<lmvars, disk, ops, crashes, histvars>>

\* BufferPool::NewHeapPage: the file grows, the page is formatted and marked
\* dirty, before anybody has locked it.
NewHeapPage(t) ==
    /\ op[t].name = "insert" /\ op[t].todo = <<>>
    /\ next_page_id' = next_page_id + 1
    /\ pages' = [pages EXCEPT ![next_page_id] = InitHeapPage]
    /\ dirtied' = [dirtied EXCEPT ![t] = @ \cup {next_page_id}]
    /\ op' = [op EXCEPT ![t].name = "insert_new", ![t].todo = <<next_page_id>>]
    /\ UNCHANGED <<lmvars, page_ids, disk, ops, crashes, histvars>>

InsertIntoNew(t) ==
    /\ At(t, "insert_new")
    /\ page_ids' = Append(page_ids, Here(t))
    /\ PutRow(t, Here(t))
    /\ UNCHANGED <<lmvars, next_page_id, disk, ops, crashes, table, deleted, seen, last_scan>>

\* MarkDirty only if there is a record to delete.
DeleteAt(t) ==
    /\ At(t, "delete")
    /\ LET pid == Here(t)  s == op[t].arg
       IN  IF Live(pages[pid], s)
           THEN /\ pages' = [pages EXCEPT ![pid] = DeleteRecord(@, s)]
                /\ dirtied' = [dirtied EXCEPT ![t] = @ \cup {pid}]
                /\ deleted' = [deleted EXCEPT ![t] = @ \cup {Record(pid, pages[pid], s)}]
           ELSE UNCHANGED <<pages, dirtied, deleted>>
    /\ Return(t)
    /\ UNCHANGED <<lmvars, page_ids, next_page_id, disk, ops, crashes, table, inserted, seen, last_scan>>

GetRowAt(t) ==
    /\ At(t, "get")
    /\ seen' = [seen EXCEPT ![t] = @ \cup (IF Live(pages[Here(t)], op[t].arg)
                                           THEN {Record(Here(t), pages[Here(t)], op[t].arg)} ELSE {})]
    /\ Return(t)
    /\ UNCHANGED <<lmvars, filevars, ops, crashes, table, inserted, deleted, last_scan>>

ScanPage(t) ==
    /\ At(t, "scan")
    /\ LET found == Records(Here(t), pages[Here(t)])
       IN  /\ op' = [op EXCEPT ![t].todo = Tail(@), ![t].got = @ \cup found]
           /\ seen' = [seen EXCEPT ![t] = @ \cup found]
    /\ UNCHANGED <<lmvars, filevars, ops, crashes, table, inserted, deleted, last_scan>>

\* The records of others that t sees.
Foreign(t, records) == {r \in records : r.row # t}

ScanReturns(t) ==
    /\ op[t].name = "scan" /\ op[t].todo = <<>>
    /\ last_scan' = [last_scan EXCEPT ![t] = <<Foreign(t, op[t].got)>>]
    /\ Return(t)
    /\ UNCHANGED <<lmvars, filevars, ops, crashes, table, inserted, deleted, seen>>

\* Find stops at the first match: the pages behind it are never locked.
FindPage(t) ==
    /\ At(t, "find")
    /\ LET page == pages[Here(t)]
           hits == {s \in DOMAIN page.slots : Live(page, s) /\ page.slots[s].row = op[t].arg}
       IN  IF hits = {}
           THEN op' = [op EXCEPT ![t].todo = Tail(@)] /\ UNCHANGED seen
           ELSE /\ seen' = [seen EXCEPT ![t] = @ \cup {Record(Here(t), page, CHOOSE s \in hits : \A i \in hits : s <= i)}]
                /\ Return(t)
    /\ UNCHANGED <<lmvars, filevars, ops, crashes, table, inserted, deleted, last_scan>>

FindNothing(t) ==
    /\ op[t].name = "find" /\ op[t].todo = <<>>
    /\ Return(t)
    /\ UNCHANGED <<lmvars, filevars, ops, crashes, histvars>>
-----------------------------------------------------------------------------
\* TransactionManager::Commit as the heap file sees it: its pages forced,
\* then its locks released.
Commit(t) ==
    /\ status[t] = "running" /\ op[t].name = "none"
    /\ disk' = [p \in PageId |-> IF p \in dirtied[t] THEN pages[p] ELSE disk[p]]
    /\ LM!ReleaseAll(t)
    /\ table' = (table \cup inserted[t]) \ deleted[t]
    /\ UNCHANGED <<page_ids, next_page_id, pages, dirtied, op, ops, crashes, inserted, deleted, seen, last_scan>>

\* TransactionManager::Abort, on ROLLBACK or after AcquireLock threw: the
\* pages are read back.  page_ids_ keeps a page the transaction added.
Abort(t) ==
    /\ status[t] = "dying" \/ (status[t] = "running" /\ op[t].name = "none" /\ ops[t] > 0)
    /\ pages' = [p \in PageId |-> IF p \in dirtied[t] THEN disk[p] ELSE pages[p]]
    /\ Return(t)
    /\ LM!ReleaseAll(t)
    /\ UNCHANGED <<page_ids, next_page_id, disk, dirtied, ops, crashes, histvars>>

\* The process dies and the database is opened again; the transactions that
\* had begun are gone.
Crash ==
    /\ crashes < MaxCrashes
    /\ crashes' = crashes + 1
    /\ page_ids' = PageIdsOnOpen(next_page_id)
    /\ pages' = disk
    /\ locks' = [p \in PageId |-> LM!Absent]
    /\ held_by_txn' = [t \in Txn |-> {}]
    /\ status' = [t \in Txn |-> IF ops[t] > 0 THEN "done" ELSE status[t]]
    /\ request' = [t \in Txn |-> LM!NoRequest]
    /\ op' = [t \in Txn |-> NoCall]
    /\ UNCHANGED <<next_page_id, disk, dirtied, ops, histvars>>

\* Every transaction has ended.
Quiescent == (\A t \in Txn : ~Active(t)) /\ UNCHANGED vars

Step(t) ==
    \/ Insert(t)
    \/ \E pid \in PageId, s \in 1..SlotsPerPage : GetRow(t, pid, s)
    \/ \E pid \in PageId, s \in 1..SlotsPerPage : Delete(t, pid, s)
    \/ Scan(t)
    \/ \E u \in Txn \cup {NoTxn} : Find(t, u)
    \/ LockPage(t)
    \/ RecheckLock(t)
    \/ InsertIntoLast(t)
    \/ LastIsFull(t)
    \/ NewHeapPage(t)
    \/ InsertIntoNew(t)
    \/ DeleteAt(t)
    \/ GetRowAt(t)
    \/ ScanPage(t)
    \/ ScanReturns(t)
    \/ FindPage(t)
    \/ FindNothing(t)
    \/ Commit(t)
    \/ Abort(t)

Next == (\E t \in Txn : Step(t)) \/ Crash \/ Quiescent

Spec == Init /\ [][Next]_vars
-----------------------------------------------------------------------------
\* The values of the variables; page_ids_ names every page once and only
\* pages that are in the file.
TypeOK ==
    /\ LM!TypeOK
    /\ next_page_id \in 0..MaxPages
    /\ ToSet(page_ids) \subseteq 0..next_page_id - 1 /\ IsInjective(page_ids)
    /\ \A p \in PageId : /\ Len(pages[p].slots) <= SlotsPerPage
                         /\ ~pages[p].formatted => pages[p].slots = <<>>
                         /\ p >= next_page_id => pages[p] = Zeroed /\ disk[p] = Zeroed
    /\ dirtied \in [Txn -> SUBSET PageId]

\* The comment at heap_file.cpp:65 holds: the lock on a page Insert has just
\* allocated never makes it wait or die, because the page is published in
\* page_ids_ only after it is locked, and a rollback or crash frees it.
FreshPageNeverBlocks ==
    \A t \in Txn : op[t].name = "insert_new" => status[t] = "running"

\* The data file holds exactly the committed records: a commit, which writes
\* whole pages, carries no record or deletion of another transaction along
\* and loses none, and a rollback or a restart brings nothing back.
FileIsCommitted == UNION {Records(p, disk[p]) : p \in PageId} = table

\* Repeatable read: every record t has read by GetRow, Scan or Find is
\* committed or its own, and stays there until t ends or deletes it itself.
ReadsAreStable ==
    \A t \in Txn : Active(t) => seen[t] \subseteq table \cup inserted[t]

\* A Scan misses no record that was committed when it began and still is when
\* it returns, nor one t inserted itself, although pages are added meanwhile
\* and restarts leave pages of zeros between the others.
ScanMissesNothing ==
    \A t \in Txn : (op[t].name = "scan" /\ op[t].todo = <<>>) =>
        ((op[t].from \cap table) \cup inserted[t]) \ deleted[t] \subseteq op[t].got

\* docs/SPEC.md:94: a full Scan blocks every concurrent insert, so that a
\* second Scan of the same transaction finds no record that the first did not.
NoPhantomInScan ==
    \A t \in Txn : (op[t].name = "scan" /\ op[t].todo = <<>> /\ last_scan[t] # <<>>) =>
        Foreign(t, op[t].got) \subseteq last_scan[t][1]
=============================================================================
