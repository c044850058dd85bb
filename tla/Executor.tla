------------------------------ MODULE Executor ------------------------------
(***************************************************************************)
(* INSERT, UPDATE, DELETE and single-table SELECT                          *)
(* (src/src/sql/executor.cpp) as concurrent transactions run them:         *)
(* autocommit and explicit ones (session.cpp), the plan, the rows fetched, *)
(* the checks, and the changes of the heap file and of every index one     *)
(* after the other, each under its page lock.                              *)
(*                                                                         *)
(* A statement is a queue of accesses.  An access locks one page - a page  *)
(* of the heap file, or page 0 of an index, which every operation on the   *)
(* tree locks first and which stands for the tree here - and what is done  *)
(* to a locked page is one step.  Commit and Abort are one step each       *)
(* (Database has their parts); there are no crashes here.                  *)
(***************************************************************************)
EXTENDS Planner, FiniteSets, SequencesExt

CONSTANTS Txn, NoTxn,
          Cat,           \* the catalog; DDL runs alone, so it is fixed
          Table,         \* the table the statements are about
          Stmt,          \* the statements that may be executed
          Autocommit,    \* transactions that are one autocommit statement
          Value,         \* what a column can hold
          FirstRows,     \* the rows the table may have to begin with, as sequences
          SlotsPerPage, MaxPages,
          MaxStmts,      \* bound: statements of an explicit transaction
          Query,         \* SELECT statements for the comparison with their answers
          Other,         \* rows and index entries of the other tables these join
          ClientAborts   \* the client answers TransactionAbortedException with ROLLBACK

ASSUME ExecutorAssumption ==
    /\ Txn \subseteq Nat /\ NoTxn \notin Txn
    /\ FindTable(Cat, Table) # <<>>
    /\ Autocommit \subseteq Txn /\ ClientAborts \in BOOLEAN
    /\ SlotsPerPage \in Nat \ {0} /\ MaxPages \in Nat \ {0} /\ MaxStmts \in Nat

VARIABLES
    locks, held_by_txn, status, request,   \* LockManager
    heap,      \* the cached pages of the table's heap file, all in page_ids_
    heap_file, \* the same pages in the file
    tree,      \* the entries of every index of the table, as cached
    tree_file, \* and in their files
    dirtied,   \* Transaction::DirtiedPages
    call,      \* the statement a transaction is in, with its local variables
    \* history, for the properties only
    log,       \* the statements a transaction has finished, with their results
    grown      \* others have added a page to the heap file since its first statement

lmvars == <<locks, held_by_txn, status, request>>
dbvars == <<heap, heap_file, tree, tree_file, dirtied>>
vars   == <<lmvars, dbvars, call, log, grown>>

Info    == FindTable(Cat, Table)[1]
Indexes == IndexesOnTable(Cat, Table)
Pk      == PrimaryKeyIndex(Cat, Table)
IndexId == {Indexes[i].name : i \in DOMAIN Indexes}
KeyOf(index, row) == row[ColumnIndex(Info, index.column_name)]
PkOf(row) == KeyOf(Pk[1], row)
Row     == [DOMAIN Info.columns -> Value]

\* What Catalog sees to (see DatabaseDdl): index names are not repeated, an
\* index is on a column of its table.  The indexes of the other tables agree
\* with their rows.
ASSUME CatalogAssumption ==
    /\ Cat.tables \in Seq(ToSet(Cat.tables)) /\ Cat.indexes \in Seq(ToSet(Cat.indexes))
    /\ \A i, j \in DOMAIN Cat.indexes : Cat.indexes[i].name = Cat.indexes[j].name => i = j
    /\ \A i \in DOMAIN Cat.indexes :
          LET index == Cat.indexes[i]
          IN  IF index.table_name = Table THEN HasColumn(Info, index.column_name)
              ELSE /\ FindTable(Cat, index.table_name) # <<>>
                   /\ index.table_name \in DOMAIN Other.rows /\ index.name \in DOMAIN Other.index
                   /\ IndexAgrees(Other, Cat, index)

\* Statements that passed the checks of names and types, and first rows that
\* fit on a page and have different keys.
ASSUME StatementAssumption ==
    /\ \A s \in Stmt :
          /\ s.kind \in {"insert", "update", "delete", "select"}
          /\ s.kind = "insert" => s.row \in Row
          /\ s.kind # "insert" => /\ s.where \in Seq(ToSet(s.where))
                                 /\ \A i \in DOMAIN s.where : s.where[i].value.value \in Value
          /\ s.kind = "update" => /\ s.set \in Seq(ToSet(s.set))
                                 /\ \A a \in DOMAIN s.set : s.set[a].value \in Value
    /\ \A rows \in FirstRows :
          /\ rows \in Seq(Row) /\ Len(rows) <= SlotsPerPage
          /\ Pk # <<>> => \A i, j \in DOMAIN rows : PkOf(rows[i]) = PkOf(rows[j]) => i = j
    /\ \A q \in Query : q.where \in Seq(ToSet(q.where))

HeapPage(p) == <<"heap", p>>
Root(i)     == <<"index", i>>
PageKey     == {HeapPage(p) : p \in 1..MaxPages} \cup {Root(i) : i \in IndexId}

LM == INSTANCE LockManager
-----------------------------------------------------------------------------
\* A page of slots; a page that a rollback has emptied has no room either.
Unformatted == [formatted |-> FALSE, slots |-> <<>>]
Slot(row)   == [row |-> row, live |-> TRUE]
HasRoom(page) == page.formatted /\ Len(page.slots) < SlotsPerPage
With(page, row) == [page EXCEPT !.slots = Append(@, Slot(row))]
IsLive(pages, rid) ==
    rid[1] \in DOMAIN pages /\ rid[2] \in DOMAIN pages[rid[1]].slots /\ pages[rid[1]].slots[rid[2]].live

Rids(pages) == {rid \in (DOMAIN pages) \X (1..SlotsPerPage) : IsLive(pages, rid)}
RowAt(pages, rid) == pages[rid[1]].slots[rid[2]].row
RowsOf(pages) == {RowAt(pages, rid) : rid \in Rids(pages)}

\* The rows of one page with their RIDs, in slot order.
PageRows(pages, p) ==
    LET all == [s \in DOMAIN pages[p].slots |-> <<<<p, s>>, pages[p].slots[s].row>>]
    IN  Keep(all, {s \in DOMAIN all : pages[p].slots[s].live})

\* An access: the page it locks, the mode, and what it does there.
Access(do, page, mode, arg) == [do |-> do, page |-> page, mode |-> mode, arg |-> arg]
SearchTree(index, key) == Access("search", Root(index), LM!kShared, key)
GetRow(rid)            == Access("get", HeapPage(rid[1]), LM!kShared, rid)
ScanPage(p)            == Access("scan", HeapPage(p), LM!kShared, p)
DeleteRow(rid)         == Access("delete", HeapPage(rid[1]), LM!kExclusive, rid)
TreeDelete(index, e)   == Access("tree_delete", Root(index), LM!kExclusive, e)
TreeInsert(index, key) == Access("tree_insert", Root(index), LM!kExclusive, key)
\* HeapFile::Insert, before it has looked up the last page.
InsertRow(row)         == Access("insert", HeapPage(1), LM!kExclusive, row)

\* Faulty variant: only the primary key index is kept up to date.
DeleteFromPrimaryKey(row, rid) == <<TreeDelete(Pk[1].name, <<PkOf(row), rid>>)>>

DeleteFromAllIndexes(row, rid) ==
    [i \in DOMAIN Indexes |-> TreeDelete(Indexes[i].name, <<KeyOf(Indexes[i], row), rid>>)]

InsertIntoAllIndexes(row) ==
    [i \in DOMAIN Indexes |-> TreeInsert(Indexes[i].name, KeyOf(Indexes[i], row))]

\* The index entries of a row go before the row, and come after it.
DeleteEverywhere(found) == DeleteFromAllIndexes(found[2], found[1]) \o <<DeleteRow(found[1])>>
InsertEverywhere(row)   == <<InsertRow(row)>> \o InsertIntoAllIndexes(row)

\* The entries without one.
Removed(entries, e) == Keep(entries, {i \in DOMAIN entries : entries[i] # e})
-----------------------------------------------------------------------------
\* stage: what the statement is doing.  todo: its accesses.  got: the rows
\* fetched.  hits: the RIDs found by the searches of the current check.
\* rid: where the last row was put.  begun: the rows the mutation loop is at.
NoCall == [stage |-> "none", stmt |-> [kind |-> "none"], todo |-> <<>>, got |-> <<>>, hits |-> {}, rid |-> <<0, 0>>,
           begun |-> 0]

InStage(t, s) == call[t].stage = s /\ status[t] = "running"
Here(t) == Head(call[t].todo)

\* The heap page and the entries at the start of each run.
FirstHeap(rows) == IF rows = <<>> THEN <<>> ELSE <<[formatted |-> TRUE, slots |-> [i \in DOMAIN rows |-> Slot(rows[i])]]>>
FirstTree(rows) ==
    [i \in IndexId |-> LET index == FindIndex(Cat, i)[1]
                       IN  [s \in DOMAIN rows |-> <<KeyOf(index, rows[s]), <<1, s>>>>]]

Init ==
    /\ LM!Init
    /\ \E rows \in FirstRows : heap = FirstHeap(rows) /\ tree = FirstTree(rows)
    /\ heap_file = heap /\ tree_file = tree
    /\ dirtied = [t \in Txn |-> {}]
    /\ call = [t \in Txn |-> NoCall]
    /\ log = [t \in Txn |-> <<>>] /\ grown = [t \in Txn |-> FALSE]

Plan(stmt) == PlanTableAccess(Cat, Table, stmt.where)

\* The accesses FetchCandidateRows begins with: the pages of the file as they
\* are listed now, or the probe of the index.
FetchAccesses(stmt) ==
    IF Plan(stmt).method = "SeqScan" THEN [p \in DOMAIN heap |-> ScanPage(p)]
    ELSE <<SearchTree(Plan(stmt).index, Plan(stmt).key)>>

\* Execute and ExecuteInCurrentTransaction up to the first access.  The names
\* and types of a statement are valid: one that fails those checks has no access.
Execute(t, stmt) ==
    /\ InStage(t, "none") /\ Len(log[t]) < (IF t \in Autocommit THEN 1 ELSE MaxStmts)
    /\ call' = [call EXCEPT ![t] =
           IF stmt.kind = "insert"
           THEN [NoCall EXCEPT !.stage = "check", !.stmt = stmt,
                               !.todo = [i \in DOMAIN Pk |-> SearchTree(Pk[i].name, PkOf(stmt.row))]]
           ELSE [NoCall EXCEPT !.stage = "fetch", !.stmt = stmt, !.todo = FetchAccesses(stmt)]]
    /\ UNCHANGED <<lmvars, dbvars, log, grown>>

LockPage(t) ==
    /\ call[t].todo # <<>> /\ Here(t).do # "insert"
    /\ ~LM!AlreadyHolds(locks[Here(t).page], t, Here(t).mode)
    /\ LM!AcquireLock(t, Here(t).page, Here(t).mode)
    /\ UNCHANGED <<dbvars, call, log, grown>>

RecheckLock(t) == LM!Recheck(t) /\ UNCHANGED <<dbvars, call, log, grown>>

\* t has the lock on the page of its next access, which does this.
Doing(t, do) ==
    /\ call[t].todo # <<>> /\ Here(t).do = do /\ status[t] = "running"
    /\ LM!AlreadyHolds(locks[Here(t).page], t, Here(t).mode)

Done(t) == call' = [call EXCEPT ![t].todo = Tail(@)]
-----------------------------------------------------------------------------
\* Search while rows are fetched: their GetRow calls are next.
SearchForRows(t) ==
    /\ Doing(t, "search") /\ InStage(t, "fetch")
    /\ LET rids == Search(tree[Here(t).page[2]], Here(t).arg)
       IN  call' = [call EXCEPT ![t].todo = [i \in DOMAIN rids |-> GetRow(rids[i])]]
    /\ UNCHANGED <<lmvars, dbvars, log, grown>>

\* Search for a primary key.
SearchForKey(t) ==
    /\ Doing(t, "search") /\ InStage(t, "check")
    /\ call' = [call EXCEPT ![t].todo = Tail(@),
                            ![t].hits = @ \cup Hits(tree[Here(t).page[2]], Here(t).arg)]
    /\ UNCHANGED <<lmvars, dbvars, log, grown>>

\* A RID without a live row is the logic_error of FetchCandidateRows.
Get(t) ==
    /\ Doing(t, "get")
    /\ call' = [call EXCEPT ![t] =
           IF IsLive(heap, Here(t).arg)
           THEN [call[t] EXCEPT !.todo = Tail(@), !.got = Append(@, <<Here(t).arg, RowAt(heap, Here(t).arg)>>)]
           ELSE [call[t] EXCEPT !.stage = "out_of_sync"]]
    /\ UNCHANGED <<lmvars, dbvars, log, grown>>

Scan(t) ==
    /\ Doing(t, "scan")
    /\ call' = [call EXCEPT ![t].todo = Tail(@), ![t].got = @ \o PageRows(heap, Here(t).arg)]
    /\ UNCHANGED <<lmvars, dbvars, log, grown>>

\* The statement returns, or throws before it has changed anything.
Returns(t, result) ==
    /\ call' = [call EXCEPT ![t] = NoCall]
    /\ log' = [log EXCEPT ![t] = Append(@, [stmt |-> call[t].stmt, result |-> result])]

Rejected     == [ok |-> FALSE, rows |-> {}, affected |-> 0]
Affected(n)  == [ok |-> TRUE, rows |-> {}, affected |-> n]
Selected(rs) == [ok |-> TRUE, rows |-> rs, affected |-> 0]

\* Every row that was fetched and passes the residual predicates.
Matched(t) ==
    LET got == call[t].got
    IN  Keep(got, {i \in DOMAIN got : MatchesAll(Info, got[i][2], Plan(call[t].stmt).residual)})

\* The row with the SET clause applied.
Assigned(row, set) ==
    [c \in DOMAIN row |-> IF \E a \in DOMAIN set : ColumnIndex(Info, set[a].column) = c
                          THEN set[CHOOSE a \in DOMAIN set : /\ ColumnIndex(Info, set[a].column) = c
                                                             /\ \A b \in a + 1..Len(set) : set[b].column # set[a].column].value
                          ELSE row[c]]

NewRows(t) == [i \in DOMAIN Matched(t) |-> Assigned(Matched(t)[i][2], call[t].stmt.set)]

Fetched(t) == InStage(t, "fetch") /\ call[t].todo = <<>>

ReturnSelect(t) ==
    /\ Fetched(t) /\ call[t].stmt.kind = "select"
    /\ Returns(t, Selected({r[2] : r \in ToSet(Matched(t))}))
    /\ UNCHANGED <<lmvars, dbvars, grown>>

StartDelete(t) ==
    /\ Fetched(t) /\ call[t].stmt.kind = "delete"
    /\ call' = [call EXCEPT ![t].stage = "mutate"]
    /\ UNCHANGED <<lmvars, dbvars, log, grown>>

\* Faulty variant: two rows of one batch may get the same key.
BatchTooLarge(t) == ~call[t].stmt.fits /\ Matched(t) # <<>>

\* ValidateUpdateBatch, parts 1 and 2: sizes, and keys given twice.
BatchRejected(t) ==
    \/ ~call[t].stmt.fits /\ Matched(t) # <<>>
    \/ Pk # <<>> /\ \E i, j \in DOMAIN NewRows(t) : i < j /\ PkOf(NewRows(t)[i]) = PkOf(NewRows(t)[j])

\* Part 3 searches the key of every new row.
CheckUpdate(t) ==
    /\ Fetched(t) /\ call[t].stmt.kind = "update"
    /\ IF BatchRejected(t)
       THEN Returns(t, Rejected)
       ELSE /\ call' = [call EXCEPT ![t].stage = "check",
                   ![t].todo = IF Pk = <<>> THEN <<>>
                               ELSE [i \in DOMAIN NewRows(t) |-> SearchTree(Pk[1].name, PkOf(NewRows(t)[i]))]]
            /\ UNCHANGED log
    /\ UNCHANGED <<lmvars, dbvars, grown>>

\* Faulty variant: a row of the batch that keeps its key collides with itself.
TakenByAny(t) == call[t].hits # {}

\* A key is taken if it belongs to a row that the statement does not move.
Taken(t) == call[t].hits \ {r[1] : r \in ToSet(Matched(t))} # {}

Checked(t) == InStage(t, "check") /\ call[t].todo = <<>>

StartUpdate(t) ==
    /\ Checked(t) /\ call[t].stmt.kind = "update"
    /\ IF Taken(t)
       THEN Returns(t, Rejected)
       ELSE call' = [call EXCEPT ![t].stage = "mutate"] /\ UNCHANGED log
    /\ UNCHANGED <<lmvars, dbvars, grown>>

\* INSERT after CheckPrimaryKeyUniqueness; HeapFile::Insert refuses a row that
\* is too large before it does anything.
StartInsert(t) ==
    /\ Checked(t) /\ call[t].stmt.kind = "insert"
    /\ IF call[t].hits # {} \/ ~call[t].stmt.fits
       THEN Returns(t, Rejected)
       ELSE /\ call' = [call EXCEPT ![t].stage = "mutate",
                   ![t].todo = InsertEverywhere(call[t].stmt.row)]
            /\ UNCHANGED log
    /\ UNCHANGED <<lmvars, dbvars, grown>>

\* The mutation loop goes on to the next matched row: DELETE removes it,
\* UPDATE removes it and inserts its new version.
NextRow(t) ==
    /\ InStage(t, "mutate") /\ call[t].todo = <<>> /\ call[t].begun < Len(Matched(t))
    /\ LET n == call[t].begun + 1
       IN  call' = [call EXCEPT ![t].begun = n,
                       ![t].todo = DeleteEverywhere(Matched(t)[n]) \o
                                   (IF call[t].stmt.kind = "update" THEN InsertEverywhere(NewRows(t)[n]) ELSE <<>>)]
    /\ UNCHANGED <<lmvars, dbvars, log, grown>>

\* The mutation loop is through.
ReturnAffected(t) ==
    /\ InStage(t, "mutate") /\ call[t].todo = <<>> /\ call[t].begun = Len(Matched(t))
    /\ Returns(t, Affected(IF call[t].stmt.kind = "insert" THEN 1 ELSE Len(Matched(t))))
    /\ UNCHANGED <<lmvars, dbvars, grown>>
-----------------------------------------------------------------------------
Dirty(t, page) == dirtied' = [dirtied EXCEPT ![t] = @ \cup {page}]

Delete(t) ==
    /\ Doing(t, "delete")
    /\ heap' = [heap EXCEPT ![Here(t).arg[1]].slots[Here(t).arg[2]].live = FALSE]
    /\ Dirty(t, Here(t).page) /\ Done(t)
    /\ UNCHANGED <<lmvars, heap_file, tree, tree_file, log, grown>>

DeleteFromTree(t) ==
    /\ Doing(t, "tree_delete")
    /\ tree' = [tree EXCEPT ![Here(t).page[2]] = Removed(@, Here(t).arg)]
    /\ Dirty(t, Here(t).page) /\ Done(t)
    /\ UNCHANGED <<lmvars, heap, heap_file, tree_file, log, grown>>

InsertIntoTree(t) ==
    /\ Doing(t, "tree_insert")
    /\ tree' = [tree EXCEPT ![Here(t).page[2]] = Append(@, <<Here(t).arg, call[t].rid>>)]
    /\ Dirty(t, Here(t).page) /\ Done(t)
    /\ UNCHANGED <<lmvars, heap, heap_file, tree_file, log, grown>>

\* HeapFile::Insert reads the number of the last page and releases the latch.
ChoosePage(t) ==
    /\ InStage(t, "mutate") /\ call[t].todo # <<>> /\ Here(t).do = "insert" /\ heap # <<>>
    /\ call' = [call EXCEPT ![t].todo = <<Access("put", HeapPage(Len(heap)), LM!kExclusive, Here(t).arg)>> \o Tail(@)]
    /\ UNCHANGED <<lmvars, dbvars, log, grown>>

PutRow(t) ==
    /\ Doing(t, "put")
    /\ LET p == Here(t).page[2]
       IN  /\ HasRoom(heap[p])
           /\ heap' = [heap EXCEPT ![p] = With(@, Here(t).arg)]
           /\ call' = [call EXCEPT ![t].todo = Tail(@), ![t].rid = <<p, Len(heap[p].slots) + 1>>]
    /\ Dirty(t, Here(t).page)
    /\ UNCHANGED <<lmvars, heap_file, tree, tree_file, log, grown>>

\* No page, or no room: a new page, which nobody else can have locked.
PutRowOnNewPage(t) ==
    /\ \/ Doing(t, "put") /\ ~HasRoom(heap[Here(t).page[2]])
       \/ InStage(t, "mutate") /\ call[t].todo # <<>> /\ Here(t).do = "insert" /\ heap = <<>>
    /\ LET p == Len(heap) + 1
       IN  /\ p <= MaxPages
           /\ LM!Grant(t, HeapPage(p), LM!kExclusive)
           /\ heap' = Append(heap, With([Unformatted EXCEPT !.formatted = TRUE], Here(t).arg))
           /\ heap_file' = Append(heap_file, Unformatted)
           /\ call' = [call EXCEPT ![t].todo = Tail(@), ![t].rid = <<p, 1>>]
           /\ Dirty(t, HeapPage(p))
    /\ grown' = [u \in Txn |-> grown[u] \/ (u # t /\ status[u] # "done" /\ (log[u] # <<>> \/ call[u] # NoCall))]
    /\ UNCHANGED <<tree, tree_file, log>>
-----------------------------------------------------------------------------
LastOk(t) == log[t] # <<>> /\ Last(log[t]).result.ok

\* Commit of an autocommit statement that returned, or of an explicit
\* transaction between two statements.
Commit(t) ==
    /\ \/ InStage(t, "none") /\ log[t] # <<>> /\ (t \in Autocommit => LastOk(t))
       \/ ~ClientAborts /\ t \notin Autocommit /\ status[t] = "dying"
    /\ heap_file' = [p \in DOMAIN heap |-> IF HeapPage(p) \in dirtied[t] THEN heap[p] ELSE heap_file[p]]
    /\ tree_file' = [i \in IndexId |-> IF Root(i) \in dirtied[t] THEN tree[i] ELSE tree_file[i]]
    /\ LM!ReleaseAll(t)
    /\ call' = [call EXCEPT ![t] = NoCall]
    /\ UNCHANGED <<heap, tree, dirtied, log, grown>>

\* Abort: of an autocommit statement that threw, on ROLLBACK, or after
\* TransactionAbortedException.
Abort(t) ==
    /\ \/ status[t] = "dying"
       \/ InStage(t, "none") /\ log[t] # <<>> /\ (t \in Autocommit => ~LastOk(t))
    /\ heap' = [p \in DOMAIN heap |-> IF HeapPage(p) \in dirtied[t] THEN heap_file[p] ELSE heap[p]]
    /\ tree' = [i \in IndexId |-> IF Root(i) \in dirtied[t] THEN tree_file[i] ELSE tree[i]]
    /\ LM!ReleaseAll(t)
    /\ call' = [call EXCEPT ![t] = NoCall]
    /\ UNCHANGED <<heap_file, tree_file, dirtied, log, grown>>

Quiescent == (\A t \in Txn : status[t] = "done") /\ UNCHANGED vars

Step(t) ==
    \/ \E stmt \in Stmt : Execute(t, stmt)
    \/ LockPage(t) \/ RecheckLock(t)
    \/ SearchForRows(t) \/ SearchForKey(t) \/ Get(t) \/ Scan(t)
    \/ ReturnSelect(t) \/ StartDelete(t) \/ CheckUpdate(t) \/ StartUpdate(t) \/ StartInsert(t) \/ NextRow(t)
    \/ Delete(t) \/ DeleteFromTree(t) \/ InsertIntoTree(t)
    \/ ChoosePage(t) \/ PutRow(t) \/ PutRowOnNewPage(t)
    \/ ReturnAffected(t)
    \/ Commit(t) \/ Abort(t)

Next == (\E t \in Txn : Step(t)) \/ Quiescent

Spec == Init /\ [][Next]_vars
-----------------------------------------------------------------------------
(* The statements as SQL defines them, on a set of rows with distinct keys. *)
Selects(table, stmt) == {row \in table : MatchesAll(Info, row, stmt.where)}

Serial(table, stmt) ==
    LET hit  == IF stmt.kind = "insert" THEN {} ELSE Selects(table, stmt)
        new  == IF stmt.kind = "insert" THEN {stmt.row}
                ELSE IF stmt.kind = "update" THEN {Assigned(row, stmt.set) : row \in hit} ELSE {}
        rest == table \ hit
        kept == [table |-> table, result |-> Rejected]
    IN  CASE stmt.kind = "select" -> [table |-> table, result |-> Selected(hit)]
          [] stmt.kind = "delete" -> [table |-> rest, result |-> Affected(Cardinality(hit))]
          [] OTHER ->
                IF \/ ~stmt.fits /\ new # {}
                   \/ \E row \in new, other \in rest : PkOf(row) = PkOf(other)
                   \/ stmt.kind = "update" /\ Cardinality({PkOf(row) : row \in new}) < Cardinality(hit)
                THEN kept
                ELSE [table |-> rest \cup new,
                      result |-> Affected(IF stmt.kind = "insert" THEN 1 ELSE Cardinality(hit))]

\* The statements of a transaction one after the other.
Replay(table, entries) ==
    FoldLeft(LAMBDA s, e : LET x == Serial(s.table, e.stmt)
                           IN  [table |-> x.table, results |-> Append(s.results, x.result)],
             [table |-> table, results |-> <<>>], entries)

\* What the files hold.
Committed ==
    [rows  |-> [t \in DOMAIN Other.rows \cup {Table} |->
                   IF t = Table THEN [rid \in Rids(heap_file) |-> RowAt(heap_file, rid)] ELSE Other.rows[t]],
     index |-> [i \in DOMAIN Other.index \cup IndexId |-> IF i \in IndexId THEN tree_file[i] ELSE Other.index[i]]]

\* What has been committed to the files of the indexes is what has been
\* committed to the heap file: whatever statements interleaved, were turned
\* away, died on a lock half way or were rolled back, every index has one
\* entry for every row and none besides.
IndexesAgree == AllIndexesAgree(Committed, Cat)

\* No two committed rows have one primary key, although INSERT and UPDATE
\* look for the key first and write it many steps later.
PrimaryKeyUnique ==
    Pk # <<>> => \A a, b \in Rids(heap_file) : PkOf(RowAt(heap_file, a)) = PkOf(RowAt(heap_file, b)) => a = b

\* executor.cpp:97-101: no statement ever meets an index entry whose row is
\* gone, not even in the middle of its own changes or beside others' changes.
NeverOutOfSync == \A t \in Txn : call[t].stage # "out_of_sync"

\* Serializable in the order of the commits: a transaction that commits saw
\* the results, and leaves the rows, that its statements executed one after
\* the other on the rows committed before would have given; a statement that
\* was turned away had no effect at all.  (A scan does not lock the pages
\* that others add to the file behind it, see HeapFile.)
CommitOrder ==
    [][\A t \in Txn : (Commit(t) /\ ~grown[t]) =>
          LET serial == Replay(RowsOf(heap_file), log[t])
          IN  /\ serial.results = [i \in DOMAIN log[t] |-> log[t][i].result]
              /\ serial.table = RowsOf(heap_file')]_vars

\* The plan of every query - index scan or table scan, residual predicates,
\* the sides of a join and its inner index - gives the rows that SQL says,
\* on the rows and index entries the transactions have left.
QueriesAreExact ==
    (\A t \in Txn : status[t] = "done") =>
        \A q \in Query : ~SelectRejected(Cat, q) => ExecuteSelect(Committed, Cat, q) = Answer(Committed, Cat, q)
=============================================================================
