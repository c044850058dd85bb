# flintdb in TLA+

A verification project for flintdb, a small relational database in C++: TLA+
models of its transactional core, its storage structures, its catalog and its
statements, TLC runs on small instances, and TLAPS proofs for every size. Paths such as
`src/src/txn/lock_manager.cpp` are relative to the directory that holds the
repository as `src/`.

## 1. The system

| component | state | operations | hard behaviour |
|---|---|---|---|
| **Lock manager** `txn/lock_manager` | `locks_`, `held_by_txn_`, one mutex, one condition variable | `AcquireLock`, `ReleaseAll` | threads sleep on one condition variable; upgrades; wait-die tested before a sleep and stale after it |
| **Write-ahead log** `wal/log_manager` | the file, `next_lsn_`, `durable_lsn_`, `flush_in_progress_` | `Append*`, `FlushThrough` (group commit), `Flush`, `Checkpoint`, the scan on open | fsync without a lock held, failing fsync and write, torn tails, restart of the LSNs |
| **Transaction manager** `txn/transaction_manager`, `txn/transaction` | `next_txn_id_`, `active_txns_`, the pages each transaction dirtied | `Begin`, `Commit`, `Abort` | a commit is many steps; exceptions leave it in the middle |
| **Recovery** `wal/recovery` | position in the records | `RunRecovery` | crashes during recovery, records of earlier processes |
| **Database** `db/database` | the registered objects | open in two phases, `Checkpoint`, `CreateTable`, `CreateIndex` | steps outside any transaction and outside the log; check-then-act against running transactions |
| **Buffer pool, disk manager** `storage/` | cached pages, `dirty_`, observers per thread, file length | `NewPage`, `FetchPage`, `MarkDirty`, `FlushPages`, `FlushAll`, `DiscardPage` | the data files are never synced |
| **Heap file, page** `storage/heap_file`, `storage/page` | `page_ids_`, slotted pages | `Insert`, `Delete`, `GetRow`, `Scan`, `Find` | `page_ids_` is copied, pages are locked later |
| **B+-tree** `index/btree` | header page, leaf and internal pages | `Insert`, `Delete`, `Search`, `RangeScanAll`, `ValidateInvariants` | duplicates across splits, merges, redistribution, borrowing |
| **Session** `sql/session` | the thread's current transaction | `Execute` with autocommit | exceptions from a statement or from COMMIT |
| **Catalog** `catalog/` | tables, indexes, next object id; a metadata file | `CreateTable`, `CreateIndex`, `Persist`, `Load`, lookups | changed in memory before it is saved, saved before the storage exists |
| **Executor** `sql/executor` | none of its own | INSERT, UPDATE, DELETE, SELECT, DDL | a statement is many page accesses, each of which may wait or throw |
| **Planner, semantic checks** `sql/planner`, `sql/sql_semantics` | none | choice of an index, residual predicates, sides of a join | a predicate is left out of the filter because an index is trusted |
| **SQL front end, row codec** `sql/` | none | lexing, parsing, encoding | none for a model checker |

How they interact. A statement runs on a thread under the thread's current
transaction. Heap file and B+-tree lock every page through
`Transaction::AcquireLock` before they touch it, change the cached page in place,
and call `BufferPool::MarkDirty`, whose per-thread observer records the page in
the transaction. `Commit` appends one Update record per dirtied page and a
Commit record, waits in `FlushThrough` until they are durable, writes its pages
to the data files (force), and then releases its locks. `Abort` reads its
pages back from the files (no-steal: nothing uncommitted is there). On open,
`RunRecovery` writes the Update records of all TxnIds with a Commit record
into bare files, for the objects the catalog lists, and only then are pools,
heap files and trees built on them. DDL runs outside transactions: the catalog
is changed and persisted, then storage is attached and registered, then a new
index is filled and flushed.

What makes each part correct, and what the models state: exclusion, strict two
phases, no lost wakeup and no deadlock of the locks; durability of what
`FlushThrough` returned for, one flusher, no stranded waiter; atomicity and
durability of transactions over crashes; isolation of reads; the structure of
the tree and the exactness of its answers; the heap file's rows against the
committed ones; a database that opens after every crash, with every table and
index that was acknowledged, complete; indexes that agree with their tables,
unique keys and serial outcomes under concurrent statements; plans that give
the answers SQL defines. `PROJECT.json` lists the hazards with the line where each bites.

## 2. Modules

```
LockManager ---+
               +-> TransactionManager -> Database  ==refines==> AtomicStore
LogManager ----+
LockManager ---> HeapFile
BPlusTree
Schema --> Catalog --> DatabaseDdl
Schema --> Planner --> Executor <--- LockManager
MC<module>: instances for TLC

TLAPS:
SequenceLemmas --> LogManagerProofs --+
                   LockManagerProofs -+-> DatabaseProofs
                   LockManagerProofs ---> HeapFileProofs
SequenceLemmas --> DatabaseDdlProofs --> DatabaseDdlRowsProofs
SequenceLemmas --> ExecutorProofs <--- LockManagerProofs
```

* **LockManager.** A step is one critical section of `mutex_`. `locks` and
  `held_by_txn` are the code's two maps; an entry without holders stands for an
  absent one, so the "fresh" branch of `AcquireLock` is the grant on an empty
  entry. `status` is the thread's place: running, asleep in `cv_.wait`, awake,
  dying (the exception was thrown; `lock_manager.h:64-65` obliges the caller to
  abort), done. `LoopBody` is one pass of the loop, used by `AcquireLock` and
  by `Recheck` after a wakeup. `ReleaseAll` notifies only if there was an
  entry to erase, as in the code.
* **LogManager.** The file is a sequence of records; `torn` marks one that does
  not parse. `stable`, the number of leading records on stable storage, is the
  disk's. `FlushThrough` is split where the code gives up `flush_mutex_`:
  evaluation of the while condition, fsync, publication. `covers` is what was
  in the file when fsync was called. A process crash keeps the file; a power
  loss keeps any prefix that includes the stable records. Both then run the
  constructor (`Reopen`).
* **TransactionManager.** Instantiates both and adds transactions, pool and
  data files. A page image is named by the transaction that wrote it. The
  loops of `Commit` and `Abort` take one step per page. `survivors` is the set
  of images a power loss may leave of a page, since no data file is ever synced.
  `Begin` is one step: of its parts only the assignment of the id and the
  insertion into `active_txns_` are seen by others, and the only reader of
  the latter, `Checkpoint`, races with it in either case.
* **Database.** Adds crashes, recovery one record at a time, opening, and
  `Checkpoint` (test, flush page by page, truncate). `session` counts the
  processes; TxnIds start at 1 in each. `commits`, `acked` and `rolled_back`
  are history. `TxnStep` leaves out the spurious wakeups of LockManager and
  LogManager, which are checked, and proved about, in those modules.
* **AtomicStore.** What docs/SPEC.md section 2 promises: commits take effect at
  once and completely, a crash may drop the latest but no acknowledged one.
  The refinement mapping sends the store to `Recovered(log, disk)`: what a
  recovery would make of log and files at this moment.
* **HeapFile.** Five operations, each split at the release of
  `page_ids_mutex_` and at every page lock; pages have `SlotsPerPage` slots
  that are never reused; a page that was never written back is zeros, without
  room for a row. Commit and Abort are one step, as Database justifies. A crash
  rebuilds `page_ids` from the length of the file.
* **BPlusTree.** The recursive functions are operators from pages to pages, and
  an operation is one step: it holds the header page's lock to the end of its
  transaction. Pages nothing points to are dropped, which the code never does,
  so that the state stays finite; the code only loses their space. Keys are
  small integers; capacities are constants. The code's guard against cyclic
  chains, `kMaxTraversalSteps = 10000` (`btree.cpp:95`), is left out: no tree of
  the run's size reaches it.

* **Schema, Catalog.** A catalog is a value; a lookup returns a sequence that is
  empty for `nullptr`. `Serialize` and `Load` keep what decides the outcome of
  reading back: indexes stand under their tables, an index has a kind, and the
  word for "no primary key" is itself a legal column name. `Persist` is one
  step, since the rename is; it may throw, which leaves the change in memory.
* **DatabaseDdl.** CREATE TABLE and CREATE INDEX with one step for the catalog,
  one for each object's storage (two for a new tree: the page is allocated,
  then its header is forced out), one for the backfill and one for every page
  FlushAll writes. One client's transactions run in between, with dirtied
  pages only of the pools that were registered at Begin. A commit appends one
  Update record at a time, object by object and each object's pages in ascending
  order, then its Commit record, whose fsync is the same step (`LogUpdate`,
  `LogCommit`). TxnIds start at 1 in every process, and `Redo` is what recovery
  makes of the log: the Updates of every TxnId that has a Commit record. With
  `OneSessionPerLog` a process that finds a log runs `Checkpoint` before it
  begins a transaction, as in the run Database_restarts; the code does not ask
  for it. The process may die at
  every step; opening replays the log or fails. What each page holds is a set
  of rows; files have a length, and a page that was allocated and never written
  is empty. ObjectIds are the catalog's.
* **Planner.** `PlanTableAccess` and `PlanSelect` as operators, rejections
  included; execution of the plan on rows and index entries; and `Answer`, which
  filters all rows, or all pairs of rows, by the whole WHERE and ON clause.
* **Executor.** A statement is a queue of accesses: each locks one page by the
  lock manager's own steps and then does one thing to it. Page 0 of an index
  stands for the tree, since every operation locks it first and to the end of
  the transaction. INSERT checks the key and writes; UPDATE fetches, checks the
  batch, and deletes and reinserts row by row; DELETE removes index entries
  before the row. `NextRow` is one turn of the mutation loop: it queues the
  accesses for the next matched row. `HeapFile::Insert` reads the number of the
  last page before it locks it. Autocommit transactions commit or abort by their handler, explicit
  ones as their client likes. Joins are checked by `QueriesAreExact` on every
  outcome, and are not interleaved.

Operators named as a *faulty variant* are not part of the models: each stands
for a plausible mistake and is used to show that a property notices it.

## 3. Runs

Passing runs:

| run | instance | checks |
|---|---|---|
| LockManager_locking | 3 transactions, 2 pages, fair | types, exclusion, agreement of the tables, strict 2PL, no lost wakeup, a younger blocker for every sleeper, every request granted or refused |
| LogManager_group_commit | 3 threads, 4 LSNs, fsync errors, crashes | types, durability of what FlushThrough returned for |
| LogManager_faults | 3 threads, 3 LSNs, write and fsync errors, checkpoints, crashes, fair | order of the LSNs, one flusher, no stranded waiter, every FlushThrough ends |
| Database_power_loss | 2 transactions, 2 pages, power losses, 3 sessions | types, isolation, force, refinement of AtomicStore |
| Database_restarts | 1 transaction in each of 3 sessions, process crashes, checkpoint on every open | isolation, refinement of AtomicStore |
| Database_fsync_retry | 2 transactions, 1 page, fsync errors, power losses | write-ahead |
| HeapFile_isolation | 2 transactions of 2 operations, 3 pages of 2 rows, 0 to 2 old rows, a crash | types, exact committed rows, repeatable reads, complete scans, fresh pages never block |
| BPlusTree_operations | 6 keys with 2 row ids, 4 entries to a leaf, 2 keys to a node | structure, search, leaf chain, balance |
| DatabaseDdl_crashes | 2 tables, 1 of them with a primary key, and 1 index, rejected statements, 2 rows, 2 transactions, 2 deaths, 1 failure of Persist, a checkpoint before a found log is written to | opening never fails, fresh objects, acknowledged DDL and its indexes survive complete, committed rows survive, the catalog reads back |
| Executor_statements | 1 autocommit statement beside 2 statements of an explicit transaction, 11 statements, 0 to 2 first rows, 2 indexes, 11 queries | indexes agree with the table, unique keys, no entry without a row, exact plans, serial outcomes in commit order |

Why the bounds are enough. Three transactions and two pages are the least with
which two readers share a page under a waiting writer while a third request
crosses it. Three committers let one flush, one wait and one append meanwhile;
a fourth LSN gives a second round. Two transactions and two pages let a crash
fall between two pages of one commit beside another transaction's work; three
sessions let recovery itself crash. Rows that are there on open let both heap
transactions work on committed data; three pages allow a page added while
another is scanned. Four entries to a leaf are the least with which leaves
redistribute, and twelve entries the least that then borrow between internal
nodes, from either side; two rows under a key put runs of equal keys at every
split point. Two tables and an index interleave their ids and their order in the
catalog; a second death falls into the recovery from the first, or after the
commit that follows it; four ids are two tables and two indexes, or a table
after a failed one (with a primary key on both tables and five ids TLC finds no
error either, in 4.3 million states). Two rows and three keys let a batch swap,
merge or keep keys, collide with a row outside and with itself; the autocommit
transaction is the older one, so that the explicit one dies in the middle of
its statements and the other waits (with `Autocommit1 == {2}`, the ages exchanged, TLC
finds no error either). Bounds are constants: `MaxLsn`, `MaxSessions`, `WorkSessions`,
`FailLsn`, `MaxPages`, `MaxOps`, `RowsOnOpen`, `MaxCrashes`, `MaxObjects`,
`MaxTxns`, `MaxFailures`, `MaxStmts`. Symmetry is used
for pages, threads, rows and row ids, which are only compared for equality, and not
for liveness. `TreeView` identifies trees that differ in page numbers only.

Deadlock is checked in every run; the explicit `Quiescent` and `Idle` steps are
the states in which all transactions have ended.

Runs that show a disagreement (quotations under `findings` in PROJECT.json):

| run | what happens |
|---|---|
| Database_txn_id_reuse | a new transaction 1 commits what an old transaction 1 left in the log |
| DatabaseDdl_half_built_index | a process dies between Persist and the backfill of CREATE INDEX; the next open lists an index without the table's rows, and queries by it miss them |

The same modules show more under other constants; TLC finds each of these in
seconds to a few minutes:

| module | constants | violated | what happens |
|---|---|---|---|
| LockManager | as in LockManager_locking | `NoWaitsForCycle` | a reader that joins while a writer sleeps lets two threads wait for each other until one is woken and dies, against `lock_manager.h:96-98` ("no cycle ... can ever close"); there is no lasting deadlock (`RequestsResolve`) |
| LockManager | as above | `NeverWaitsThenThrows` | a call waits and throws later, against `lock_manager.h:124-125` |
| LogManager | 2 threads, 3 LSNs, `UseCheckpoint = TRUE` | `FlushedIsDurable` | Checkpoint restarts the LSNs and leaves `durable_lsn_` (`log_manager.cpp:312`): FlushThrough returns without an fsync, against `log_manager.h:117-120` |
| Database | 1 transaction, 1 session, `FailLsn = 8` | `RolledBackStaysOut` | the session aborts after an fsync error (`session.cpp:83`), but Update and Commit records are in the log and the next open replays them, against `recovery.h:43-47` |
| LogManager | `WriteMayFail = TRUE` | `FlushedIsDurable` | acknowledged records behind the fragment of a failed write are cut off on open |
| Database | 1 transaction, `PowerFails`, `CheckpointWhen = "first"` | `RecoversCommitted` | Checkpoint truncates the log over unsynced files, against `database.h:158-159` |
| Database | 1 transaction, 3 sessions, `ProcessDies` and `PowerFails` | `RecoversCommitted` | recovery trusts an unsynced Commit record, against `docs/SPEC.md:63` |
| Database | 2 transactions, `CheckpointWhen = "any"` | `NoSteal` | a transaction begins behind Checkpoint's test, against `database.h:174-176` |
| Database | `FailLsn = 8` | `ForcedWhenIdle` | writes after a COMMIT that threw are not tracked, against `transaction_manager.h:76-78` |
| HeapFile | as in HeapFile_isolation | `NoPhantomInScan` | a second Scan finds rows on a page published after the first one's copy of `page_ids_`, against `docs/SPEC.md:94` |
| DatabaseDdl | `ExclusiveDdl = FALSE` | `CommittedRowsSurvive` | a transaction that begins behind the check of `executor.cpp:268`, during CREATE TABLE, has no observer on the new pool: its rollback leaves its row, against `executor.cpp:261-266` |
| DatabaseDdl | `OneSessionPerLog = FALSE` | `CommittedRowsSurvive`, `AckedIndexComplete` | Updates that a transaction 1 logged before its process died are replayed once a later process's transaction 1 has committed, into other tables too and into indexes (`recovery.cpp:17-23`), against `recovery.h:30-32`; the other properties of the run hold |
| DatabaseDdl | `MaxFailures = 1` | `ListedIsAttached` | a CREATE whose Persist threw is listed in memory without storage, against `database.cpp:69-71` |
| DatabaseDdl | as in DatabaseDdl_half_built_index | `HeadersReadable` | a death between the allocation and the flush of a tree's header leaves a header of zeros, whose root is the header itself (`btree.cpp:327-342`) |
| DatabaseDdl | `PowerSpec` | `OpenNeverFails` | the unsynced growth of a file is lost and recovery's WritePage throws (`disk_manager.cpp:105`) |
| Executor | `ClientAborts = FALSE` | `IndexesAgree`, `CommitOrder`, `PrimaryKeyUnique` | a client that answers `TransactionAbortedException` with COMMIT makes half a statement durable: the session does not abort, although `executor.cpp:187-191` says that no caller can observe a partial result |
| BPlusTree | 2 keys, 3 row ids, 2 entries to a leaf | `SearchIsExact` | Search misses entries of a key with more duplicates than a leaf holds, against `btree.h:126` (the limit is known: `docs/DECISIONS.md:94`) |

Three more were met while reading the code and have no run:

* `log_manager.h:141-143` says that a failed fsync is rethrown to every thread
  that waits for it. `FlushThrough` rethrows in the flusher only; the others try
  again, as the rest of that comment and `log_manager.cpp:293-298` say, and as
  LogManager has it.
* `btree.cpp:92-94` says that `kMaxTraversalSteps` never fires on correct data,
  "however large". A leaf has at most 291 entries, and RangeScanAll counts the
  leaves of the chain against 10000 (`btree.cpp:450`), so it throws on a sound
  tree with more leaves than that, of some three million entries or fewer.
* `Load` reads the word NONE as no primary key (`catalog.cpp:137`). Persist writes
  it for that, but also for a primary key column of that name
  (`catalog.cpp:174`), whose `primary_key_column` is lost. `SameLookups` does not compare it. Planner
  and executor find the primary key by its index, which keeps its kind, so the
  loss changes no answer.

The passing Database runs stay away from these on purpose, by their constants:
one kind of crash at a time, checkpoints only before the first transaction of a
process and truncation before ids are used again, no fsync error in the runs
that check atomicity. DatabaseDdl_crashes has deaths of the process only,
DDL that excludes transactions, and a `Checkpoint` before TxnIds are used again
in a log; Executor_statements has clients that keep the
contract of `lock_manager.h:64-65`. What the runs show holds under those
conditions. `CommitOrder` leaves out transactions beside which the heap file
grew a page, because of the phantoms listed for HeapFile.

## 4. Fairness

*LockManager*: weak fairness of `Recheck` (a woken thread gets the mutex) and
of `ReleaseAll` (a session ends a transaction that is not blocked: by COMMIT,
ROLLBACK or the handler of autocommit). Nothing makes a transaction acquire
anything. *LogManager*: weak fairness of a thread's evaluation of the while
condition and of the return of its fsync, with either result. The safety
properties and the proofs use no fairness.

## 5. Proofs

Every theorem holds for every value of the constants that meets the named
assumption of its module (`TxnAssumption`, `DatabaseAssumption`, `HeapAssumption`,
...): any number of transactions, threads, pages, rows, sessions, and any value of
the bounds. Hypotheses beyond that are in the statement and listed here. Each
inductive invariant was checked by TLC on the instances of section 3 before it
was proved.

`LockManagerProofs`, for every set of natural numbers as TxnIds, every set of
pages (assumption `TxnAssumption` only):

* `TypeCorrect`;
* `LockTableInvariant`: `IInv`, the conjunction of `TypeOK`, `MutualExclusion`,
  `TablesAgree`, `SleeperIsBlocked` and `SleeperHasYoungerBlocker`, is
  inductive. The parts need each other. That a sleeper stays blocked when a
  holder upgrades uses `MutualExclusion`; that a release which notifies nobody
  unblocks nobody uses `TablesAgree`; that a sleeper keeps a younger blocker
  when older readers join uses that no grant removes a holder. One lemma
  covers a pass of the loop, one `ReleaseAll`, and the theorems
  `ExclusiveMeansAlone`, `NothingLeftBehind`, `NoLostWakeup` and `WaitDie`
  follow;
* `LocksHeldToTheEnd`: the action property `StrictTwoPhase`.

`LogManagerProofs`, for every set of threads and bodies and every `MaxLsn`:

* `LogTypeCorrect` and `RecordsInLsnOrder`, with write errors, checkpoints,
  crashes and torn tails. The second rests on what the scan on open keeps: the
  records before the first torn one, and a `next_lsn_` behind the last of them;
* `SingleFlusher`, `NoStrandedWaiter`: under the same faults, from an invariant
  over `pc` and `flush_in_progress`;
* `GroupCommitIsDurable`: assuming `NoFaults` (no write errors, no checkpoints;
  with either, the property is false, see section 3). `DurabilityInv` says
  that LSNs are positions of the file, that a target is a record of the
  thread itself, and that every claim (`durable_lsn`, the round in flight, a
  returned call) is at most what is or will be stable.

`DatabaseProofs` instantiates both and uses their step lemmas for the lock table
and the log inside `Database`:

* `DatabaseTypeCorrect`, from `BaseInv`: types, the lock table's invariant, the
  order of the log, that commits are in log order, that a transaction that has
  not ended holds the pages it dirtied exclusively (`WritersHoldLocks`) and
  that the pool has its images there (`PoolKeepsWrites`);
* `PagesForced` (`ForcedWhenIdle`), assuming `FailLsn = 0`, without which it is
  false. The strengthening says which transaction has still to force or discard
  each dirty page, and that a clean page is as in its file;
* `LogBeforeData` (`WriteAhead`), assuming `OneSessionPerLog` and no deaths of the
  process alone; fsyncs may fail. `LogInv` describes the log: whose records it
  has, in which order, what a transaction in each phase has written. What may
  survive of a page belongs to a commit whose record is stable, and so does
  what recovery will write, which is why a process that dies without the
  machine must be excluded: its successor replays unsynced records.

The second half of the module assumes `Recoverable`: no fsync error, `OneSessionPerLog`,
and, if the machine may stop, no checkpoints and no deaths of the process alone.
Section 3 has a counterexample for each part. These are the conditions of the
runs Database_power_loss and Database_restarts. Then:

* `RecoveryIsExact` (`RecoversCommitted`): at every moment, in the middle of a
  commit, rollback, checkpoint or recovery, a recovery would rebuild the content
  the commits define. `AtomicInv` adds to the invariants above that a
  transaction has one outcome, that a commit in the log has all its Update
  records, between the earlier commits of the same pages and its own Commit
  record (`UpdatesInCommitOrder`, which is strict two-phase locking as the log
  sees it), that the file is current for pages nobody is about to force and for
  pages no commit in the log wrote, and what recovery has redone so far. The
  key lemma, `RecoveredPage`, relates the last replayed record of a page to the
  last commit that wrote it;
* `LockedPagesAreCommitted` (`ReadsCommitted`), `RolledBackIsGone`
  (`RolledBackStaysOut`);
* `DatabaseIsAtomic`: `Spec => ImplementsAtomicStore`. The step that appends the
  Commit record is AtomicStore's commit, the end of a transaction its
  acknowledgement, a crash its crash, and everything else, recovery and
  Checkpoint included, leaves `Recovered(log, disk)` unchanged.

`HeapFileProofs`, for every set of transactions and number of pages, slots, rows
on open, operations and crashes:

* `HeapFileInvariant`: `HeapInv` is inductive. `ControlInv` has what each call
  remembers (its copy of `page_ids_`, the page it grew, the queue of a scan) and
  that allocation keeps up with the insertions under way; `WritersHoldLocks`
  and `CleanPages` say that a page differs from its file only by the
  changes of the one transaction that has it locked, and `ChangesInv` which
  changes these are; `SeenInv` and `ScanInv` carry reads and scans along;
* from it `HeapTypeCorrect`, `FreshPagesAreFree` (`FreshPageNeverBlocks`),
  `FileHoldsCommitted` (`FileIsCommitted`), `ReadsRepeatable` (`ReadsAreStable`)
  and `ScanIsComplete` (`ScanMissesNothing`).
* The proof is by the shape of a step, not by the action: entering a call, a
  step of LockPage, reading a locked page, writing it, growing the file,
  ending a transaction, crashing; `StepShapes` maps the actions to these.

`DatabaseDdlProofs`, for every set of statements and rows and every number of
objects, transactions, deaths of the process and failures of `Persist`, with
transactions that begin between the steps of a CREATE (any `ExclusiveDdl`) and
over the logs of earlier processes (any `OneSessionPerLog`):

* `DdlInvariant`: `StructInv` is inductive. `CatalogOK`, of the catalog in memory
  and of the one `Load` would read, says that names and ObjectIds are given out
  once. `ListedInv` says that whatever has storage, a page or a record is
  listed in the metadata file, of which the catalog in memory is an extension:
  a CREATE whose Persist threw leaves it with more. `PagesInv` fits pools, files,
  log records and headers together, the records of dead and unfinished
  transactions included, so that it does not matter which of them recovery
  replays; `SavedInv` and `AckedInv` say when memory
  and file agree and that what was acknowledged is in both;
* from it `OpeningSucceeds` (`OpenNeverFails`), `NewObjectsAreFresh`
  (`FreshObject`), `AcknowledgedDdlSurvives` (`AckedDdlSurvives`) and
  `ReloadKeepsLookups` (`LookupsSurviveReload`);
* the lookups and `Load` are loops, written as recursive functions. `TableLoop`
  and `LoadLoop` give their values step by step, by `RecursionExists` and
  `IntervalInduction` of `SequenceLemmas`, which are proved from the
  well-ordering of the naturals; `Reloaded` and `SameIndexesOnTable` say that
  `Load(Serialize(c))` has the tables, ids and indexes of `c`, and the indexes of
  each table in the order of `c`.

`DatabaseDdlRowsProofs`, over the same constants, has two hypotheses.
`ExclusiveDdl`: no transaction begins while a CREATE runs. The code only looks for
active transactions once, before the CREATE; one client that runs one statement
at a time meets it. `OneSessionPerLog`: no transaction begins over the log of an
earlier process, which a client meets that calls `Checkpoint` after it has opened
the database. Section 3 has what happens without each.

* `DdlContent`: `ContentInv` and `LogInv` are inductive beside `StructInv`.
  `LogInv` says that no two transactions in the log have the same TxnId and, of
  the running one, that its entry is the last, without a Commit record until it
  is logged, and that its Updates so far are dirtied pages as the pool has them.
  It is why an Update record changes nothing for recovery (`LogUpdatePuts`) and a
  Commit record adds the pages of its own transaction and no others
  (`LogCommitPuts`). `FileInv` says that
  the file of every object is as recovery would leave it, except for the pages a
  logged commit has still to force; `CacheInv` that a pool differs from its file
  only by the pages of the one transaction, all of which it has observed, or by
  the backfill; `NewInv` that an object under construction has no record in the
  log and nothing in it before its backfill, and the table's rows from then on;
  `RowsInv` that the tables and the acknowledged indexes of the metadata file
  would have the committed rows after a recovery at any step, and have the
  transaction's besides in the pool;
* from it `RowsSurvive` (`CommittedRowsSurvive`) and `AckedIndexesAreComplete`
  (`AckedIndexComplete`). Three lemmas carry most actions: `SettlesContent` for
  steps after which pool and file are what recovery would make of the file,
  `QuietContent` for those that write only to objects no acknowledged statement
  has made, and `ReturnContent` for the acknowledgement itself.

`ExecutorProofs`, for every catalog, table, set of statements and queries, any
values, any number of transactions and any size of pages and file. Assumed of
the constants (`ExecutorAssumption`, `CatalogAssumption`, `StatementAssumption`):
what the catalog sees to (index names are not repeated, an index is on a column
of its table), what the checks of names and types see to (a row has a value for
every column), and that the rows a run begins with fit on a page and have
different keys. Hypothesis of the theorems: `ClientAborts`, a client answers
`TransactionAbortedException` with ROLLBACK; section 3 has what happens to the
same properties without it.

* `ExecutorInvariant`: `ExecInv` is inductive. It is about what is true between
  any two page accesses of every open transaction. `WritersHoldLocks` and
  `CleanPages` say that cache and files differ only by the changes of the one
  transaction that has the page locked, `FilesOK` that the files agree with each
  other, and `TxnOK` what a transaction relies on, as a predicate of its own
  call, the pages it has changed, the rows it sees and the locks it has: the
  accesses still queued are those of the row at hand (`FetchShape`, `CheckShape`,
  `MutateShape`); the rows it fetched are different ones, locked and unchanged
  (`RowsOK`); a tree it has changed lists the rows it sees except for the row
  at hand, which has left or not yet reached that tree (`TreesOK`, with
  `Leaving` and `Arriving`); whoever has changed the heap file has changed, or is
  about to change, every tree (`HeapOK`); under the lock on the primary key
  index, the keys of the rows that stay and of the new rows still to come are
  different (`KeysOK`), which is why a key that was looked up many steps ago may
  be trusted;
* a transaction's own steps are lemmas about `TxnOK` alone (`TreeDeleteOK`,
  `PutOK`, `SearchForKeyOK`, ...). That the steps of others leave it alone is
  `Frame` for steps that touch pages it has not locked, and `CommitOther` for
  a commit, which changes the file under it: who commits a changed row holds
  every tree, so the others have got no further than scans of other pages and
  a search of the key that is still to come;
* from it `EntriesHaveRows` (`NeverOutOfSync`), `KeysStayUnique`
  (`PrimaryKeyUnique`), `IndexesFollowRows` (`IndexesAgree`) and `PlansAreExact`
  (`QueriesAreExact`, here in every state and not only when all transactions
  have ended);
* the last one rests on `SelectIsExact`, about the planner alone and any catalog
  and database whose indexes agree: the rows an index lists under a key are
  those with the value in its column (`IndexHits`), the driving predicate and the
  residual ones are the whole clause (`DrivenAndResidual`), and the two sides of
  a join together check what ON and WHERE say (`SidesMeet`).

Only model-checked: liveness (`RequestsResolve`, `FlushCompletes`), which is out
of the prover's reach; `BPlusTree`, whose operators are recursive; `CommitOrder`,
whose reference, `Replay`, is a fold over the statements of a transaction. The
proofs about the executor take a tree as the sequence of its entries, so that
the B+-tree answers like one is what the run BPlusTree_operations shows.

## 6. Not modelled

Lexer and parser, which turn text into statements and have no state; the row
codec, of which the models keep only whether a row fits on a page; byte layout
and checksums, of which they keep whether a record parses and whether a page
has room; I/O errors on data files; `ResetAll` and `ResetFile`, which only
tests and benchmarks call; a rename of the catalog that is lost in a power loss
because the directory is not synced; what a kernel does to cached pages after a
failed fsync; joins interleaved with other transactions; the retries of a
client whose transaction died; the command line tool, benchmarks and scripts.

## 7. Plan

Order: locks, log, transactions with recovery, heap file, tree, catalog and
DDL, planner, executor (all done), then proofs: locks, log, transactions with
recovery and their refinement of AtomicStore, heap file, catalog and DDL, what
tables and indexes hold over DDL, concurrent statements and the planner (all
done). Left, if wanted: a proof of `CommitOrder`, from `ExecInv` and a history
variable for the rows a transaction began with, instead of the fold.
