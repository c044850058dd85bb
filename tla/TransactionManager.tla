------------------------- MODULE TransactionManager -------------------------
(***************************************************************************)
(* Begin, Commit and Abort (src/src/txn/transaction_manager.{h,cpp}) over  *)
(* the lock table, the write-ahead log and the buffer pool: strict 2PL,    *)
(* redo-only logging at commit, no-steal, force.                           *)
(*                                                                         *)
(* LockManager and LogManager are composed by instantiation: they keep     *)
(* their own variables, and a step of a transaction conjoins their         *)
(* actions.  A page image is named by the transaction that wrote it, which *)
(* is all the properties tell apart.                                       *)
(***************************************************************************)
EXTENDS Naturals, Sequences, FiniteSets

CONSTANTS Txn,       \* TxnIds of one session: 1..n
          PageKey,   \* (object, page) pairs
          NoTxn,
          Blank,     \* image of a page nobody has written
          MaxLsn     \* bound on the log's LSNs

VARIABLES
    \* LockManager
    locks, held_by_txn, status, request,
    \* LogManager
    log, stable, next_lsn, durable_lsn, flush_in_progress, pc, target, to_cover, covers,
    \* TransactionManager and Transaction
    next_txn_id,
    phase,        \* where a transaction is in its life
    dirtied,      \* Transaction::DirtiedPages
    todo,         \* the pages left in the loop a transaction is in
    \* BufferPool and DiskManager
    pool,         \* the cached image of a page
    dirty,        \* the pages in dirty_
    disk,         \* the image in the data file
    survivors,    \* external: the images a power loss may leave there
    \* history, for the properties only
    session,      \* how often the database was opened
    commits,      \* transactions with a Commit record, in log order
    acked,        \* transactions whose Commit returned
    rolled_back   \* transactions whose Abort returned

lmvars   == <<locks, held_by_txn, status, request>>
logvars  == <<log, stable, next_lsn, durable_lsn, flush_in_progress, pc, target, to_cover, covers>>
txnvars  == <<next_txn_id, phase, dirtied, todo>>
poolvars == <<pool, dirty>>
diskvars == <<disk, survivors>>
histvars == <<session, commits, acked, rolled_back>>

LM  == INSTANCE LockManager
WAL == INSTANCE LogManager WITH Thread <- Txn, Body <- {}, WriteMayFail <- FALSE,
                                UseCheckpoint <- FALSE

\* Log record bodies (log_record.h): only an update has a page and an image.
BeginBody        == [type |-> "begin"]
CommitBody       == [type |-> "commit"]
AbortBody        == [type |-> "abort"]
UpdateBody(p, i) == [type |-> "update", page |-> p, image |-> i]

\* none: not begun.  active: statements run.  logging: Commit appends.
\* flushing: Commit is in FlushThrough.  commit_failed: it threw.
\* forcing: Commit writes pages.  discarding, aborting: in Abort.  ended.
Phase == {"none", "active", "logging", "flushing", "commit_failed", "forcing",
          "discarding", "aborting", "ended"}

\* The transaction as the properties know it: ids restart in every session.
Tag(t) == <<session, t>>

TxnInit ==
    /\ next_txn_id = 1
    /\ phase = [t \in Txn |-> "none"]
    /\ dirtied = [t \in Txn |-> {}]
    /\ todo = [t \in Txn |-> {}]

HasActiveTransaction == \E t \in Txn : phase[t] \notin {"none", "ended"}
-----------------------------------------------------------------------------
\* fetch_add, AppendBegin, registration in active_txns_, observers on.
Begin(t) ==
    /\ t = next_txn_id
    /\ next_txn_id' = next_txn_id + 1
    /\ WAL!AppendRecord(t, BeginBody)
    /\ phase' = [phase EXCEPT ![t] = "active"]
    /\ UNCHANGED <<lmvars, dirtied, todo, poolvars, diskvars, histvars>>

\* HeapFile and BPlusTree lock a page before they touch it.
AcquireLock(t, p, m) ==
    /\ phase[t] \in {"active", "commit_failed"}
    /\ LM!AcquireLock(t, p, m)
    /\ UNCHANGED <<logvars, txnvars, poolvars, diskvars, histvars>>

RecheckLock(t) ==
    /\ LM!Recheck(t)
    /\ UNCHANGED <<logvars, txnvars, poolvars, diskvars, histvars>>

\* A page is changed in place in the pool; MarkDirty tells the observer, if
\* there is one: Commit takes it away first, so a transaction that goes on
\* after a Commit that threw has none.
WritePage(t, p) ==
    /\ phase[t] \in {"active", "commit_failed"} /\ status[t] = "running"
    /\ locks[p].exclusive_holder = t
    /\ pool' = [pool EXCEPT ![p] = Tag(t)]
    /\ dirty' = dirty \cup {p}
    /\ dirtied' = [dirtied EXCEPT ![t] = IF phase[t] = "active" THEN @ \cup {p} ELSE @]
    /\ UNCHANGED <<lmvars, logvars, next_txn_id, phase, todo, diskvars, histvars>>

StartLoop(t, ph) ==
    /\ phase' = [phase EXCEPT ![t] = ph]
    /\ todo' = [todo EXCEPT ![t] = dirtied[t]]
    /\ UNCHANGED <<next_txn_id, dirtied>>

\* Faulty variant: the loop is left before its last page.
LoopLeftEarly(t, ph) ==
    /\ phase' = [phase EXCEPT ![t] = ph]
    /\ UNCHANGED <<next_txn_id, dirtied, todo>>

LoopDone(t, ph) ==
    /\ todo[t] = {}
    /\ phase' = [phase EXCEPT ![t] = ph]
    /\ UNCHANGED <<next_txn_id, dirtied, todo>>

LoopStep(t, p) ==
    /\ p \in todo[t]
    /\ todo' = [todo EXCEPT ![t] = @ \ {p}]
    /\ UNCHANGED <<next_txn_id, phase, dirtied>>
-----------------------------------------------------------------------------
\* Commit: observers off, then one Update record per dirtied page, ...
Commit(t) ==
    /\ phase[t] \in {"active", "commit_failed"} /\ status[t] = "running"
    /\ StartLoop(t, "logging")
    /\ UNCHANGED <<lmvars, logvars, poolvars, diskvars, histvars>>

LogUpdate(t, p) ==
    /\ phase[t] = "logging"
    /\ LoopStep(t, p)
    /\ WAL!AppendRecord(t, UpdateBody(p, pool[p]))
    /\ UNCHANGED <<lmvars, poolvars, diskvars, histvars>>

\* ... the Commit record, ...
LogCommit(t) ==
    /\ phase[t] = "logging"
    /\ LoopDone(t, "flushing")
    /\ WAL!AppendRecord(t, CommitBody)
    /\ commits' = Append(commits, [txn |-> Tag(t), pages |-> dirtied[t], pos |-> Len(log) + 1])
    /\ UNCHANGED <<lmvars, poolvars, diskvars, session, acked, rolled_back>>

\* ... FlushThrough of its LSN, ...
FlushStep(t) ==
    /\ phase[t] = "flushing"
    /\ WAL!FlushThrough(t) \/ WAL!CheckDurable(t) \/ WAL!FsyncSucceeds(t)
    /\ UNCHANGED <<lmvars, txnvars, poolvars, diskvars, histvars>>

FsyncFails(t) ==
    /\ phase[t] = "flushing"
    /\ WAL!FsyncFails(t)
    /\ UNCHANGED <<lmvars, txnvars, poolvars, diskvars, histvars>>

\* (the exception leaves Commit; the transaction is still the thread's own)
CommitThrows(t) ==
    /\ phase[t] = "flushing" /\ pc[t] = "failed"
    /\ phase' = [phase EXCEPT ![t] = "commit_failed"]
    /\ WAL!EndTransaction(t)
    /\ UNCHANGED <<lmvars, next_txn_id, dirtied, todo, poolvars, diskvars, histvars>>

\* Faulty variant: the pages are written before the log is.
StartForceEarly(t) ==
    /\ phase[t] = "flushing"
    /\ StartLoop(t, "forcing")
    /\ UNCHANGED <<lmvars, logvars, poolvars, diskvars, histvars>>

\* ... FlushPages of its own pages, ...
StartForce(t) ==
    /\ phase[t] = "flushing" /\ pc[t] = "flushed"
    /\ StartLoop(t, "forcing")
    /\ UNCHANGED <<lmvars, logvars, poolvars, diskvars, histvars>>

\* Faulty variant: the page is taken off dirty_ but not written.
FlushPageLost(p) == dirty' = dirty \ {p} /\ UNCHANGED <<pool, diskvars>>

\* BufferPool::FlushPages and FlushAll: a page that is not dirty is skipped.
FlushPage(p) ==
    /\ dirty' = dirty \ {p}
    /\ IF p \in dirty
       THEN /\ disk' = [disk EXCEPT ![p] = pool[p]]
            /\ survivors' = [survivors EXCEPT ![p] = @ \cup {pool[p]}]
       ELSE UNCHANGED diskvars
    /\ UNCHANGED pool

ForcePage(t, p) ==
    /\ phase[t] = "forcing"
    /\ LoopStep(t, p)
    /\ FlushPage(p)
    /\ UNCHANGED <<lmvars, logvars, histvars>>

\* ... and only then the release of its locks.  The erase from active_txns_
\* that follows only allows the next Checkpoint.
FinishCommit(t) ==
    /\ phase[t] = "forcing"
    /\ LoopDone(t, "ended")
    /\ LM!ReleaseAll(t)
    /\ WAL!EndTransaction(t)
    /\ acked' = acked \cup {Tag(t)}
    /\ UNCHANGED <<poolvars, diskvars, session, commits, rolled_back>>
-----------------------------------------------------------------------------
\* Abort: on ROLLBACK, after TransactionAbortedException, or by the session
\* after Commit threw.  Every dirtied page is read back from its file.
Abort(t) ==
    /\ phase[t] \in {"active", "commit_failed"} /\ status[t] \in {"running", "dying"}
    /\ StartLoop(t, "discarding")
    /\ UNCHANGED <<lmvars, logvars, poolvars, diskvars, histvars>>

\* Faulty variant: the page is taken off dirty_ but not read back.
DiscardPageKeepsImage(t, p) ==
    /\ phase[t] = "discarding"
    /\ LoopStep(t, p)
    /\ dirty' = dirty \ {p}
    /\ UNCHANGED <<lmvars, logvars, pool, diskvars, histvars>>

DiscardPage(t, p) ==
    /\ phase[t] = "discarding"
    /\ LoopStep(t, p)
    /\ pool' = [pool EXCEPT ![p] = disk[p]]
    /\ dirty' = dirty \ {p}
    /\ UNCHANGED <<lmvars, logvars, diskvars, histvars>>

LogAbort(t) ==
    /\ phase[t] = "discarding"
    /\ LoopDone(t, "aborting")
    /\ WAL!AppendRecord(t, AbortBody)
    /\ UNCHANGED <<lmvars, poolvars, diskvars, histvars>>

FinishAbort(t) ==
    /\ phase[t] = "aborting"
    /\ LoopDone(t, "ended")
    /\ LM!ReleaseAll(t)
    /\ WAL!EndTransaction(t)
    /\ rolled_back' = rolled_back \cup {Tag(t)}
    /\ UNCHANGED <<poolvars, diskvars, session, commits, acked>>

\* A step of one transaction.
TxnStep(t) ==
    \/ Begin(t)
    \/ \E p \in PageKey, m \in LM!LockMode : AcquireLock(t, p, m)
    \/ RecheckLock(t)
    \/ \E p \in PageKey : WritePage(t, p)
    \/ Commit(t)
    \/ \E p \in PageKey : LogUpdate(t, p)
    \/ LogCommit(t)
    \/ FlushStep(t)
    \/ StartForce(t)
    \/ \E p \in PageKey : ForcePage(t, p)
    \/ FinishCommit(t)
    \/ Abort(t)
    \/ \E p \in PageKey : DiscardPage(t, p)
    \/ LogAbort(t)
    \/ FinishAbort(t)
=============================================================================
