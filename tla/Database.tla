------------------------------ MODULE Database ------------------------------
(***************************************************************************)
(* A whole flintdb process and its restarts: the transactions of           *)
(* TransactionManager, crashes of the process or of the machine, redo      *)
(* recovery on open (src/src/wal/recovery.cpp, the constructor of          *)
(* src/src/db/database.cpp) and Database::Checkpoint.                      *)
(*                                                                         *)
(* A crash discards everything in memory.  The log's own view of it is     *)
(* LogManager's; the data files lose nothing when the process dies, and    *)
(* since nothing ever calls fsync on them, a power loss may leave any      *)
(* image they ever held.                                                   *)
(***************************************************************************)
EXTENDS TransactionManager

CONSTANTS MaxSessions,     \* bound: how often the database is opened
          WorkSessions,    \* bound: transactions run in the first WorkSessions of them
          ProcessDies,     \* whether the process may be killed
          PowerFails,      \* whether the machine may stop
          FailLsn,         \* bound: fsync may fail up to this LSN (0: it never fails)
          CheckpointWhen   \* when the host program calls Database::Checkpoint

\* never; first: on every open, before the first Begin; any: at any time, from
\* a thread of its own.
ASSUME DatabaseAssumption ==
    /\ IsFiniteSet(Txn) /\ Txn = 1..Cardinality(Txn) /\ NoTxn \notin Txn
    /\ {MaxSessions, WorkSessions, FailLsn, MaxLsn} \subseteq Nat /\ MaxSessions > 0
    /\ {ProcessDies, PowerFails} \subseteq BOOLEAN
    /\ CheckpointWhen \in {"never", "first", "any"}
    /\ Blank \notin (1..MaxSessions) \X Txn

VARIABLES
    mode,       \* recovering or open
    redo,       \* RunRecovery's position in records_on_open_
    ckpt,       \* whether a thread is inside Database::Checkpoint
    ckpt_todo   \* the pages its FlushAll calls have not visited yet

dbvars == <<mode, redo, ckpt, ckpt_todo>>
vars   == <<lmvars, logvars, txnvars, poolvars, diskvars, histvars, dbvars>>

Init ==
    /\ LM!Init
    /\ WAL!Init
    /\ TxnInit
    /\ pool = [p \in PageKey |-> Blank]
    /\ dirty = {}
    /\ disk = [p \in PageKey |-> Blank]
    /\ survivors = [p \in PageKey |-> {Blank}]
    /\ session = 1 /\ commits = <<>> /\ acked = {} /\ rolled_back = {}
    /\ mode = "open" /\ redo = 1
    /\ ckpt = FALSE /\ ckpt_todo = {}
-----------------------------------------------------------------------------
\* What the host program does between opening the database and its first
\* transaction.
MayBegin ==
    /\ session <= WorkSessions
    /\ CheckpointWhen = "first" => log = <<>> \/ next_txn_id > 1

Transact(t) ==
    /\ mode = "open"
    /\ phase[t] = "none" => MayBegin
    /\ \/ TxnStep(t)
       \/ next_lsn <= FailLsn /\ FsyncFails(t)
       \/ CommitThrows(t)
    /\ UNCHANGED dbvars
-----------------------------------------------------------------------------
\* Database::Checkpoint looks for active transactions once; nothing keeps one
\* from beginning afterwards.
StartCheckpoint ==
    /\ mode = "open" /\ ~ckpt
    /\ CheckpointWhen # "never" /\ log # <<>>
    /\ CheckpointWhen = "first" => next_txn_id = 1
    /\ ~HasActiveTransaction
    /\ ckpt' = TRUE /\ ckpt_todo' = PageKey
    /\ UNCHANGED <<lmvars, logvars, txnvars, poolvars, diskvars, histvars, mode, redo>>

CheckpointFlush(p) ==
    /\ ckpt /\ p \in ckpt_todo
    /\ ckpt_todo' = ckpt_todo \ {p}
    /\ FlushPage(p)
    /\ UNCHANGED <<lmvars, logvars, txnvars, histvars, mode, redo, ckpt>>

TruncateWal ==
    /\ ckpt /\ ckpt_todo = {}
    /\ WAL!Checkpoint
    /\ ckpt' = FALSE
    /\ commits' = [i \in DOMAIN commits |-> [commits[i] EXCEPT !.pos = 0]]
    /\ UNCHANGED <<lmvars, txnvars, poolvars, diskvars, session, acked, rolled_back,
                   mode, redo, ckpt_todo>>
-----------------------------------------------------------------------------
\* How many commits have their record, if it is still needed, among the first
\* n of the log; they are the first ones, since pos never decreases.
CommitsUpTo(n) ==
    CHOOSE k \in 0..Len(commits) : \A i \in 1..Len(commits) : commits[i].pos <= n <=> i <= k

\* The memory of the process is gone; the next process starts to open the
\* database.  The commits whose records are among the first n stay.
Restart(n) ==
    /\ session < MaxSessions
    /\ session' = session + 1
    /\ commits' = SubSeq(commits, 1, CommitsUpTo(n))
    /\ locks' = [p \in PageKey |-> LM!Absent]
    /\ held_by_txn' = [t \in Txn |-> {}]
    /\ status' = [t \in Txn |-> "running"]
    /\ request' = [t \in Txn |-> LM!NoRequest]
    /\ next_txn_id' = 1
    /\ phase' = [t \in Txn |-> "none"]
    /\ dirtied' = [t \in Txn |-> {}]
    /\ todo' = [t \in Txn |-> {}]
    /\ pool' = [p \in PageKey |-> Blank]
    /\ dirty' = {}
    /\ mode' = "recovering" /\ redo' = 1
    /\ ckpt' = FALSE /\ ckpt_todo' = {}
    /\ UNCHANGED <<acked, rolled_back>>

ProcessCrash ==
    /\ ProcessDies
    /\ WAL!ProcessCrash
    /\ Restart(Len(log))
    /\ UNCHANGED diskvars

PowerLoss ==
    /\ PowerFails
    /\ WAL!PowerLoss
    /\ Restart(Len(log'))
    /\ \E d \in [PageKey -> UNION {survivors[p] : p \in PageKey}] :
          /\ \A p \in PageKey : d[p] \in survivors[p]
          /\ disk' = d
          /\ survivors' = [p \in PageKey |-> {d[p]}]

\* Pass 1 of RunRecovery: the TxnIds with a Commit record anywhere in the log.
CommittedIds(s) == {s[i].txn : i \in {j \in 1..Len(s) : s[j].body.type = "commit"}}

\* Faulty variant: pass 2 does not ask whether the transaction committed.
IsReplayedAnyway(s, i) == s[i].body.type = "update"

IsReplayed(s, i) == s[i].body.type = "update" /\ s[i].txn \in CommittedIds(s)

\* Pass 2, one record at a time: a crash may come between any two.
ReplayRecord ==
    /\ mode = "recovering" /\ redo <= Len(log)
    /\ redo' = redo + 1
    /\ IF IsReplayed(log, redo)
       THEN LET b == log[redo].body IN
            /\ disk' = [disk EXCEPT ![b.page] = b.image]
            /\ survivors' = [survivors EXCEPT ![b.page] = @ \cup {b.image}]
       ELSE UNCHANGED diskvars
    /\ UNCHANGED <<lmvars, logvars, txnvars, poolvars, histvars, mode, ckpt, ckpt_todo>>

\* Faulty variant: the buffer pools are created over files still to be redone.
FinishOpenEarly ==
    /\ mode = "recovering"
    /\ mode' = "open"
    /\ pool' = disk
    /\ UNCHANGED <<lmvars, logvars, txnvars, dirty, diskvars, histvars, redo, ckpt, ckpt_todo>>

\* Only then are the buffer pools created; they read what recovery wrote.
FinishOpen ==
    /\ mode = "recovering" /\ redo > Len(log)
    /\ mode' = "open"
    /\ pool' = disk
    /\ UNCHANGED <<lmvars, logvars, txnvars, dirty, diskvars, histvars, redo, ckpt, ckpt_todo>>

\* All transactions of the last session are over.
Idle ==
    /\ mode = "open" /\ session = MaxSessions /\ ~HasActiveTransaction /\ ~ckpt
    /\ UNCHANGED vars

Next ==
    \/ \E t \in Txn : Transact(t)
    \/ StartCheckpoint
    \/ \E p \in PageKey : CheckpointFlush(p)
    \/ TruncateWal
    \/ ProcessCrash
    \/ PowerLoss
    \/ ReplayRecord
    \/ FinishOpen
    \/ Idle

Spec == Init /\ [][Next]_vars
-----------------------------------------------------------------------------
\* The data files as a complete recovery over the records s would leave them.
Recovered(s, d) ==
    [p \in PageKey |->
        LET redone == {i \in 1..Len(s) : IsReplayed(s, i) /\ s[i].body.page = p}
        IN  IF redone = {} THEN d[p]
            ELSE s[CHOOSE i \in redone : \A j \in redone : j <= i].body.image]

AS == INSTANCE AtomicStore WITH
        Transaction <- (1..MaxSessions) \X Txn,
        commits <- [i \in DOMAIN commits |-> [txn |-> commits[i].txn, pages |-> commits[i].pages]],
        store <- Recovered(log, disk)

\* Commit, Abort, recovery and Checkpoint implement the atomic, durable store
\* of SPEC.md section 2: what recovery would make of the log and the data
\* files changes in the step that appends a Commit record, all pages at once,
\* and otherwise only in a crash, which keeps every acknowledged commit.
ImplementsAtomicStore == AS!Spec

Image == {Blank} \cup ((1..MaxSessions) \X Txn)

\* The values of the variables that are not the lock table's or the log's.
TypeOK ==
    /\ LM!TypeOK
    /\ next_txn_id \in 1..Cardinality(Txn) + 1
    /\ phase \in [Txn -> Phase]
    /\ dirtied \in [Txn -> SUBSET PageKey] /\ todo \in [Txn -> SUBSET PageKey]
    /\ \A t \in Txn : /\ todo[t] \subseteq dirtied[t]
                      /\ todo[t] # {} => phase[t] \in {"logging", "forcing", "discarding"}
    /\ pool \in [PageKey -> Image] /\ disk \in [PageKey -> Image] /\ dirty \subseteq PageKey
    /\ survivors \in [PageKey -> SUBSET Image] /\ \A p \in PageKey : disk[p] \in survivors[p]
    /\ mode \in {"open", "recovering"} /\ redo \in Nat \ {0}
    /\ ckpt \in BOOLEAN /\ ckpt_todo \subseteq PageKey

\* Isolation: a transaction that holds a lock on a page sees there its own
\* write or the last committed one, never an image another transaction may
\* still roll back nor one a rollback or a recovery left stale.
ReadsCommitted ==
    mode = "open" =>
        \A t \in Txn : phase[t] = "active" =>
            \A p \in held_by_txn[t] :
                pool[p] = IF p \in dirtied[t] THEN Tag(t) ELSE AS!Contents(commits)[p]

\* No-steal and write-ahead: an image that may be in a data file belongs to a
\* transaction whose Commit record is on stable storage (or was, when a
\* checkpoint truncated the log).
WriteAhead ==
    \A p \in PageKey : \A i \in survivors[p] \ {Blank} :
        \E k \in DOMAIN commits : commits[k].txn = i /\ commits[k].pos <= stable

\* Force: when no transaction is active, the pool has nothing the data files
\* lack, so DiscardPage may read a page back from its file and Checkpoint may
\* truncate the log.
ForcedWhenIdle ==
    (mode = "open" /\ ~HasActiveTransaction) => (dirty = {} /\ pool = disk)

\* docs/SPEC.md:63: effects are durable if and only if the Commit record is,
\* and never partially applied.  What a recovery from the log and the data
\* files leaves is the committed transactions' content, no more and no less.
RecoversCommitted == Recovered(log, disk) = AS!Contents(commits)

\* recovery.h:43-47: a transaction that Abort rolled back has nothing in the
\* log for recovery to replay, so no page of it can come back.
RolledBackStaysOut == \A p \in PageKey : Recovered(log, disk)[p] \notin rolled_back

\* database.h:174-176: an active transaction's dirty pages never reach the
\* data file before it commits, which is why Checkpoint refuses to run.
NoSteal ==
    \A p \in PageKey : disk[p] \in {Blank} \cup AS!TxnsOf(commits)
=============================================================================
