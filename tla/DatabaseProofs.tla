--------------------------- MODULE DatabaseProofs ---------------------------
(***************************************************************************)
(* Proofs about transactions over the lock table, the log and the buffer   *)
(* pool, with crashes and recovery, for every set of transactions and      *)
(* pages and any number of sessions.                                       *)
(***************************************************************************)
EXTENDS Database, SequenceLemmas, FiniteSetTheorems

Tags == (1..MaxSessions) \X Txn

\* The bodies of the records a session writes.
LogBody ==
    {BeginBody, CommitBody, AbortBody} \cup {UpdateBody(p, i) : p \in PageKey, i \in Image}

CommitEntry == [txn : Tags, pages : SUBSET PageKey, pos : Nat]

LP == INSTANCE LockManagerProofs
WP == INSTANCE LogManagerProofs WITH Thread <- Txn, Body <- LogBody, WriteMayFail <- FALSE,
                                     UseCheckpoint <- FALSE
-----------------------------------------------------------------------------
\* The history: commits are in log order and none is behind the end of the log.
HistoryOK ==
    /\ session \in 1..MaxSessions
    /\ commits \in Seq(CommitEntry)
    /\ acked \subseteq Tags /\ rolled_back \subseteq Tags
    /\ \A i, j \in 1..Len(commits) : i < j => /\ commits[i].pos <= commits[j].pos
                                              /\ commits[j].pos # 0 => commits[i].pos < commits[j].pos
    /\ \A i \in 1..Len(commits) : commits[i].pos <= Len(log)

\* Nothing in the log is torn.
Intact == \A i \in 1..Len(log) : ~log[i].torn

\* Transactions begin in the order of their ids; a session that has begun none
\* has changed nothing in memory; recovery runs before the first one begins.
SessionOK ==
    /\ \A t \in Txn : /\ phase[t] = "none" <=> t >= next_txn_id
                      /\ phase[t] = "none" => dirtied[t] = {}
    /\ next_txn_id = 1 => dirty = {}
    /\ mode = "recovering" => next_txn_id = 1 /\ ~ckpt

\* Strict 2PL as the pages see it: until a transaction ends, it alone may
\* touch the pages it has changed.
WritersHoldLocks ==
    \A t \in Txn : \A p \in dirtied[t] : phase[t] # "ended" => locks[p].exclusive_holder = t

\* The pool holds what a transaction wrote until it commits or discards it.
PoolKeepsWrites ==
    \A t \in Txn : \A p \in dirtied[t] :
        phase[t] \notin {"discarding", "aborting", "ended"} => pool[p] = Tag(t)

\* Locks are released in the step that ends the transaction.
ReleasedWhenEnded == \A t \in Txn : status[t] = "done" => phase[t] = "ended"

BaseInv ==
    /\ TypeOK /\ LP!IInv /\ WP!OrderInv
    /\ HistoryOK /\ Intact /\ SessionOK /\ ReleasedWhenEnded /\ WritersHoldLocks /\ PoolKeepsWrites
-----------------------------------------------------------------------------
\* What the assumptions on the constants amount to.
LEMMA Constants ==
    /\ Cardinality(Txn) \in Nat /\ Txn = 1..Cardinality(Txn)
    /\ Txn \subseteq Nat /\ NoTxn \notin Txn
    /\ MaxSessions \in Nat /\ MaxSessions # 0 /\ WorkSessions \in Nat
    /\ FailLsn \in Nat /\ MaxLsn \in Nat
<1>1. Cardinality(Txn) \in Nat
  BY DatabaseAssumption, FS_CardinalityType DEF DatabaseAssumption
<1>. QED  BY <1>1, DatabaseAssumption DEF DatabaseAssumption

\* The two instances of LockManager are one.
LEMMA SameLocks ==
    /\ LM!Next <=> LP!Next
    /\ LM!Init <=> LP!Init
    /\ LM!TypeOK <=> LP!TypeOK
  BY DEF LM!Next, LP!Next, LM!Init, LP!Init, LM!TypeOK, LP!TypeOK, LM!AcquireLock, LP!AcquireLock,
     LM!Recheck, LP!Recheck, LM!SpuriousWakeup, LP!SpuriousWakeup, LM!ReleaseAll, LP!ReleaseAll,
     LM!Quiescent, LP!Quiescent, LM!LoopBody, LP!LoopBody, LM!GrantHeld, LP!GrantHeld,
     LM!Grant, LP!Grant, LM!Wait, LP!Wait, LM!Die, LP!Die, LM!Blocked, LP!Blocked,
     LM!Return, LP!Return, LM!Granted, LP!Granted, LM!Without, LP!Without,
     LM!AlreadyHolds, LP!AlreadyHolds, LM!ConflictsWithOthers, LP!ConflictsWithOthers,
     LM!MayWait, LP!MayWait, LM!OtherHolders, LP!OtherHolders, LM!Holders, LP!Holders,
     LM!HasAnyLock, LP!HasAnyLock, LM!NotifyAll, LP!NotifyAll, LM!Absent, LP!Absent,
     LM!NoRequest, LP!NoRequest, LM!Request, LP!Request, LM!LockEntry, LP!LockEntry,
     LM!LockMode, LP!LockMode, LM!Status, LP!Status, LM!kShared, LP!kShared,
     LM!kExclusive, LP!kExclusive, LM!lmvars, LP!lmvars

\* The two instances of LogManager are one.
LEMMA SameLog ==
    /\ WAL!Init <=> WP!Init
    /\ \A t, b : WAL!AppendRecord(t, b) <=> WP!AppendRecord(t, b)
    /\ \A t : /\ WAL!FlushThrough(t) <=> WP!FlushThrough(t)
              /\ WAL!CheckDurable(t) <=> WP!CheckDurable(t)
              /\ WAL!FsyncSucceeds(t) <=> WP!FsyncSucceeds(t)
              /\ WAL!FsyncFails(t) <=> WP!FsyncFails(t)
              /\ WAL!EndTransaction(t) <=> WP!EndTransaction(t)
    /\ WAL!Checkpoint <=> WP!Checkpoint
    /\ WAL!ProcessCrash <=> WP!ProcessCrash
    /\ WAL!PowerLoss <=> WP!PowerLoss
  BY DEF WAL!Init, WP!Init, WAL!AppendRecord, WP!AppendRecord, WAL!FlushThrough, WP!FlushThrough,
     WAL!CheckDurable, WP!CheckDurable, WAL!AlreadyDurable, WP!AlreadyDurable,
     WAL!WaitForFlusher, WP!WaitForFlusher, WAL!BecomeFlusher, WP!BecomeFlusher,
     WAL!FsyncSucceeds, WP!FsyncSucceeds, WAL!FsyncFails, WP!FsyncFails,
     WAL!FlushRoundEnds, WP!FlushRoundEnds, WAL!NotifyAllBut, WP!NotifyAllBut,
     WAL!EndTransaction, WP!EndTransaction, WAL!Checkpoint, WP!Checkpoint,
     WAL!ProcessCrash, WP!ProcessCrash, WAL!PowerLoss, WP!PowerLoss, WAL!Reopen, WP!Reopen,
     WAL!GoodLength, WP!GoodLength, WAL!NextLsnOnOpen, WP!NextLsnOnOpen, WAL!Larger, WP!Larger
-----------------------------------------------------------------------------
\* A step of the system is a step of the lock table, or a restart empties it.
LEMMA LockSteps ==
    [Next]_vars => [LM!Next]_lmvars \/ (LM!Init' /\ (ProcessCrash \/ PowerLoss))
<1> SUFFICES ASSUME [Next]_vars PROVE [LM!Next]_lmvars \/ (LM!Init' /\ (ProcessCrash \/ PowerLoss))
  OBVIOUS
<1>1. ASSUME NEW t \in Txn, Transact(t)
      PROVE  [LM!Next]_lmvars
  <2>1. CASE \E p \in PageKey, m \in LM!LockMode : AcquireLock(t, p, m)
    BY <2>1 DEF AcquireLock, LM!Next
  <2>2. CASE RecheckLock(t)
    BY <2>2 DEF RecheckLock, LM!Next
  <2>3. CASE FinishCommit(t) \/ FinishAbort(t)
    BY <2>3 DEF FinishCommit, FinishAbort, LM!Next
  <2>4. CASE UNCHANGED lmvars
    BY <2>4
  <2>. QED
    BY <1>1, <2>1, <2>2, <2>3, <2>4
       DEF Transact, TxnStep, Begin, WritePage, Commit, LogUpdate, LogCommit, FlushStep, StartForce,
           ForcePage, Abort, DiscardPage, LogAbort, FsyncFails, CommitThrows
<1>2. CASE ProcessCrash \/ PowerLoss
  <2>1. LM!Init'
    BY <1>2 DEF ProcessCrash, PowerLoss, Restart, LM!Init
  <2>. QED  BY <1>2, <2>1
<1>3. CASE UNCHANGED lmvars
  BY <1>3
<1>. QED
  BY <1>1, <1>2, <1>3
     DEF Next, StartCheckpoint, CheckpointFlush, TruncateWal, ReplayRecord, FinishOpen, Idle, vars

\* An empty lock table satisfies the lock table's invariant.
LEMMA LocksInitially == LM!Init => LP!IInv
  BY Constants, SameLocks, LP!InvInitially

\* The invariant of the lock table holds in the composed system.
LEMMA LocksInductive == LP!IInv /\ [Next]_vars => LP!IInv'
<1>1. LM!Init' => LP!IInv'
  BY LocksInitially, PTL
<1> SUFFICES ASSUME LP!IInv, [Next]_vars PROVE LP!IInv'
  OBVIOUS
<1>2. CASE [LM!Next]_lmvars
  BY <1>2, Constants, SameLocks, LP!InvInductive DEF lmvars, LP!lmvars
<1>. QED  BY <1>1, <1>2, LockSteps
-----------------------------------------------------------------------------
\* The log of the composed system is typed, and an Update record has a page
\* and an image.
LEMMA LogTyped ==
    ASSUME WP!OrderInv
    PROVE  /\ log \in Seq(WP!LogRecord) /\ Len(log) \in Nat
           /\ stable \in Nat /\ stable <= Len(log)
           /\ next_lsn \in Nat \ {0}
           /\ \A i \in 1..Len(log) :
                 /\ log[i] \in WP!LogRecord /\ log[i].txn \in Txn /\ log[i].body \in LogBody
                 /\ log[i].body.type = "update" => /\ log[i].body.page \in PageKey
                                                   /\ log[i].body.image \in Image
<1>1. /\ log \in Seq(WP!LogRecord) /\ Len(log) \in Nat
      /\ stable \in Nat /\ stable <= Len(log) /\ next_lsn \in Nat \ {0}
  BY DEF WP!OrderInv, WP!TypeOK
<1>2. \A i \in 1..Len(log) : log[i] \in WP!LogRecord
  BY <1>1, ElementOfSeq
<1>3. \A r \in WP!LogRecord : r.txn \in Txn /\ r.body \in LogBody
  BY DEF WP!LogRecord
<1>4. \A b \in LogBody : b.type = "update" => b.page \in PageKey /\ b.image \in Image
  BY DEF LogBody, BeginBody, CommitBody, AbortBody, UpdateBody
<1>. QED  BY <1>1, <1>2, <1>3, <1>4

\* The records a crash leaves: all of them when the process dies, at least
\* the stable ones when the machine stops.
LEMMA LogAfterCrash ==
    ASSUME WP!OrderInv, Intact, WAL!ProcessCrash \/ WAL!PowerLoss
    PROVE  \E n \in stable..Len(log) :
              /\ n \in 0..Len(log)
              /\ log' = SubSeq(log, 1, n) /\ Len(log') = n
              /\ \A i \in 1..n : log'[i] = log[i]
              /\ WAL!ProcessCrash => n = Len(log) /\ log' = log /\ stable' = stable
              /\ WAL!PowerLoss => stable' = n
<1>0. log \in Seq(WP!LogRecord) /\ Len(log) \in Nat /\ stable \in Nat /\ stable <= Len(log)
  BY LogTyped
<1>1. ASSUME NEW n \in 0..Len(log)
      PROVE  LET s == SubSeq(log, 1, n) IN
             /\ WAL!GoodLength(s) = n /\ SubSeq(s, 1, n) = s /\ Len(s) = n
             /\ \A i \in 1..n : s[i] = log[i]
  <2> DEFINE s == SubSeq(log, 1, n)
  <2>1. s \in Seq(WP!LogRecord) /\ Len(s) = n /\ \A i \in 1..n : s[i] = log[i]
    BY <1>0, PrefixOfSeq
  <2> HIDE DEF s
  <2>2. \A i \in 1..Len(s) : ~s[i].torn
    BY <1>0, <2>1 DEF Intact
  <2>3. WP!GoodLength(s) = Len(s)
    BY <2>1, <2>2, Constants, WP!GoodLengthOfIntact
  <2>4. SubSeq(s, 1, n) = s
    BY <2>1, SubSeqFull
  <2>5. WAL!GoodLength(s) = WP!GoodLength(s)
    BY DEF WAL!GoodLength, WP!GoodLength
  <2>. QED  BY <2>1, <2>3, <2>4, <2>5 DEF s
<1>2. WAL!ProcessCrash => log' = log /\ stable' = stable
  <2>1. SubSeq(log, 1, Len(log)) = log
    BY <1>0, SubSeqFull
  <2>2. Len(log) \in 0..Len(log)
    BY <1>0
  <2>3. WAL!GoodLength(SubSeq(log, 1, Len(log))) = Len(log)
    BY <1>1, <2>2
  <2>. QED  BY <1>0, <2>1, <2>3 DEF WAL!ProcessCrash, WAL!Reopen
<1>3. CASE ~WAL!PowerLoss
  <2>1. SubSeq(log, 1, Len(log)) = log
    BY <1>0, SubSeqFull
  <2> DEFINE n == Len(log)
  <2>2. /\ n \in stable..Len(log) /\ n \in 0..Len(log)
        /\ log' = SubSeq(log, 1, n) /\ Len(log') = n /\ \A i \in 1..n : log'[i] = log[i]
        /\ n = Len(log) /\ log' = log /\ stable' = stable
    BY <1>0, <1>2, <1>3, <2>1
  <2> HIDE DEF n
  <2>. QED  BY <1>3, <2>2
<1>4. CASE WAL!PowerLoss
  <2>1. PICK n \in stable..Len(log) : /\ WAL!Reopen(SubSeq(log, 1, n))
                                      /\ stable' = WAL!GoodLength(SubSeq(log, 1, n))
    BY <1>4 DEF WAL!PowerLoss
  <2>2. n \in 0..Len(log)
    BY <1>0
  <2>3. log' = SubSeq(log, 1, n) /\ stable' = n
    BY <1>1, <2>1, <2>2 DEF WAL!Reopen
  <2>4. Len(log') = n /\ \A i \in 1..n : log'[i] = log[i]
    BY <1>1, <2>2, <2>3
  <2>. QED  BY <1>2, <2>2, <2>3, <2>4
<1>. QED  BY <1>3, <1>4

\* A step of the system is a step of the log, or the checkpoint truncates it.
LEMMA LogSteps ==
    ASSUME TypeOK, [Next]_vars
    PROVE  [WP!Next]_logvars \/ TruncateWal
<1> USE SameLog
<1>1. ASSUME NEW t \in Txn, Transact(t)
      PROVE  [WP!Next]_logvars
  <2>1. {BeginBody, CommitBody, AbortBody} \subseteq LogBody
    BY DEF LogBody
  <2>2. \A p \in PageKey : UpdateBody(p, pool[p]) \in LogBody
    BY DEF LogBody, TypeOK
  <2>3. CASE Begin(t)
    BY <2>1, <2>3 DEF Begin, WP!Next
  <2>4. CASE \E p \in PageKey : LogUpdate(t, p)
    BY <2>2, <2>4 DEF LogUpdate, WP!Next
  <2>5. CASE LogCommit(t)
    BY <2>1, <2>5 DEF LogCommit, WP!Next
  <2>6. CASE LogAbort(t)
    BY <2>1, <2>6 DEF LogAbort, WP!Next
  <2>7. CASE FlushStep(t)
    BY <2>7 DEF FlushStep, WP!Next
  <2>8. CASE FsyncFails(t)
    BY <2>8 DEF FsyncFails, WP!Next
  <2>9. CASE CommitThrows(t) \/ FinishCommit(t) \/ FinishAbort(t)
    BY <2>9 DEF CommitThrows, FinishCommit, FinishAbort, WP!Next
  <2>10. CASE UNCHANGED logvars
    BY <2>10
  <2>. QED
    BY <1>1, <2>3, <2>4, <2>5, <2>6, <2>7, <2>8, <2>9, <2>10
       DEF Transact, TxnStep, AcquireLock, RecheckLock, WritePage, Commit, StartForce, ForcePage,
           Abort, DiscardPage
<1>2. CASE ProcessCrash \/ PowerLoss
  BY <1>2 DEF ProcessCrash, PowerLoss, WP!Next
<1>3. CASE UNCHANGED logvars
  BY <1>3
<1>. QED
  BY <1>1, <1>2, <1>3
     DEF Next, StartCheckpoint, CheckpointFlush, ReplayRecord, FinishOpen, Idle, vars

\* The log's own invariant holds in the composed system, checkpoints included.
LEMMA OrderPreserved ==
    ASSUME TypeOK, WP!OrderInv, [Next]_vars
    PROVE  WP!OrderInv'
<1>1. CASE [WP!Next]_logvars
  BY <1>1, Constants, WP!OrderInductive DEF logvars, WP!logvars
<1>2. CASE TruncateWal
  <2>1. /\ log' = <<>> /\ stable' = 0 /\ next_lsn' = 1 /\ covers' = [t \in Txn |-> 0]
        /\ UNCHANGED <<durable_lsn, flush_in_progress, pc, target, to_cover>>
    BY <1>2 DEF TruncateWal, WAL!Checkpoint
  <2>2. log' \in Seq(WP!LogRecord) /\ Len(log') = 0
    BY <2>1, EmptySeq
  <2>. QED  BY <2>1, <2>2 DEF WP!OrderInv, WP!TypeOK, WP!LsnOrder, WP!CoversInFile
<1>. QED  BY <1>1, <1>2, LogSteps

\* The log after a record was appended.
LEMMA LogAppended ==
    ASSUME WP!OrderInv, NEW t, NEW b, WAL!AppendRecord(t, b)
    PROVE  /\ Len(log') = Len(log) + 1
           /\ \A i \in 1..Len(log) : log'[i] = log[i]
           /\ log'[Len(log) + 1] = [lsn |-> next_lsn, txn |-> t, body |-> b, torn |-> FALSE]
           /\ Intact => Intact'
<1>1. log \in Seq(WP!LogRecord) /\ Len(log) \in Nat
  BY LogTyped
<1> DEFINE r == [lsn |-> next_lsn, txn |-> t, body |-> b, torn |-> FALSE]
<1>2. log' = Append(log, r)
  BY DEF WAL!AppendRecord
<1>3. log \in Seq(WP!LogRecord \cup {r})
  <2>1. \A i \in 1..Len(log) : log[i] \in WP!LogRecord \cup {r}
    BY <1>1, ElementOfSeq
  <2>. QED  BY <1>1, <2>1, SeqMonotonic
<1>4. /\ Len(log') = Len(log) + 1 /\ log'[Len(log) + 1] = r
      /\ \A i \in 1..Len(log) : log'[i] = log[i]
  BY <1>1, <1>2, <1>3, AppendProperties
<1>. QED  BY <1>1, <1>4 DEF Intact

\* What passing through the lock manager does to the status of transactions.
LEMMA StatusSteps ==
    ASSUME LP!IInv, NEW t \in Txn
    PROVE  /\ \A p \in PageKey, m \in LM!LockMode : LM!AcquireLock(t, p, m) =>
                 \A u \in Txn : status'[u] = "done" => status[u] = "done"
           /\ LM!Recheck(t) => \A u \in Txn : status'[u] = "done" => status[u] = "done"
           /\ LM!ReleaseAll(t) => \A u \in Txn : status'[u] = "done" => u = t \/ status[u] = "done"
<1>1. status \in [Txn -> LP!Status]
  BY DEF LP!IInv, LP!TypeOK
<1>2. \A p, m : LM!LoopBody(t, p, m) /\ status[t] # "done" =>
         \A u \in Txn : status'[u] = "done" => status[u] = "done"
  BY <1>1 DEF LM!LoopBody, LM!GrantHeld, LM!Grant, LM!Wait, LM!Die, LM!Return
<1>3. LM!ReleaseAll(t) => \A u \in Txn : status'[u] = "done" => u = t \/ status[u] = "done"
  BY <1>1 DEF LM!ReleaseAll, LM!NotifyAll
<1>. QED  BY <1>2, <1>3 DEF LM!AcquireLock, LM!Recheck
-----------------------------------------------------------------------------
\* The entries of commits.
LEMMA CommitsTyped ==
    ASSUME HistoryOK
    PROVE  /\ commits \in Seq(CommitEntry) /\ Len(commits) \in Nat
           /\ DOMAIN commits = 1..Len(commits)
           /\ \A k \in 1..Len(commits) :
                 /\ commits[k] \in CommitEntry /\ commits[k].txn \in Tags
                 /\ commits[k].pages \in SUBSET PageKey /\ commits[k].pos \in Nat
<1>1. commits \in Seq(CommitEntry)
  BY DEF HistoryOK
<1>2. \A k \in 1..Len(commits) : commits[k] \in CommitEntry
  BY <1>1, ElementOfSeq
<1>3. \A e \in CommitEntry : e.txn \in Tags /\ e.pages \in SUBSET PageKey /\ e.pos \in Nat
  BY DEF CommitEntry
<1>. QED  BY <1>1, <1>2, <1>3

\* A restart keeps a prefix of the commits, those at or before record n.
LEMMA CommitsKept ==
    ASSUME HistoryOK, NEW n \in Nat
    PROVE  /\ CommitsUpTo(n) \in 0..Len(commits)
           /\ \A i \in 1..Len(commits) : commits[i].pos <= n <=> i <= CommitsUpTo(n)
           /\ SubSeq(commits, 1, CommitsUpTo(n)) \in Seq(CommitEntry)
           /\ Len(SubSeq(commits, 1, CommitsUpTo(n))) = CommitsUpTo(n)
           /\ \A i \in 1..CommitsUpTo(n) : SubSeq(commits, 1, CommitsUpTo(n))[i] = commits[i]
<1> DEFINE P(k) == \A i \in 1..Len(commits) : commits[i].pos <= n <=> i <= k
           Kept == {i \in 0..Len(commits) : i = 0 \/ commits[i].pos <= n}
<1>0. /\ commits \in Seq(CommitEntry) /\ Len(commits) \in Nat
      /\ \A k \in 1..Len(commits) : commits[k].pos \in Nat
  BY CommitsTyped
<1>1. PICK k \in Kept : \A i \in Kept : i <= k
  <2>1. Kept \in SUBSET (0..Len(commits)) /\ 0 \in Kept
    BY <1>0
  <2> HIDE DEF Kept
  <2>. QED  BY <1>0, <2>1, GreatestNatural
<1>2. k \in 0..Len(commits) /\ P(k)
  <2>1. ASSUME NEW i \in 1..Len(commits), commits[i].pos <= n
        PROVE  i <= k
    <3>1. i \in Kept
      BY <1>0, <2>1
    <3>. QED  BY <1>1, <3>1
  <2>2. ASSUME NEW i \in 1..Len(commits), i <= k
        PROVE  commits[i].pos <= n
    <3>1. k \in 1..Len(commits) /\ commits[k].pos <= n
      BY <1>0, <1>1, <2>2
    <3>2. commits[i].pos <= commits[k].pos
      BY <1>0, <2>2, <3>1 DEF HistoryOK
    <3>. QED  BY <1>0, <3>1, <3>2
  <2>3. k \in 0..Len(commits)
    BY <1>1
  <2>. QED  BY <2>1, <2>2, <2>3
<1> HIDE DEF P
<1>3. CommitsUpTo(n) \in 0..Len(commits) /\ P(CommitsUpTo(n))
  <2>1. CommitsUpTo(n) = CHOOSE j \in 0..Len(commits) : P(j)
    BY DEF CommitsUpTo, P
  <2>. QED  BY <1>2, <2>1
<1>4. /\ SubSeq(commits, 1, CommitsUpTo(n)) \in Seq(CommitEntry)
      /\ Len(SubSeq(commits, 1, CommitsUpTo(n))) = CommitsUpTo(n)
      /\ \A i \in 1..CommitsUpTo(n) : SubSeq(commits, 1, CommitsUpTo(n))[i] = commits[i]
  BY <1>0, <1>3, PrefixOfSeq
<1>. QED  BY <1>3, <1>4 DEF P

\* The history after a Commit record was logged.
LEMMA CommitAppended ==
    ASSUME HistoryOK, TypeOK, WP!OrderInv, NEW t \in Txn, LogCommit(t)
    PROVE  /\ commits' \in Seq(CommitEntry)
           /\ Len(commits') = Len(commits) + 1
           /\ \A k \in 1..Len(commits) : commits'[k] = commits[k]
           /\ commits'[Len(commits) + 1] = [txn |-> Tag(t), pages |-> dirtied[t], pos |-> Len(log) + 1]
<1> DEFINE e == [txn |-> Tag(t), pages |-> dirtied[t], pos |-> Len(log) + 1]
<1>1. Len(log) \in Nat
  BY LogTyped
<1>2. e \in CommitEntry
  BY <1>1 DEF CommitEntry, Tags, Tag, HistoryOK, TypeOK
<1>3. commits' = Append(commits, e) /\ commits \in Seq(CommitEntry)
  BY DEF LogCommit, HistoryOK
<1>. QED  BY <1>2, <1>3, AppendProperties

\* A checkpoint leaves the history as it is, without a record in the log.
LEMMA CommitsTruncated ==
    ASSUME HistoryOK, TruncateWal
    PROVE  /\ commits' \in Seq(CommitEntry)
           /\ Len(commits') = Len(commits)
           /\ \A k \in 1..Len(commits) : /\ commits'[k].txn = commits[k].txn
                                         /\ commits'[k].pages = commits[k].pages
                                         /\ commits'[k].pos = 0
<1>1. /\ Len(commits) \in Nat /\ DOMAIN commits = 1..Len(commits)
      /\ \A k \in 1..Len(commits) : commits[k] \in CommitEntry
  BY CommitsTyped
<1>2. commits' = [k \in 1..Len(commits) |-> [commits[k] EXCEPT !.pos = 0]]
  BY <1>1 DEF TruncateWal
<1>3. \A e \in CommitEntry : LET z == [e EXCEPT !.pos = 0] IN
         z \in CommitEntry /\ z.txn = e.txn /\ z.pages = e.pages /\ z.pos = 0
  BY DEF CommitEntry
<1>4. commits' \in Seq(CommitEntry)
  BY <1>1, <1>2, <1>3, IsASeq
<1>5. DOMAIN commits' = 1..Len(commits)
  BY <1>2
<1>6. Len(commits') = Len(commits)
  BY <1>1, <1>4, <1>5, LenProperties
<1>. QED  BY <1>1, <1>2, <1>3, <1>4, <1>6

\* The history and the log stay in step.
LEMMA HistoryPreserved ==
    ASSUME BaseInv, [Next]_vars
    PROVE  HistoryOK' /\ Intact'
<1>0. /\ HistoryOK /\ Intact /\ WP!OrderInv /\ TypeOK
      /\ Len(log) \in Nat /\ Len(commits) \in Nat
      /\ \A k \in 1..Len(commits) : commits[k].pos \in Nat
  BY LogTyped, CommitsTyped DEF BaseInv
<1>1. ASSUME NEW t \in Txn, NEW b, WAL!AppendRecord(t, b), UNCHANGED histvars
      PROVE  HistoryOK' /\ Intact'
  <2>1. Len(log') = Len(log) + 1 /\ Intact'
    BY <1>0, <1>1, LogAppended
  <2>2. UNCHANGED <<session, commits, acked, rolled_back>>
    BY <1>1 DEF histvars
  <2>. QED  BY <1>0, <2>1, <2>2 DEF HistoryOK
<1>2. ASSUME NEW t \in Txn, LogCommit(t)
      PROVE  HistoryOK' /\ Intact'
  <2>1. Len(log') = Len(log) + 1 /\ Intact'
    BY <1>0, <1>2, LogAppended DEF LogCommit
  <2>2. UNCHANGED <<session, acked, rolled_back>>
    BY <1>2 DEF LogCommit
  <2>3. /\ commits' \in Seq(CommitEntry)
        /\ Len(commits') = Len(commits) + 1
        /\ \A k \in 1..Len(commits) : commits'[k] = commits[k]
        /\ commits'[Len(commits) + 1].pos = Len(log) + 1
    <3>1. /\ commits' \in Seq(CommitEntry)
          /\ Len(commits') = Len(commits) + 1
          /\ \A k \in 1..Len(commits) : commits'[k] = commits[k]
          /\ commits'[Len(commits) + 1] = [txn |-> Tag(t), pages |-> dirtied[t], pos |-> Len(log) + 1]
      BY <1>0, <1>2, CommitAppended
    <3>. QED  BY <3>1
  <2>4. \A i \in 1..Len(commits') : commits'[i].pos <= Len(log')
    BY <1>0, <2>1, <2>3 DEF HistoryOK
  <2>5. \A i, j \in 1..Len(commits') : i < j =>
           /\ commits'[i].pos <= commits'[j].pos
           /\ commits'[j].pos # 0 => commits'[i].pos < commits'[j].pos
    <3> SUFFICES ASSUME NEW i \in 1..Len(commits'), NEW j \in 1..Len(commits'), i < j
                 PROVE  /\ commits'[i].pos <= commits'[j].pos
                        /\ commits'[j].pos # 0 => commits'[i].pos < commits'[j].pos
      OBVIOUS
    <3>1. i \in 1..Len(commits) /\ commits'[i] = commits[i] /\ commits[i].pos <= Len(log)
      BY <1>0, <2>3 DEF HistoryOK
    <3>2. CASE j \in 1..Len(commits)
      BY <1>0, <2>3, <3>1, <3>2 DEF HistoryOK
    <3>3. CASE j = Len(commits) + 1
      BY <1>0, <2>3, <3>1, <3>3
    <3>4. j \in 1..Len(commits) \/ j = Len(commits) + 1
      BY <1>0, <2>3
    <3>. QED  BY <3>2, <3>3, <3>4
  <2>. QED  BY <1>0, <2>1, <2>2, <2>3, <2>4, <2>5 DEF HistoryOK
<1>3. ASSUME NEW t \in Txn, FinishCommit(t) \/ FinishAbort(t)
      PROVE  HistoryOK' /\ Intact'
  <2>1. UNCHANGED <<log, session, commits>>
    BY <1>3 DEF FinishCommit, FinishAbort, WAL!EndTransaction
  <2>2. Tag(t) \in Tags
    BY <1>0 DEF Tag, Tags, HistoryOK
  <2>3. acked' \subseteq Tags /\ rolled_back' \subseteq Tags
    BY <1>0, <1>3, <2>2 DEF FinishCommit, FinishAbort, HistoryOK
  <2>. QED  BY <1>0, <2>1, <2>3 DEF HistoryOK, Intact
<1>4. CASE TruncateWal
  <2>1. /\ UNCHANGED <<session, acked, rolled_back>> /\ log' = <<>>
        /\ commits' = [i \in DOMAIN commits |-> [commits[i] EXCEPT !.pos = 0]]
    BY <1>4 DEF TruncateWal, WAL!Checkpoint
  <2>5. /\ commits' \in Seq(CommitEntry) /\ Len(commits') = Len(commits)
        /\ \A i \in 1..Len(commits) : commits'[i].pos = 0
    BY <1>0, <1>4, CommitsTruncated
  <2>6. Len(log') = 0
    BY <2>1, EmptySeq
  <2>. QED  BY <1>0, <2>1, <2>5, <2>6 DEF HistoryOK, Intact
<1>5. CASE ProcessCrash \/ PowerLoss
  <2>1. PICK n \in 0..Len(log) : Len(log') = n /\ (\A i \in 1..n : log'[i] = log[i]) /\ Restart(n)
    <3>1. WAL!ProcessCrash \/ WAL!PowerLoss
      BY <1>5 DEF ProcessCrash, PowerLoss
    <3>2. PICK n \in stable..Len(log) :
             /\ n \in 0..Len(log) /\ Len(log') = n /\ \A i \in 1..n : log'[i] = log[i]
             /\ WAL!ProcessCrash => n = Len(log)
      BY <1>0, <3>1, LogAfterCrash
    <3>3. Restart(n)
      BY <1>5, <3>2 DEF ProcessCrash, PowerLoss
    <3>. QED  BY <3>2, <3>3
  <2>2. /\ session < MaxSessions /\ session' = session + 1
        /\ commits' = SubSeq(commits, 1, CommitsUpTo(n))
        /\ UNCHANGED <<acked, rolled_back>>
    BY <2>1 DEF Restart
  <2>3. n \in Nat
    BY <1>0
  <2>4. session' \in 1..MaxSessions
    BY <1>0, <2>2, Constants DEF HistoryOK
  <2> DEFINE m == CommitsUpTo(n)
  <2>5. /\ m \in 0..Len(commits) /\ commits' \in Seq(CommitEntry) /\ Len(commits') = m
        /\ \A i \in 1..m : commits'[i] = commits[i]
        /\ \A i \in 1..Len(commits) : commits[i].pos <= n <=> i <= m
    BY <1>0, <2>2, <2>3, CommitsKept
  <2> HIDE DEF m
  <2>6. Intact'
    BY <1>0, <2>1 DEF Intact
  <2>7. \A i \in 1..Len(commits') : commits'[i].pos <= Len(log')
    BY <1>0, <2>1, <2>5
  <2>8. \A i, j \in 1..Len(commits') : i < j =>
           /\ commits'[i].pos <= commits'[j].pos
           /\ commits'[j].pos # 0 => commits'[i].pos < commits'[j].pos
    <3> SUFFICES ASSUME NEW i \in 1..m, NEW j \in 1..m, i < j
                 PROVE  /\ commits[i].pos <= commits[j].pos
                        /\ commits[j].pos # 0 => commits[i].pos < commits[j].pos
      BY <2>5
    <3>1. i \in 1..Len(commits) /\ j \in 1..Len(commits)
      BY <1>0, <2>5
    <3>. QED  BY <1>0, <3>1 DEF HistoryOK
  <2>9. acked' \subseteq Tags /\ rolled_back' \subseteq Tags
    BY <1>0, <2>2 DEF HistoryOK
  <2>. QED  BY <2>4, <2>5, <2>6, <2>7, <2>8, <2>9 DEF HistoryOK
<1>6. CASE UNCHANGED <<log, histvars>>
  BY <1>0, <1>6 DEF HistoryOK, Intact, histvars
<1>7. ASSUME NEW t \in Txn, Transact(t)
      PROVE  HistoryOK' /\ Intact'
  <2>1. CASE Begin(t) \/ (\E p \in PageKey : LogUpdate(t, p)) \/ LogAbort(t)
    BY <1>1, <2>1 DEF Begin, LogUpdate, LogAbort
  <2>2. CASE FlushStep(t) \/ FsyncFails(t) \/ CommitThrows(t)
    <3>1. UNCHANGED <<log, histvars>>
      BY <2>2 DEF FlushStep, FsyncFails, CommitThrows, WAL!FlushThrough, WAL!CheckDurable,
                  WAL!FsyncSucceeds, WAL!FsyncFails, WAL!EndTransaction
    <3>. QED  BY <1>6, <3>1
  <2>. QED
    BY <1>2, <1>3, <1>6, <1>7, <2>1, <2>2
       DEF Transact, TxnStep, AcquireLock, RecheckLock, WritePage, Commit, StartForce, ForcePage,
           Abort, DiscardPage, logvars
<1>. QED
  BY <1>4, <1>5, <1>6, <1>7
     DEF Next, StartCheckpoint, CheckpointFlush, ReplayRecord, FinishOpen, Idle, vars, logvars
-----------------------------------------------------------------------------
\* What a step keeps of the memory of the process, but for the locks.
MemoryKept ==
    /\ TypeOK' /\ SessionOK' /\ ReleasedWhenEnded' /\ PoolKeepsWrites'
    /\ \A u \in Txn : \A p \in dirtied'[u] : phase'[u] # "ended" => locks[p].exclusive_holder = u

\* The lock table is well-typed after a step.
LEMMA LockTypeStep == LP!IInv /\ [Next]_vars => LM!TypeOK'
<1>1. LP!IInv => LM!TypeOK
  BY SameLocks DEF LP!IInv
<1>2. LP!IInv' => LM!TypeOK'
  BY <1>1, PTL
<1>. QED  BY <1>2, LocksInductive

\* Begin, the statements of a transaction, and the start of Commit and Abort.
LEMMA StatementsKeepMemory ==
    ASSUME BaseInv, LM!TypeOK', NEW t \in Txn,
           \/ Begin(t)
           \/ \E p \in PageKey, m \in LM!LockMode : AcquireLock(t, p, m)
           \/ RecheckLock(t)
           \/ \E p \in PageKey : WritePage(t, p)
           \/ Commit(t)
           \/ Abort(t),
           mode = "open", UNCHANGED dbvars
    PROVE  MemoryKept
<1>0. /\ TypeOK /\ SessionOK /\ ReleasedWhenEnded /\ PoolKeepsWrites /\ WritersHoldLocks
      /\ LP!IInv
  BY DEF BaseInv
<1>1. Txn = 1..Cardinality(Txn) /\ Cardinality(Txn) \in Nat
  BY Constants
<1>2. Tag(t) \in Image
  BY DEF BaseInv, HistoryOK, Tag, Image
<1>3. CASE Begin(t)
  <2>1. /\ t = next_txn_id /\ next_txn_id' = next_txn_id + 1
        /\ phase' = [phase EXCEPT ![t] = "active"]
        /\ UNCHANGED <<status, dirtied, todo, pool, dirty, disk, survivors, session, mode, redo, ckpt, ckpt_todo>>
    BY <1>3 DEF Begin, lmvars, poolvars, diskvars, histvars, dbvars
  <2>2. phase[t] = "none" /\ dirtied[t] = {} /\ todo[t] = {}
    BY <1>0, <1>1, <2>1 DEF SessionOK, TypeOK
  <2>3. TypeOK'
    BY <1>0, <1>1, <2>1, <2>2 DEF TypeOK, Phase
  <2>4. SessionOK'
    BY <1>0, <1>1, <2>1, <2>2 DEF TypeOK, SessionOK
  <2>5. ReleasedWhenEnded'
    BY <1>0, <2>1, <2>2 DEF TypeOK, ReleasedWhenEnded
  <2>6. PoolKeepsWrites'
    BY <1>0, <2>1, <2>2 DEF TypeOK, PoolKeepsWrites, Tag
  <2>. QED
    BY <1>0, <2>1, <2>2, <2>3, <2>4, <2>5, <2>6 DEF MemoryKept, TypeOK, WritersHoldLocks
<1>4. CASE (\E p \in PageKey, m \in LM!LockMode : AcquireLock(t, p, m)) \/ RecheckLock(t)
  <2>1. /\ UNCHANGED <<txnvars, poolvars, diskvars, histvars, dbvars>>
        /\ \A u \in Txn : status'[u] = "done" => status[u] = "done"
    BY <1>0, <1>4, StatusSteps DEF AcquireLock, RecheckLock
  <2>. QED
    BY <1>0, <2>1
       DEF MemoryKept, TypeOK, SessionOK, ReleasedWhenEnded, PoolKeepsWrites, WritersHoldLocks,
           Tag, txnvars, poolvars, diskvars, histvars, dbvars
<1>5. ASSUME NEW p \in PageKey, WritePage(t, p)
      PROVE  MemoryKept
  <2>1. /\ phase[t] \in {"active", "commit_failed"}
        /\ locks[p].exclusive_holder = t
        /\ pool' = [pool EXCEPT ![p] = Tag(t)] /\ dirty' = dirty \cup {p}
        /\ dirtied' = [dirtied EXCEPT ![t] = IF phase[t] = "active" THEN @ \cup {p} ELSE @]
        /\ UNCHANGED <<status, next_txn_id, phase, todo, disk, survivors, session, mode, redo, ckpt, ckpt_todo>>
    BY <1>5 DEF WritePage, lmvars, diskvars, histvars, dbvars
  <2>2. TypeOK'
    BY <1>0, <1>2, <2>1 DEF TypeOK
  <2>3. next_txn_id # 1
    BY <1>0, <1>1, <2>1 DEF SessionOK
  <2>4. SessionOK'
    BY <1>0, <1>1, <2>1, <2>3 DEF TypeOK, SessionOK
  <2>5. ReleasedWhenEnded'
    BY <1>0, <2>1 DEF ReleasedWhenEnded
  <2>6. \A u \in Txn : \A q \in dirtied'[u] : phase'[u] # "ended" => locks[q].exclusive_holder = u
    BY <1>0, <2>1 DEF WritersHoldLocks, TypeOK
  <2>7. PoolKeepsWrites'
    <3> SUFFICES ASSUME NEW u \in Txn, NEW q \in dirtied'[u],
                        phase'[u] \notin {"discarding", "aborting", "ended"}
                 PROVE  pool'[q] = Tag(u)
      BY <2>1 DEF PoolKeepsWrites, Tag
    <3>1. q \in PageKey /\ phase[u] \notin {"discarding", "aborting", "ended"}
      BY <1>0, <2>1 DEF TypeOK
    <3>2. CASE q = p
      BY <1>0, <2>1, <2>6, <3>1, <3>2 DEF TypeOK
    <3>3. CASE q # p
      BY <1>0, <2>1, <3>1, <3>3 DEF TypeOK, PoolKeepsWrites
    <3>. QED  BY <3>2, <3>3
  <2>. QED  BY <2>2, <2>4, <2>5, <2>6, <2>7 DEF MemoryKept
<1>6. CASE Commit(t) \/ Abort(t)
  <2>1. /\ phase[t] \in {"active", "commit_failed"} /\ status[t] # "done"
        /\ \E ph \in {"logging", "discarding"} : phase' = [phase EXCEPT ![t] = ph]
        /\ todo' = [todo EXCEPT ![t] = dirtied[t]]
        /\ UNCHANGED <<status, next_txn_id, dirtied, pool, dirty, disk, survivors, session, mode, redo, ckpt, ckpt_todo>>
    BY <1>6 DEF Commit, Abort, StartLoop, lmvars, poolvars, diskvars, histvars, dbvars
  <2>2. TypeOK'
    BY <1>0, <2>1 DEF TypeOK, Phase
  <2>3. SessionOK'
    BY <1>0, <1>1, <2>1 DEF TypeOK, SessionOK
  <2>4. ReleasedWhenEnded'
    BY <1>0, <2>1 DEF TypeOK, ReleasedWhenEnded
  <2>5. PoolKeepsWrites'
    BY <1>0, <2>1 DEF TypeOK, PoolKeepsWrites, Tag
  <2>. QED
    BY <1>0, <2>1, <2>2, <2>3, <2>4, <2>5 DEF MemoryKept, TypeOK, WritersHoldLocks
<1>. QED  BY <1>3, <1>4, <1>5, <1>6

\* The loops of Commit and Abort, the flush and the end of a transaction.
LEMMA CommitKeepsMemory ==
    ASSUME BaseInv, LM!TypeOK', NEW t \in Txn,
           \/ \E p \in PageKey : LogUpdate(t, p) \/ ForcePage(t, p) \/ DiscardPage(t, p)
           \/ LogCommit(t) \/ LogAbort(t) \/ StartForce(t)
           \/ FlushStep(t) \/ FsyncFails(t) \/ CommitThrows(t)
           \/ FinishCommit(t) \/ FinishAbort(t),
           UNCHANGED dbvars
    PROVE  MemoryKept
<1>0. /\ TypeOK /\ SessionOK /\ ReleasedWhenEnded /\ PoolKeepsWrites /\ WritersHoldLocks
      /\ LP!IInv
  BY DEF BaseInv
<1>1. Txn = 1..Cardinality(Txn) /\ Cardinality(Txn) \in Nat
  BY Constants
<1>2. ASSUME NEW p \in PageKey, LogUpdate(t, p) \/ ForcePage(t, p) \/ DiscardPage(t, p)
      PROVE  MemoryKept
  <2>1. /\ p \in todo[t] /\ phase[t] \in {"logging", "forcing", "discarding"}
        /\ todo' = [todo EXCEPT ![t] = @ \ {p}]
        /\ UNCHANGED <<status, next_txn_id, phase, dirtied, session, mode, redo, ckpt, ckpt_todo>>
        /\ dirty' \subseteq dirty
        /\ \/ UNCHANGED pool
           \/ phase[t] = "discarding" /\ pool' = [pool EXCEPT ![p] = disk[p]]
        /\ \/ UNCHANGED <<disk, survivors>>
           \/ /\ disk' = [disk EXCEPT ![p] = pool[p]]
              /\ survivors' = [survivors EXCEPT ![p] = @ \cup {pool[p]}]
    BY <1>2 DEF LogUpdate, ForcePage, DiscardPage, LoopStep, FlushPage,
                lmvars, poolvars, diskvars, histvars, dbvars
  <2>2. survivors' \in [PageKey -> SUBSET Image] /\ \A q \in PageKey : disk'[q] \in survivors'[q]
    BY <1>0, <2>1 DEF TypeOK
  <2>3. TypeOK'
    BY <1>0, <2>1, <2>2 DEF TypeOK
  <2>4. SessionOK'
    BY <1>0, <1>1, <2>1 DEF TypeOK, SessionOK
  <2>5. ReleasedWhenEnded'
    BY <1>0, <2>1 DEF ReleasedWhenEnded
  <2>6. PoolKeepsWrites'
    <3> SUFFICES ASSUME NEW u \in Txn, NEW q \in dirtied[u],
                        phase[u] \notin {"discarding", "aborting", "ended"}
                 PROVE  pool'[q] = Tag(u)
      BY <2>1 DEF PoolKeepsWrites, Tag
    <3>1. locks[q].exclusive_holder = u /\ pool[q] = Tag(u) /\ q \in PageKey
      BY <1>0 DEF WritersHoldLocks, PoolKeepsWrites, TypeOK
    <3>2. phase[t] = "discarding" => locks[p].exclusive_holder = t /\ u # t
      BY <1>0, <2>1 DEF WritersHoldLocks, TypeOK
    <3>. QED  BY <1>0, <2>1, <3>1, <3>2 DEF TypeOK
  <2>. QED
    BY <1>0, <2>1, <2>3, <2>4, <2>5, <2>6 DEF MemoryKept, WritersHoldLocks
<1>3. CASE LogCommit(t) \/ LogAbort(t) \/ CommitThrows(t) \/ StartForce(t)
  <2>1. /\ phase[t] \in {"logging", "discarding", "flushing"}
        /\ \E ph \in {"flushing", "aborting", "commit_failed", "forcing"} :
              /\ phase' = [phase EXCEPT ![t] = ph]
              /\ phase[t] = "discarding" => ph = "aborting"
              /\ \/ todo[t] = {} /\ UNCHANGED todo
                 \/ ph = "forcing" /\ todo' = [todo EXCEPT ![t] = dirtied[t]]
        /\ UNCHANGED <<status, next_txn_id, dirtied, pool, dirty, disk, survivors, session,
                       mode, redo, ckpt, ckpt_todo>>
    BY <1>0, <1>3 DEF LogCommit, LogAbort, CommitThrows, StartForce, LoopDone, StartLoop, TypeOK,
                lmvars, poolvars, diskvars, histvars, dbvars
  <2>2. TypeOK'
    BY <1>0, <2>1 DEF TypeOK, Phase
  <2>3. SessionOK'
    BY <1>0, <1>1, <2>1 DEF TypeOK, SessionOK
  <2>4. ReleasedWhenEnded'
    BY <1>0, <2>1 DEF TypeOK, ReleasedWhenEnded
  <2>5. PoolKeepsWrites'
    BY <1>0, <2>1 DEF TypeOK, PoolKeepsWrites, Tag
  <2>. QED
    BY <1>0, <2>1, <2>2, <2>3, <2>4, <2>5 DEF MemoryKept, TypeOK, WritersHoldLocks
<1>4. CASE FlushStep(t) \/ FsyncFails(t)
  <2>1. UNCHANGED <<lmvars, txnvars, poolvars, diskvars, histvars, dbvars>>
    BY <1>4 DEF FlushStep, FsyncFails
  <2>. QED
    BY <1>0, <2>1
       DEF MemoryKept, TypeOK, SessionOK, ReleasedWhenEnded, PoolKeepsWrites, WritersHoldLocks,
           Tag, lmvars, txnvars, poolvars, diskvars, histvars, dbvars
<1>5. CASE FinishCommit(t) \/ FinishAbort(t)
  <2>1. /\ phase[t] \in {"forcing", "aborting"} /\ todo[t] = {}
        /\ phase' = [phase EXCEPT ![t] = "ended"]
        /\ LM!ReleaseAll(t)
        /\ UNCHANGED <<next_txn_id, dirtied, todo, pool, dirty, disk, survivors, session,
                       mode, redo, ckpt, ckpt_todo>>
    BY <1>5 DEF FinishCommit, FinishAbort, LoopDone, poolvars, diskvars, dbvars
  <2>2. \A u \in Txn : status'[u] = "done" => u = t \/ status[u] = "done"
    BY <1>0, <2>1, StatusSteps
  <2>3. TypeOK'
    BY <1>0, <2>1 DEF TypeOK, Phase
  <2>4. SessionOK'
    BY <1>0, <1>1, <2>1 DEF TypeOK, SessionOK
  <2>5. ReleasedWhenEnded'
    BY <1>0, <2>1, <2>2 DEF TypeOK, ReleasedWhenEnded
  <2>6. PoolKeepsWrites'
    BY <1>0, <2>1 DEF TypeOK, PoolKeepsWrites, Tag
  <2>. QED
    BY <1>0, <2>1, <2>3, <2>4, <2>5, <2>6 DEF MemoryKept, TypeOK, WritersHoldLocks
<1>. QED  BY <1>2, <1>3, <1>4, <1>5

\* Checkpoint, a crash, recovery and the opening of the pools.
LEMMA OpeningKeepsMemory ==
    ASSUME BaseInv, LM!TypeOK',
           \/ StartCheckpoint
           \/ \E p \in PageKey : CheckpointFlush(p)
           \/ TruncateWal \/ ProcessCrash \/ PowerLoss \/ ReplayRecord \/ FinishOpen
           \/ UNCHANGED vars
    PROVE  MemoryKept
<1>0. /\ TypeOK /\ SessionOK /\ ReleasedWhenEnded /\ PoolKeepsWrites /\ WritersHoldLocks
      /\ LP!IInv /\ WP!OrderInv
  BY DEF BaseInv
<1>1. /\ Txn = 1..Cardinality(Txn) /\ Cardinality(Txn) \in Nat
  BY Constants
<1>2. CASE StartCheckpoint \/ TruncateWal
  <2>1. /\ UNCHANGED <<lmvars, txnvars, poolvars, diskvars, session, mode, redo>>
        /\ ckpt' \in BOOLEAN /\ ckpt_todo' \subseteq PageKey
        /\ ckpt' => ckpt \/ mode = "open"
    BY <1>0, <1>2 DEF StartCheckpoint, TruncateWal, histvars, TypeOK
  <2>. QED
    BY <1>0, <2>1
       DEF MemoryKept, TypeOK, SessionOK, ReleasedWhenEnded, PoolKeepsWrites, WritersHoldLocks,
           Tag, lmvars, txnvars, poolvars, diskvars
<1>3. ASSUME NEW p \in PageKey, CheckpointFlush(p)
      PROVE  MemoryKept
  <2>1. /\ UNCHANGED <<status, next_txn_id, phase, dirtied, todo, pool, session, mode, redo, ckpt>>
        /\ ckpt_todo' \subseteq ckpt_todo
        /\ dirty' \subseteq dirty
        /\ \/ UNCHANGED <<disk, survivors>>
           \/ /\ disk' = [disk EXCEPT ![p] = pool[p]]
              /\ survivors' = [survivors EXCEPT ![p] = @ \cup {pool[p]}]
    BY <1>3 DEF CheckpointFlush, FlushPage, lmvars, txnvars, diskvars, histvars
  <2>2. survivors' \in [PageKey -> SUBSET Image] /\ \A q \in PageKey : disk'[q] \in survivors'[q]
    BY <1>0, <2>1 DEF TypeOK
  <2>3. TypeOK'
    BY <1>0, <2>1, <2>2 DEF TypeOK
  <2>. QED
    BY <1>0, <2>1, <2>3
       DEF MemoryKept, SessionOK, ReleasedWhenEnded, PoolKeepsWrites, WritersHoldLocks, Tag
<1>4. CASE ProcessCrash \/ PowerLoss
  <2>1. /\ next_txn_id' = 1 /\ phase' = [t \in Txn |-> "none"]
        /\ status' = [t \in Txn |-> "running"]
        /\ dirtied' = [t \in Txn |-> {}] /\ todo' = [t \in Txn |-> {}]
        /\ pool' = [p \in PageKey |-> Blank] /\ dirty' = {}
        /\ mode' = "recovering" /\ redo' = 1 /\ ckpt' = FALSE /\ ckpt_todo' = {}
    BY <1>4 DEF ProcessCrash, PowerLoss, Restart
  <2>2. /\ disk' \in [PageKey -> Image] /\ survivors' \in [PageKey -> SUBSET Image]
        /\ \A p \in PageKey : disk'[p] \in survivors'[p]
    <3>1. CASE ProcessCrash
      BY <1>0, <3>1 DEF ProcessCrash, diskvars, TypeOK
    <3>2. CASE PowerLoss
      <4>1. PICK d \in [PageKey -> UNION {survivors[p] : p \in PageKey}] :
               /\ \A p \in PageKey : d[p] \in survivors[p]
               /\ disk' = d /\ survivors' = [p \in PageKey |-> {d[p]}]
        BY <3>2 DEF PowerLoss
      <4>2. \A p \in PageKey : d[p] \in Image
        BY <1>0, <4>1 DEF TypeOK
      <4>. QED  BY <4>1, <4>2
    <3>. QED  BY <1>4, <3>1, <3>2
  <2>3. TypeOK'
    <3>1. Blank \in Image
      BY DEF Image
    <3>2. pool' \in [PageKey -> Image] /\ phase' \in [Txn -> Phase]
      BY <2>1, <3>1 DEF Phase
    <3>3. next_txn_id' \in 1..Cardinality(Txn) + 1
      BY <1>1, <2>1
    <3>4. /\ dirtied' \in [Txn -> SUBSET PageKey] /\ todo' \in [Txn -> SUBSET PageKey]
          /\ \A t \in Txn : todo'[t] = {}
      BY <2>1
    <3>5. /\ ckpt_todo' \subseteq PageKey /\ dirty' \subseteq PageKey
          /\ mode' \in {"open", "recovering"} /\ redo' \in Nat \ {0}
      BY <2>1
    <3>7. ckpt' \in BOOLEAN
      BY <2>1
    <3>6. \A t \in Txn : todo'[t] \subseteq dirtied'[t]
      BY <3>4
    <3>. QED  BY <2>2, <3>2, <3>3, <3>4, <3>5, <3>6, <3>7 DEF TypeOK
  <2>. QED
    BY <1>1, <2>1, <2>3 DEF MemoryKept, SessionOK, ReleasedWhenEnded, PoolKeepsWrites
<1>5. CASE ReplayRecord
  <2>1. /\ redo <= Len(log) /\ mode = "recovering" /\ redo' = redo + 1
        /\ UNCHANGED <<lmvars, txnvars, poolvars, session, mode, ckpt, ckpt_todo>>
        /\ \/ UNCHANGED <<disk, survivors>>
           \/ /\ IsReplayed(log, redo)
              /\ disk' = [disk EXCEPT ![log[redo].body.page] = log[redo].body.image]
              /\ survivors' = [survivors EXCEPT ![log[redo].body.page] = @ \cup {log[redo].body.image}]
    BY <1>5 DEF ReplayRecord, diskvars, histvars
  <2>2. redo' \in Nat \ {0}
    BY <1>0, <2>1 DEF TypeOK
  <2>3. /\ disk' \in [PageKey -> Image] /\ survivors' \in [PageKey -> SUBSET Image]
        /\ \A q \in PageKey : disk'[q] \in survivors'[q]
    <3>1. CASE UNCHANGED <<disk, survivors>>
      BY <1>0, <3>1 DEF TypeOK
    <3>2. CASE IsReplayed(log, redo)
      <4>1. redo \in 1..Len(log)
        BY <1>0, <2>1, LogTyped DEF TypeOK
      <4>2. log[redo].body.page \in PageKey /\ log[redo].body.image \in Image
        BY <1>0, <3>2, <4>1, LogTyped DEF IsReplayed
      <4> DEFINE pg == log[redo].body.page
                 im == log[redo].body.image
      <4>3. \/ UNCHANGED <<disk, survivors>>
            \/ /\ disk' = [disk EXCEPT ![pg] = im]
               /\ survivors' = [survivors EXCEPT ![pg] = @ \cup {im}]
        BY <2>1
      <4> HIDE DEF pg, im
      <4>. QED  BY <1>0, <4>2, <4>3 DEF TypeOK, pg, im
    <3>. QED  BY <2>1, <3>1, <3>2
  <2>4. TypeOK'
    BY <1>0, <2>1, <2>2, <2>3 DEF TypeOK, lmvars, txnvars, poolvars
  <2>. QED
    BY <1>0, <2>1, <2>4
       DEF MemoryKept, SessionOK, ReleasedWhenEnded, PoolKeepsWrites, WritersHoldLocks,
           Tag, lmvars, txnvars, poolvars
<1>6. CASE FinishOpen
  <2>1. /\ mode = "recovering" /\ mode' = "open" /\ pool' = disk
        /\ UNCHANGED <<status, next_txn_id, phase, dirtied, todo, dirty, disk, survivors, session,
                       redo, ckpt, ckpt_todo>>
    BY <1>6 DEF FinishOpen, lmvars, txnvars, diskvars, histvars
  <2>2. \A t \in Txn : dirtied[t] = {}
    BY <1>0, <1>1, <2>1 DEF SessionOK
  <2>3. TypeOK'
    BY <1>0, <2>1 DEF TypeOK
  <2>. QED
    BY <1>0, <2>1, <2>2, <2>3 DEF MemoryKept, SessionOK, ReleasedWhenEnded, PoolKeepsWrites
<1>7. CASE UNCHANGED vars
  BY <1>0, <1>7
     DEF MemoryKept, TypeOK, SessionOK, ReleasedWhenEnded, PoolKeepsWrites, WritersHoldLocks,
         Tag, vars, lmvars, txnvars, poolvars, diskvars, histvars, dbvars
<1>. QED  BY <1>2, <1>3, <1>4, <1>5, <1>6, <1>7
-----------------------------------------------------------------------------
\* The invariant holds when the first process has opened an empty database.
LEMMA BaseInitially == Init => BaseInv
<1> SUFFICES ASSUME Init PROVE BaseInv
  OBVIOUS
<1>1. Txn = 1..Cardinality(Txn) /\ Cardinality(Txn) \in Nat /\ 1 \in 1..MaxSessions
  BY Constants
<1>2. LP!IInv /\ LM!TypeOK
  BY LocksInitially, SameLocks DEF Init, LP!IInv
<1>3. WP!OrderInv /\ log = <<>>
  BY SameLog, Constants, WP!OrderInitially DEF Init, WAL!Init
<1>4. HistoryOK
  BY <1>1, <1>3, EmptySeq DEF Init, HistoryOK
<1>5. Intact
  BY <1>3, EmptySeq DEF Intact
<1>6. TypeOK
  <2>1. Blank \in Image
    BY DEF Image
  <2>2. pool \in [PageKey -> Image] /\ disk \in [PageKey -> Image] /\ phase \in [Txn -> Phase]
    BY <2>1 DEF Init, TxnInit, Phase
  <2>3. survivors \in [PageKey -> SUBSET Image] /\ \A p \in PageKey : disk[p] \in survivors[p]
    BY <2>1 DEF Init
  <2>4. /\ dirtied \in [Txn -> SUBSET PageKey] /\ todo \in [Txn -> SUBSET PageKey]
        /\ \A t \in Txn : todo[t] = {} /\ todo[t] \subseteq dirtied[t]
    BY DEF Init, TxnInit
  <2>5. /\ ckpt_todo \subseteq PageKey /\ dirty \subseteq PageKey
        /\ mode \in {"open", "recovering"} /\ redo \in Nat \ {0}
    BY DEF Init
  <2>7. ckpt \in BOOLEAN
    BY DEF Init
  <2>6. next_txn_id \in 1..Cardinality(Txn) + 1
    BY <1>1 DEF Init, TxnInit
  <2>. QED  BY <1>2, <2>2, <2>3, <2>4, <2>5, <2>6, <2>7 DEF TypeOK
<1>7. SessionOK /\ ReleasedWhenEnded /\ WritersHoldLocks /\ PoolKeepsWrites
  BY <1>1 DEF Init, TxnInit, LM!Init, SessionOK, ReleasedWhenEnded, WritersHoldLocks, PoolKeepsWrites
<1>. QED  BY <1>2, <1>3, <1>4, <1>5, <1>6, <1>7 DEF BaseInv

\* Every step preserves it.
LEMMA BaseInductive == BaseInv /\ [Next]_vars => BaseInv'
<1> SUFFICES ASSUME BaseInv, [Next]_vars PROVE BaseInv'
  OBVIOUS
<1>1. LP!IInv /\ LP!IInv' /\ LM!TypeOK'
  BY LocksInductive, LockTypeStep DEF BaseInv
<1>2. WP!OrderInv' /\ HistoryOK' /\ Intact'
  BY OrderPreserved, HistoryPreserved DEF BaseInv
<1>3. MemoryKept
  <2>1. ASSUME NEW t \in Txn, Transact(t)
        PROVE  MemoryKept
    BY <1>1, <2>1, StatementsKeepMemory, CommitKeepsMemory DEF Transact, TxnStep
  <2>. QED  BY <1>1, <2>1, OpeningKeepsMemory DEF Next, Idle
<1>4. WritersHoldLocks'
  <2>1. CASE ProcessCrash \/ PowerLoss
    BY <2>1 DEF ProcessCrash, PowerLoss, Restart, WritersHoldLocks
  <2>2. CASE ~(ProcessCrash \/ PowerLoss)
    <3> SUFFICES ASSUME NEW t \in Txn, NEW p \in dirtied'[t], phase'[t] # "ended"
                 PROVE  locks'[p].exclusive_holder = t
      BY DEF WritersHoldLocks
    <3>1. p \in PageKey /\ locks[p].exclusive_holder = t /\ status'[t] # "done"
      BY <1>3 DEF MemoryKept, TypeOK, ReleasedWhenEnded
    <3>2. [LP!Next]_lmvars
      BY <2>2, SameLocks, LockSteps
    <3>. QED  BY <1>1, <3>1, <3>2, Constants, LP!LocksKept DEF lmvars, LP!lmvars
  <2>. QED  BY <2>1, <2>2
<1>. QED  BY <1>1, <1>2, <1>3, <1>4 DEF BaseInv, MemoryKept

\* The values of the variables keep their types through every interleaving of
\* transactions, checkpoints, crashes and recoveries: among them, a page left
\* to log, force or discard is one the transaction dirtied, and what a power
\* loss leaves in a data file is an image it once held.
THEOREM DatabaseTypeCorrect == Spec => []TypeOK
<1>1. BaseInv => TypeOK
  BY DEF BaseInv
<1>. QED  BY <1>1, BaseInitially, BaseInductive, PTL DEF Spec
-----------------------------------------------------------------------------
\* The pages of t whose image in the pool the data file may not have.
Unforced(t) ==
    IF phase[t] \in {"active", "logging", "flushing"} THEN dirtied[t]
    ELSE IF phase[t] \in {"forcing", "discarding"} THEN todo[t]
    ELSE {}

NoFailure == \A t \in Txn : pc[t] # "failed" /\ phase[t] # "commit_failed"

DirtyIsUnforced == \A p \in dirty : \E t \in Txn : p \in Unforced(t)

CleanIsForced == mode = "open" => \A p \in PageKey \ dirty : pool[p] = disk[p]

ForceInv == BaseInv /\ NoFailure /\ DirtyIsUnforced /\ CleanIsForced

\* Where fsync never fails, Commit never throws.
LEMMA NothingFails ==
    ASSUME FailLsn = 0, BaseInv, NoFailure, [Next]_vars
    PROVE  NoFailure'
<1>0. phase \in [Txn -> Phase] /\ pc \in [Txn -> WP!Pc] /\ next_lsn \in Nat \ {0}
  BY DEF BaseInv, TypeOK, WP!OrderInv, WP!TypeOK
<1>1. ASSUME NEW t \in Txn, Transact(t)
      PROVE  NoFailure'
  <2>1. ~(next_lsn <= FailLsn /\ FsyncFails(t)) /\ ~CommitThrows(t)
    BY <1>0 DEF NoFailure, CommitThrows
  <2>2. TxnStep(t)
    BY <1>1, <2>1 DEF Transact
  <2>3. \A u \in Txn : pc'[u] # "failed"
    <3>1. CASE FlushStep(t)
      BY <1>0, <3>1 DEF NoFailure, FlushStep, WAL!FlushThrough, WAL!CheckDurable, WAL!AlreadyDurable,
         WAL!WaitForFlusher, WAL!BecomeFlusher, WAL!FsyncSucceeds, WAL!NotifyAllBut
    <3>2. CASE FinishCommit(t) \/ FinishAbort(t)
      BY <1>0, <3>2 DEF NoFailure, FinishCommit, FinishAbort, WAL!EndTransaction
    <3>3. CASE UNCHANGED pc
      BY <3>3 DEF NoFailure
    <3>. QED
      BY <2>2, <3>1, <3>2, <3>3
         DEF TxnStep, Begin, AcquireLock, RecheckLock, WritePage, Commit, LogUpdate, LogCommit,
             StartForce, ForcePage, Abort, DiscardPage, LogAbort, WAL!AppendRecord, logvars
  <2>4. \A u \in Txn : phase'[u] # "commit_failed"
    BY <1>0, <2>2
       DEF NoFailure, TxnStep, Begin, AcquireLock, RecheckLock, WritePage, Commit, LogUpdate,
           LogCommit, FlushStep, StartForce, ForcePage, FinishCommit, Abort, DiscardPage, LogAbort,
           FinishAbort, StartLoop, LoopStep, LoopDone, txnvars
  <2>. QED  BY <2>3, <2>4 DEF NoFailure
<1>2. CASE ProcessCrash \/ PowerLoss
  <2>1. pc' = [t \in Txn |-> "idle"]
    BY <1>2 DEF ProcessCrash, PowerLoss, WAL!ProcessCrash, WAL!PowerLoss, WAL!Reopen
  <2>2. phase' = [t \in Txn |-> "none"]
    BY <1>2 DEF ProcessCrash, PowerLoss, Restart
  <2>. QED  BY <2>1, <2>2 DEF NoFailure
<1>3. CASE UNCHANGED <<pc, phase>>
  BY <1>3 DEF NoFailure
<1>. QED
  BY <1>1, <1>2, <1>3
     DEF Next, StartCheckpoint, CheckpointFlush, TruncateWal, ReplayRecord, FinishOpen, Idle, vars,
         WAL!Checkpoint, logvars, txnvars

\* What a step of a transaction does to the pages it has not forced.
LEMMA UnforcedSteps ==
    ASSUME BaseInv, NEW t \in Txn, TxnStep(t), phase[t] # "commit_failed"
    PROVE  /\ \A u \in Txn \ {t} : Unforced(u)' = Unforced(u)
           /\ \/ /\ Unforced(t)' = Unforced(t)
                 /\ UNCHANGED <<pool, dirty, disk>>
              \/ \E p \in PageKey : /\ WritePage(t, p)
                                    /\ phase[t] = "active" /\ Unforced(t)' = Unforced(t) \cup {p}
              \/ \E p \in PageKey : /\ ForcePage(t, p) \/ DiscardPage(t, p)
                                    /\ p \in Unforced(t) /\ Unforced(t)' = Unforced(t) \ {p}
<1>0. /\ phase \in [Txn -> Phase] /\ dirtied \in [Txn -> SUBSET PageKey]
      /\ todo \in [Txn -> SUBSET PageKey]
  BY DEF BaseInv, TypeOK
<1>1. CASE Begin(t)
  <2>1. phase[t] = "none" /\ dirtied[t] = {}
    BY <1>1 DEF Begin, BaseInv, SessionOK, TypeOK
  <2>. QED  BY <1>0, <1>1, <2>1 DEF Begin, Unforced, poolvars, diskvars
<1>2. CASE \/ \E p \in PageKey, m \in LM!LockMode : AcquireLock(t, p, m)
           \/ RecheckLock(t) \/ FlushStep(t)
  BY <1>2 DEF AcquireLock, RecheckLock, FlushStep, Unforced, txnvars, poolvars, diskvars
<1>3. ASSUME NEW p \in PageKey, WritePage(t, p)
      PROVE  /\ \A u \in Txn \ {t} : Unforced(u)' = Unforced(u)
             /\ phase[t] = "active" /\ Unforced(t)' = Unforced(t) \cup {p}
  BY <1>0, <1>3 DEF WritePage, Unforced
<1>4. CASE Commit(t) \/ Abort(t) \/ StartForce(t)
  BY <1>0, <1>4 DEF Commit, Abort, StartForce, StartLoop, Unforced, poolvars, diskvars
<1>5. CASE \E p \in PageKey : LogUpdate(t, p)
  BY <1>0, <1>5 DEF LogUpdate, LoopStep, Unforced, poolvars, diskvars
<1>6. CASE LogCommit(t) \/ LogAbort(t) \/ FinishCommit(t) \/ FinishAbort(t)
  BY <1>0, <1>6 DEF LogCommit, LogAbort, FinishCommit, FinishAbort, LoopDone, Unforced,
                    poolvars, diskvars
<1>7. ASSUME NEW p \in PageKey, ForcePage(t, p) \/ DiscardPage(t, p)
      PROVE  /\ \A u \in Txn \ {t} : Unforced(u)' = Unforced(u)
             /\ p \in Unforced(t) /\ Unforced(t)' = Unforced(t) \ {p}
  BY <1>0, <1>7 DEF ForcePage, DiscardPage, LoopStep, Unforced
<1>. QED  BY <1>1, <1>2, <1>3, <1>4, <1>5, <1>6, <1>7 DEF TxnStep

\* Every step preserves it.
LEMMA ForceInductive == FailLsn = 0 => (ForceInv /\ [Next]_vars => ForceInv')
<1> SUFFICES ASSUME FailLsn = 0, ForceInv, [Next]_vars PROVE ForceInv'
  OBVIOUS
<1>0. /\ BaseInv /\ NoFailure /\ DirtyIsUnforced /\ CleanIsForced
      /\ BaseInv' /\ NoFailure'
  BY BaseInductive, NothingFails DEF ForceInv
<1>1. pool \in [PageKey -> Image] /\ disk \in [PageKey -> Image]
  BY <1>0 DEF BaseInv, TypeOK
<1>2. ASSUME NEW t \in Txn, Transact(t)
      PROVE  DirtyIsUnforced' /\ CleanIsForced'
  <2>0. mode = "open" /\ TxnStep(t) /\ phase[t] # "commit_failed"
    <3>1. next_lsn \in Nat \ {0}
      BY <1>0 DEF BaseInv, WP!OrderInv, WP!TypeOK
    <3>. QED  BY <1>0, <1>2, <3>1 DEF Transact, NoFailure, CommitThrows
  <2>1. \A u \in Txn \ {t} : Unforced(u)' = Unforced(u)
    BY <1>0, <2>0, UnforcedSteps
  <2>2. CASE Unforced(t)' = Unforced(t) /\ UNCHANGED <<pool, dirty, disk>>
    BY <1>0, <2>0, <2>1, <2>2 DEF DirtyIsUnforced, CleanIsForced
  <2>3. ASSUME NEW p \in PageKey, WritePage(t, p), Unforced(t)' = Unforced(t) \cup {p}
        PROVE  DirtyIsUnforced' /\ CleanIsForced'
    <3>1. dirty' = dirty \cup {p} /\ pool' = [pool EXCEPT ![p] = Tag(t)] /\ disk' = disk
      BY <2>3 DEF WritePage, diskvars
    <3>2. DirtyIsUnforced'
      BY <1>0, <2>1, <2>3, <3>1 DEF DirtyIsUnforced
    <3>3. CleanIsForced'
      BY <1>0, <1>1, <2>0, <3>1 DEF CleanIsForced
    <3>. QED  BY <3>2, <3>3
  <2>4. ASSUME NEW p \in PageKey, ForcePage(t, p) \/ DiscardPage(t, p),
               Unforced(t)' = Unforced(t) \ {p}
        PROVE  DirtyIsUnforced' /\ CleanIsForced'
    <3>1. /\ dirty' = dirty \ {p}
          /\ \/ p \in dirty /\ pool' = pool /\ disk' = [disk EXCEPT ![p] = pool[p]]
             \/ p \notin dirty /\ pool' = pool /\ disk' = disk
             \/ disk' = disk /\ pool' = [pool EXCEPT ![p] = disk[p]]
      BY <2>4 DEF ForcePage, DiscardPage, FlushPage, diskvars
    <3>2. DirtyIsUnforced'
      BY <1>0, <2>1, <2>4, <3>1 DEF DirtyIsUnforced
    <3>3. CleanIsForced'
      BY <1>0, <1>1, <2>0, <3>1 DEF CleanIsForced
    <3>. QED  BY <3>2, <3>3
  <2>. QED  BY <1>0, <2>0, <2>2, <2>3, <2>4, UnforcedSteps
<1>3. ASSUME NEW p \in PageKey, CheckpointFlush(p)
      PROVE  DirtyIsUnforced' /\ CleanIsForced'
  <2>1. /\ dirty' = dirty \ {p} /\ UNCHANGED <<pool, phase, dirtied, todo, mode>>
        /\ \/ p \in dirty /\ disk' = [disk EXCEPT ![p] = pool[p]]
           \/ p \notin dirty /\ disk' = disk
    BY <1>3 DEF CheckpointFlush, FlushPage, diskvars, txnvars
  <2>2. DirtyIsUnforced'
    BY <1>0, <2>1 DEF DirtyIsUnforced, Unforced
  <2>3. CleanIsForced'
    BY <1>0, <1>1, <2>1 DEF CleanIsForced
  <2>. QED  BY <2>2, <2>3
<1>4. ASSUME ProcessCrash \/ PowerLoss
      PROVE  DirtyIsUnforced' /\ CleanIsForced'
  BY <1>4 DEF ProcessCrash, PowerLoss, Restart, DirtyIsUnforced, CleanIsForced
<1>5. ASSUME ReplayRecord
      PROVE  DirtyIsUnforced' /\ CleanIsForced'
  BY <1>0, <1>5
     DEF ReplayRecord, DirtyIsUnforced, CleanIsForced, Unforced, txnvars, poolvars
<1>6. ASSUME FinishOpen
      PROVE  DirtyIsUnforced' /\ CleanIsForced'
  BY <1>0, <1>6
     DEF FinishOpen, DirtyIsUnforced, CleanIsForced, Unforced, txnvars, diskvars
<1>7. ASSUME UNCHANGED <<txnvars, poolvars, diskvars, mode>>
      PROVE  DirtyIsUnforced' /\ CleanIsForced'
  BY <1>0, <1>7
     DEF DirtyIsUnforced, CleanIsForced, Unforced, txnvars, poolvars, diskvars
<1>8. DirtyIsUnforced' /\ CleanIsForced'
  BY <1>2, <1>3, <1>4, <1>5, <1>6, <1>7
     DEF Next, StartCheckpoint, TruncateWal, Idle, vars, dbvars
<1>. QED  BY <1>0, <1>8 DEF ForceInv

\* It holds initially.
LEMMA ForceInitially == Init => ForceInv
<1> SUFFICES ASSUME Init PROVE ForceInv
  OBVIOUS
<1>1. NoFailure
  BY DEF Init, TxnInit, WAL!Init, NoFailure
<1>2. DirtyIsUnforced /\ CleanIsForced
  BY DEF Init, DirtyIsUnforced, CleanIsForced
<1>. QED  BY <1>1, <1>2, BaseInitially DEF ForceInv

\* While no fsync fails, an idle pool has nothing the data files lack:
\* whatever transactions commit, abort, crash or are cut short, and whenever
\* Checkpoint runs, so that DiscardPage reads back committed images and a
\* checkpoint may drop the log.
THEOREM PagesForced ==
    ASSUME FailLsn = 0
    PROVE  Spec => []ForcedWhenIdle
<1>1. ForceInv => ForcedWhenIdle
  <2> SUFFICES ASSUME ForceInv, mode = "open", ~HasActiveTransaction
               PROVE  dirty = {} /\ pool = disk
    BY DEF ForcedWhenIdle
  <2>1. \A t \in Txn : Unforced(t) = {}
    BY DEF HasActiveTransaction, Unforced
  <2>2. dirty = {}
    BY <2>1 DEF ForceInv, DirtyIsUnforced
  <2>3. pool \in [PageKey -> Image] /\ disk \in [PageKey -> Image] /\ \A p \in PageKey : pool[p] = disk[p]
    BY <2>2 DEF ForceInv, BaseInv, TypeOK, CleanIsForced
  <2>. QED  BY <2>2, <2>3
<1>2. ForceInv /\ [Next]_vars => ForceInv'
  BY ForceInductive
<1>. QED  BY <1>1, <1>2, ForceInitially, PTL DEF Spec
-----------------------------------------------------------------------------
\* The host program checkpoints on every open or runs transactions in one
\* session only: TxnIds restart at 1, so a log with the records of two
\* sessions may hold two transactions of one id (the run txn_id_reuse).
OneSessionPerLog ==
    /\ CheckpointWhen # "any"
    /\ CheckpointWhen = "never" => WorkSessions <= 1

\* Database::Checkpoint runs before the first transaction of the session.
CheckpointFirst ==
    ckpt => CheckpointWhen = "first" /\ mode = "open" /\ next_txn_id = 1 /\ log # <<>>

\* No flush has happened before the first transaction of a session.
NothingFlushedYet ==
    next_txn_id = 1 => durable_lsn = 0 /\ \A t \in Txn : pc[t] = "idle" /\ target[t] = 0

IsUpdate(i) == i \in 1..Len(log) /\ log[i].body.type = "update"
IsCommit(i) == i \in 1..Len(log) /\ log[i].body.type = "commit"

\* Record i is one of session s: an image is its transaction's, and a Commit
\* record is that of an entry of commits.
RecordOf(s, i) ==
    /\ IsUpdate(i) => log[i].body.image = <<s, log[i].txn>>
    /\ IsCommit(i) => \E k \in 1..Len(commits) :
                         commits[k].pos = i /\ commits[k].txn = <<s, log[i].txn>>

LogOfSession(s) ==
    /\ s \in 1..session
    /\ next_txn_id > 1 => s = session
    /\ \A i \in 1..Len(log) : RecordOf(s, i)

OneSessionInLog == \E s \in 1..MaxSessions : LogOfSession(s)

\* A transaction logs and commits the pages it dirtied and no others.
OwnUpdates ==
    \A i \in 1..Len(log), t \in Txn : IsUpdate(i) /\ log[i].body.image = Tag(t) =>
        log[i].body.page \in dirtied[t] /\ phase[t] \notin {"none", "active"}

OwnCommits ==
    /\ \A k \in 1..Len(commits) : commits[k].txn[1] <= session
    /\ \A k \in 1..Len(commits), t \in Txn : commits[k].txn = Tag(t) =>
          commits[k].pages = dirtied[t] /\ phase[t] \notin {"none", "active"}

UpdatesOfCommits ==
    \A i \in 1..Len(log), k \in 1..Len(commits) :
        IsUpdate(i) /\ commits[k].txn = log[i].body.image => log[i].body.page \in commits[k].pages

\* A Commit record whose flush returned is on stable storage.
FlushedCommits ==
    /\ \A t \in Txn : phase[t] = "flushing" =>
          \E k \in 1..Len(commits) : commits[k].txn = Tag(t) /\ commits[k].pos = target[t]
    /\ \A t \in Txn : phase[t] = "forcing" =>
          \E k \in 1..Len(commits) : commits[k].txn = Tag(t) /\ commits[k].pos <= stable

LogInv ==
    /\ BaseInv /\ CheckpointFirst /\ WP!DurabilityInv /\ NothingFlushedYet
    /\ OneSessionInLog /\ OwnUpdates /\ OwnCommits /\ UpdatesOfCommits /\ FlushedCommits

\* A step that writes no record of the log or of the history.
QuietStep ==
    /\ UNCHANGED <<log, commits, session, next_txn_id>>
    /\ stable' \in Nat /\ stable' >= stable
    /\ \A u \in Txn :
         /\ dirtied'[u] = dirtied[u] \/ (phase[u] = "active" /\ dirtied[u] \subseteq dirtied'[u])
         /\ phase[u] \notin {"none", "active"} => phase'[u] \notin {"none", "active"}
         /\ phase'[u] = "flushing" => phase[u] = "flushing" /\ target'[u] = target[u]
         /\ phase'[u] = "forcing" => phase[u] = "forcing" \/ (phase[u] = "flushing" /\ pc[u] = "flushed")

\* Every step either writes to the log, truncates or loses it, or is quiet.
LEMMA QuietSteps ==
    ASSUME BaseInv, [Next]_vars
    PROVE  \/ QuietStep
           \/ \E t \in Txn : /\ mode = "open" /\ UNCHANGED dbvars
                             /\ \/ Begin(t) /\ MayBegin
                                \/ \E p \in PageKey : LogUpdate(t, p)
                                \/ LogCommit(t) \/ LogAbort(t)
           \/ TruncateWal \/ ProcessCrash \/ PowerLoss
<1>0. /\ phase \in [Txn -> Phase] /\ dirtied \in [Txn -> SUBSET PageKey]
      /\ target \in [Txn -> Nat] /\ covers \in [Txn -> Nat] /\ stable \in Nat
  BY DEF BaseInv, TypeOK, WP!OrderInv, WP!TypeOK
<1>1. ASSUME NEW t \in Txn, Transact(t)
      PROVE  \/ QuietStep
             \/ /\ mode = "open" /\ UNCHANGED dbvars
                /\ \/ Begin(t) /\ MayBegin
                   \/ \E p \in PageKey : LogUpdate(t, p)
                   \/ LogCommit(t) \/ LogAbort(t)
  <2>1. CASE Begin(t)
    <3>1. phase[t] = "none"
      BY <2>1 DEF Begin, BaseInv, SessionOK, TypeOK
    <3>. QED  BY <1>1, <2>1, <3>1 DEF Transact
  <2>2. CASE \/ \E p \in PageKey, m \in LM!LockMode : AcquireLock(t, p, m)
             \/ RecheckLock(t)
    BY <1>0, <2>2 DEF AcquireLock, RecheckLock, QuietStep, logvars, txnvars, histvars
  <2>3. CASE \E p \in PageKey : WritePage(t, p)
    BY <1>0, <2>3 DEF WritePage, QuietStep, logvars, histvars
  <2>4. CASE Commit(t) \/ Abort(t) \/ StartForce(t)
    BY <1>0, <2>4 DEF Commit, Abort, StartForce, StartLoop, QuietStep, logvars, histvars
  <2>5. CASE FlushStep(t) \/ FsyncFails(t)
    <3>1. UNCHANGED <<log, target, txnvars, histvars>>
      BY <2>5 DEF FlushStep, FsyncFails, WAL!FlushThrough, WAL!CheckDurable, WAL!FsyncSucceeds,
                  WAL!FsyncFails
    <3>2. stable' = stable \/ stable' = WAL!Larger(stable, covers[t])
      BY <2>5 DEF FlushStep, FsyncFails, WAL!FlushThrough, WAL!CheckDurable, WAL!FsyncSucceeds,
                  WAL!FsyncFails
    <3>3. stable' \in Nat /\ stable' >= stable
      BY <1>0, <3>2 DEF WAL!Larger
    <3>. QED  BY <3>1, <3>3 DEF QuietStep, txnvars, histvars
  <2>6. CASE CommitThrows(t) \/ FinishCommit(t) \/ FinishAbort(t)
    BY <1>0, <2>6 DEF CommitThrows, FinishCommit, FinishAbort, LoopDone, WAL!EndTransaction,
                      QuietStep, histvars
  <2>7. CASE \E p \in PageKey : ForcePage(t, p) \/ DiscardPage(t, p)
    BY <1>0, <2>7 DEF ForcePage, DiscardPage, LoopStep, QuietStep, logvars, histvars
  <2>. QED
    BY <1>1, <2>1, <2>2, <2>3, <2>4, <2>5, <2>6, <2>7 DEF Transact, TxnStep
<1>2. CASE UNCHANGED <<logvars, txnvars, histvars>>
  BY <1>0, <1>2 DEF QuietStep, logvars, txnvars, histvars
<1>. QED
  BY <1>1, <1>2
     DEF Next, StartCheckpoint, CheckpointFlush, ReplayRecord, FinishOpen, Idle, vars

\* What the log and the history say of each other.
LogParts == OneSessionInLog /\ OwnUpdates /\ OwnCommits /\ UpdatesOfCommits /\ FlushedCommits

\* A flushed Commit record stays what it is while transactions go on.
LEMMA QuietKeepsLog ==
    ASSUME LogInv, QuietStep
    PROVE  LogParts'
<1>0. /\ UNCHANGED <<log, commits, session, next_txn_id>>
      /\ stable \in Nat /\ stable' \in Nat /\ stable' >= stable
      /\ \A k \in 1..Len(commits) : commits[k].pos \in Nat
      /\ WP!DurabilityInv /\ OneSessionInLog /\ OwnUpdates /\ OwnCommits /\ UpdatesOfCommits
      /\ FlushedCommits
  BY LogTyped, CommitsTyped DEF QuietStep, LogInv, BaseInv
<1>1. OneSessionInLog'
  BY <1>0 DEF OneSessionInLog, LogOfSession, RecordOf, IsUpdate, IsCommit
<1>2. OwnUpdates'
  BY <1>0 DEF OwnUpdates, IsUpdate, Tag, QuietStep
<1>3. OwnCommits'
  BY <1>0 DEF OwnCommits, Tag, QuietStep
<1>4. UpdatesOfCommits'
  BY <1>0 DEF UpdatesOfCommits, IsUpdate
<1>5. FlushedCommits'
  <2>1. ASSUME NEW t \in Txn, phase'[t] = "flushing"
        PROVE  \E k \in 1..Len(commits) : commits[k].txn = Tag(t) /\ commits[k].pos = target'[t]
    BY <1>0, <2>1 DEF QuietStep, FlushedCommits
  <2>2. ASSUME NEW t \in Txn, phase[t] = "forcing"
        PROVE  \E k \in 1..Len(commits) : commits[k].txn = Tag(t) /\ commits[k].pos <= stable'
    BY <1>0, <2>2 DEF FlushedCommits
  <2>3. ASSUME NEW t \in Txn, phase[t] = "flushing", pc[t] = "flushed"
        PROVE  \E k \in 1..Len(commits) : commits[k].txn = Tag(t) /\ commits[k].pos <= stable'
    <3>1. target[t] \in Nat /\ durable_lsn \in Nat /\ target[t] <= durable_lsn /\ durable_lsn <= stable
      BY <1>0, <2>3 DEF WP!DurabilityInv, WP!TypeOK, WP!ClaimsAreStable
    <3>. QED  BY <1>0, <2>3, <3>1 DEF FlushedCommits, QuietStep
  <2>4. ASSUME NEW t \in Txn, phase'[t] = "forcing"
        PROVE  \E k \in 1..Len(commits) : commits[k].txn = Tag(t) /\ commits[k].pos <= stable'
    BY <2>2, <2>3, <2>4 DEF QuietStep
  <2>. QED  BY <1>0, <2>1, <2>4 DEF FlushedCommits, Tag
<1>. QED  BY <1>1, <1>2, <1>3, <1>4, <1>5 DEF LogParts

\* The session whose records are in the log is the running one once a
\* transaction has begun.
LEMMA RunningSession ==
    ASSUME LogInv, next_txn_id > 1
    PROVE  LogOfSession(session)
  BY DEF LogInv, OneSessionInLog, LogOfSession

\* A record that is no Commit is appended: an Update record has the image
\* that its transaction left in the pool.
LEMMA RecordKeepsLog ==
    ASSUME LogInv, NEW t \in Txn, NEW b, WAL!AppendRecord(t, b), b.type # "commit",
           b.type = "update" => b.page \in dirtied[t] /\ b.image = Tag(t) /\ phase[t] = "logging",
           \A i \in 1..Len(log) : RecordOf(session, i),
           UNCHANGED <<commits, session, dirtied>>,
           \A u \in Txn : /\ phase[u] \notin {"none", "active"} => phase'[u] \notin {"none", "active"}
                          /\ phase'[u] = "flushing" => phase[u] = "flushing" /\ u # t
                          /\ phase'[u] = "forcing" => phase[u] = "forcing"
    PROVE  LogParts'
<1>0. /\ OwnUpdates /\ OwnCommits /\ UpdatesOfCommits /\ FlushedCommits
      /\ Len(log) \in Nat /\ Len(commits) \in Nat /\ target \in [Txn -> Nat]
      /\ session \in 1..MaxSessions /\ MaxSessions \in Nat
  BY LogTyped, CommitsTyped, Constants DEF LogInv, BaseInv, HistoryOK, WP!DurabilityInv, WP!TypeOK
<1>1. /\ Len(log') = Len(log) + 1 /\ (\A i \in 1..Len(log) : log'[i] = log[i])
      /\ log'[Len(log) + 1] = [lsn |-> next_lsn, txn |-> t, body |-> b, torn |-> FALSE]
  BY LogAppended DEF LogInv, BaseInv
<1>2. log'[Len(log) + 1].txn = t /\ log'[Len(log) + 1].body = b
  BY <1>1
<1>3. UNCHANGED stable /\ target' = [target EXCEPT ![t] = next_lsn]
  BY DEF WAL!AppendRecord
<1>4. \A i : /\ IsUpdate(i)' <=> IsUpdate(i) \/ (i = Len(log) + 1 /\ b.type = "update")
             /\ IsCommit(i)' <=> IsCommit(i)
  BY <1>0, <1>1, <1>2 DEF IsUpdate, IsCommit
<1>5. \A i \in 1..Len(log') : i \in 1..Len(log) \/ i = Len(log) + 1
  BY <1>0, <1>1
<1>6. OneSessionInLog'
  <2>1. ASSUME NEW i \in 1..Len(log')
        PROVE  RecordOf(session, i)'
    <3>1. CASE i \in 1..Len(log)
      <4>1. RecordOf(session, i)
        BY <3>1
      <4>. QED  BY <1>0, <1>1, <1>4, <3>1, <4>1 DEF RecordOf
    <3>2. CASE i = Len(log) + 1
      BY <1>0, <1>2, <1>4, <3>2 DEF RecordOf, Tag, IsCommit, IsUpdate
    <3>. QED  BY <1>5, <3>1, <3>2
  <2>2. LogOfSession(session)'
    BY <1>0, <2>1 DEF LogOfSession
  <2>. QED  BY <1>0, <2>2 DEF OneSessionInLog
<1>7. OwnUpdates'
  <2> SUFFICES ASSUME NEW i \in 1..Len(log'), NEW u \in Txn, IsUpdate(i)', log'[i].body.image = Tag(u)
               PROVE  log'[i].body.page \in dirtied[u] /\ phase'[u] \notin {"none", "active"}
    BY DEF OwnUpdates, Tag
  <2>1. CASE i \in 1..Len(log)
    BY <1>0, <1>1, <1>4, <2>1 DEF OwnUpdates
  <2>2. CASE i = Len(log) + 1
    <3>1. b.type = "update" /\ log'[i].body = b
      BY <1>0, <1>2, <1>4, <2>2 DEF IsUpdate
    <3>2. u = t
      BY <3>1 DEF Tag
    <3>. QED  BY <3>1, <3>2
  <2>. QED  BY <1>5, <2>1, <2>2
<1>8. OwnCommits'
  BY <1>0 DEF OwnCommits, Tag
<1>9. UpdatesOfCommits'
  <2> SUFFICES ASSUME NEW i \in 1..Len(log'), NEW k \in 1..Len(commits), IsUpdate(i)',
                      commits[k].txn = log'[i].body.image
               PROVE  log'[i].body.page \in commits[k].pages
    BY DEF UpdatesOfCommits
  <2>1. CASE i \in 1..Len(log)
    BY <1>0, <1>1, <1>4, <2>1 DEF UpdatesOfCommits
  <2>2. CASE i = Len(log) + 1
    <3>1. b.type = "update" /\ log'[i].body = b
      BY <1>0, <1>2, <1>4, <2>2 DEF IsUpdate
    <3>. QED  BY <1>0, <3>1 DEF OwnCommits
  <2>. QED  BY <1>5, <2>1, <2>2
<1>10. FlushedCommits'
  BY <1>0, <1>3 DEF FlushedCommits, Tag
<1>. QED  BY <1>6, <1>7, <1>8, <1>9, <1>10 DEF LogParts

\* A Commit record and the entry of the history are appended together.
LEMMA CommitKeepsLog ==
    ASSUME LogInv, NEW t \in Txn, LogCommit(t), next_txn_id > 1
    PROVE  LogParts'
<1>0. /\ OwnUpdates /\ OwnCommits /\ UpdatesOfCommits /\ FlushedCommits
      /\ LogOfSession(session) /\ WP!OrderInv
      /\ Len(log) \in Nat /\ Len(commits) \in Nat /\ target \in [Txn -> Nat]
      /\ next_lsn = Len(log) + 1 /\ stable \in Nat /\ phase \in [Txn -> Phase]
      /\ session \in 1..MaxSessions /\ MaxSessions \in Nat
  BY LogTyped, CommitsTyped, Constants, RunningSession
     DEF LogInv, BaseInv, TypeOK, HistoryOK, WP!DurabilityInv, WP!TypeOK, WP!FileIsDense
<1>1. /\ Len(log') = Len(log) + 1 /\ (\A i \in 1..Len(log) : log'[i] = log[i])
      /\ log'[Len(log) + 1] = [lsn |-> next_lsn, txn |-> t, body |-> CommitBody, torn |-> FALSE]
  BY <1>0, LogAppended DEF LogCommit
<1>2. log'[Len(log) + 1].txn = t /\ log'[Len(log) + 1].body.type = "commit"
  BY <1>1 DEF CommitBody
<1>3. /\ UNCHANGED <<stable, session, dirtied, next_txn_id>> /\ phase[t] = "logging"
      /\ target' = [target EXCEPT ![t] = next_lsn]
      /\ phase' = [phase EXCEPT ![t] = "flushing"]
  BY DEF LogCommit, LoopDone, WAL!AppendRecord
<1>4. \A i : /\ IsUpdate(i)' <=> IsUpdate(i)
             /\ IsCommit(i)' <=> IsCommit(i) \/ i = Len(log) + 1
  BY <1>0, <1>1, <1>2 DEF IsUpdate, IsCommit
<1>5. \A i \in 1..Len(log') : i \in 1..Len(log) \/ i = Len(log) + 1
  BY <1>0, <1>1
<1> DEFINE m == Len(commits) + 1
<1>6. /\ Len(commits') = m /\ (\A k \in 1..Len(commits) : commits'[k] = commits[k])
      /\ commits'[m].txn = Tag(t) /\ commits'[m].pages = dirtied[t] /\ commits'[m].pos = Len(log) + 1
  <2>1. /\ Len(commits') = m /\ (\A k \in 1..Len(commits) : commits'[k] = commits[k])
        /\ commits'[m] = [txn |-> Tag(t), pages |-> dirtied[t], pos |-> Len(log) + 1]
    BY CommitAppended DEF LogInv, BaseInv
  <2>. QED  BY <2>1
<1>7. m \in 1..Len(commits') /\ \A k \in 1..Len(commits') : k \in 1..Len(commits) \/ k = m
  BY <1>0, <1>6
<1>8. \A k \in 1..Len(commits) : k \in 1..Len(commits')
  BY <1>0, <1>6
<1> HIDE DEF m
<1>9. OneSessionInLog'
  <2>1. ASSUME NEW i \in 1..Len(log')
        PROVE  RecordOf(session, i)'
    <3>1. CASE i \in 1..Len(log)
      <4>1. RecordOf(session, i)
        BY <1>0, <3>1 DEF LogOfSession
      <4>2. ~(i = Len(log) + 1)
        BY <1>0, <3>1
      <4>. QED  BY <1>0, <1>1, <1>3, <1>4, <1>6, <1>8, <3>1, <4>1, <4>2 DEF RecordOf
    <3>2. CASE i = Len(log) + 1
      <4>1. ~IsUpdate(i)
        BY <1>0, <3>2 DEF IsUpdate
      <4>2. commits'[m].pos = i /\ commits'[m].txn = <<session', log'[i].txn>>
        BY <1>2, <1>3, <1>6, <3>2 DEF Tag
      <4>. QED  BY <1>4, <1>7, <4>1, <4>2 DEF RecordOf
    <3>. QED  BY <1>5, <3>1, <3>2
  <2>2. LogOfSession(session)'
    BY <1>0, <1>3, <2>1 DEF LogOfSession
  <2>. QED  BY <1>0, <1>3, <2>2 DEF OneSessionInLog
<1>10. OwnUpdates'
  BY <1>0, <1>1, <1>3, <1>4 DEF OwnUpdates, Tag, IsUpdate
<1>11. OwnCommits'
  <2>1. \A k \in 1..Len(commits') : commits'[k].txn[1] <= session'
    BY <1>0, <1>3, <1>6, <1>7 DEF OwnCommits, Tag
  <2>2. ASSUME NEW k \in 1..Len(commits'), NEW u \in Txn, commits'[k].txn = Tag(u)
        PROVE  commits'[k].pages = dirtied[u] /\ phase'[u] \notin {"none", "active"}
    <3>1. CASE k \in 1..Len(commits)
      BY <1>0, <1>3, <1>6, <2>2, <3>1 DEF OwnCommits
    <3>2. CASE k = m
      <4>1. u = t
        BY <1>6, <2>2, <3>2 DEF Tag
      <4>. QED  BY <1>0, <1>3, <1>6, <3>2, <4>1
    <3>. QED  BY <1>7, <3>1, <3>2
  <2>. QED  BY <1>3, <2>1, <2>2 DEF OwnCommits, Tag
<1>12. UpdatesOfCommits'
  <2> SUFFICES ASSUME NEW i \in 1..Len(log'), NEW k \in 1..Len(commits'), IsUpdate(i)',
                      commits'[k].txn = log'[i].body.image
               PROVE  log'[i].body.page \in commits'[k].pages
    BY DEF UpdatesOfCommits
  <2>1. IsUpdate(i) /\ i \in 1..Len(log) /\ log'[i] = log[i]
    BY <1>1, <1>4 DEF IsUpdate
  <2>2. CASE k \in 1..Len(commits)
    BY <1>0, <1>6, <2>1, <2>2 DEF UpdatesOfCommits
  <2>3. CASE k = m
    BY <1>0, <1>6, <2>1, <2>3 DEF OwnUpdates
  <2>. QED  BY <1>7, <2>2, <2>3
<1>13. FlushedCommits'
  <2>1. ASSUME NEW u \in Txn, phase'[u] = "flushing"
        PROVE  \E k \in 1..Len(commits') : commits'[k].txn = Tag(u) /\ commits'[k].pos = target'[u]
    <3>1. CASE u = t
      BY <1>0, <1>3, <1>6, <1>7, <3>1
    <3>2. CASE u # t
      BY <1>0, <1>3, <1>6, <1>8, <2>1, <3>2 DEF FlushedCommits
    <3>. QED  BY <3>1, <3>2
  <2>2. ASSUME NEW u \in Txn, phase'[u] = "forcing"
        PROVE  \E k \in 1..Len(commits') : commits'[k].txn = Tag(u) /\ commits'[k].pos <= stable'
    BY <1>0, <1>3, <1>6, <1>8, <2>2 DEF FlushedCommits
  <2>. QED  BY <1>3, <2>1, <2>2 DEF FlushedCommits, Tag
<1>. QED  BY <1>9, <1>10, <1>11, <1>12, <1>13 DEF LogParts

\* A checkpoint finds no transaction at work, so what is left to show is
\* about the history only.
LEMMA TruncateKeepsLog ==
    ASSUME LogInv, TruncateWal
    PROVE  LogParts' /\ WP!DurabilityInv'
<1>0. /\ OwnCommits /\ CheckpointFirst /\ NothingFlushedYet /\ WP!DurabilityInv /\ HistoryOK /\ SessionOK
      /\ Txn = 1..Cardinality(Txn) /\ Cardinality(Txn) \in Nat
      /\ session \in 1..MaxSessions /\ MaxSessions \in Nat
      /\ phase \in [Txn -> Phase]
  BY Constants DEF LogInv, BaseInv, HistoryOK, TypeOK
<1>1. /\ log' = <<>> /\ stable' = 0 /\ next_lsn' = 1 /\ covers' = [t \in Txn |-> 0]
      /\ UNCHANGED <<durable_lsn, flush_in_progress, pc, target, to_cover>>
      /\ UNCHANGED <<session, dirtied, phase, next_txn_id>> /\ ckpt
  BY DEF TruncateWal, WAL!Checkpoint, txnvars
<1>2. Len(log') = 0 /\ log' \in Seq(WP!LogRecord)
  BY <1>1, EmptySeq
<1>3. /\ Len(commits') = Len(commits)
      /\ \A k \in 1..Len(commits) : /\ commits'[k].txn = commits[k].txn
                                    /\ commits'[k].pages = commits[k].pages
                                    /\ commits'[k].pos = 0
  BY <1>0, CommitsTruncated
<1>4. /\ next_txn_id = 1 /\ durable_lsn = 0
      /\ \A t \in Txn : phase[t] = "none" /\ pc[t] = "idle" /\ target[t] = 0
  BY <1>0, <1>1 DEF CheckpointFirst, NothingFlushedYet, SessionOK
<1>5. WP!DurabilityInv'
  BY <1>0, <1>1, <1>2, <1>4
     DEF WP!DurabilityInv, WP!TypeOK, WP!FileIsDense, WP!TargetsAreOwn, WP!ClaimsAreStable
<1>6. LogOfSession(session)'
  BY <1>0, <1>1, <1>2 DEF LogOfSession
<1>7. OneSessionInLog'
  BY <1>0, <1>1, <1>6 DEF OneSessionInLog
<1>8. OwnUpdates' /\ UpdatesOfCommits' /\ FlushedCommits'
  BY <1>1, <1>2, <1>4 DEF OwnUpdates, UpdatesOfCommits, FlushedCommits
<1>9. OwnCommits'
  BY <1>0, <1>1, <1>3 DEF OwnCommits, Tag
<1>. QED  BY <1>5, <1>7, <1>8, <1>9 DEF LogParts

\* What a restart finds: a prefix of the log, and the commits of that prefix.
LEMMA CrashSteps ==
    ASSUME BaseInv, ProcessCrash \/ PowerLoss
    PROVE  \E n \in 0..Len(log), m \in 0..Len(commits) :
              /\ Len(log') = n /\ \A i \in 1..n : log'[i] = log[i]
              /\ Len(commits') = m /\ \A k \in 1..m : commits'[k] = commits[k]
              /\ \A k \in 1..Len(commits) : commits[k].pos <= n <=> k <= m
              /\ session' = session + 1 /\ next_txn_id' = 1
              /\ \A t \in Txn : phase'[t] = "none" /\ dirtied'[t] = {}
              /\ n >= stable
              /\ ProcessCrash => n = Len(log) /\ log' = log /\ stable' = stable
              /\ PowerLoss => stable' = n
<1>0. HistoryOK /\ Intact /\ WP!OrderInv /\ Len(log) \in Nat /\ stable \in Nat
  BY LogTyped DEF BaseInv
<1>1. WAL!ProcessCrash \/ WAL!PowerLoss
  BY DEF ProcessCrash, PowerLoss
<1>2. PICK n \in stable..Len(log) :
         /\ n \in 0..Len(log) /\ Len(log') = n /\ \A i \in 1..n : log'[i] = log[i]
         /\ WAL!ProcessCrash => n = Len(log) /\ log' = log /\ stable' = stable
         /\ WAL!PowerLoss => stable' = n
  BY <1>0, <1>1, LogAfterCrash
<1>3. Restart(n)
  BY <1>2 DEF ProcessCrash, PowerLoss
<1> DEFINE m == CommitsUpTo(n)
<1>4. n \in Nat
  BY <1>0
<1>5. /\ commits' = SubSeq(commits, 1, m)
      /\ session' = session + 1 /\ next_txn_id' = 1
      /\ \A t \in Txn : phase'[t] = "none" /\ dirtied'[t] = {}
  BY <1>3 DEF Restart
<1>6. /\ m \in 0..Len(commits) /\ Len(commits') = m /\ \A k \in 1..m : commits'[k] = commits[k]
      /\ \A k \in 1..Len(commits) : commits[k].pos <= n <=> k <= m
  BY <1>0, <1>4, <1>5, CommitsKept
<1> HIDE DEF m
<1>7. n >= stable
  BY <1>0
<1>8. /\ ProcessCrash => WAL!ProcessCrash
      /\ PowerLoss => WAL!PowerLoss
  BY DEF ProcessCrash, PowerLoss
<1>. QED  BY <1>2, <1>5, <1>6, <1>7, <1>8

\* A restart begins a session none of whose transactions is in the log.
LEMMA CrashKeepsLog ==
    ASSUME LogInv, ProcessCrash \/ PowerLoss
    PROVE  LogParts'
<1>0. /\ OwnUpdates /\ OwnCommits /\ UpdatesOfCommits
      /\ Len(log) \in Nat /\ Len(commits) \in Nat
      /\ \A k \in 1..Len(commits) : commits[k].txn \in Tags
      /\ session \in 1..MaxSessions /\ MaxSessions \in Nat
  BY LogTyped, CommitsTyped, Constants DEF LogInv, BaseInv, HistoryOK
<1>1. PICK n \in 0..Len(log), m \in 0..Len(commits) :
              /\ Len(log') = n /\ \A i \in 1..n : log'[i] = log[i]
              /\ Len(commits') = m /\ \A k \in 1..m : commits'[k] = commits[k]
              /\ \A k \in 1..Len(commits) : commits[k].pos <= n <=> k <= m
              /\ session' = session + 1 /\ next_txn_id' = 1
              /\ \A t \in Txn : phase'[t] = "none" /\ dirtied'[t] = {}
  BY CrashSteps DEF LogInv
<1>2. PICK s \in 1..MaxSessions : LogOfSession(s)
  BY DEF LogInv, OneSessionInLog
<1>3. /\ \A i \in 1..n : i \in 1..Len(log)
      /\ \A k \in 1..m : k \in 1..Len(commits)
      /\ session' \in Nat /\ session < session'
  BY <1>0, <1>1
<1>4. \A i : (IsUpdate(i)' => IsUpdate(i)) /\ (IsCommit(i)' => IsCommit(i))
  BY <1>1, <1>3 DEF IsUpdate, IsCommit
<1>5. s \in 1..session /\ \A i \in 1..Len(log) : RecordOf(s, i)
  BY <1>2 DEF LogOfSession
<1>6. OneSessionInLog'
  <2>1. ASSUME NEW i \in 1..n PROVE RecordOf(s, i)'
    <3>1. RecordOf(s, i) /\ log'[i] = log[i]
      BY <1>1, <1>3, <1>5
    <3>2. ASSUME IsCommit(i)
          PROVE  \E k \in 1..m : commits'[k].pos = i /\ commits'[k].txn = <<s, log[i].txn>>
      <4>1. PICK k \in 1..Len(commits) : commits[k].pos = i /\ commits[k].txn = <<s, log[i].txn>>
        BY <3>1, <3>2 DEF RecordOf
      <4>2. k \in 1..m
        BY <1>0, <1>1, <4>1
      <4>. QED  BY <1>1, <4>1, <4>2
    <3>. QED  BY <1>1, <1>4, <3>1, <3>2 DEF RecordOf
  <2>2. s \in 1..session'
    BY <1>0, <1>3, <1>5
  <2>3. LogOfSession(s)'
    BY <1>1, <2>1, <2>2 DEF LogOfSession
  <2>. QED  BY <2>3 DEF OneSessionInLog
<1>7. OwnUpdates'
  <2> SUFFICES ASSUME NEW i \in 1..n, NEW t \in Txn, IsUpdate(i)', log'[i].body.image = <<session', t>>
               PROVE  FALSE
    BY <1>1 DEF OwnUpdates, Tag
  <2>1. RecordOf(s, i) /\ log'[i] = log[i] /\ IsUpdate(i)
    BY <1>1, <1>3, <1>4, <1>5
  <2>2. session' = s
    BY <2>1 DEF RecordOf
  <2>. QED  BY <1>0, <1>3, <1>5, <2>2
<1>8. \A k \in 1..m, t \in Txn : commits'[k].txn # <<session', t>>
  <2> SUFFICES ASSUME NEW k \in 1..m, NEW t \in Txn, commits'[k].txn = <<session', t>>
               PROVE  FALSE
    OBVIOUS
  <2>1. commits'[k] = commits[k] /\ commits[k].txn[1] <= session
    BY <1>0, <1>1, <1>3 DEF OwnCommits
  <2>. QED  BY <1>0, <1>3, <2>1
<1>9. OwnCommits'
  <2>1. \A k \in 1..m : commits'[k].txn[1] <= session'
    <3> SUFFICES ASSUME NEW k \in 1..m PROVE commits'[k].txn[1] <= session'
      OBVIOUS
    <3>1. commits'[k] = commits[k] /\ commits[k].txn[1] <= session /\ commits[k].txn[1] \in Nat
      BY <1>0, <1>1, <1>3 DEF OwnCommits, Tags
    <3>. QED  BY <1>0, <1>3, <3>1
  <2>. QED  BY <1>1, <1>8, <2>1 DEF OwnCommits, Tag
<1>10. UpdatesOfCommits'
  BY <1>0, <1>1, <1>3, <1>4 DEF UpdatesOfCommits
<1>11. FlushedCommits'
  BY <1>1 DEF FlushedCommits
<1>. QED  BY <1>6, <1>7, <1>9, <1>10, <1>11 DEF LogParts

\* A transaction that is not in phase none belongs to a session that has
\* begun one.
LEMMA BusySession ==
    ASSUME BaseInv, NEW t \in Txn, phase[t] # "none"
    PROVE  next_txn_id > 1
  BY Constants DEF BaseInv, SessionOK, TypeOK

\* A step before the first transaction of the session leaves the log's
\* memory alone, unless it begins that transaction or restarts.
LEMMA QuietSession ==
    ASSUME BaseInv, OneSessionPerLog, CheckpointFirst, NothingFlushedYet, [Next]_vars
    PROVE  CheckpointFirst' /\ NothingFlushedYet'
<1>0. /\ Txn = 1..Cardinality(Txn) /\ Cardinality(Txn) \in Nat
      /\ next_txn_id \in 1..Cardinality(Txn) + 1 /\ phase \in [Txn -> Phase]
  BY Constants DEF BaseInv, TypeOK
<1>1. ASSUME NEW t \in Txn, Transact(t)
      PROVE  CheckpointFirst' /\ NothingFlushedYet'
  <2>0. /\ UNCHANGED <<mode, ckpt>>
        /\ phase[t] = "none" => MayBegin
    BY <1>1 DEF Transact, dbvars
  <2>1. CASE Begin(t)
    <3>1. t = next_txn_id /\ next_txn_id' = next_txn_id + 1 /\ phase[t] = "none"
      BY <2>1 DEF Begin, BaseInv, SessionOK, TypeOK
    <3>2. ~ckpt
      BY <2>0, <3>1 DEF CheckpointFirst, MayBegin
    <3>. QED  BY <1>0, <2>0, <3>1, <3>2 DEF CheckpointFirst, NothingFlushedYet
  <2>2. CASE phase[t] # "none" /\ UNCHANGED next_txn_id
    BY <1>0, <2>0, <2>2, BusySession DEF CheckpointFirst, NothingFlushedYet
  <2>3. CASE RecheckLock(t)
    BY <2>0, <2>3 DEF RecheckLock, CheckpointFirst, NothingFlushedYet, logvars, txnvars
  <2>4. Begin(t) \/ RecheckLock(t) \/ (phase[t] # "none" /\ UNCHANGED next_txn_id)
    BY <1>1 DEF Transact, TxnStep, AcquireLock, WritePage, Commit, LogUpdate, LogCommit, FlushStep,
        StartForce, ForcePage, FinishCommit, Abort, DiscardPage, LogAbort, FinishAbort, FsyncFails,
        CommitThrows, StartLoop, LoopStep, LoopDone, txnvars
  <2>. QED  BY <2>1, <2>2, <2>3, <2>4
<1>2. ASSUME ProcessCrash \/ PowerLoss
      PROVE  CheckpointFirst' /\ NothingFlushedYet'
  <2>1. /\ durable_lsn' = 0 /\ pc' = [t \in Txn |-> "idle"] /\ target' = [t \in Txn |-> 0]
    BY <1>2 DEF ProcessCrash, PowerLoss, WAL!ProcessCrash, WAL!PowerLoss, WAL!Reopen
  <2>2. ckpt' = FALSE
    BY <1>2 DEF ProcessCrash, PowerLoss, Restart
  <2>. QED  BY <2>1, <2>2 DEF CheckpointFirst, NothingFlushedYet
<1>3. ASSUME TruncateWal
      PROVE  CheckpointFirst' /\ NothingFlushedYet'
  BY <1>3 DEF TruncateWal, WAL!Checkpoint, CheckpointFirst, NothingFlushedYet, txnvars
<1>4. ASSUME StartCheckpoint
      PROVE  CheckpointFirst' /\ NothingFlushedYet'
  <2>1. CheckpointWhen = "first"
    BY <1>4, DatabaseAssumption DEF StartCheckpoint, OneSessionPerLog, DatabaseAssumption
  <2>. QED
    BY <1>4, <2>1 DEF StartCheckpoint, CheckpointFirst, NothingFlushedYet, logvars, txnvars
<1>5. ASSUME FinishOpen
      PROVE  CheckpointFirst' /\ NothingFlushedYet'
  BY <1>5 DEF FinishOpen, CheckpointFirst, NothingFlushedYet, logvars, txnvars
<1>6. ASSUME UNCHANGED <<logvars, txnvars, mode, ckpt>>
      PROVE  CheckpointFirst' /\ NothingFlushedYet'
  BY <1>6 DEF CheckpointFirst, NothingFlushedYet, logvars, txnvars
<1>. QED
  BY <1>1, <1>2, <1>3, <1>4, <1>5, <1>6
     DEF Next, CheckpointFlush, ReplayRecord, Idle, vars, dbvars

\* The log is appended to by a transaction of the running session.
LEMMA AppendKeepsLog ==
    ASSUME LogInv, OneSessionPerLog, NEW t \in Txn,
           \/ Begin(t) /\ MayBegin
           \/ \E p \in PageKey : LogUpdate(t, p)
           \/ LogCommit(t) \/ LogAbort(t)
    PROVE  LogParts'
<1>0. /\ phase \in [Txn -> Phase] /\ Len(log) \in Nat /\ BaseInv
      /\ session \in 1..MaxSessions /\ MaxSessions \in Nat /\ WorkSessions \in Nat
      /\ next_txn_id \in 1..Cardinality(Txn) + 1 /\ Cardinality(Txn) \in Nat
  BY LogTyped, Constants DEF LogInv, BaseInv, TypeOK, HistoryOK
<1>1. ASSUME next_txn_id > 1
      PROVE  \A i \in 1..Len(log) : RecordOf(session, i)
  BY <1>1, RunningSession DEF LogOfSession
<1>2. ASSUME Begin(t), MayBegin
      PROVE  LogParts'
  <2>1. /\ phase[t] = "none" /\ phase' = [phase EXCEPT ![t] = "active"]
        /\ WAL!AppendRecord(t, BeginBody)
        /\ UNCHANGED <<commits, session, dirtied>>
    BY <1>2 DEF Begin, histvars, BaseInv, LogInv, SessionOK, TypeOK
  <2>2. \A i \in 1..Len(log) : RecordOf(session, i)
    <3>1. CASE next_txn_id > 1
      BY <1>1, <3>1
    <3>2. CASE next_txn_id = 1 /\ CheckpointWhen = "first"
      <4>1. Len(log) = 0
        BY <1>2, <3>2, EmptySeq DEF MayBegin
      <4>. QED  BY <4>1
    <3>3. CASE CheckpointWhen = "never"
      <4>1. session = 1
        BY <1>0, <1>2, <3>3 DEF MayBegin, OneSessionPerLog
      <4>2. PICK s \in 1..MaxSessions : LogOfSession(s)
        BY DEF LogInv, OneSessionInLog
      <4>3. s = session
        BY <4>1, <4>2 DEF LogOfSession
      <4>. QED  BY <4>2, <4>3 DEF LogOfSession
    <3>. QED
      BY <1>0, <3>1, <3>2, <3>3, DatabaseAssumption DEF OneSessionPerLog, DatabaseAssumption
  <2>3. BeginBody.type # "commit" /\ BeginBody.type # "update"
    BY DEF BeginBody
  <2>4. \A u \in Txn : /\ phase[u] \notin {"none", "active"} => phase'[u] \notin {"none", "active"}
                       /\ phase'[u] = "flushing" => phase[u] = "flushing" /\ u # t
                       /\ phase'[u] = "forcing" => phase[u] = "forcing"
    BY <1>0, <2>1
  <2>. QED  BY <2>1, <2>2, <2>3, <2>4, RecordKeepsLog
<1>3. ASSUME NEW p \in PageKey, LogUpdate(t, p)
      PROVE  LogParts'
  <2>1. /\ phase[t] = "logging" /\ p \in todo[t] /\ WAL!AppendRecord(t, UpdateBody(p, pool[p]))
        /\ UNCHANGED <<phase, commits, session, dirtied>>
    BY <1>3 DEF LogUpdate, LoopStep, histvars
  <2>2. p \in dirtied[t] /\ pool[p] = Tag(t)
    BY <2>1 DEF LogInv, BaseInv, TypeOK, PoolKeepsWrites
  <2>3. \A i \in 1..Len(log) : RecordOf(session, i)
    BY <1>0, <1>1, <2>1, BusySession
  <2>4. /\ UpdateBody(p, pool[p]).type = "update" /\ UpdateBody(p, pool[p]).page = p
        /\ UpdateBody(p, pool[p]).image = pool[p]
    BY DEF UpdateBody
  <2>5. \A u \in Txn : /\ phase[u] \notin {"none", "active"} => phase'[u] \notin {"none", "active"}
                       /\ phase'[u] = "flushing" => phase[u] = "flushing" /\ u # t
                       /\ phase'[u] = "forcing" => phase[u] = "forcing"
    BY <2>1
  <2>. QED  BY <2>1, <2>2, <2>3, <2>4, <2>5, RecordKeepsLog
<1>4. ASSUME LogAbort(t)
      PROVE  LogParts'
  <2>1. /\ phase[t] = "discarding" /\ phase' = [phase EXCEPT ![t] = "aborting"]
        /\ WAL!AppendRecord(t, AbortBody)
        /\ UNCHANGED <<commits, session, dirtied>>
    BY <1>4 DEF LogAbort, LoopDone, histvars
  <2>2. \A i \in 1..Len(log) : RecordOf(session, i)
    BY <1>0, <1>1, <2>1, BusySession
  <2>3. AbortBody.type # "commit" /\ AbortBody.type # "update"
    BY DEF AbortBody
  <2>4. \A u \in Txn : /\ phase[u] \notin {"none", "active"} => phase'[u] \notin {"none", "active"}
                       /\ phase'[u] = "flushing" => phase[u] = "flushing" /\ u # t
                       /\ phase'[u] = "forcing" => phase[u] = "forcing"
    BY <1>0, <2>1
  <2>. QED  BY <2>1, <2>2, <2>3, <2>4, RecordKeepsLog
<1>5. ASSUME LogCommit(t)
      PROVE  LogParts'
  <2>1. phase[t] = "logging"
    BY <1>5 DEF LogCommit
  <2>. QED  BY <1>0, <1>5, <2>1, BusySession, CommitKeepsLog
<1>. QED  BY <1>2, <1>3, <1>4, <1>5

\* Every step preserves it.
LEMMA LogInductive ==
    ASSUME OneSessionPerLog, LogInv, [Next]_vars
    PROVE  LogInv'
<1>0. BaseInv /\ CheckpointFirst /\ NothingFlushedYet /\ WP!DurabilityInv
  BY DEF LogInv
<1>1. BaseInv'
  BY <1>0, BaseInductive
<1>2. CheckpointFirst' /\ NothingFlushedYet'
  BY <1>0, QuietSession
<1>3. WP!DurabilityInv'
  <2>1. CASE [WP!Next]_logvars
    <3>1. WP!NoFaults
      BY DEF WP!NoFaults
    <3>. QED  BY <1>0, <2>1, <3>1, Constants, WP!DurabilityInductive DEF logvars, WP!logvars
  <2>2. CASE TruncateWal
    BY <2>2, TruncateKeepsLog
  <2>. QED  BY <1>0, <2>1, <2>2, LogSteps DEF BaseInv
<1>4. LogParts'
  BY <1>0, QuietSteps, QuietKeepsLog, AppendKeepsLog, TruncateKeepsLog, CrashKeepsLog
<1>. QED  BY <1>1, <1>2, <1>3, <1>4 DEF LogInv, LogParts

\* It holds initially.
LEMMA LogInitially == Init => LogInv
<1> SUFFICES ASSUME Init PROVE LogInv
  OBVIOUS
<1>1. BaseInv
  BY BaseInitially
<1>2. WP!DurabilityInv
  BY SameLog, Constants, WP!DurabilityInitially DEF Init
<1>3. Len(log) = 0 /\ Len(commits) = 0
  BY EmptySeq DEF Init, WAL!Init
<1>4. OneSessionInLog
  <2>1. LogOfSession(1)
    BY <1>3 DEF LogOfSession, Init, TxnInit
  <2>. QED  BY <2>1, Constants DEF OneSessionInLog
<1>5. OwnUpdates /\ OwnCommits /\ UpdatesOfCommits
  BY <1>3 DEF OwnUpdates, OwnCommits, UpdatesOfCommits
<1>6. FlushedCommits /\ CheckpointFirst /\ NothingFlushedYet
  BY DEF FlushedCommits, CheckpointFirst, NothingFlushedYet, Init, TxnInit, WAL!Init
<1>. QED  BY <1>1, <1>2, <1>4, <1>5, <1>6 DEF LogInv
-----------------------------------------------------------------------------
\* What recovery reads after a power loss is what survived it.
RecoveryIsStable == mode = "recovering" => stable = Len(log)

\* WriteAhead, with the pages of the commit.
SurvivorsAreCommitted ==
    \A p \in PageKey : \A i \in survivors[p] \ {Blank} :
        \E k \in 1..Len(commits) : /\ commits[k].txn = i /\ commits[k].pos <= stable
                                   /\ p \in commits[k].pages

WriteAheadInv == LogInv /\ RecoveryIsStable /\ SurvivorsAreCommitted

\* What recovery redoes is an image of a commit whose record is in the log.
LEMMA ReplayedIsCommitted ==
    ASSUME LogInv, NEW i \in 1..Len(log), IsReplayed(log, i)
    PROVE  /\ log[i].body.page \in PageKey /\ log[i].body.image \in Image
           /\ \E k \in 1..Len(commits) :
                 /\ commits[k].txn = log[i].body.image /\ commits[k].pos \in 1..Len(log)
                 /\ log[i].body.page \in commits[k].pages
<1>0. Len(log) \in Nat /\ UpdatesOfCommits
  BY LogTyped DEF LogInv, BaseInv
<1>1. PICK s \in 1..MaxSessions : LogOfSession(s)
  BY DEF LogInv, OneSessionInLog
<1>2. IsUpdate(i) /\ log[i].txn \in CommittedIds(log)
  BY DEF IsReplayed, IsUpdate
<1>3. PICK j \in 1..Len(log) : log[j].body.type = "commit" /\ log[j].txn = log[i].txn
  BY <1>2 DEF CommittedIds
<1>4. PICK k \in 1..Len(commits) : commits[k].pos = j /\ commits[k].txn = <<s, log[j].txn>>
  BY <1>1, <1>3 DEF LogOfSession, RecordOf, IsCommit
<1>5. log[i].body.image = <<s, log[i].txn>>
  BY <1>1, <1>2 DEF LogOfSession, RecordOf
<1>6. log[i].body.page \in commits[k].pages
  BY <1>0, <1>2, <1>3, <1>4, <1>5 DEF UpdatesOfCommits
<1>7. log[i].body.page \in PageKey /\ log[i].body.image \in Image
  BY <1>2, LogTyped DEF IsUpdate, LogInv, BaseInv
<1>. QED  BY <1>3, <1>4, <1>5, <1>6, <1>7

\* An image that may be in a data file stays committed and stable.
LEMMA SurvivorsKept ==
    ASSUME WriteAheadInv, [Next]_vars, ~ProcessDies
    PROVE  SurvivorsAreCommitted'
<1>0. /\ LogInv /\ BaseInv /\ SurvivorsAreCommitted /\ RecoveryIsStable /\ WP!OrderInv
      /\ stable \in Nat /\ Len(log) \in Nat /\ Len(commits) \in Nat
      /\ \A k \in 1..Len(commits) : commits[k].pos \in Nat
      /\ survivors \in [PageKey -> SUBSET Image] /\ pool \in [PageKey -> Image]
      /\ todo \in [Txn -> SUBSET PageKey] /\ dirtied \in [Txn -> SUBSET PageKey]
  BY LogTyped, CommitsTyped DEF WriteAheadInv, LogInv, BaseInv, TypeOK
<1> DEFINE Committed(p, i) ==
              \E k \in 1..Len(commits) : /\ commits[k].txn = i /\ commits[k].pos <= stable
                                         /\ p \in commits[k].pages
<1>1. \A p \in PageKey : \A i \in survivors[p] \ {Blank} : Committed(p, i)
  BY <1>0 DEF SurvivorsAreCommitted
<1>2. ASSUME UNCHANGED <<log, commits>>, stable' \in Nat, stable' >= stable,
             \A p \in PageKey : \A i \in survivors'[p] \ {Blank} : i \in survivors[p] \/ Committed(p, i)
      PROVE  SurvivorsAreCommitted'
  <2> SUFFICES ASSUME NEW p \in PageKey, NEW i \in survivors'[p] \ {Blank}
               PROVE  \E k \in 1..Len(commits) : /\ commits[k].txn = i /\ commits[k].pos <= stable'
                                                 /\ p \in commits[k].pages
    BY <1>2 DEF SurvivorsAreCommitted
  <2>1. Committed(p, i)
    BY <1>1, <1>2
  <2>. QED  BY <1>0, <1>2, <2>1
<1>3. ASSUME NEW t \in Txn, NEW p \in PageKey, ForcePage(t, p)
      PROVE  SurvivorsAreCommitted'
  <2>1. /\ phase[t] = "forcing" /\ p \in todo[t] /\ UNCHANGED <<log, stable, commits>>
        /\ survivors' = survivors \/ survivors' = [survivors EXCEPT ![p] = @ \cup {pool[p]}]
    BY <1>3 DEF ForcePage, LoopStep, FlushPage, diskvars, logvars, histvars
  <2>2. p \in dirtied[t] /\ pool[p] = Tag(t)
    BY <1>0, <2>1 DEF BaseInv, TypeOK, PoolKeepsWrites
  <2>3. Committed(p, Tag(t))
    BY <1>0, <2>1, <2>2 DEF LogInv, FlushedCommits, OwnCommits
  <2> HIDE DEF Committed
  <2>4. \A q \in PageKey : \A i \in survivors'[q] \ {Blank} : i \in survivors[q] \/ Committed(q, i)
    BY <1>0, <2>1, <2>2, <2>3
  <2>5. stable' \in Nat /\ stable' >= stable
    BY <1>0, <2>1
  <2>. QED  BY <1>2, <2>1, <2>4, <2>5
<1>4. ASSUME ReplayRecord
      PROVE  SurvivorsAreCommitted'
  <2>1. /\ mode = "recovering" /\ redo <= Len(log) /\ redo \in Nat \ {0}
        /\ UNCHANGED <<log, stable, commits>>
        /\ \/ survivors' = survivors
           \/ /\ IsReplayed(log, redo)
              /\ survivors' = [survivors EXCEPT ![log[redo].body.page] = @ \cup {log[redo].body.image}]
    BY <1>0, <1>4 DEF ReplayRecord, diskvars, logvars, histvars, BaseInv, TypeOK
  <2>2. redo \in 1..Len(log) /\ stable = Len(log)
    BY <1>0, <2>1 DEF RecoveryIsStable
  <2> DEFINE pg == log[redo].body.page
             im == log[redo].body.image
  <2>3. IsReplayed(log, redo) => pg \in PageKey /\ Committed(pg, im)
    BY <1>0, <2>2, ReplayedIsCommitted
  <2>4. \/ survivors' = survivors
        \/ IsReplayed(log, redo) /\ survivors' = [survivors EXCEPT ![pg] = @ \cup {im}]
    BY <2>1
  <2> HIDE DEF Committed, pg, im
  <2>5. \A q \in PageKey : \A i \in survivors'[q] \ {Blank} : i \in survivors[q] \/ Committed(q, i)
    BY <1>0, <2>3, <2>4
  <2>6. stable' \in Nat /\ stable' >= stable
    BY <1>0, <2>1
  <2>. QED  BY <1>2, <2>1, <2>5, <2>6
<1>5. ASSUME NEW p \in PageKey, CheckpointFlush(p)
      PROVE  SurvivorsAreCommitted'
  <2>1. dirty = {}
    BY <1>0, <1>5 DEF CheckpointFlush, LogInv, CheckpointFirst, BaseInv, SessionOK
  <2>2. UNCHANGED <<log, stable, commits, survivors>>
    BY <1>5, <2>1 DEF CheckpointFlush, FlushPage, diskvars, logvars, histvars
  <2>. QED  BY <1>0, <1>2, <2>2
<1>6. ASSUME TruncateWal
      PROVE  SurvivorsAreCommitted'
  <2>1. /\ Len(commits') = Len(commits)
        /\ \A k \in 1..Len(commits) : /\ commits'[k].txn = commits[k].txn
                                      /\ commits'[k].pages = commits[k].pages
                                      /\ commits'[k].pos = 0
    BY <1>0, <1>6, CommitsTruncated DEF BaseInv
  <2>2. UNCHANGED survivors /\ stable' = 0
    BY <1>6 DEF TruncateWal, WAL!Checkpoint, diskvars
  <2>. QED  BY <1>0, <2>1, <2>2 DEF SurvivorsAreCommitted
<1>7. ASSUME PowerLoss
      PROVE  SurvivorsAreCommitted'
  <2>1. PICK n \in 0..Len(log), m \in 0..Len(commits) :
           /\ Len(commits') = m /\ \A k \in 1..m : commits'[k] = commits[k]
           /\ \A k \in 1..Len(commits) : commits[k].pos <= n <=> k <= m
           /\ n >= stable /\ stable' = n
    BY <1>0, <1>7, CrashSteps
  <2>2. \A p \in PageKey : survivors'[p] \subseteq survivors[p]
    BY <1>7 DEF PowerLoss
  <2> SUFFICES ASSUME NEW p \in PageKey, NEW i \in survivors'[p] \ {Blank}
               PROVE  \E k \in 1..m : /\ commits'[k].txn = i /\ commits'[k].pos <= n
                                      /\ p \in commits'[k].pages
    BY <2>1 DEF SurvivorsAreCommitted
  <2>3. PICK k \in 1..Len(commits) : /\ commits[k].txn = i /\ commits[k].pos <= stable
                                     /\ p \in commits[k].pages
    BY <1>1, <2>2
  <2>4. commits[k].pos <= n /\ k \in 1..m
    BY <1>0, <2>1, <2>3
  <2>. QED  BY <2>1, <2>3, <2>4
<1>8. ASSUME NEW t \in Txn, LogCommit(t)
      PROVE  SurvivorsAreCommitted'
  <2>1. /\ Len(commits') = Len(commits) + 1
        /\ \A k \in 1..Len(commits) : commits'[k] = commits[k]
    BY <1>0, <1>8, CommitAppended DEF BaseInv
  <2>2. UNCHANGED <<survivors, stable>>
    BY <1>8 DEF LogCommit, WAL!AppendRecord, diskvars
  <2>3. \A k \in 1..Len(commits) : k \in 1..Len(commits')
    BY <1>0, <2>1
  <2>. QED  BY <1>0, <2>1, <2>2, <2>3 DEF SurvivorsAreCommitted
<1>9. ASSUME QuietStep, UNCHANGED survivors
      PROVE  SurvivorsAreCommitted'
  BY <1>2, <1>9 DEF QuietStep
<1>10. ASSUME NEW t \in Txn, Begin(t) \/ (\E p \in PageKey : LogUpdate(t, p)) \/ LogAbort(t)
       PROVE  SurvivorsAreCommitted'
  <2>1. UNCHANGED <<stable, commits, survivors>>
    BY <1>10 DEF Begin, LogUpdate, LogAbort, WAL!AppendRecord, diskvars, histvars
  <2>. QED  BY <1>0, <2>1 DEF SurvivorsAreCommitted
<1>11. \/ UNCHANGED survivors \/ ReplayRecord \/ PowerLoss
       \/ \E t \in Txn, p \in PageKey : ForcePage(t, p)
       \/ \E p \in PageKey : CheckpointFlush(p)
  BY DEF Next, Transact, TxnStep, Begin, AcquireLock, RecheckLock, WritePage, Commit, LogUpdate,
     LogCommit, FlushStep, FsyncFails, CommitThrows, StartForce, FinishCommit, Abort, DiscardPage,
     LogAbort, FinishAbort, StartCheckpoint, TruncateWal, ProcessCrash, FinishOpen, Idle, vars, diskvars
<1>12. ~ProcessCrash
  BY DEF ProcessCrash
<1>. QED
  BY <1>0, <1>3, <1>4, <1>5, <1>6, <1>7, <1>8, <1>9, <1>10, <1>11, <1>12, QuietSteps

\* The invariant of write-ahead logging holds initially.
LEMMA WriteAheadInitially == Init => WriteAheadInv
<1> SUFFICES ASSUME Init PROVE WriteAheadInv
  OBVIOUS
<1>1. LogInv
  BY LogInitially
<1>2. RecoveryIsStable /\ SurvivorsAreCommitted
  BY DEF Init, RecoveryIsStable, SurvivorsAreCommitted
<1>. QED  BY <1>1, <1>2 DEF WriteAheadInv

\* Every step preserves it, where no process dies alone.
LEMMA WriteAheadInductive ==
    ASSUME OneSessionPerLog, ~ProcessDies, WriteAheadInv, [Next]_vars
    PROVE  WriteAheadInv'
<1>1. LogInv' /\ SurvivorsAreCommitted'
  BY LogInductive, SurvivorsKept DEF WriteAheadInv
<1>2. RecoveryIsStable'
  <2>1. CASE PowerLoss
    <3>1. Len(log') = stable'
      BY <2>1, CrashSteps DEF WriteAheadInv, LogInv
    <3>. QED  BY <3>1 DEF RecoveryIsStable
  <2>2. CASE TruncateWal
    BY <2>2, EmptySeq DEF TruncateWal, WAL!Checkpoint, RecoveryIsStable
  <2>3. CASE UNCHANGED <<mode, logvars>>
    BY <2>3 DEF WriteAheadInv, RecoveryIsStable, logvars
  <2>4. CASE mode' = "open"
    BY <2>4 DEF RecoveryIsStable
  <2>5. \A t \in Txn : Transact(t) => mode' = "open"
    BY DEF Transact, dbvars
  <2>. QED
    BY <2>1, <2>2, <2>3, <2>4, <2>5
       DEF Next, StartCheckpoint, CheckpointFlush, ProcessCrash, ReplayRecord, FinishOpen, Idle,
           vars, dbvars
<1>. QED  BY <1>1, <1>2 DEF WriteAheadInv

\* Where the machine may stop but the process does not die alone, no image
\* reaches a data file before its Commit record is on stable storage: for any
\* transactions, with failing fsyncs and Commits that are retried, with power
\* losses during commit, force and recovery, and with a checkpoint on open.
THEOREM LogBeforeData ==
    ASSUME OneSessionPerLog, ~ProcessDies
    PROVE  Spec => []WriteAhead
<1>1. WriteAheadInv /\ [Next]_vars => WriteAheadInv'
  BY WriteAheadInductive
<1>2. WriteAheadInv => WriteAhead
  <2> SUFFICES ASSUME WriteAheadInv PROVE WriteAhead
    OBVIOUS
  <2>1. DOMAIN commits = 1..Len(commits)
    BY CommitsTyped DEF WriteAheadInv, LogInv, BaseInv
  <2>. QED  BY <2>1 DEF WriteAheadInv, SurvivorsAreCommitted, WriteAhead
<1>. QED  BY <1>1, <1>2, WriteAheadInitially, PTL DEF Spec
-----------------------------------------------------------------------------
(***************************************************************************)
(* Commit, Abort, recovery and Checkpoint implement the atomic and durable *)
(* store of AtomicStore.                                                   *)
(***************************************************************************)

\* The failures the protocol is made for: no fsync reports an error, and the
\* machine may stop only where no checkpoint drops the log over data files
\* that were never synced and where recovery never trusts unsynced records.
Recoverable ==
    /\ FailLsn = 0 /\ OneSessionPerLog
    /\ PowerFails => CheckpointWhen = "never" /\ ~ProcessDies

\* The commit's record is still in the log.
InLog(k) == commits[k].pos # 0

\* A transaction commits once, and is neither committed before it logs its
\* Commit record nor after it was rolled back.
OneOutcome ==
    /\ \A k, l \in 1..Len(commits) : commits[k].txn = commits[l].txn => k = l
    /\ \A k \in 1..Len(commits), t \in Txn : commits[k].txn = Tag(t) =>
          phase[t] \in {"flushing", "forcing", "ended"}
    /\ \A T \in rolled_back : T[1] <= session
    /\ \A t \in Txn : Tag(t) \in rolled_back => phase[t] = "ended"
    /\ \A k \in 1..Len(commits) : commits[k].txn \notin rolled_back

\* A commit in the log has its Commit record at its position and an Update
\* record for each of its pages.
LoggedCommits ==
    \A k \in 1..Len(commits) : InLog(k) =>
        /\ IsCommit(commits[k].pos) /\ log[commits[k].pos].txn = commits[k].txn[2]
        /\ \A p \in commits[k].pages :
              \E i \in 1..Len(log) : /\ IsUpdate(i) /\ log[i].body.page = p
                                     /\ log[i].body.image = commits[k].txn

\* Its Update records come before its Commit record and after the Commit
\* records of earlier commits of the page.
UpdatesInCommitOrder ==
    \A i \in 1..Len(log), k \in 1..Len(commits) :
        IsUpdate(i) /\ InLog(k) /\ log[i].body.image = commits[k].txn =>
            /\ i < commits[k].pos
            /\ \A l \in 1..k - 1 : log[i].body.page \in commits[l].pages => commits[l].pos < i

\* The same for a transaction that is still logging.
LoggingInOrder ==
    \A t \in Txn : phase[t] = "logging" =>
        /\ \A p \in dirtied[t] \ todo[t] :
              \E i \in 1..Len(log) : /\ IsUpdate(i) /\ log[i].body.page = p
                                     /\ log[i].body.image = Tag(t)
        /\ \A i \in 1..Len(log) : IsUpdate(i) /\ log[i].body.image = Tag(t) =>
              \A l \in 1..Len(commits) : log[i].body.page \in commits[l].pages => commits[l].pos < i

\* A transaction whose Commit record is written and whose locks are not yet
\* released is the last that committed its pages.
CommittingIsLast ==
    \A t \in Txn : phase[t] \in {"flushing", "forcing"} =>
        \E k \in 1..Len(commits) : /\ InLog(k) /\ commits[k].txn = Tag(t)
                                   /\ \A l \in k + 1..Len(commits) :
                                         commits[l].pages \cap dirtied[t] = {}

\* The pages of committed transactions that are not in the data file yet.
Pending(t) == IF phase[t] \in {"flushing", "forcing"} THEN Unforced(t) ELSE {}

Committed == AS!Contents(commits)

\* The data file has the committed image of every page nobody is about to force.
FileIsCurrent ==
    mode = "open" =>
        \A p \in PageKey : (\A t \in Txn : p \notin Pending(t)) => disk[p] = Committed[p]

\* A page that no commit in the log wrote is in the data file as committed.
FileBehindLog ==
    \A p \in PageKey :
        (\A k \in 1..Len(commits) : InLog(k) => p \notin commits[k].pages) => disk[p] = Committed[p]

\* Recovery has redone the records before its position.
RedoneSoFar ==
    mode = "recovering" =>
        \A i \in 1..Len(log) :
            (i < redo /\ IsReplayed(log, i) /\ \A j \in 1..Len(log) :
                i < j /\ j < redo => ~(IsReplayed(log, j) /\ log[j].body.page = log[i].body.page))
            => disk[log[i].body.page] = log[i].body.image

\* Without checkpoints every commit is in the log.
NothingTruncated == CheckpointWhen = "never" => \A k \in 1..Len(commits) : InLog(k)

\* Acknowledged transactions are committed, on stable storage if that matters.
AckedAreCommitted ==
    \A T \in acked : \E k \in 1..Len(commits) :
        commits[k].txn = T /\ (PowerFails => commits[k].pos <= stable)

HistoryInv == OneOutcome /\ LoggedCommits /\ UpdatesInCommitOrder /\ LoggingInOrder /\ CommittingIsLast
FileInv == FileIsCurrent /\ FileBehindLog /\ RedoneSoFar /\ NothingTruncated /\ AckedAreCommitted

AtomicInv == ForceInv /\ LogInv /\ (PowerFails => WriteAheadInv) /\ HistoryInv /\ FileInv
-----------------------------------------------------------------------------
\* The content of a page is the last commit's that wrote it.
LEMMA ContentsLast ==
    ASSUME NEW h, Len(h) \in Nat, NEW p \in PageKey
    PROVE  /\ (\A i \in 1..Len(h) : p \notin h[i].pages) => AS!Contents(h)[p] = Blank
           /\ \A k \in 1..Len(h) :
                 /\ p \in h[k].pages
                 /\ \A l \in 1..Len(h) : l > k => p \notin h[l].pages
                 => AS!Contents(h)[p] = h[k].txn
<1> DEFINE W == {i \in 1..Len(h) : p \in h[i].pages}
           last == CHOOSE i \in W : \A j \in W : j <= i
<1>1. AS!Contents(h)[p] = IF W = {} THEN Blank ELSE h[last].txn
  BY DEF AS!Contents
<1>2. ASSUME NEW k \in 1..Len(h), p \in h[k].pages, \A l \in 1..Len(h) : l > k => p \notin h[l].pages
      PROVE  W # {} /\ last = k
  <2>1. k \in W /\ \A j \in W : j <= k
    BY <1>2
  <2>2. \A i \in W : (\A j \in W : j <= i) => i = k
    BY <2>1
  <2> HIDE DEF W
  <2>. QED  BY <2>1, <2>2
<1>3. (\A i \in 1..Len(h) : p \notin h[i].pages) => W = {}
  OBVIOUS
<1> HIDE DEF W, last
<1>. QED  BY <1>1, <1>2, <1>3

\* A page that some commit wrote has a last one.
LEMMA LastWriter ==
    ASSUME NEW h, Len(h) \in Nat, NEW p \in PageKey, NEW i \in 1..Len(h), p \in h[i].pages
    PROVE  \E k \in 1..Len(h) : /\ p \in h[k].pages /\ i <= k
                                /\ \A l \in 1..Len(h) : l > k => p \notin h[l].pages
<1> DEFINE W == {j \in 0..Len(h) : j \in 1..Len(h) /\ p \in h[j].pages}
<1>1. W \in SUBSET (0..Len(h)) /\ i \in W
  OBVIOUS
<1> HIDE DEF W
<1>2. PICK k \in W : \A j \in W : j <= k
  BY <1>1, GreatestNatural
<1>3. i <= k /\ k \in 1..Len(h) /\ p \in h[k].pages
  BY <1>1, <1>2 DEF W
<1>4. ASSUME NEW l \in 1..Len(h), l > k, p \in h[l].pages
      PROVE  FALSE
  <2>1. l \in W
    BY <1>4 DEF W
  <2>. QED  BY <1>2, <1>3, <1>4, <2>1
<1>. QED  BY <1>3, <1>4

\* The content depends on who committed which pages, not on log positions.
LEMMA ContentsSame ==
    ASSUME NEW g, NEW h, Len(g) \in Nat, Len(h) = Len(g),
           \A k \in 1..Len(g) : h[k].txn = g[k].txn /\ h[k].pages = g[k].pages
    PROVE  AS!Contents(h) = AS!Contents(g)
<1>1. ASSUME NEW p \in PageKey
      PROVE  AS!Contents(h)[p] = AS!Contents(g)[p]
  <2>1. CASE \A k \in 1..Len(g) : p \notin g[k].pages
    BY <2>1, ContentsLast
  <2>2. ASSUME NEW i \in 1..Len(g), p \in g[i].pages
        PROVE  AS!Contents(h)[p] = AS!Contents(g)[p]
    <3>1. PICK k \in 1..Len(g) : /\ p \in g[k].pages
                                 /\ \A l \in 1..Len(g) : l > k => p \notin g[l].pages
      BY <2>2, LastWriter
    <3>2. AS!Contents(g)[p] = g[k].txn
      BY <3>1, ContentsLast
    <3>3. AS!Contents(h)[p] = h[k].txn
      BY <3>1, ContentsLast
    <3>. QED  BY <3>2, <3>3
  <2>. QED  BY <2>1, <2>2
<1>2. AS!Contents(h) = [p \in PageKey |-> AS!Contents(h)[p]]
  BY DEF AS!Contents
<1>3. AS!Contents(g) = [p \in PageKey |-> AS!Contents(g)[p]]
  BY DEF AS!Contents
<1>. QED  BY <1>1, <1>2, <1>3

\* A commit replaces the content of its pages.
LEMMA ContentsAppended ==
    ASSUME NEW g, NEW h, Len(g) \in Nat, Len(h) = Len(g) + 1,
           \A k \in 1..Len(g) : h[k].txn = g[k].txn /\ h[k].pages = g[k].pages,
           NEW p \in PageKey
    PROVE  AS!Contents(h)[p] = IF p \in h[Len(g) + 1].pages THEN h[Len(g) + 1].txn
                               ELSE AS!Contents(g)[p]
<1> DEFINE n == Len(g) + 1
<1>1. n \in 1..Len(h) /\ \A k \in 1..Len(h) : k \in 1..Len(g) \/ k = n
  OBVIOUS
<1>2. \A k \in 1..Len(g) : k \in 1..Len(h) /\ k < n
  OBVIOUS
<1>3. Len(h) \in Nat
  OBVIOUS
<1>4. \A l \in 1..Len(h) : ~(l > n)
  OBVIOUS
<1> HIDE DEF n
<1>5. CASE p \in h[n].pages
  <2>1. AS!Contents(h)[p] = h[n].txn
    BY <1>1, <1>3, <1>4, <1>5, ContentsLast
  <2>. QED  BY <1>5, <2>1 DEF n
<1>6. CASE p \notin h[n].pages
  <2>1. CASE \A k \in 1..Len(g) : p \notin g[k].pages
    <3>1. \A k \in 1..Len(h) : p \notin h[k].pages
      BY <1>1, <1>6, <2>1
    <3>. QED  BY <1>3, <1>6, <2>1, <3>1, ContentsLast DEF n
  <2>2. ASSUME NEW i \in 1..Len(g), p \in g[i].pages
        PROVE  AS!Contents(h)[p] = AS!Contents(g)[p]
    <3>1. PICK k \in 1..Len(g) : /\ p \in g[k].pages
                                 /\ \A l \in 1..Len(g) : l > k => p \notin g[l].pages
      BY <2>2, LastWriter
    <3>2. /\ k \in 1..Len(h) /\ p \in h[k].pages
          /\ \A l \in 1..Len(h) : l > k => p \notin h[l].pages
      BY <1>1, <1>2, <1>6, <3>1
    <3>3. AS!Contents(g)[p] = g[k].txn
      BY <3>1, ContentsLast
    <3>4. AS!Contents(h)[p] = h[k].txn
      BY <1>3, <3>2, ContentsLast
    <3>. QED  BY <3>1, <3>3, <3>4
  <2>. QED  BY <1>6, <2>1, <2>2 DEF n
<1>. QED  BY <1>5, <1>6
-----------------------------------------------------------------------------
\* Recovery redoes every page of a commit that is in the log.
LEMMA CommitIsReplayed ==
    ASSUME LogInv, LoggedCommits, NEW k \in 1..Len(commits), InLog(k), NEW p \in commits[k].pages
    PROVE  \E j \in 1..Len(log) : /\ IsReplayed(log, j) /\ IsUpdate(j)
                                  /\ log[j].body.page = p /\ log[j].body.image = commits[k].txn
<1>1. /\ IsCommit(commits[k].pos) /\ log[commits[k].pos].txn = commits[k].txn[2]
      /\ \E i \in 1..Len(log) : /\ IsUpdate(i) /\ log[i].body.page = p
                                /\ log[i].body.image = commits[k].txn
  BY DEF LoggedCommits
<1>2. PICK i \in 1..Len(log) : /\ IsUpdate(i) /\ log[i].body.page = p
                               /\ log[i].body.image = commits[k].txn
  BY <1>1
<1>3. PICK s : log[i].body.image = <<s, log[i].txn>>
  BY <1>2 DEF LogInv, OneSessionInLog, LogOfSession, RecordOf
<1>4. log[commits[k].pos].txn = log[i].txn
  BY <1>1, <1>2, <1>3
<1>5. log[i].txn \in CommittedIds(log)
  BY <1>1, <1>4 DEF CommittedIds, IsCommit
<1>. QED  BY <1>2, <1>5 DEF IsReplayed, IsUpdate

\* The last record that recovery redoes for a page has the committed image.
LEMMA LastReplayed ==
    ASSUME LogInv, LoggedCommits, UpdatesInCommitOrder,
           NEW i \in 1..Len(log), IsReplayed(log, i),
           \A j \in 1..Len(log) :
               IsReplayed(log, j) /\ log[j].body.page = log[i].body.page => j <= i
    PROVE  Committed[log[i].body.page] = log[i].body.image
<1> DEFINE p == log[i].body.page
<1>0. /\ HistoryOK /\ Len(log) \in Nat /\ Len(commits) \in Nat
      /\ \A k \in 1..Len(commits) : commits[k].pos \in Nat
  BY LogTyped, CommitsTyped DEF LogInv, BaseInv
<1>1. PICK k \in 1..Len(commits) : /\ commits[k].txn = log[i].body.image
                                   /\ commits[k].pos \in 1..Len(log) /\ p \in commits[k].pages
  BY ReplayedIsCommitted
<1>2. p \in PageKey
  BY ReplayedIsCommitted
<1>3. InLog(k) /\ IsUpdate(i)
  BY <1>0, <1>1 DEF InLog, IsReplayed, IsUpdate
<1>4. i < commits[k].pos
  BY <1>1, <1>3 DEF UpdatesInCommitOrder
<1>5. ASSUME NEW l \in 1..Len(commits), l > k, p \in commits[l].pages
      PROVE  FALSE
  <2>1. commits[k].pos <= commits[l].pos
    BY <1>0, <1>5 DEF HistoryOK
  <2>2. InLog(l)
    BY <1>0, <1>1, <2>1 DEF InLog
  <2>3. PICK j \in 1..Len(log) : /\ IsReplayed(log, j) /\ IsUpdate(j) /\ log[j].body.page = p
                                 /\ log[j].body.image = commits[l].txn
    BY <1>5, <2>2, CommitIsReplayed
  <2>4. k \in 1..l - 1
    BY <1>0, <1>5
  <2>5. commits[k].pos < j
    BY <1>1, <2>2, <2>3, <2>4 DEF UpdatesInCommitOrder
  <2>6. j <= i
    BY <2>3
  <2>. QED  BY <1>0, <1>4, <2>5, <2>6
<1> HIDE DEF p
<1>6. Committed[p] = commits[k].txn
  BY <1>0, <1>1, <1>2, <1>5, ContentsLast DEF Committed
<1>. QED  BY <1>1, <1>6 DEF p

\* What recovery would leave, page by page.
LEMMA RecoveredPage ==
    ASSUME NEW p \in PageKey, Len(log) \in Nat
    PROVE  \/ /\ \A j \in 1..Len(log) : ~(IsReplayed(log, j) /\ log[j].body.page = p)
              /\ Recovered(log, disk)[p] = disk[p]
           \/ \E i \in 1..Len(log) :
                 /\ IsReplayed(log, i) /\ log[i].body.page = p
                 /\ \A j \in 1..Len(log) : IsReplayed(log, j) /\ log[j].body.page = p => j <= i
                 /\ Recovered(log, disk)[p] = log[i].body.image
<1> DEFINE R == {i \in 1..Len(log) : IsReplayed(log, i) /\ log[i].body.page = p}
           last == CHOOSE i \in R : \A j \in R : j <= i
<1>1. Recovered(log, disk)[p] = IF R = {} THEN disk[p] ELSE log[last].body.image
  BY DEF Recovered
<1>2. ASSUME R # {}
      PROVE  last \in R /\ \A j \in R : j <= last
  <2>1. R \in SUBSET (0..Len(log))
    OBVIOUS
  <2> HIDE DEF R
  <2>2. \E i \in R : \A j \in R : j <= i
    BY <1>2, <2>1, GreatestNatural
  <2>. QED  BY <2>2
<1>3. CASE R = {}
  BY <1>1, <1>3
<1>4. CASE R # {}
  <2>1. last \in R /\ Recovered(log, disk)[p] = log[last].body.image
    BY <1>1, <1>2, <1>4
  <2>2. \A j \in R : j <= last
    BY <1>2, <1>4
  <2> HIDE DEF last
  <2>. QED  BY <2>1, <2>2
<1>. QED  BY <1>3, <1>4

\* What recovery would make of the log and the data files is the committed
\* content.
LEMMA RecoveryExact ==
    ASSUME LogInv, LoggedCommits, UpdatesInCommitOrder, FileBehindLog
    PROVE  Recovered(log, disk) = Committed
<1>0. Len(log) \in Nat
  BY LogTyped DEF LogInv, BaseInv
<1>1. ASSUME NEW p \in PageKey
      PROVE  Recovered(log, disk)[p] = Committed[p]
  <2>1. CASE /\ \A j \in 1..Len(log) : ~(IsReplayed(log, j) /\ log[j].body.page = p)
             /\ Recovered(log, disk)[p] = disk[p]
    <3>1. \A k \in 1..Len(commits) : InLog(k) => p \notin commits[k].pages
      BY <2>1, CommitIsReplayed
    <3>. QED  BY <2>1, <3>1 DEF FileBehindLog
  <2>2. ASSUME NEW i \in 1..Len(log), IsReplayed(log, i), log[i].body.page = p,
               \A j \in 1..Len(log) : IsReplayed(log, j) /\ log[j].body.page = p => j <= i,
               Recovered(log, disk)[p] = log[i].body.image
        PROVE  Recovered(log, disk)[p] = Committed[p]
    BY <2>2, LastReplayed
  <2>. QED  BY <1>0, <2>1, <2>2, RecoveredPage
<1>2. Recovered(log, disk) = [p \in PageKey |-> Recovered(log, disk)[p]]
  BY DEF Recovered
<1>3. Committed = [p \in PageKey |-> Committed[p]]
  BY DEF Committed, AS!Contents
<1>. QED  BY <1>1, <1>2, <1>3
-----------------------------------------------------------------------------
\* A quiet step, with what it may do to the outcome of a transaction.
QuietHistory ==
    /\ QuietStep
    /\ \A u \in Txn :
         /\ phase[u] \in {"flushing", "forcing", "ended"} => phase'[u] \in {"flushing", "forcing", "ended"}
         /\ phase[u] = "ended" => phase'[u] = "ended"
         /\ phase'[u] \in {"flushing", "forcing"} => /\ phase[u] \in {"flushing", "forcing"}
                                                     /\ dirtied'[u] = dirtied[u]
         /\ phase'[u] = "logging" =>
              /\ dirtied'[u] = dirtied[u]
              /\ \/ phase[u] = "logging" /\ todo'[u] = todo[u]
                 \/ phase[u] = "active" /\ todo'[u] = dirtied[u]
    /\ \/ UNCHANGED rolled_back
       \/ \E t \in Txn : /\ phase[t] = "aborting" /\ phase'[t] = "ended"
                         /\ rolled_back' = rolled_back \cup {Tag(t)}

\* Where nothing fails, every step writes to the log, truncates or loses it,
\* or is quiet for the outcomes too.
LEMMA QuietHistorySteps ==
    ASSUME BaseInv, NoFailure, FailLsn = 0, [Next]_vars
    PROVE  \/ QuietHistory
           \/ \E t \in Txn : \/ Begin(t) /\ MayBegin
                             \/ \E p \in PageKey : LogUpdate(t, p)
                             \/ LogCommit(t) \/ LogAbort(t)
           \/ TruncateWal \/ ProcessCrash \/ PowerLoss
<1>0. /\ phase \in [Txn -> Phase] /\ dirtied \in [Txn -> SUBSET PageKey]
      /\ todo \in [Txn -> SUBSET PageKey] /\ next_lsn \in Nat \ {0}
  BY DEF BaseInv, TypeOK, WP!OrderInv, WP!TypeOK
<1> SUFFICES ASSUME QuietStep, ~TruncateWal, ~ProcessCrash, ~PowerLoss,
                    \A t \in Txn : /\ ~LogCommit(t) /\ ~LogAbort(t)
                                   /\ \A p \in PageKey : ~LogUpdate(t, p)
             PROVE  QuietHistory
  BY QuietSteps
<1>1. ASSUME NEW t \in Txn, Transact(t)
      PROVE  QuietHistory
  <2>0. TxnStep(t) /\ phase[t] # "commit_failed"
    BY <1>0, <1>1 DEF Transact, NoFailure, CommitThrows
  <2>1. CASE Begin(t)
    BY <1>0, <2>1 DEF Begin, QuietStep, BaseInv, TypeOK
  <2>2. CASE \/ \E p \in PageKey, m \in LM!LockMode : AcquireLock(t, p, m)
             \/ RecheckLock(t) \/ FlushStep(t)
    BY <1>0, <2>2 DEF AcquireLock, RecheckLock, FlushStep, QuietHistory, txnvars, histvars
  <2>3. CASE \E p \in PageKey : WritePage(t, p)
    BY <1>0, <2>0, <2>3 DEF WritePage, QuietHistory, histvars
  <2>4. CASE Commit(t) \/ Abort(t) \/ StartForce(t)
    BY <1>0, <2>0, <2>4 DEF Commit, Abort, StartForce, StartLoop, QuietHistory, histvars
  <2>5. CASE FinishCommit(t) \/ FinishAbort(t)
    BY <1>0, <2>5 DEF FinishCommit, FinishAbort, LoopDone, QuietHistory, histvars
  <2>6. CASE \E p \in PageKey : ForcePage(t, p) \/ DiscardPage(t, p)
    BY <1>0, <2>6 DEF ForcePage, DiscardPage, LoopStep, QuietHistory, histvars
  <2>. QED
    BY <2>0, <2>1, <2>2, <2>3, <2>4, <2>5, <2>6 DEF TxnStep
<1>2. CASE UNCHANGED <<txnvars, histvars>>
  BY <1>0, <1>2 DEF QuietHistory, txnvars, histvars
<1>. QED
  BY <1>1, <1>2
     DEF Next, StartCheckpoint, CheckpointFlush, ReplayRecord, FinishOpen, Idle, vars

\* A step that writes no record keeps the order of the records.
LEMMA QuietKeepsHistory ==
    ASSUME LogInv, HistoryInv, QuietHistory
    PROVE  HistoryInv'
<1>0. /\ OneOutcome /\ LoggedCommits /\ UpdatesInCommitOrder /\ LoggingInOrder /\ CommittingIsLast
      /\ OwnUpdates /\ Len(log) \in Nat /\ Len(commits) \in Nat
      /\ session \in Nat
  BY LogTyped, CommitsTyped, Constants DEF HistoryInv, LogInv, BaseInv, HistoryOK
<1>1. /\ UNCHANGED <<log, commits, session>>
  BY DEF QuietHistory, QuietStep
<1>2. \A i : (IsUpdate(i)' <=> IsUpdate(i)) /\ (IsCommit(i)' <=> IsCommit(i)) /\ (InLog(i)' <=> InLog(i))
  BY <1>1 DEF IsUpdate, IsCommit, InLog
<1>3. OneOutcome'
  <2>1. CASE UNCHANGED rolled_back
    BY <1>0, <1>1, <2>1 DEF OneOutcome, QuietHistory, Tag
  <2>2. ASSUME NEW t \in Txn, phase[t] = "aborting", phase'[t] = "ended",
               rolled_back' = rolled_back \cup {Tag(t)}
        PROVE  OneOutcome'
    <3>1. \A k \in 1..Len(commits) : commits[k].txn # Tag(t)
      BY <1>0, <2>2 DEF OneOutcome
    <3>2. \A T \in rolled_back' : T[1] <= session
      BY <1>0, <2>2 DEF OneOutcome, Tag
    <3>3. \A u \in Txn : Tag(u) \in rolled_back' => phase'[u] = "ended"
      BY <1>0, <2>2 DEF OneOutcome, QuietHistory, Tag
    <3>4. \A k \in 1..Len(commits) : commits[k].txn \notin rolled_back'
      BY <1>0, <2>2, <3>1 DEF OneOutcome
    <3>. QED  BY <1>0, <1>1, <3>2, <3>3, <3>4 DEF OneOutcome, QuietHistory, Tag
  <2>. QED  BY <2>1, <2>2 DEF QuietHistory
<1>4. LoggedCommits' /\ UpdatesInCommitOrder'
  BY <1>0, <1>1, <1>2 DEF LoggedCommits, UpdatesInCommitOrder
<1>5. LoggingInOrder'
  <2> SUFFICES ASSUME NEW t \in Txn, phase'[t] = "logging"
               PROVE  /\ \A p \in dirtied'[t] \ todo'[t] :
                           \E i \in 1..Len(log) : /\ IsUpdate(i) /\ log[i].body.page = p
                                                  /\ log[i].body.image = Tag(t)
                      /\ \A i \in 1..Len(log) : IsUpdate(i) /\ log[i].body.image = Tag(t) =>
                           \A l \in 1..Len(commits) : log[i].body.page \in commits[l].pages => commits[l].pos < i
    BY <1>1, <1>2 DEF LoggingInOrder, Tag
  <2>1. CASE phase[t] = "logging" /\ todo'[t] = todo[t]
    BY <1>0, <2>1 DEF LoggingInOrder, QuietHistory
  <2>2. CASE phase[t] = "active" /\ todo'[t] = dirtied[t]
    BY <1>0, <2>2 DEF OwnUpdates, QuietHistory
  <2>. QED  BY <2>1, <2>2 DEF QuietHistory
<1>6. CommittingIsLast'
  BY <1>0, <1>1, <1>2 DEF CommittingIsLast, QuietHistory, Tag
<1>. QED  BY <1>3, <1>4, <1>5, <1>6 DEF HistoryInv

\* Begin, LogUpdate and LogAbort write a record behind all others.
LEMMA RecordKeepsHistory ==
    ASSUME LogInv, HistoryInv, NEW t \in Txn, NEW b, WAL!AppendRecord(t, b), b.type # "commit",
           b.type = "update" => b.image = Tag(t) /\ phase[t] = "logging",
           UNCHANGED <<commits, session, dirtied, rolled_back>>,
           \A u \in Txn :
              /\ phase[u] \in {"flushing", "forcing", "ended"} => phase'[u] = phase[u]
              /\ phase'[u] \in {"flushing", "forcing"} => phase'[u] = phase[u]
              /\ phase'[u] = "logging" =>
                    /\ phase[u] = "logging"
                    /\ \A p \in dirtied[u] \ todo'[u] :
                          p \notin todo[u] \/ (u = t /\ b.type = "update" /\ b.page = p)
    PROVE  HistoryInv'
<1> DEFINE n == Len(log)
<1>0. /\ OneOutcome /\ LoggedCommits /\ UpdatesInCommitOrder /\ LoggingInOrder /\ CommittingIsLast
      /\ n \in Nat /\ Len(commits) \in Nat /\ HistoryOK
      /\ \A k \in 1..Len(commits) : commits[k].pos \in Nat /\ commits[k].pos <= n
  BY LogTyped, CommitsTyped DEF HistoryInv, LogInv, BaseInv, HistoryOK
<1>1. /\ Len(log') = n + 1 /\ (\A i \in 1..n : log'[i] = log[i])
      /\ log'[n + 1] = [lsn |-> next_lsn, txn |-> t, body |-> b, torn |-> FALSE]
  BY LogAppended DEF LogInv, BaseInv
<1>2. log'[n + 1].body = b
  BY <1>1
<1>3. \A i : /\ IsUpdate(i)' <=> IsUpdate(i) \/ (i = n + 1 /\ b.type = "update")
             /\ IsCommit(i)' <=> IsCommit(i)
             /\ IsUpdate(i) \/ IsCommit(i) => log'[i] = log[i] /\ i \in 1..n /\ i \in 1..Len(log')
             /\ InLog(i)' <=> InLog(i)
  BY <1>0, <1>1, <1>2 DEF IsUpdate, IsCommit, InLog
<1>4. n + 1 \in 1..Len(log')
  BY <1>0, <1>1
<1>a. /\ commits' = commits /\ dirtied' = dirtied
      /\ \A u \in Txn : Tag(u)' = Tag(u)
  BY DEF Tag
<1> HIDE DEF n
<1>5. OneOutcome'
  BY <1>0 DEF OneOutcome, Tag
<1>6. LoggedCommits'
  <2> SUFFICES ASSUME NEW k \in 1..Len(commits), InLog(k)
               PROVE  /\ IsCommit(commits[k].pos)' /\ log'[commits[k].pos].txn = commits[k].txn[2]
                      /\ \A p \in commits[k].pages :
                            \E i \in 1..Len(log') : /\ IsUpdate(i)' /\ log'[i].body.page = p
                                                    /\ log'[i].body.image = commits[k].txn
    BY <1>3 DEF LoggedCommits
  <2>1. IsCommit(commits[k].pos) /\ log[commits[k].pos].txn = commits[k].txn[2]
    BY <1>0 DEF LoggedCommits
  <2>2. ASSUME NEW p \in commits[k].pages
        PROVE  \E i \in 1..Len(log') : /\ IsUpdate(i)' /\ log'[i].body.page = p
                                       /\ log'[i].body.image = commits[k].txn
    <3>1. PICK i \in 1..Len(log) : /\ IsUpdate(i) /\ log[i].body.page = p
                                   /\ log[i].body.image = commits[k].txn
      BY <1>0 DEF LoggedCommits
    <3>. QED  BY <1>3, <3>1
  <2>. QED  BY <1>3, <2>1, <2>2
<1>7. UpdatesInCommitOrder'
  <2> SUFFICES ASSUME NEW i \in 1..Len(log'), NEW k \in 1..Len(commits), IsUpdate(i)', InLog(k),
                      log'[i].body.image = commits[k].txn
               PROVE  /\ i < commits[k].pos
                      /\ \A l \in 1..k - 1 : log'[i].body.page \in commits[l].pages => commits[l].pos < i
    BY <1>3 DEF UpdatesInCommitOrder
  <2>1. CASE IsUpdate(i)
    <3>1. i \in 1..Len(log) /\ log'[i] = log[i]
      BY <1>3, <2>1 DEF n
    <3>. QED  BY <1>0, <2>1, <3>1 DEF UpdatesInCommitOrder
  <2>2. CASE i = n + 1 /\ b.type = "update"
    BY <1>0, <1>2, <2>2 DEF OneOutcome
  <2>. QED  BY <1>3, <2>1, <2>2
<1>8. LoggingInOrder'
  <2> SUFFICES ASSUME NEW u \in Txn, phase'[u] = "logging"
               PROVE  /\ \A p \in dirtied[u] \ todo'[u] :
                           \E i \in 1..Len(log') : /\ IsUpdate(i)' /\ log'[i].body.page = p
                                                   /\ log'[i].body.image = Tag(u)
                      /\ \A i \in 1..Len(log') : IsUpdate(i)' /\ log'[i].body.image = Tag(u) =>
                           \A l \in 1..Len(commits) : log'[i].body.page \in commits[l].pages => commits[l].pos < i
    BY <1>a DEF LoggingInOrder
  <2>1. ASSUME NEW p \in dirtied[u] \ todo'[u]
        PROVE  \E i \in 1..Len(log') : /\ IsUpdate(i)' /\ log'[i].body.page = p
                                       /\ log'[i].body.image = Tag(u)
    <3>1. CASE p \notin todo[u]
      <4>1. PICK i \in 1..Len(log) : IsUpdate(i) /\ log[i].body.page = p /\ log[i].body.image = Tag(u)
        BY <1>0, <3>1 DEF LoggingInOrder
      <4>. QED  BY <1>3, <4>1
    <3>2. CASE u = t /\ b.type = "update" /\ b.page = p
      BY <1>2, <1>3, <1>4, <3>2
    <3>. QED  BY <3>1, <3>2
  <2>2. ASSUME NEW i \in 1..Len(log'), IsUpdate(i)', log'[i].body.image = Tag(u),
               NEW l \in 1..Len(commits), log'[i].body.page \in commits[l].pages
        PROVE  commits[l].pos < i
    <3>1. CASE IsUpdate(i)
      <4>1. i \in 1..Len(log) /\ log'[i] = log[i]
        BY <1>3, <3>1 DEF n
      <4>. QED  BY <1>0, <2>2, <3>1, <4>1 DEF LoggingInOrder
    <3>2. CASE i = n + 1
      BY <1>0, <3>2
    <3>. QED  BY <1>3, <2>2, <3>1, <3>2
  <2>. QED  BY <2>1, <2>2
<1>9. CommittingIsLast'
  <2> SUFFICES ASSUME NEW u \in Txn, phase'[u] \in {"flushing", "forcing"}
               PROVE  \E k \in 1..Len(commits) :
                         /\ InLog(k)' /\ commits[k].txn = Tag(u)
                         /\ \A l \in k + 1..Len(commits) : commits[l].pages \cap dirtied[u] = {}
    BY <1>a DEF CommittingIsLast
  <2>1. phase[u] \in {"flushing", "forcing"}
    OBVIOUS
  <2>. QED  BY <1>0, <1>3, <2>1 DEF CommittingIsLast
<1>. QED  BY <1>5, <1>6, <1>7, <1>8, <1>9 DEF HistoryInv

\* LogCommit writes the Commit record behind all others.
LEMMA CommitKeepsHistory ==
    ASSUME LogInv, HistoryInv, NEW t \in Txn, LogCommit(t)
    PROVE  HistoryInv'
<1>a. Len(log) \in Nat /\ Len(commits) \in Nat
  BY LogTyped, CommitsTyped DEF LogInv, BaseInv
<1>b. PICK n \in Nat, m \in Nat : n = Len(log) /\ m = Len(commits) + 1
  BY <1>a
<1>0. /\ OneOutcome /\ LoggedCommits /\ UpdatesInCommitOrder /\ LoggingInOrder /\ CommittingIsLast
      /\ OwnUpdates /\ OwnCommits /\ WritersHoldLocks
      /\ n \in Nat /\ Len(commits) \in Nat /\ session \in Nat
      /\ phase \in [Txn -> Phase] /\ dirtied \in [Txn -> SUBSET PageKey]
      /\ \A k \in 1..Len(commits) : commits[k].pos \in Nat /\ commits[k].pos <= n
  BY <1>b, LogTyped, CommitsTyped, Constants DEF HistoryInv, LogInv, BaseInv, HistoryOK, TypeOK
<1>1. /\ Len(log') = n + 1 /\ (\A i \in 1..n : log'[i] = log[i])
      /\ log'[n + 1] = [lsn |-> next_lsn, txn |-> t, body |-> CommitBody, torn |-> FALSE]
  BY <1>b, LogAppended DEF LogInv, BaseInv, LogCommit
<1>2. log'[n + 1].txn = t /\ log'[n + 1].body.type = "commit"
  BY <1>1 DEF CommitBody
<1>3. /\ phase[t] = "logging" /\ todo[t] = {} /\ phase' = [phase EXCEPT ![t] = "flushing"]
      /\ dirtied' = dirtied /\ todo' = todo /\ session' = session /\ rolled_back' = rolled_back
  BY DEF LogCommit, LoopDone
<1>4. /\ Len(commits') = m /\ \A k \in 1..Len(commits) : commits'[k] = commits[k]
      /\ commits'[m] = [txn |-> Tag(t), pages |-> dirtied[t], pos |-> n + 1]
  BY <1>b, CommitAppended DEF LogInv, BaseInv
<1>5. commits'[m].txn = Tag(t) /\ commits'[m].pages = dirtied[t] /\ commits'[m].pos = n + 1
  BY <1>4
<1>6. \A i : /\ IsUpdate(i)' <=> IsUpdate(i)
             /\ IsCommit(i)' <=> IsCommit(i) \/ i = n + 1
             /\ IsUpdate(i) \/ IsCommit(i) =>
                   log'[i] = log[i] /\ i \in 1..n /\ i <= n /\ i \in Nat /\ i \in 1..Len(log')
  BY <1>b, <1>0, <1>1, <1>2 DEF IsUpdate, IsCommit
<1>7. /\ m \in 1..Len(commits') /\ m \in Nat
      /\ \A k \in 1..Len(commits') : k \in 1..Len(commits) \/ k = m
      /\ \A k \in 1..Len(commits) : k \in 1..Len(commits') /\ k < m
  BY <1>b, <1>0, <1>4
<1>8. /\ \A k \in 1..Len(commits) : InLog(k)' <=> InLog(k)
      /\ InLog(m)'
  BY <1>0, <1>4, <1>5 DEF InLog
<1>9. \A u \in Txn : /\ Tag(u)' = Tag(u) /\ (Tag(u) = Tag(t) => u = t)
                     /\ u # t => phase'[u] = phase[u]
  BY <1>0, <1>3 DEF Tag
<1>10. phase'[t] = "flushing" /\ phase'[t] # "logging"
  BY <1>0, <1>3
<1>11. \A u \in Txn : u # t /\ phase[u] # "ended" => dirtied[u] \cap dirtied[t] = {}
  BY <1>0, <1>3 DEF WritersHoldLocks
<1>12. \A k \in 1..Len(commits) : commits[k].txn # Tag(t)
  BY <1>0, <1>3 DEF OneOutcome
<1>13. Tag(t) \notin rolled_back
  BY <1>0, <1>3 DEF OneOutcome
<1>14. OneOutcome'
  <2>1. \A k, l \in 1..Len(commits') : commits'[k].txn = commits'[l].txn => k = l
    BY <1>0, <1>4, <1>5, <1>7, <1>12 DEF OneOutcome
  <2>2. \A k \in 1..Len(commits'), u \in Txn : commits'[k].txn = Tag(u) =>
          phase'[u] \in {"flushing", "forcing", "ended"}
    BY <1>0, <1>4, <1>5, <1>7, <1>9, <1>10 DEF OneOutcome
  <2>3. \A u \in Txn : Tag(u) \in rolled_back => phase'[u] = "ended"
    BY <1>0, <1>9, <1>13 DEF OneOutcome
  <2>4. \A k \in 1..Len(commits') : commits'[k].txn \notin rolled_back
    BY <1>0, <1>4, <1>5, <1>7, <1>13 DEF OneOutcome
  <2>5. \A T \in rolled_back : T[1] <= session
    BY <1>0 DEF OneOutcome
  <2>. QED  BY <1>3, <1>9, <2>1, <2>2, <2>3, <2>4, <2>5 DEF OneOutcome
<1>15. LoggedCommits'
  <2> SUFFICES ASSUME NEW k \in 1..Len(commits'), InLog(k)'
               PROVE  /\ commits'[k].pos \in 1..Len(log')
                      /\ log'[commits'[k].pos].body.type = "commit"
                      /\ log'[commits'[k].pos].txn = commits'[k].txn[2]
                      /\ \A p \in commits'[k].pages :
                            \E i \in 1..Len(log') : /\ IsUpdate(i)' /\ log'[i].body.page = p
                                                    /\ log'[i].body.image = commits'[k].txn
    BY DEF LoggedCommits, IsCommit
  <2>1. CASE k \in 1..Len(commits)
    <3>1. commits'[k] = commits[k] /\ InLog(k)
      BY <1>4, <1>8, <2>1
    <3>2. IsCommit(commits[k].pos) /\ log[commits[k].pos].txn = commits[k].txn[2]
      BY <1>0, <2>1, <3>1 DEF LoggedCommits
    <3>3. ASSUME NEW p \in commits[k].pages
          PROVE  \E i \in 1..Len(log') : /\ IsUpdate(i)' /\ log'[i].body.page = p
                                         /\ log'[i].body.image = commits[k].txn
      <4>1. PICK i \in 1..Len(log) : /\ IsUpdate(i) /\ log[i].body.page = p
                                     /\ log[i].body.image = commits[k].txn
        BY <1>0, <2>1, <3>1 DEF LoggedCommits
      <4>. QED  BY <1>6, <4>1
    <3>4. commits[k].pos \in 1..Len(log') /\ log'[commits[k].pos] = log[commits[k].pos]
      BY <1>6, <3>2
    <3>5. log[commits[k].pos].body.type = "commit"
      BY <3>2 DEF IsCommit
    <3>. QED  BY <3>1, <3>2, <3>3, <3>4, <3>5
  <2>2. CASE k = m
    <3>1. n + 1 \in 1..Len(log') /\ log'[n + 1].body.type = "commit" /\ log'[n + 1].txn = Tag(t)[2]
      BY <1>0, <1>1, <1>2 DEF Tag
    <3>2. ASSUME NEW p \in dirtied[t]
          PROVE  \E i \in 1..Len(log') : /\ IsUpdate(i)' /\ log'[i].body.page = p
                                         /\ log'[i].body.image = Tag(t)
      <4>1. PICK i \in 1..Len(log) : /\ IsUpdate(i) /\ log[i].body.page = p
                                     /\ log[i].body.image = Tag(t)
        BY <1>0, <1>3 DEF LoggingInOrder
      <4>. QED  BY <1>6, <4>1
    <3>. QED  BY <1>5, <2>2, <3>1, <3>2
  <2>. QED  BY <1>7, <2>1, <2>2
<1>16. UpdatesInCommitOrder'
  <2> SUFFICES ASSUME NEW i \in 1..Len(log'), NEW k \in 1..Len(commits'), IsUpdate(i)', InLog(k)',
                      log'[i].body.image = commits'[k].txn
               PROVE  /\ i < commits'[k].pos
                      /\ \A l \in 1..k - 1 : log'[i].body.page \in commits'[l].pages => commits'[l].pos < i
    BY DEF UpdatesInCommitOrder
  <2>1. IsUpdate(i) /\ i \in 1..Len(log) /\ log'[i] = log[i] /\ i < n + 1
    BY <1>b, <1>0, <1>6
  <2>2. \A l \in 1..k - 1 : l \in 1..Len(commits) /\ commits'[l] = commits[l]
    BY <1>b, <1>0, <1>4, <1>7
  <2>3. CASE k \in 1..Len(commits)
    <3>1. commits'[k] = commits[k] /\ InLog(k)
      BY <1>4, <1>8, <2>3
    <3>. QED  BY <1>0, <2>1, <2>2, <2>3, <3>1 DEF UpdatesInCommitOrder
  <2>4. CASE k = m
    <3>1. log[i].body.image = Tag(t)
      BY <1>5, <2>1, <2>4
    <3>2. \A l \in 1..Len(commits) : log[i].body.page \in commits[l].pages => commits[l].pos < i
      BY <1>0, <1>3, <2>1, <3>1 DEF LoggingInOrder
    <3>. QED  BY <1>5, <2>1, <2>2, <2>4, <3>2
  <2>. QED  BY <1>7, <2>3, <2>4
<1>17. LoggingInOrder'
  <2> SUFFICES ASSUME NEW u \in Txn, phase'[u] = "logging"
               PROVE  /\ \A p \in dirtied[u] \ todo[u] :
                           \E i \in 1..Len(log') : /\ IsUpdate(i)' /\ log'[i].body.page = p
                                                   /\ log'[i].body.image = Tag(u)
                      /\ \A i \in 1..Len(log') : IsUpdate(i)' /\ log'[i].body.image = Tag(u) =>
                           \A l \in 1..Len(commits') :
                              log'[i].body.page \in commits'[l].pages => commits'[l].pos < i
    BY <1>3, <1>9 DEF LoggingInOrder
  <2>1. u # t /\ phase[u] = "logging"
    BY <1>9, <1>10
  <2>2. ASSUME NEW p \in dirtied[u] \ todo[u]
        PROVE  \E i \in 1..Len(log') : /\ IsUpdate(i)' /\ log'[i].body.page = p
                                       /\ log'[i].body.image = Tag(u)
    <3>1. PICK i \in 1..Len(log) : IsUpdate(i) /\ log[i].body.page = p /\ log[i].body.image = Tag(u)
      BY <1>0, <2>1 DEF LoggingInOrder
    <3>. QED  BY <1>6, <3>1
  <2>3. ASSUME NEW i \in 1..Len(log'), IsUpdate(i)', log'[i].body.image = Tag(u),
               NEW l \in 1..Len(commits'), log'[i].body.page \in commits'[l].pages
        PROVE  commits'[l].pos < i
    <3>1. IsUpdate(i) /\ i \in 1..Len(log) /\ log'[i] = log[i]
      BY <1>b, <1>6, <2>3
    <3>2. CASE l \in 1..Len(commits)
      BY <1>0, <1>4, <2>1, <2>3, <3>1, <3>2 DEF LoggingInOrder
    <3>3. CASE l = m
      <4>1. log[i].body.page \in dirtied[u]
        BY <1>0, <2>3, <3>1 DEF OwnUpdates
      <4>. QED  BY <1>5, <1>11, <2>1, <2>3, <3>1, <3>3, <4>1
    <3>. QED  BY <1>7, <3>2, <3>3
  <2>. QED  BY <2>2, <2>3
<1>18. CommittingIsLast'
  <2> SUFFICES ASSUME NEW u \in Txn, phase'[u] \in {"flushing", "forcing"}
               PROVE  \E k \in 1..Len(commits') :
                         /\ InLog(k)' /\ commits'[k].txn = Tag(u)
                         /\ \A l \in k + 1..Len(commits') : commits'[l].pages \cap dirtied[u] = {}
    BY <1>3, <1>9 DEF CommittingIsLast
  <2>1. CASE u = t
    <3>1. \A l \in m + 1..Len(commits') : FALSE
      BY <1>4, <1>7
    <3>. QED  BY <1>5, <1>7, <1>8, <2>1, <3>1
  <2>2. CASE u # t
    <3>1. PICK k \in 1..Len(commits) :
             /\ InLog(k) /\ commits[k].txn = Tag(u)
             /\ \A l \in k + 1..Len(commits) : commits[l].pages \cap dirtied[u] = {}
      BY <1>0, <1>9, <2>2 DEF CommittingIsLast
    <3>2. ASSUME NEW l \in k + 1..Len(commits')
          PROVE  commits'[l].pages \cap dirtied[u] = {}
      <4>1. l \in 1..Len(commits') /\ (l \in 1..Len(commits) => l \in k + 1..Len(commits))
        BY <1>b, <1>0, <1>4, <1>7
      <4>2. CASE l \in 1..Len(commits)
        BY <1>4, <3>1, <4>1, <4>2
      <4>3. CASE l = m
        BY <1>5, <1>9, <1>11, <2>2, <4>3
      <4>. QED  BY <1>7, <4>1, <4>2, <4>3
    <3>. QED  BY <1>4, <1>7, <1>8, <3>1, <3>2
  <2>. QED  BY <2>1, <2>2
<1>. QED  BY <1>14, <1>15, <1>16, <1>17, <1>18 DEF HistoryInv

\* The log is appended to.
LEMMA AppendKeepsHistory ==
    ASSUME LogInv, HistoryInv, NEW t \in Txn,
           \/ Begin(t)
           \/ \E p \in PageKey : LogUpdate(t, p)
           \/ LogCommit(t) \/ LogAbort(t)
    PROVE  HistoryInv'
<1>0. /\ phase \in [Txn -> Phase] /\ dirtied \in [Txn -> SUBSET PageKey]
      /\ todo \in [Txn -> SUBSET PageKey]
  BY DEF LogInv, BaseInv, TypeOK
<1>1. ASSUME Begin(t) \/ LogAbort(t)
      PROVE  HistoryInv'
  <2>1. PICK b \in {BeginBody, AbortBody} : WAL!AppendRecord(t, b)
    BY <1>1 DEF Begin, LogAbort
  <2>2. b.type # "commit" /\ b.type # "update"
    BY DEF BeginBody, AbortBody
  <2>3. /\ phase[t] \in {"none", "discarding"}
        /\ phase' = [phase EXCEPT ![t] = "active"] \/ phase' = [phase EXCEPT ![t] = "aborting"]
    BY <1>1 DEF Begin, LogAbort, LoopDone, LogInv, BaseInv, SessionOK, TypeOK
  <2>4. UNCHANGED <<commits, session, dirtied, rolled_back>> /\ UNCHANGED todo
    BY <1>1 DEF Begin, LogAbort, LoopDone, histvars
  <2>5. \A u \in Txn :
              /\ phase[u] \in {"flushing", "forcing", "ended"} => phase'[u] = phase[u]
              /\ phase'[u] \in {"flushing", "forcing"} => phase'[u] = phase[u]
              /\ phase'[u] = "logging" =>
                    /\ phase[u] = "logging"
                    /\ \A p \in dirtied[u] \ todo'[u] :
                          p \notin todo[u] \/ (u = t /\ b.type = "update" /\ b.page = p)
    BY <1>0, <2>3, <2>4
  <2>. QED  BY <2>1, <2>2, <2>4, <2>5, RecordKeepsHistory
<1>2. ASSUME NEW p \in PageKey, LogUpdate(t, p)
      PROVE  HistoryInv'
  <2>1. /\ phase[t] = "logging" /\ p \in todo[t] /\ WAL!AppendRecord(t, UpdateBody(p, pool[p]))
        /\ todo' = [todo EXCEPT ![t] = @ \ {p}] /\ UNCHANGED phase
    BY <1>2 DEF LogUpdate, LoopStep
  <2>2. pool[p] = Tag(t)
    BY <2>1 DEF LogInv, BaseInv, TypeOK, PoolKeepsWrites
  <2>3. PICK b : b = UpdateBody(p, pool[p])
    OBVIOUS
  <2>4. b.type = "update" /\ b.type # "commit" /\ b.page = p /\ b.image = Tag(t)
    BY <2>2, <2>3 DEF UpdateBody
  <2>5. UNCHANGED <<commits, session, dirtied, rolled_back>>
    BY <1>2 DEF LogUpdate, LoopStep, histvars
  <2>6. \A u \in Txn :
              /\ phase[u] \in {"flushing", "forcing", "ended"} => phase'[u] = phase[u]
              /\ phase'[u] \in {"flushing", "forcing"} => phase'[u] = phase[u]
              /\ phase'[u] = "logging" =>
                    /\ phase[u] = "logging"
                    /\ \A q \in dirtied[u] \ todo'[u] :
                          q \notin todo[u] \/ (u = t /\ b.type = "update" /\ b.page = q)
    BY <1>0, <2>1, <2>4
  <2>. QED  BY <2>1, <2>3, <2>4, <2>5, <2>6, RecordKeepsHistory
<1>. QED  BY <1>1, <1>2, CommitKeepsHistory

\* A checkpoint runs while no transaction is at work, and leaves an empty log.
LEMMA TruncateKeepsHistory ==
    ASSUME LogInv, HistoryInv, TruncateWal
    PROVE  HistoryInv'
<1>0. /\ OneOutcome /\ CheckpointFirst /\ HistoryOK /\ SessionOK
      /\ Txn = 1..Cardinality(Txn) /\ Cardinality(Txn) \in Nat /\ Len(commits) \in Nat
  BY Constants, CommitsTyped DEF HistoryInv, LogInv, BaseInv
<1>1. /\ log' = <<>> /\ ckpt /\ UNCHANGED <<session, phase, rolled_back>>
  BY DEF TruncateWal, WAL!Checkpoint, txnvars
<1>2. /\ Len(commits') = Len(commits)
      /\ \A k \in 1..Len(commits) : commits'[k].txn = commits[k].txn /\ commits'[k].pos = 0
  BY <1>0, CommitsTruncated
<1>3. \A t \in Txn : phase'[t] = "none"
  BY <1>0, <1>1 DEF CheckpointFirst, SessionOK
<1>4. OneOutcome'
  BY <1>0, <1>1, <1>2 DEF OneOutcome, Tag
<1>5. \A k \in 1..Len(commits') : ~InLog(k)'
  BY <1>2 DEF InLog
<1>6. LoggedCommits' /\ UpdatesInCommitOrder'
  BY <1>5 DEF LoggedCommits, UpdatesInCommitOrder
<1>7. LoggingInOrder' /\ CommittingIsLast'
  BY <1>3 DEF LoggingInOrder, CommittingIsLast
<1>. QED  BY <1>4, <1>6, <1>7 DEF HistoryInv

\* A crash keeps the records up to some point and the commits among them.
LEMMA CrashKeepsHistory ==
    ASSUME LogInv, HistoryInv, ProcessCrash \/ PowerLoss
    PROVE  HistoryInv'
<1>0. /\ OneOutcome /\ LoggedCommits /\ UpdatesInCommitOrder /\ OwnCommits
      /\ Len(log) \in Nat /\ Len(commits) \in Nat
      /\ session \in Nat /\ rolled_back \subseteq Tags
      /\ \A k \in 1..Len(commits) : /\ commits[k].pos \in Nat
                                    /\ commits[k].txn \in Tags
  BY LogTyped, CommitsTyped, Constants DEF HistoryInv, LogInv, BaseInv, HistoryOK
<1>1. PICK n \in 0..Len(log), m \in 0..Len(commits) :
              /\ Len(log') = n /\ \A i \in 1..n : log'[i] = log[i]
              /\ Len(commits') = m /\ \A k \in 1..m : commits'[k] = commits[k]
              /\ \A k \in 1..Len(commits) : commits[k].pos <= n <=> k <= m
              /\ session' = session + 1
              /\ \A t \in Txn : phase'[t] = "none"
  BY CrashSteps DEF LogInv
<1>2. UNCHANGED rolled_back
  BY DEF ProcessCrash, PowerLoss, Restart
<1>3. /\ \A i \in 1..n : i \in 1..Len(log)
      /\ \A k \in 1..m : k \in 1..Len(commits) /\ commits[k].pos <= n
      /\ n \in Nat /\ m \in Nat
  BY <1>0, <1>1
<1>4. \A i : /\ IsUpdate(i)' <=> IsUpdate(i) /\ i <= n
             /\ IsUpdate(i) /\ i <= n => i \in 1..n
  BY <1>0, <1>1, <1>3 DEF IsUpdate
<1>5. \A k \in 1..m : InLog(k)' <=> InLog(k)
  BY <1>1 DEF InLog
<1>6. \A T \in Tags : T[1] \in Nat
  BY Constants DEF Tags
<1>7. OneOutcome'
  <2>1. \A k, l \in 1..m : commits'[k].txn = commits'[l].txn => k = l
    BY <1>0, <1>1, <1>3 DEF OneOutcome
  <2>2. ASSUME NEW k \in 1..m, NEW t \in Txn, commits'[k].txn = <<session', t>>
        PROVE  FALSE
    <3>1. commits'[k] = commits[k] /\ commits[k].txn[1] <= session
      BY <1>0, <1>1, <1>3 DEF OwnCommits
    <3>. QED  BY <1>0, <1>1, <2>2, <3>1
  <2>3. \A T \in rolled_back : T[1] <= session /\ T[1] <= session'
    BY <1>0, <1>1, <1>6 DEF OneOutcome
  <2>4. ASSUME NEW t \in Txn, <<session', t>> \in rolled_back
        PROVE  FALSE
    <3>1. <<session', t>>[1] <= session
      BY <2>3, <2>4
    <3>. QED  BY <1>0, <1>1, <3>1
  <2>5. \A k \in 1..m : commits'[k].txn \notin rolled_back
    BY <1>0, <1>1, <1>3 DEF OneOutcome
  <2>. QED  BY <1>1, <1>2, <2>1, <2>2, <2>3, <2>4, <2>5 DEF OneOutcome, Tag
<1>8. LoggedCommits'
  <2> SUFFICES ASSUME NEW k \in 1..m, InLog(k)'
               PROVE  /\ commits'[k].pos \in 1..n
                      /\ log'[commits'[k].pos].body.type = "commit"
                      /\ log'[commits'[k].pos].txn = commits'[k].txn[2]
                      /\ \A p \in commits'[k].pages :
                            \E i \in 1..n : /\ IsUpdate(i)' /\ log'[i].body.page = p
                                            /\ log'[i].body.image = commits'[k].txn
    BY <1>1 DEF LoggedCommits, IsCommit
  <2>1. k \in 1..Len(commits) /\ commits'[k] = commits[k] /\ InLog(k) /\ commits[k].pos <= n
    BY <1>1, <1>3, <1>5
  <2>2. IsCommit(commits[k].pos) /\ log[commits[k].pos].txn = commits[k].txn[2]
    BY <1>0, <2>1 DEF LoggedCommits
  <2>3. commits[k].pos \in 1..n /\ log[commits[k].pos].body.type = "commit"
    BY <1>0, <1>3, <2>1, <2>2 DEF IsCommit
  <2>4. log'[commits[k].pos] = log[commits[k].pos]
    BY <1>1, <2>3
  <2>5. ASSUME NEW p \in commits[k].pages
        PROVE  \E i \in 1..n : /\ IsUpdate(i)' /\ log'[i].body.page = p
                               /\ log'[i].body.image = commits[k].txn
    <3>1. PICK i \in 1..Len(log) : /\ IsUpdate(i) /\ log[i].body.page = p
                                   /\ log[i].body.image = commits[k].txn
      BY <1>0, <2>1 DEF LoggedCommits
    <3>2. i < commits[k].pos
      BY <1>0, <2>1, <3>1 DEF UpdatesInCommitOrder
    <3>3. i <= n
      BY <1>0, <1>3, <2>1, <3>2
    <3>. QED  BY <1>1, <1>4, <3>1, <3>3
  <2>. QED  BY <2>1, <2>2, <2>3, <2>4, <2>5
<1>9. UpdatesInCommitOrder'
  <2> SUFFICES ASSUME NEW i \in 1..n, NEW k \in 1..m, IsUpdate(i)', InLog(k)',
                      log'[i].body.image = commits'[k].txn
               PROVE  /\ i < commits'[k].pos
                      /\ \A l \in 1..k - 1 : log'[i].body.page \in commits'[l].pages => commits'[l].pos < i
    BY <1>1 DEF UpdatesInCommitOrder
  <2>1. IsUpdate(i) /\ i \in 1..Len(log) /\ log'[i] = log[i]
    BY <1>1, <1>3, <1>4
  <2>2. k \in 1..Len(commits) /\ commits'[k] = commits[k] /\ InLog(k)
    BY <1>1, <1>3, <1>5
  <2>3. \A l \in 1..k - 1 : commits'[l] = commits[l]
    BY <1>1, <1>3
  <2>. QED  BY <1>0, <2>1, <2>2, <2>3 DEF UpdatesInCommitOrder
<1>10. LoggingInOrder' /\ CommittingIsLast'
  BY <1>1 DEF LoggingInOrder, CommittingIsLast
<1>. QED  BY <1>7, <1>8, <1>9, <1>10 DEF HistoryInv

\* Every step keeps the order of the records.
LEMMA HistoryInductive ==
    ASSUME FailLsn = 0, NoFailure, LogInv, HistoryInv, [Next]_vars
    PROVE  HistoryInv'
<1>1. BaseInv
  BY DEF LogInv
<1>. QED
  BY <1>1, QuietHistorySteps, QuietKeepsHistory, AppendKeepsHistory, TruncateKeepsHistory,
     CrashKeepsHistory
-----------------------------------------------------------------------------
\* A step that leaves the data files, the commits and the pages still to be
\* forced as they are.
FileQuiet ==
    /\ UNCHANGED <<disk, commits, mode>>
    /\ \A u \in Txn : Pending(u)' = Pending(u)

\* Every step is quiet for the files, or is one of these.
LEMMA FileSteps ==
    ASSUME FailLsn = 0, BaseInv, NoFailure, CheckpointFirst, [Next]_vars
    PROVE  \/ FileQuiet
           \/ \E t \in Txn : /\ LogCommit(t) \/ \E p \in PageKey : ForcePage(t, p)
                             /\ mode = "open" /\ UNCHANGED mode
           \/ TruncateWal \/ ProcessCrash \/ PowerLoss \/ ReplayRecord \/ FinishOpen
<1>0. /\ phase \in [Txn -> Phase] /\ dirtied \in [Txn -> SUBSET PageKey]
      /\ todo \in [Txn -> SUBSET PageKey] /\ next_lsn \in Nat \ {0}
  BY DEF BaseInv, TypeOK, WP!OrderInv, WP!TypeOK
<1>1. ASSUME NEW t \in Txn, Transact(t), ~LogCommit(t), \A p \in PageKey : ~ForcePage(t, p)
      PROVE  FileQuiet
  <2>0. TxnStep(t) /\ phase[t] # "commit_failed" /\ UNCHANGED mode
    BY <1>0, <1>1 DEF Transact, NoFailure, CommitThrows, dbvars
  <2>1. UNCHANGED <<disk, commits>>
    BY <1>1, <2>0
       DEF TxnStep, Begin, AcquireLock, RecheckLock, WritePage, Commit, LogUpdate, FlushStep, StartForce,
           FinishCommit, Abort, DiscardPage, LogAbort, FinishAbort, diskvars, histvars
  <2>2. \A u \in Txn : u # t => Pending(u)' = Pending(u)
    BY <1>0, <2>0
       DEF TxnStep, Begin, AcquireLock, RecheckLock, WritePage, Commit, LogUpdate, LogCommit, FlushStep,
           StartForce, ForcePage, FinishCommit, Abort, DiscardPage, LogAbort, FinishAbort, StartLoop,
           LoopStep, LoopDone, txnvars, Pending, Unforced
  <2>3. Pending(t)' = Pending(t)
    <3>1. CASE Begin(t)
      <4>1. phase[t] = "none"
        BY <3>1 DEF Begin, BaseInv, SessionOK, TypeOK
      <4>. QED  BY <1>0, <3>1, <4>1 DEF Begin, Pending
    <3>2. CASE UNCHANGED txnvars
      BY <3>2 DEF txnvars, Pending, Unforced
    <3>3. CASE (\E p \in PageKey : WritePage(t, p) \/ LogUpdate(t, p) \/ DiscardPage(t, p))
      BY <1>0, <2>0, <3>3 DEF WritePage, LogUpdate, DiscardPage, LoopStep, Pending
    <3>4. CASE Commit(t) \/ Abort(t) \/ LogAbort(t) \/ FinishAbort(t)
      BY <1>0, <2>0, <3>4 DEF Commit, Abort, LogAbort, FinishAbort, StartLoop, LoopDone, Pending
    <3>5. CASE StartForce(t) \/ FinishCommit(t)
      BY <1>0, <2>0, <3>5 DEF StartForce, FinishCommit, StartLoop, LoopDone, Pending, Unforced
    <3>. QED
      BY <1>1, <2>0, <3>1, <3>2, <3>3, <3>4, <3>5 DEF TxnStep, AcquireLock, RecheckLock, FlushStep
  <2>. QED  BY <2>0, <2>1, <2>2, <2>3 DEF FileQuiet
<1>2. ASSUME UNCHANGED <<disk, commits, mode, txnvars>>
      PROVE  FileQuiet
  BY <1>2 DEF FileQuiet, txnvars, Pending, Unforced
<1>3. ASSUME NEW p \in PageKey, CheckpointFlush(p)
      PROVE  FileQuiet
  <2>1. dirty = {}
    BY <1>3 DEF CheckpointFlush, CheckpointFirst, BaseInv, SessionOK
  <2>. QED  BY <1>2, <1>3, <2>1 DEF CheckpointFlush, FlushPage, diskvars, histvars
<1>4. \A t \in Txn : Transact(t) => mode = "open" /\ UNCHANGED mode
  BY DEF Transact, dbvars
<1>5. ASSUME StartCheckpoint \/ Idle \/ UNCHANGED vars
      PROVE  FileQuiet
  BY <1>2, <1>5 DEF StartCheckpoint, Idle, vars, diskvars, histvars, dbvars
<1>. QED
  BY <1>1, <1>3, <1>4, <1>5 DEF Next

\* Force: a page of a committing transaction is its image in the pool, and
\* that is the committed one.
LEMMA ForcedImage ==
    ASSUME ForceInv, LogInv, HistoryInv, NEW t \in Txn, NEW p \in PageKey, ForcePage(t, p), mode = "open"
    PROVE  /\ disk' = [disk EXCEPT ![p] = Tag(t)] /\ Committed[p] = Tag(t)
           /\ \E k \in 1..Len(commits) : InLog(k) /\ p \in commits[k].pages
           /\ UNCHANGED <<commits, log>>
           /\ \A u \in Txn : Pending(u) \subseteq Pending(u)' \cup {p}
<1>0. /\ BaseInv /\ CleanIsForced /\ OwnCommits /\ CommittingIsLast /\ PoolKeepsWrites
      /\ Len(commits) \in Nat
      /\ phase \in [Txn -> Phase] /\ dirtied \in [Txn -> SUBSET PageKey] /\ todo \in [Txn -> SUBSET PageKey]
      /\ disk \in [PageKey -> Image] /\ todo[t] \subseteq dirtied[t]
  BY CommitsTyped DEF ForceInv, LogInv, HistoryInv, BaseInv, TypeOK
<1>1. /\ phase[t] = "forcing" /\ p \in todo[t] /\ todo' = [todo EXCEPT ![t] = @ \ {p}]
      /\ UNCHANGED <<phase, dirtied, commits, log>>
      /\ disk' = IF p \in dirty THEN [disk EXCEPT ![p] = pool[p]] ELSE disk
  BY DEF ForcePage, LoopStep, FlushPage, histvars, logvars, diskvars
<1>2. pool[p] = Tag(t) /\ p \in dirtied[t]
  BY <1>0, <1>1 DEF PoolKeepsWrites
<1>3. p \notin dirty => disk[p] = pool[p]
  BY <1>0 DEF CleanIsForced
<1>4. disk' = [disk EXCEPT ![p] = Tag(t)]
  BY <1>0, <1>1, <1>2, <1>3
<1>5. PICK k \in 1..Len(commits) : /\ InLog(k) /\ commits[k].txn = Tag(t)
                                   /\ \A l \in k + 1..Len(commits) :
                                         commits[l].pages \cap dirtied[t] = {}
  BY <1>0, <1>1 DEF CommittingIsLast
<1>6. p \in commits[k].pages
  BY <1>0, <1>2, <1>5 DEF OwnCommits
<1>7. \A l \in 1..Len(commits) : l > k => p \notin commits[l].pages
  BY <1>0, <1>2, <1>5
<1>8. Committed[p] = Tag(t)
  BY <1>0, <1>5, <1>6, <1>7, ContentsLast DEF Committed
<1>9. \A u \in Txn : Pending(u) \subseteq Pending(u)' \cup {p}
  BY <1>0, <1>1 DEF Pending, Unforced
<1>. QED  BY <1>1, <1>4, <1>5, <1>6, <1>8, <1>9

\* The content after a Commit record was appended.
LEMMA CommittedAppended ==
    ASSUME LogInv, NEW t \in Txn, LogCommit(t), NEW p \in PageKey
    PROVE  /\ Committed'[p] = IF p \in dirtied[t] THEN Tag(t) ELSE Committed[p]
           /\ UNCHANGED disk /\ Pending(t)' = dirtied[t]
           /\ \A u \in Txn : Pending(u) \subseteq Pending(u)'
<1>0. /\ HistoryOK /\ BaseInv /\ Len(commits) \in Nat
      /\ phase \in [Txn -> Phase]
  BY CommitsTyped DEF LogInv, BaseInv, TypeOK
<1>1. /\ Len(commits') = Len(commits) + 1
      /\ \A k \in 1..Len(commits) : commits'[k] = commits[k]
      /\ commits'[Len(commits) + 1] = [txn |-> Tag(t), pages |-> dirtied[t], pos |-> Len(log) + 1]
  BY <1>0, CommitAppended DEF BaseInv
<1>2. /\ commits'[Len(commits) + 1].txn = Tag(t)
      /\ commits'[Len(commits) + 1].pages = dirtied[t]
  BY <1>1
<1>3. AS!Contents(commits')[p] = IF p \in commits'[Len(commits) + 1].pages
                                 THEN commits'[Len(commits) + 1].txn ELSE AS!Contents(commits)[p]
  BY <1>0, <1>1, ContentsAppended
<1>4. Committed'[p] = IF p \in dirtied[t] THEN Tag(t) ELSE Committed[p]
  BY <1>2, <1>3 DEF Committed
<1>5. /\ phase[t] = "logging" /\ phase' = [phase EXCEPT ![t] = "flushing"]
      /\ UNCHANGED <<disk, dirtied, todo>>
  BY DEF LogCommit, LoopDone, diskvars
<1>6. Pending(t)' = dirtied[t] /\ \A u \in Txn : Pending(u) \subseteq Pending(u)'
  BY <1>0, <1>5 DEF Pending, Unforced
<1>. QED  BY <1>4, <1>5, <1>6

\* Truncating the log and losing none of it leave the committed content alone.
LEMMA CommittedKept ==
    ASSUME LogInv, TruncateWal \/ ProcessCrash
    PROVE  /\ Committed' = Committed /\ Len(commits') = Len(commits)
           /\ \A k \in 1..Len(commits) : commits'[k].txn = commits[k].txn /\ commits'[k].pages = commits[k].pages
           /\ ProcessCrash => \A k \in 1..Len(commits) : commits'[k] = commits[k]
           /\ UNCHANGED disk
<1>0. BaseInv /\ HistoryOK /\ Len(commits) \in Nat /\ Len(log) \in Nat
  BY CommitsTyped, LogTyped DEF LogInv, BaseInv
<1>1. ASSUME TruncateWal
      PROVE  /\ Len(commits') = Len(commits)
             /\ \A k \in 1..Len(commits) : commits'[k].txn = commits[k].txn /\ commits'[k].pages = commits[k].pages
  BY <1>0, <1>1, CommitsTruncated
<1>2. ASSUME ProcessCrash
      PROVE  /\ Len(commits') = Len(commits)
             /\ \A k \in 1..Len(commits) : commits'[k] = commits[k]
  <2>1. PICK n \in 0..Len(log), m \in 0..Len(commits) :
              /\ Len(commits') = m /\ \A k \in 1..m : commits'[k] = commits[k]
              /\ \A k \in 1..Len(commits) : commits[k].pos <= n <=> k <= m
              /\ n = Len(log)
    BY <1>0, <1>2, CrashSteps
  <2>2. \A k \in 1..Len(commits) : k <= m
    BY <1>0, <2>1 DEF HistoryOK
  <2>3. m = Len(commits)
    BY <1>0, <2>1, <2>2
  <2>. QED  BY <2>1, <2>3
<1>3. /\ Len(commits') = Len(commits)
      /\ \A k \in 1..Len(commits) : commits'[k].txn = commits[k].txn /\ commits'[k].pages = commits[k].pages
  BY <1>1, <1>2
<1>4. AS!Contents(commits') = AS!Contents(commits)
  BY <1>0, <1>3, ContentsSame
<1>5. Committed' = Committed
  BY <1>4 DEF Committed
<1>6. UNCHANGED disk
  BY DEF TruncateWal, ProcessCrash, diskvars
<1>. QED  BY <1>2, <1>3, <1>5, <1>6

\* A session in which no transaction has begun has nothing to force.
LEMMA NothingPending ==
    ASSUME BaseInv, next_txn_id = 1, NEW t \in Txn
    PROVE  phase[t] = "none" /\ Pending(t) = {}
<1>1. phase[t] = "none"
  BY Constants DEF BaseInv, SessionOK
<1>. QED  BY <1>1 DEF Pending

\* What recovery has redone when it is done is what it would leave.
LEMMA RecoveryDone ==
    ASSUME LogInv, HistoryInv, FileBehindLog, RedoneSoFar, mode = "recovering", redo > Len(log)
    PROVE  disk = Committed
<1>0. /\ Len(log) \in Nat /\ redo \in Nat /\ disk \in [PageKey -> Image]
      /\ Recovered(log, disk) = Committed
  BY LogTyped, RecoveryExact DEF LogInv, BaseInv, TypeOK, HistoryInv
<1>1. ASSUME NEW p \in PageKey
      PROVE  Recovered(log, disk)[p] = disk[p]
  <2>1. ASSUME NEW i \in 1..Len(log), IsReplayed(log, i), log[i].body.page = p,
               \A j \in 1..Len(log) : IsReplayed(log, j) /\ log[j].body.page = p => j <= i,
               Recovered(log, disk)[p] = log[i].body.image
        PROVE  Recovered(log, disk)[p] = disk[p]
    <3>1. i < redo
      BY <1>0
    <3>2. \A j \in 1..Len(log) :
             i < j /\ j < redo => ~(IsReplayed(log, j) /\ log[j].body.page = log[i].body.page)
      BY <1>0, <2>1
    <3>3. disk[log[i].body.page] = log[i].body.image
      BY <2>1, <3>1, <3>2 DEF RedoneSoFar
    <3>. QED  BY <2>1, <3>3
  <2>. QED  BY <1>0, <2>1, RecoveredPage
<1>2. Recovered(log, disk) = [p \in PageKey |-> Recovered(log, disk)[p]]
  BY DEF Recovered
<1>. QED  BY <1>0, <1>1, <1>2

\* The data files stay current while the database is open.
LEMMA FileStaysCurrent ==
    ASSUME FailLsn = 0, ForceInv, LogInv, HistoryInv, FileInv, [Next]_vars
    PROVE  FileIsCurrent'
<1>0. /\ FileIsCurrent /\ BaseInv /\ NoFailure /\ CheckpointFirst
      /\ disk \in [PageKey -> Image]
  BY DEF FileInv, ForceInv, LogInv, BaseInv, TypeOK
<1>1. CASE FileQuiet
  <2>1. Committed' = Committed /\ disk' = disk /\ mode' = mode
    BY <1>1 DEF FileQuiet, Committed
  <2>2. \A u \in Txn : Pending(u)' = Pending(u)
    BY <1>1 DEF FileQuiet
  <2>. QED  BY <1>0, <2>1, <2>2 DEF FileIsCurrent
<1>2. ASSUME NEW t \in Txn, LogCommit(t), mode = "open", UNCHANGED mode
      PROVE  FileIsCurrent'
  <2> SUFFICES ASSUME NEW p \in PageKey, \A u \in Txn : p \notin Pending(u)'
               PROVE  disk'[p] = Committed'[p]
    BY DEF FileIsCurrent
  <2>1. /\ Committed'[p] = IF p \in dirtied[t] THEN Tag(t) ELSE Committed[p]
        /\ UNCHANGED disk /\ Pending(t)' = dirtied[t]
        /\ \A u \in Txn : Pending(u) \subseteq Pending(u)'
    BY <1>2, CommittedAppended
  <2>2. p \notin dirtied[t] /\ \A u \in Txn : p \notin Pending(u)
    BY <2>1
  <2>. QED  BY <1>0, <1>2, <2>1, <2>2 DEF FileIsCurrent
<1>3. ASSUME NEW t \in Txn, NEW p \in PageKey, ForcePage(t, p), mode = "open", UNCHANGED mode
      PROVE  FileIsCurrent'
  <2>1. /\ disk' = [disk EXCEPT ![p] = Tag(t)] /\ Committed[p] = Tag(t)
        /\ UNCHANGED commits
        /\ \A u \in Txn : Pending(u) \subseteq Pending(u)' \cup {p}
    BY <1>3, ForcedImage
  <2>2. Committed' = Committed
    BY <2>1 DEF Committed
  <2> SUFFICES ASSUME NEW q \in PageKey, \A u \in Txn : q \notin Pending(u)'
               PROVE  disk'[q] = Committed[q]
    BY <2>2 DEF FileIsCurrent
  <2>3. CASE q = p
    BY <1>0, <2>1, <2>3
  <2>4. CASE q # p
    <3>1. \A u \in Txn : q \notin Pending(u)
      BY <2>1, <2>4
    <3>. QED  BY <1>0, <1>3, <2>1, <2>4, <3>1 DEF FileIsCurrent
  <2>. QED  BY <2>3, <2>4
<1>4. CASE TruncateWal
  <2>1. Committed' = Committed /\ UNCHANGED disk
    BY <1>4, CommittedKept
  <2>2. UNCHANGED <<mode, phase, dirtied, todo>>
    BY <1>4 DEF TruncateWal, txnvars
  <2>3. \A u \in Txn : Pending(u)' = Pending(u)
    BY <2>2 DEF Pending, Unforced
  <2>. QED  BY <1>0, <2>1, <2>2, <2>3 DEF FileIsCurrent
<1>5. CASE FinishOpen
  <2>1. mode = "recovering" /\ redo > Len(log) /\ UNCHANGED <<disk, commits>>
    BY <1>5 DEF FinishOpen, diskvars, histvars
  <2>2. disk = Committed
    BY <2>1, RecoveryDone DEF FileInv
  <2>3. Committed' = Committed
    BY <2>1 DEF Committed
  <2>. QED  BY <2>1, <2>2, <2>3 DEF FileIsCurrent
<1>6. CASE ProcessCrash \/ PowerLoss \/ ReplayRecord
  <2>1. mode' = "recovering"
    BY <1>6 DEF ProcessCrash, PowerLoss, ReplayRecord, Restart
  <2>. QED  BY <2>1 DEF FileIsCurrent
<1>. QED  BY <1>0, <1>1, <1>2, <1>3, <1>4, <1>5, <1>6, FileSteps

\* What the log does not cover stays in the data files.
LEMMA FileStaysBehindLog ==
    ASSUME Recoverable, AtomicInv, [Next]_vars
    PROVE  FileBehindLog'
<1>0. /\ ForceInv /\ LogInv /\ HistoryInv /\ FileInv
      /\ FileIsCurrent /\ FileBehindLog /\ BaseInv /\ NoFailure /\ CheckpointFirst /\ FailLsn = 0
      /\ NothingTruncated /\ HistoryOK
      /\ disk \in [PageKey -> Image] /\ Len(commits) \in Nat /\ Len(log) \in Nat /\ stable \in Nat
      /\ \A k \in 1..Len(commits) : commits[k].pos \in Nat
  BY CommitsTyped, LogTyped DEF AtomicInv, FileInv, ForceInv, LogInv, BaseInv, TypeOK, Recoverable
<1>1. ASSUME UNCHANGED commits,
             \A p \in PageKey : disk'[p] = disk[p] \/ \E k \in 1..Len(commits) : InLog(k) /\ p \in commits[k].pages
      PROVE  FileBehindLog'
  <2>1. Committed' = Committed /\ \A k : InLog(k)' <=> InLog(k)
    BY <1>1 DEF Committed, InLog
  <2> SUFFICES ASSUME NEW p \in PageKey, \A k \in 1..Len(commits) : InLog(k) => p \notin commits[k].pages
               PROVE  disk'[p] = Committed[p]
    BY <1>1, <2>1 DEF FileBehindLog
  <2>2. disk'[p] = disk[p]
    BY <1>1
  <2>. QED  BY <1>0, <2>2 DEF FileBehindLog
<1>2. CASE FileQuiet
  BY <1>1, <1>2 DEF FileQuiet
<1>3. ASSUME NEW t \in Txn, LogCommit(t)
      PROVE  FileBehindLog'
  <2>1. /\ Len(commits') = Len(commits) + 1
        /\ \A k \in 1..Len(commits) : commits'[k] = commits[k]
        /\ commits'[Len(commits) + 1] = [txn |-> Tag(t), pages |-> dirtied[t], pos |-> Len(log) + 1]
    BY <1>0, <1>3, CommitAppended DEF BaseInv
  <2> SUFFICES ASSUME NEW p \in PageKey,
                      \A k \in 1..Len(commits') : commits'[k].pos # 0 => p \notin commits'[k].pages
               PROVE  disk'[p] = Committed'[p]
    BY DEF FileBehindLog, InLog
  <2>2. Len(commits) + 1 \in 1..Len(commits') /\ \A k \in 1..Len(commits) : k \in 1..Len(commits')
    BY <1>0, <2>1
  <2>3. commits'[Len(commits) + 1].pos # 0 /\ commits'[Len(commits) + 1].pages = dirtied[t]
    BY <1>0, <2>1
  <2>4. p \notin dirtied[t]
    BY <2>2, <2>3
  <2>5. \A k \in 1..Len(commits) : InLog(k) => p \notin commits[k].pages
    BY <2>1, <2>2 DEF InLog
  <2>6. Committed'[p] = Committed[p] /\ UNCHANGED disk
    BY <1>0, <1>3, <2>4, CommittedAppended
  <2>. QED  BY <1>0, <2>5, <2>6 DEF FileBehindLog
<1>4. ASSUME NEW t \in Txn, NEW p \in PageKey, ForcePage(t, p), mode = "open"
      PROVE  FileBehindLog'
  <2>1. /\ disk' = [disk EXCEPT ![p] = Tag(t)] /\ UNCHANGED commits
        /\ \E k \in 1..Len(commits) : InLog(k) /\ p \in commits[k].pages
    BY <1>0, <1>4, ForcedImage
  <2>2. \A q \in PageKey : q = p \/ disk'[q] = disk[q]
    BY <1>0, <2>1
  <2>. QED  BY <1>1, <2>1, <2>2
<1>5. CASE ReplayRecord
  <2>1. /\ redo <= Len(log) /\ redo \in Nat \ {0} /\ UNCHANGED commits
        /\ \/ disk' = disk
           \/ /\ IsReplayed(log, redo)
              /\ disk' = [disk EXCEPT ![log[redo].body.page] = log[redo].body.image]
    BY <1>0, <1>5 DEF ReplayRecord, diskvars, histvars, BaseInv, TypeOK
  <2>2. redo \in 1..Len(log)
    BY <1>0, <2>1
  <2>3. PICK pg : pg = log[redo].body.page
    OBVIOUS
  <2>4. IsReplayed(log, redo) => \E k \in 1..Len(commits) : InLog(k) /\ pg \in commits[k].pages
    <3>1. IsReplayed(log, redo) => \E k \in 1..Len(commits) : commits[k].pos \in 1..Len(log) /\ pg \in commits[k].pages
      BY <1>0, <2>2, <2>3, ReplayedIsCommitted
    <3>2. \A k \in 1..Len(commits) : commits[k].pos \in 1..Len(log) => InLog(k)
      BY <1>0 DEF InLog
    <3>. QED  BY <3>1, <3>2
  <2>5. \A q \in PageKey : disk'[q] = disk[q] \/ (q = pg /\ IsReplayed(log, redo))
    BY <1>0, <2>1, <2>3
  <2>. QED  BY <1>1, <2>1, <2>4, <2>5
<1>6. CASE FinishOpen
  BY <1>1, <1>6 DEF FinishOpen, diskvars, histvars
<1>7. CASE TruncateWal
  <2>1. mode = "open" /\ next_txn_id = 1
    BY <1>0, <1>7 DEF TruncateWal, CheckpointFirst
  <2>2. \A p \in PageKey : disk[p] = Committed[p]
    BY <1>0, <2>1, NothingPending DEF FileIsCurrent
  <2>3. Committed' = Committed /\ UNCHANGED disk
    BY <1>0, <1>7, CommittedKept
  <2>. QED  BY <2>2, <2>3 DEF FileBehindLog
<1>8. CASE ProcessCrash
  <2>1. /\ Committed' = Committed /\ Len(commits') = Len(commits) /\ UNCHANGED disk
        /\ \A k \in 1..Len(commits) : commits'[k] = commits[k]
    BY <1>0, <1>8, CommittedKept
  <2>2. \A k \in 1..Len(commits) : InLog(k)' <=> InLog(k)
    BY <2>1 DEF InLog
  <2>. QED  BY <1>0, <2>1, <2>2 DEF FileBehindLog
<1>9. CASE PowerLoss
  <2>1. PowerFails /\ CheckpointWhen = "never"
    BY <1>9 DEF PowerLoss, Recoverable
  <2>2. PICK n \in 0..Len(log), m \in 0..Len(commits) :
              /\ Len(commits') = m /\ \A k \in 1..m : commits'[k] = commits[k]
              /\ \A k \in 1..Len(commits) : commits[k].pos <= n <=> k <= m
              /\ n >= stable
    BY <1>0, <1>9, CrashSteps
  <2>3. \A p \in PageKey : disk'[p] \in survivors[p]
    BY <1>9 DEF PowerLoss
  <2>4. SurvivorsAreCommitted
    BY <2>1 DEF AtomicInv, WriteAheadInv
  <2> SUFFICES ASSUME NEW p \in PageKey,
                      \A k \in 1..Len(commits') : commits'[k].pos # 0 => p \notin commits'[k].pages
               PROVE  disk'[p] = Committed'[p]
    BY DEF FileBehindLog, InLog
  <2>5. \A k \in 1..m : k \in 1..Len(commits) /\ commits'[k].pos # 0
    BY <1>0, <2>1, <2>2 DEF NothingTruncated, InLog
  <2>6. \A k \in 1..m : p \notin commits'[k].pages
    BY <2>2, <2>5
  <2>7. Committed'[p] = Blank
    <3>1. AS!Contents(commits')[p] = Blank
      BY <2>2, <2>6, ContentsLast
    <3>. QED  BY <3>1 DEF Committed
  <2>8. ASSUME disk'[p] # Blank
        PROVE  FALSE
    <3>1. PICK k \in 1..Len(commits) : commits[k].pos <= stable /\ p \in commits[k].pages
      BY <2>3, <2>4, <2>8 DEF SurvivorsAreCommitted
    <3>2. k \in 1..m
      BY <1>0, <2>2, <3>1
    <3>. QED  BY <2>2, <2>6, <3>1, <3>2
  <2>. QED  BY <2>7, <2>8
<1>. QED  BY <1>0, <1>2, <1>3, <1>4, <1>5, <1>6, <1>7, <1>8, <1>9, FileSteps

\* Recovery redoes one record after the other.
LEMMA RedoAdvances ==
    ASSUME LogInv, RedoneSoFar, [Next]_vars
    PROVE  RedoneSoFar'
<1>0. /\ CheckpointFirst /\ Len(log) \in Nat /\ redo \in Nat \ {0} /\ disk \in [PageKey -> Image]
  BY LogTyped DEF LogInv, BaseInv, TypeOK
<1>1. CASE ReplayRecord
  <2>1. /\ mode = "recovering" /\ redo <= Len(log) /\ redo' = redo + 1 /\ log' = log
        /\ IF IsReplayed(log, redo)
           THEN disk' = [disk EXCEPT ![log[redo].body.page] = log[redo].body.image]
           ELSE disk' = disk
    BY <1>1 DEF ReplayRecord, diskvars, logvars
  <2>2. redo \in 1..Len(log)
    BY <1>0, <2>1
  <2>3. \A i \in 1..Len(log) : IsReplayed(log, i) => log[i].body.page \in PageKey
    BY ReplayedIsCommitted
  <2> SUFFICES ASSUME NEW i \in 1..Len(log), i < redo + 1, IsReplayed(log, i),
                      \A j \in 1..Len(log) : i < j /\ j < redo + 1 =>
                          ~(IsReplayed(log, j) /\ log[j].body.page = log[i].body.page)
               PROVE  disk'[log[i].body.page] = log[i].body.image
    BY <2>1 DEF RedoneSoFar
  <2>4. CASE i = redo
    BY <1>0, <2>1, <2>3, <2>4
  <2>5. CASE i < redo
    <3>1. disk[log[i].body.page] = log[i].body.image
      BY <1>0, <2>1, <2>5 DEF RedoneSoFar
    <3>2. IsReplayed(log, redo) => log[redo].body.page # log[i].body.page
      BY <1>0, <2>2, <2>5
    <3>. QED  BY <1>0, <2>1, <2>3, <3>1, <3>2
  <2>. QED  BY <1>0, <2>4, <2>5
<1>2. CASE ProcessCrash \/ PowerLoss
  <2>1. redo' = 1
    BY <1>2 DEF ProcessCrash, PowerLoss, Restart
  <2>2. \A i \in 1..Len(log') : ~(i < 1)
    OBVIOUS
  <2>. QED  BY <2>1, <2>2 DEF RedoneSoFar
<1>3. CASE mode' = "open"
  BY <1>3 DEF RedoneSoFar
<1>4. CASE UNCHANGED vars
  BY <1>4 DEF vars, dbvars, logvars, diskvars, RedoneSoFar
<1>5. ASSUME \/ \E t \in Txn : Transact(t)
             \/ StartCheckpoint \/ (\E p \in PageKey : CheckpointFlush(p))
             \/ TruncateWal \/ FinishOpen
      PROVE  mode' = "open"
  BY <1>0, <1>5 DEF Transact, StartCheckpoint, CheckpointFlush, TruncateWal, FinishOpen, CheckpointFirst,
     dbvars
<1>. QED  BY <1>1, <1>2, <1>3, <1>4, <1>5 DEF Next, Idle

\* Without checkpoints no commit leaves the log.
LEMMA NothingIsTruncated ==
    ASSUME FailLsn = 0, ForceInv, LogInv, NothingTruncated, [Next]_vars
    PROVE  NothingTruncated'
<1> SUFFICES ASSUME CheckpointWhen = "never", NEW k \in 1..Len(commits')
             PROVE  commits'[k].pos # 0
  BY DEF NothingTruncated, InLog
<1>0. /\ BaseInv /\ NoFailure /\ CheckpointFirst /\ Len(commits) \in Nat /\ Len(log) \in Nat
  BY CommitsTyped, LogTyped DEF ForceInv, LogInv, BaseInv
<1>1. \A j \in 1..Len(commits) : commits[j].pos # 0
  BY DEF NothingTruncated, InLog
<1>2. CASE UNCHANGED commits
  BY <1>1, <1>2
<1>3. CASE \E t \in Txn : LogCommit(t)
  <2>1. PICK t \in Txn : LogCommit(t)
    BY <1>3
  <2>2. /\ Len(commits') = Len(commits) + 1
        /\ \A j \in 1..Len(commits) : commits'[j] = commits[j]
        /\ commits'[Len(commits) + 1] = [txn |-> Tag(t), pages |-> dirtied[t], pos |-> Len(log) + 1]
    BY <1>0, <2>1, CommitAppended DEF BaseInv
  <2>3. commits'[Len(commits) + 1].pos # 0
    BY <1>0, <2>2
  <2>4. k \in 1..Len(commits) \/ k = Len(commits) + 1
    BY <1>0, <2>2
  <2>. QED  BY <1>1, <2>2, <2>3, <2>4
<1>4. CASE ProcessCrash \/ PowerLoss
  <2>1. PICK m \in 0..Len(commits) : Len(commits') = m /\ \A j \in 1..m : commits'[j] = commits[j]
    BY <1>0, <1>4, CrashSteps
  <2>. QED  BY <1>0, <1>1, <2>1
<1>5. ~TruncateWal
  BY <1>0 DEF TruncateWal, CheckpointFirst
<1>6. \/ UNCHANGED commits \/ (\E t \in Txn : LogCommit(t)) \/ ProcessCrash \/ PowerLoss
  BY <1>0, <1>5, FileSteps DEF FileQuiet, ForcePage, ReplayRecord, FinishOpen, histvars
<1>. QED  BY <1>2, <1>3, <1>4, <1>6

\* An acknowledged commit stays.
LEMMA AckedStay ==
    ASSUME Recoverable, ForceInv, LogInv, AckedAreCommitted, [Next]_vars
    PROVE  AckedAreCommitted'
<1>0. /\ BaseInv /\ HistoryOK /\ FlushedCommits /\ Len(commits) \in Nat /\ Len(log) \in Nat /\ stable \in Nat
      /\ \A k \in 1..Len(commits) : commits[k].pos \in Nat
      /\ PowerFails => ~ProcessDies
  BY CommitsTyped, LogTyped DEF ForceInv, LogInv, BaseInv, Recoverable
<1>1. \A T \in acked : \E k \in 1..Len(commits) :
          commits[k].txn = T /\ (PowerFails => commits[k].pos <= stable)
  BY DEF AckedAreCommitted
<1>2. acked' = acked \/ \E t \in Txn : FinishCommit(t)
  BY DEF Next, Transact, TxnStep, Begin, AcquireLock, RecheckLock, WritePage, Commit, LogUpdate, LogCommit,
     FlushStep, FsyncFails, CommitThrows, StartForce, ForcePage, Abort, DiscardPage, LogAbort, FinishAbort,
     StartCheckpoint, CheckpointFlush, TruncateWal, ProcessCrash, PowerLoss, Restart, ReplayRecord,
     FinishOpen, Idle, vars, histvars
<1>3. ASSUME NEW t \in Txn, FinishCommit(t)
      PROVE  AckedAreCommitted'
  <2>1. /\ phase[t] = "forcing" /\ acked' = acked \cup {Tag(t)} /\ UNCHANGED <<commits, stable>>
    BY <1>3 DEF FinishCommit, WAL!EndTransaction
  <2>2. \E k \in 1..Len(commits) : commits[k].txn = Tag(t) /\ commits[k].pos <= stable
    BY <1>0, <2>1 DEF FlushedCommits
  <2>. QED  BY <1>1, <2>1, <2>2 DEF AckedAreCommitted
<1>4. ASSUME QuietStep, acked' = acked
      PROVE  AckedAreCommitted'
  <2>1. UNCHANGED commits /\ stable' \in Nat /\ stable' >= stable
    BY <1>4 DEF QuietStep
  <2>. QED  BY <1>0, <1>1, <1>4, <2>1 DEF AckedAreCommitted
<1>5. ASSUME NEW t \in Txn, Begin(t) \/ (\E p \in PageKey : LogUpdate(t, p)) \/ LogAbort(t)
      PROVE  AckedAreCommitted'
  <2>1. UNCHANGED <<commits, stable, acked>>
    BY <1>5 DEF Begin, LogUpdate, LogAbort, WAL!AppendRecord, histvars
  <2>. QED  BY <1>1, <2>1 DEF AckedAreCommitted
<1>6. ASSUME NEW t \in Txn, LogCommit(t)
      PROVE  AckedAreCommitted'
  <2>1. /\ Len(commits') = Len(commits) + 1
        /\ \A k \in 1..Len(commits) : commits'[k] = commits[k]
    BY <1>0, <1>6, CommitAppended DEF BaseInv
  <2>2. UNCHANGED <<stable, acked>>
    BY <1>6 DEF LogCommit, WAL!AppendRecord
  <2>3. \A k \in 1..Len(commits) : k \in 1..Len(commits')
    BY <1>0, <2>1
  <2>. QED  BY <1>1, <2>1, <2>2, <2>3 DEF AckedAreCommitted
<1>7. ASSUME TruncateWal
      PROVE  AckedAreCommitted'
  <2>1. /\ Len(commits') = Len(commits)
        /\ \A k \in 1..Len(commits) : commits'[k].txn = commits[k].txn /\ commits'[k].pos = 0
    BY <1>0, <1>7, CommitsTruncated
  <2>2. UNCHANGED acked /\ stable' = 0
    BY <1>7 DEF TruncateWal, WAL!Checkpoint
  <2>. QED  BY <1>1, <2>1, <2>2 DEF AckedAreCommitted
<1>8. ASSUME ProcessCrash \/ PowerLoss
      PROVE  AckedAreCommitted'
  <2>1. UNCHANGED acked
    BY <1>8 DEF ProcessCrash, PowerLoss, Restart
  <2>2. PICK n \in 0..Len(log), m \in 0..Len(commits) :
              /\ Len(commits') = m /\ \A k \in 1..m : commits'[k] = commits[k]
              /\ \A k \in 1..Len(commits) : commits[k].pos <= n <=> k <= m
              /\ n >= stable
              /\ ProcessCrash => n = Len(log)
              /\ PowerLoss => stable' = n
    BY <1>0, <1>8, CrashSteps
  <2> SUFFICES ASSUME NEW T \in acked
               PROVE  \E k \in 1..m : commits'[k].txn = T /\ (PowerFails => commits'[k].pos <= stable')
    BY <2>1, <2>2 DEF AckedAreCommitted
  <2>3. PICK k \in 1..Len(commits) : commits[k].txn = T /\ (PowerFails => commits[k].pos <= stable)
    BY <1>1
  <2>4. CASE ProcessCrash
    <3>1. ~PowerFails
      BY <1>0, <2>4 DEF ProcessCrash
    <3>2. k \in 1..m
      BY <1>0, <2>2, <2>4 DEF HistoryOK
    <3>. QED  BY <2>2, <2>3, <3>1, <3>2
  <2>5. CASE PowerLoss
    <3>1. commits[k].pos <= stable
      BY <2>3, <2>5 DEF PowerLoss
    <3>2. k \in 1..m /\ commits[k].pos <= n
      BY <1>0, <2>2, <3>1
    <3>. QED  BY <2>2, <2>3, <2>5, <3>2
  <2>. QED  BY <1>8, <2>4, <2>5
<1>. QED
  BY <1>0, <1>2, <1>3, <1>4, <1>5, <1>6, <1>7, <1>8, QuietSteps

\* Every step preserves the invariant.
LEMMA AtomicInductive ==
    ASSUME Recoverable, AtomicInv, [Next]_vars
    PROVE  AtomicInv'
<1>0. /\ ForceInv /\ LogInv /\ HistoryInv /\ FileInv /\ (PowerFails => WriteAheadInv)
      /\ NoFailure /\ FailLsn = 0 /\ OneSessionPerLog
      /\ RedoneSoFar /\ NothingTruncated /\ AckedAreCommitted
  BY DEF AtomicInv, ForceInv, Recoverable, FileInv
<1>1. ForceInv' /\ LogInv'
  BY <1>0, ForceInductive, LogInductive
<1>2. PowerFails => WriteAheadInv'
  BY <1>0, WriteAheadInductive DEF Recoverable
<1>3. HistoryInv'
  BY <1>0, HistoryInductive
<1>4. FileInv'
  BY <1>0, FileStaysCurrent, FileStaysBehindLog, RedoAdvances, NothingIsTruncated, AckedStay DEF FileInv
<1>. QED  BY <1>1, <1>2, <1>3, <1>4 DEF AtomicInv

\* It holds initially.
LEMMA AtomicInitially == Init => AtomicInv
<1> SUFFICES ASSUME Init PROVE AtomicInv
  OBVIOUS
<1>1. ForceInv /\ LogInv /\ WriteAheadInv
  BY ForceInitially, LogInitially, WriteAheadInitially
<1>2. Len(log) = 0 /\ Len(commits) = 0 /\ acked = {} /\ rolled_back = {}
  BY EmptySeq DEF Init, WAL!Init
<1>3. \A t \in Txn : phase[t] = "none"
  BY DEF Init, TxnInit
<1>4. OneOutcome /\ LoggedCommits /\ UpdatesInCommitOrder
  BY <1>2 DEF OneOutcome, LoggedCommits, UpdatesInCommitOrder
<1>5. LoggingInOrder /\ CommittingIsLast
  BY <1>3 DEF LoggingInOrder, CommittingIsLast
<1>6. ASSUME NEW p \in PageKey
      PROVE  disk[p] = Committed[p]
  <2>1. \A k \in 1..Len(commits) : p \notin commits[k].pages
    BY <1>2
  <2>2. Committed[p] = Blank
    BY <1>2, <2>1, ContentsLast DEF Committed
  <2>. QED  BY <2>2 DEF Init
<1>7. FileInv
  BY <1>2, <1>6 DEF FileInv, FileIsCurrent, FileBehindLog, RedoneSoFar, NothingTruncated, AckedAreCommitted
<1>. QED  BY <1>1, <1>4, <1>5, <1>7 DEF AtomicInv, HistoryInv

\* Atomicity and durability (docs/SPEC.md:63), for any transactions, pages,
\* sessions and log: where nothing reports an I/O error and the process dies,
\* or the machine stops while the log is never truncated, recovery from the
\* log and the data files leaves the committed transactions' content at every
\* moment, in the middle of a commit, a rollback, a checkpoint or a recovery too.
THEOREM RecoveryIsExact ==
    ASSUME Recoverable
    PROVE  Spec => []RecoversCommitted
<1>1. AtomicInv /\ [Next]_vars => AtomicInv'
  BY AtomicInductive
<1>2. AtomicInv => RecoversCommitted
  BY RecoveryExact DEF AtomicInv, HistoryInv, FileInv, RecoversCommitted, Committed
<1>. QED  BY <1>1, <1>2, AtomicInitially, PTL DEF Spec

\* A page that an active transaction has locked and not written holds the
\* committed image in the pool.
LEMMA LockedPageIsCommitted ==
    ASSUME AtomicInv, mode = "open", NEW t \in Txn, phase[t] = "active",
           NEW p \in held_by_txn[t], p \notin dirtied[t]
    PROVE  pool[p] = Committed[p]
<1>0. /\ DirtyIsUnforced /\ CleanIsForced /\ FileIsCurrent /\ WritersHoldLocks /\ NoFailure
      /\ LP!MutualExclusion /\ LP!TablesAgree /\ p \in PageKey /\ NoTxn \notin Txn
      /\ phase \in [Txn -> Phase] /\ dirtied \in [Txn -> SUBSET PageKey]
      /\ \A u \in Txn : todo[u] \subseteq dirtied[u]
  BY Constants DEF AtomicInv, FileInv, ForceInv, BaseInv, LP!IInv, LP!TypeOK, TypeOK
<1>1. t \in LP!Holders(locks[p])
  BY <1>0 DEF LP!TablesAgree
<1>2. ASSUME NEW u \in Txn, p \in dirtied[u], phase[u] # "ended"
      PROVE  FALSE
  <2>1. locks[p].exclusive_holder = u /\ u # t
    BY <1>0, <1>2 DEF WritersHoldLocks
  <2>. QED  BY <1>0, <1>1, <2>1 DEF LP!Holders, LP!MutualExclusion
<1>3. \A u \in Txn : p \notin Unforced(u)
  BY <1>0, <1>2 DEF Unforced
<1>4. \A u \in Txn : p \notin Pending(u)
  BY <1>3 DEF Pending
<1>5. p \notin dirty
  BY <1>0, <1>3 DEF DirtyIsUnforced
<1>. QED  BY <1>0, <1>4, <1>5 DEF CleanIsForced, FileIsCurrent

\* Isolation, under the same failures: a transaction that has locked a page
\* sees there its own write or the last committed one, whatever other
\* transactions commit or roll back meanwhile and whatever sessions and
\* recoveries came before.
THEOREM LockedPagesAreCommitted ==
    ASSUME Recoverable
    PROVE  Spec => []ReadsCommitted
<1>1. AtomicInv /\ [Next]_vars => AtomicInv'
  BY AtomicInductive
<1>2. AtomicInv => ReadsCommitted
  <2> SUFFICES ASSUME AtomicInv, mode = "open", NEW t \in Txn, phase[t] = "active", NEW p \in held_by_txn[t]
               PROVE  pool[p] = IF p \in dirtied[t] THEN Tag(t) ELSE Committed[p]
    BY DEF ReadsCommitted, Committed
  <2>1. CASE p \in dirtied[t]
    BY <2>1 DEF AtomicInv, ForceInv, BaseInv, PoolKeepsWrites
  <2>2. CASE p \notin dirtied[t]
    BY <2>2, LockedPageIsCommitted
  <2>. QED  BY <2>1, <2>2
<1>. QED  BY <1>1, <1>2, AtomicInitially, PTL DEF Spec

\* A rolled back transaction leaves nothing that recovery would bring back,
\* nor can its id's records be taken for another's (recovery.h:43-47).
THEOREM RolledBackIsGone ==
    ASSUME Recoverable
    PROVE  Spec => []RolledBackStaysOut
<1>1. AtomicInv /\ [Next]_vars => AtomicInv'
  BY AtomicInductive
<1>2. AtomicInv => RolledBackStaysOut
  <2> SUFFICES ASSUME AtomicInv, NEW p \in PageKey
               PROVE  Committed[p] \notin rolled_back
    BY RecoveryExact DEF AtomicInv, HistoryInv, FileInv, RolledBackStaysOut
  <2>0. /\ Len(commits) \in Nat /\ rolled_back \subseteq Tags
        /\ \A k \in 1..Len(commits) : commits[k].txn \notin rolled_back
    BY CommitsTyped DEF AtomicInv, HistoryInv, OneOutcome, LogInv, BaseInv, HistoryOK
  <2>1. CASE \A k \in 1..Len(commits) : p \notin commits[k].pages
    <3>1. Committed[p] = Blank
      BY <2>0, <2>1, ContentsLast DEF Committed
    <3>. QED  BY <2>0, <3>1, DatabaseAssumption DEF DatabaseAssumption, Tags
  <2>2. ASSUME NEW i \in 1..Len(commits), p \in commits[i].pages
        PROVE  Committed[p] \notin rolled_back
    <3>1. PICK k \in 1..Len(commits) : /\ p \in commits[k].pages
                                       /\ \A l \in 1..Len(commits) : l > k => p \notin commits[l].pages
      BY <2>0, <2>2, LastWriter
    <3>2. Committed[p] = commits[k].txn
      BY <2>0, <3>1, ContentsLast DEF Committed
    <3>. QED  BY <2>0, <3>2
  <2>. QED  BY <2>1, <2>2
<1>. QED  BY <1>1, <1>2, AtomicInitially, PTL DEF Spec
-----------------------------------------------------------------------------
\* The commits as AtomicStore sees them.
Abs == [i \in DOMAIN commits |-> [txn |-> commits[i].txn, pages |-> commits[i].pages]]

AbsEntry == [txn : Tags, pages : SUBSET PageKey]

\* They are a sequence of the same length.
LEMMA AbsTyped ==
    ASSUME HistoryOK
    PROVE  /\ Abs \in Seq(AbsEntry) /\ Len(Abs) = Len(commits)
           /\ \A k \in 1..Len(commits) : /\ Abs[k] = [txn |-> commits[k].txn, pages |-> commits[k].pages]
                                         /\ Abs[k].txn = commits[k].txn /\ Abs[k].pages = commits[k].pages
<1>1. /\ Len(commits) \in Nat /\ DOMAIN commits = 1..Len(commits)
      /\ \A k \in 1..Len(commits) : commits[k].txn \in Tags /\ commits[k].pages \in SUBSET PageKey
  BY CommitsTyped
<1>2. Abs = [k \in 1..Len(commits) |-> [txn |-> commits[k].txn, pages |-> commits[k].pages]]
  BY <1>1 DEF Abs
<1>3. \A k \in 1..Len(commits) : [txn |-> commits[k].txn, pages |-> commits[k].pages] \in AbsEntry
  BY <1>1 DEF AbsEntry
<1>4. Abs \in Seq(AbsEntry)
  BY <1>1, <1>2, <1>3, IsASeq
<1>5. DOMAIN Abs = 1..Len(commits)
  BY <1>2
<1>6. Len(Abs) = Len(commits)
  BY <1>1, <1>4, <1>5, LenProperties
<1>. QED  BY <1>2, <1>4, <1>6

\* The same in the next state.
LEMMA AbsTypedNext ==
    HistoryOK' =>
        /\ Abs' \in Seq(AbsEntry) /\ Len(Abs') = Len(commits')
        /\ \A k \in 1..Len(commits') : /\ Abs'[k] = [txn |-> commits'[k].txn, pages |-> commits'[k].pages]
                                       /\ Abs'[k].txn = commits'[k].txn /\ Abs'[k].pages = commits'[k].pages
<1>1. HistoryOK =>
        /\ Abs \in Seq(AbsEntry) /\ Len(Abs) = Len(commits)
        /\ \A k \in 1..Len(commits) : /\ Abs[k] = [txn |-> commits[k].txn, pages |-> commits[k].pages]
                                      /\ Abs[k].txn = commits[k].txn /\ Abs[k].pages = commits[k].pages
  BY AbsTyped
<1>2. HistoryOK' =>
        (/\ Abs \in Seq(AbsEntry) /\ Len(Abs) = Len(commits)
         /\ \A k \in 1..Len(commits) : /\ Abs[k] = [txn |-> commits[k].txn, pages |-> commits[k].pages]
                                       /\ Abs[k].txn = commits[k].txn /\ Abs[k].pages = commits[k].pages)'
  BY <1>1, PTL
<1>. QED  BY <1>2

\* The durable content is the committed one, in this state and the next.
LEMMA StoreIsCommitted ==
    /\ AtomicInv => Recovered(log, disk) = Committed
    /\ AtomicInv' => Recovered(log, disk)' = Committed'
<1>1. AtomicInv => Recovered(log, disk) = Committed
  BY RecoveryExact DEF AtomicInv, HistoryInv, FileInv
<1>2. AtomicInv' => (Recovered(log, disk) = Committed)'
  BY <1>1, PTL
<1>. QED  BY <1>1, <1>2

\* Steps that leave the history as AtomicStore sees it alone.
LEMMA OutcomeSteps ==
    ASSUME [Next]_vars
    PROVE  \/ UNCHANGED <<commits, acked, rolled_back>>
           \/ \E t \in Txn : LogCommit(t) \/ FinishCommit(t) \/ FinishAbort(t)
           \/ TruncateWal \/ ProcessCrash \/ PowerLoss
  BY DEF Next, Transact, TxnStep, Begin, AcquireLock, RecheckLock, WritePage, Commit, LogUpdate, FlushStep,
     FsyncFails, CommitThrows, StartForce, ForcePage, Abort, DiscardPage, LogAbort, StartCheckpoint,
     CheckpointFlush, ReplayRecord, FinishOpen, Idle, vars, histvars

\* LogCommit is AtomicStore's Commit.
LEMMA CommitRefines ==
    ASSUME AtomicInv, AtomicInv', NEW t \in Txn, LogCommit(t)
    PROVE  \E T \in (1..MaxSessions) \X Txn, W \in SUBSET PageKey : AS!Commit(T, W)
<1>0. /\ LogInv /\ HistoryOK /\ HistoryOK' /\ OneOutcome /\ Len(commits) \in Nat
      /\ session \in 1..MaxSessions /\ dirtied[t] \in SUBSET PageKey
  BY CommitsTyped DEF AtomicInv, LogInv, BaseInv, HistoryInv, HistoryOK, TypeOK
<1>1. /\ Len(commits') = Len(commits) + 1
      /\ \A k \in 1..Len(commits) : commits'[k] = commits[k]
      /\ commits'[Len(commits) + 1] = [txn |-> Tag(t), pages |-> dirtied[t], pos |-> Len(log) + 1]
  BY <1>0, CommitAppended DEF LogInv, BaseInv
<1>2. /\ commits'[Len(commits) + 1].txn = Tag(t)
      /\ commits'[Len(commits) + 1].pages = dirtied[t]
  BY <1>1
<1>3. /\ phase[t] = "logging" /\ UNCHANGED <<acked, rolled_back>>
  BY DEF LogCommit
<1>4. Tag(t) \notin rolled_back /\ \A k \in 1..Len(commits) : commits[k].txn # Tag(t)
  BY <1>0, <1>3 DEF OneOutcome
<1>5. /\ Abs \in Seq(AbsEntry) /\ Len(Abs) = Len(commits)
      /\ \A k \in 1..Len(commits) : /\ Abs[k] = [txn |-> commits[k].txn, pages |-> commits[k].pages]
                                    /\ Abs[k].txn = commits[k].txn
  BY <1>0, AbsTyped
<1>6. /\ Abs' \in Seq(AbsEntry) /\ Len(Abs') = Len(commits')
      /\ \A k \in 1..Len(commits') : Abs'[k] = [txn |-> commits'[k].txn, pages |-> commits'[k].pages]
  BY <1>0, AbsTypedNext
<1>7. Tag(t) \notin AS!TxnsOf(Abs)
  BY <1>4, <1>5 DEF AS!TxnsOf
<1>8. Abs' = Append(Abs, [txn |-> Tag(t), pages |-> dirtied[t]])
  <2>1. PICK e : e = [txn |-> Tag(t), pages |-> dirtied[t]]
    OBVIOUS
  <2>2. e \in AbsEntry
    BY <1>0, <2>1 DEF AbsEntry, Tags, Tag
  <2>3. /\ Append(Abs, e) \in Seq(AbsEntry) /\ Len(Append(Abs, e)) = Len(commits) + 1
        /\ \A k \in 1..Len(commits) : Append(Abs, e)[k] = Abs[k]
        /\ Append(Abs, e)[Len(commits) + 1] = e
    BY <1>5, <2>2, AppendProperties
  <2>4. ASSUME NEW k \in 1..Len(commits) + 1
        PROVE  Abs'[k] = Append(Abs, e)[k]
    <3>1. CASE k \in 1..Len(commits)
      <4>1. k \in 1..Len(commits') /\ Abs'[k] = [txn |-> commits[k].txn, pages |-> commits[k].pages]
        BY <1>0, <1>1, <1>6, <3>1
      <4>. QED  BY <1>5, <2>3, <3>1, <4>1
    <3>2. CASE k = Len(commits) + 1
      <4>1. k \in 1..Len(commits')
        BY <1>0, <1>1, <3>2
      <4>2. Abs'[k] = [txn |-> commits'[k].txn, pages |-> commits'[k].pages]
        BY <1>6, <4>1
      <4>. QED  BY <1>2, <2>1, <2>3, <3>2, <4>2
    <3>3. k \in 1..Len(commits) \/ k = Len(commits) + 1
      BY <1>0
    <3>. QED  BY <3>1, <3>2, <3>3
  <2>5. Abs' = Append(Abs, e)
    BY <1>1, <1>6, <2>3, <2>4, SeqEqual
  <2>. QED  BY <2>1, <2>5
<1>9. Recovered(log, disk)' = [p \in PageKey |-> IF p \in dirtied[t] THEN Tag(t) ELSE Recovered(log, disk)[p]]
  <2>1. Recovered(log, disk) = Committed /\ Recovered(log, disk)' = Committed'
    BY StoreIsCommitted
  <2>2. \A p \in PageKey : Committed'[p] = IF p \in dirtied[t] THEN Tag(t) ELSE Committed[p]
    BY <1>0, CommittedAppended
  <2>3. Committed' = [p \in PageKey |-> Committed'[p]]
    BY DEF Committed, AS!Contents
  <2>. QED  BY <2>1, <2>2, <2>3
<1>10. PICK T \in (1..MaxSessions) \X Txn, W \in SUBSET PageKey : T = Tag(t) /\ W = dirtied[t]
  BY <1>0 DEF Tag
<1>11. AS!Commit(T, W)
  BY <1>3, <1>4, <1>7, <1>8, <1>9, <1>10 DEF AS!Commit, Abs
<1>. QED  BY <1>11

\* A crash is AtomicStore's, with the commits whose records are left.
LEMMA CrashRefines ==
    ASSUME AtomicInv, AtomicInv', ProcessCrash \/ PowerLoss
    PROVE  \E m \in 0..Len(Abs) : AS!Crash(m)
<1>0. /\ BaseInv /\ HistoryOK /\ HistoryOK' /\ AckedAreCommitted' /\ Len(commits) \in Nat
  BY CommitsTyped DEF AtomicInv, LogInv, BaseInv, FileInv
<1>1. PICK m \in 0..Len(commits) : Len(commits') = m /\ \A k \in 1..m : commits'[k] = commits[k]
  BY <1>0, CrashSteps
<1>2. UNCHANGED <<acked, rolled_back>>
  BY DEF ProcessCrash, PowerLoss, Restart
<1>3. /\ Abs \in Seq(AbsEntry) /\ Len(Abs) = Len(commits)
      /\ \A k \in 1..Len(commits) : Abs[k] = [txn |-> commits[k].txn, pages |-> commits[k].pages]
  BY <1>0, AbsTyped
<1>4. /\ Abs' \in Seq(AbsEntry) /\ Len(Abs') = Len(commits')
      /\ \A k \in 1..Len(commits') : /\ Abs'[k] = [txn |-> commits'[k].txn, pages |-> commits'[k].pages]
                                     /\ Abs'[k].txn = commits'[k].txn /\ Abs'[k].pages = commits'[k].pages
  BY <1>0, AbsTypedNext
<1>5. /\ SubSeq(Abs, 1, m) \in Seq(AbsEntry) /\ Len(SubSeq(Abs, 1, m)) = m
      /\ \A k \in 1..m : SubSeq(Abs, 1, m)[k] = Abs[k]
  BY <1>1, <1>3, PrefixOfSeq
<1>6. \A k \in 1..m : Abs'[k] = SubSeq(Abs, 1, m)[k]
  <2> SUFFICES ASSUME NEW k \in 1..m PROVE Abs'[k] = SubSeq(Abs, 1, m)[k]
    OBVIOUS
  <2>1. k \in 1..Len(commits) /\ commits'[k] = commits[k]
    BY <1>0, <1>1
  <2>. QED  BY <1>1, <1>3, <1>4, <1>5, <2>1
<1>7. Abs' = SubSeq(Abs, 1, m)
  BY <1>1, <1>4, <1>5, <1>6, SeqEqual
<1>8. acked \subseteq AS!TxnsOf(Abs')
  <2>1. \A T \in acked : \E k \in 1..Len(commits') : commits'[k].txn = T
    BY <1>0, <1>2 DEF AckedAreCommitted
  <2>. QED  BY <1>4, <2>1 DEF AS!TxnsOf
<1>9. Recovered(log, disk)' = AS!Contents(Abs')
  <2>1. Recovered(log, disk)' = Committed'
    BY StoreIsCommitted
  <2>2. AS!Contents(Abs') = AS!Contents(commits')
    BY <1>1, <1>4, ContentsSame
  <2>. QED  BY <2>1, <2>2 DEF Committed
<1>10. AS!Crash(m)
  BY <1>2, <1>7, <1>8, <1>9 DEF AS!Crash, Abs
<1>. QED  BY <1>1, <1>3, <1>10

\* FinishCommit acknowledges, FinishAbort rolls back.
LEMMA EndRefines ==
    ASSUME AtomicInv, AtomicInv', NEW t \in Txn, FinishCommit(t) \/ FinishAbort(t)
    PROVE  AS!Acknowledge(Tag(t)) \/ AS!RollBack(Tag(t))
<1>0. /\ HistoryOK /\ OneOutcome /\ FlushedCommits
  BY DEF AtomicInv, LogInv, BaseInv, HistoryInv
<1>1. /\ Len(Abs) = Len(commits) /\ \A k \in 1..Len(commits) : Abs[k].txn = commits[k].txn
  BY <1>0, AbsTyped
<1>2. UNCHANGED commits
  BY DEF FinishCommit, FinishAbort
<1>3. Abs' = Abs /\ Recovered(log, disk)' = Recovered(log, disk)
  <2>1. Committed' = Committed /\ Abs' = Abs
    BY <1>2 DEF Committed, Abs
  <2>. QED  BY <2>1, StoreIsCommitted
<1>4. ASSUME FinishCommit(t)
      PROVE  AS!Acknowledge(Tag(t))
  <2>1. phase[t] = "forcing" /\ acked' = acked \cup {Tag(t)} /\ UNCHANGED rolled_back
    BY <1>4 DEF FinishCommit
  <2>2. Tag(t) \in AS!TxnsOf(Abs)
    BY <1>0, <1>1, <2>1 DEF FlushedCommits, AS!TxnsOf
  <2>. QED  BY <1>3, <2>1, <2>2 DEF AS!Acknowledge, Abs
<1>5. ASSUME FinishAbort(t)
      PROVE  AS!RollBack(Tag(t))
  <2>1. phase[t] = "aborting" /\ rolled_back' = rolled_back \cup {Tag(t)} /\ UNCHANGED acked
    BY <1>5 DEF FinishAbort
  <2>2. Tag(t) \notin AS!TxnsOf(Abs)
    BY <1>0, <1>1, <2>1 DEF OneOutcome, AS!TxnsOf
  <2>. QED  BY <1>3, <2>1, <2>2 DEF AS!RollBack, Abs
<1>. QED  BY <1>4, <1>5

\* Every step is a step of AtomicStore or leaves its variables alone.
LEMMA StepRefines ==
    ASSUME AtomicInv, AtomicInv', [Next]_vars
    PROVE  [AS!Next]_(AS!asvars)
<1>0. /\ HistoryOK /\ HistoryOK' /\ LogInv /\ session \in 1..MaxSessions
      /\ dirtied \in [Txn -> SUBSET PageKey] /\ Len(commits) \in Nat
  BY CommitsTyped DEF AtomicInv, LogInv, BaseInv, HistoryOK, TypeOK
<1>1. \A t \in Txn : Tag(t) \in (1..MaxSessions) \X Txn
  BY <1>0 DEF Tag
<1>2. ASSUME Abs' = Abs, Committed' = Committed, UNCHANGED <<acked, rolled_back>>
      PROVE  UNCHANGED AS!asvars
  <2>1. Recovered(log, disk)' = Recovered(log, disk)
    BY <1>2, StoreIsCommitted
  <2>. QED  BY <1>2, <2>1 DEF AS!asvars, Abs
<1>3. CASE UNCHANGED <<commits, acked, rolled_back>>
  <2>1. Abs' = Abs /\ Committed' = Committed
    BY <1>3 DEF Abs, Committed
  <2>. QED  BY <1>2, <1>3, <2>1
<1>4. ASSUME NEW t \in Txn, LogCommit(t)
      PROVE  AS!Next
  BY <1>4, CommitRefines DEF AS!Next
<1>5. ASSUME NEW t \in Txn, FinishCommit(t) \/ FinishAbort(t)
      PROVE  AS!Next
  <2>1. AS!Acknowledge(Tag(t)) \/ AS!RollBack(Tag(t))
    BY <1>5, EndRefines
  <2>. QED  BY <1>1, <2>1 DEF AS!Next
<1>6. CASE TruncateWal
  <2>1. /\ Committed' = Committed /\ Len(commits') = Len(commits)
        /\ \A k \in 1..Len(commits) : commits'[k].txn = commits[k].txn /\ commits'[k].pages = commits[k].pages
    BY <1>0, <1>6, CommittedKept
  <2>2. UNCHANGED <<acked, rolled_back>>
    BY <1>6 DEF TruncateWal
  <2>3. /\ Abs \in Seq(AbsEntry) /\ Len(Abs) = Len(commits)
        /\ \A k \in 1..Len(commits) : Abs[k] = [txn |-> commits[k].txn, pages |-> commits[k].pages]
    BY <1>0, AbsTyped
  <2>4. /\ Abs' \in Seq(AbsEntry) /\ Len(Abs') = Len(commits')
        /\ \A k \in 1..Len(commits') : Abs'[k] = [txn |-> commits'[k].txn, pages |-> commits'[k].pages]
    BY <1>0, AbsTypedNext
  <2>5. \A k \in 1..Len(Abs') : Abs'[k] = Abs[k]
    BY <2>1, <2>3, <2>4
  <2>6. Abs' = Abs
    BY <2>1, <2>3, <2>4, <2>5, SeqEqual
  <2>. QED  BY <1>2, <2>1, <2>2, <2>6
<1>7. CASE ProcessCrash \/ PowerLoss
  <2>1. \E m \in 0..Len(Abs) : AS!Crash(m)
    BY <1>7, CrashRefines
  <2>. QED  BY <2>1 DEF AS!Next, Abs
<1>. QED  BY <1>3, <1>4, <1>5, <1>6, <1>7, OutcomeSteps

\* Commit, Abort, Checkpoint and recovery implement the atomic, durable store
\* of docs/SPEC.md section 2, for any transactions, pages and sessions: all the
\* pages of a transaction take effect in the step that appends its Commit
\* record, a crash undoes commits only from the end and none that was
\* acknowledged, and a rolled back transaction never takes effect.
THEOREM DatabaseIsAtomic ==
    ASSUME Recoverable
    PROVE  Spec => ImplementsAtomicStore
<1>1. AtomicInv /\ [Next]_vars => AtomicInv'
  BY AtomicInductive
<1>2. Init => AS!Init
  <2> SUFFICES ASSUME Init PROVE AS!Init
    OBVIOUS
  <2>1. AtomicInv
    BY AtomicInitially
  <2>2. Recovered(log, disk) = Committed
    BY <2>1, StoreIsCommitted
  <2>3. Len(commits) = 0 /\ HistoryOK
    BY <2>1, EmptySeq DEF Init, AtomicInv, LogInv, BaseInv
  <2>4. Abs \in Seq(AbsEntry) /\ Len(Abs) = 0
    BY <2>3, AbsTyped
  <2>5. Abs = <<>>
    BY <2>4, EmptySeq
  <2>6. \A p \in PageKey : Committed[p] = Blank
    BY <2>3, ContentsLast DEF Committed
  <2>7. Committed = [p \in PageKey |-> Blank]
    <3>1. Committed = [p \in PageKey |-> Committed[p]]
      BY DEF Committed, AS!Contents
    <3>. QED  BY <2>6, <3>1
  <2>8. acked = {} /\ rolled_back = {}
    BY DEF Init
  <2>. QED  BY <2>2, <2>5, <2>7, <2>8 DEF AS!Init, Abs
<1>3. AtomicInv /\ AtomicInv' /\ [Next]_vars => [AS!Next]_(AS!asvars)
  BY StepRefines
<1>. QED  BY <1>1, <1>2, <1>3, AtomicInitially, PTL DEF Spec, AS!Spec, ImplementsAtomicStore
=============================================================================
