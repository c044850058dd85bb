----------------------------- MODULE LogManager -----------------------------
(***************************************************************************)
(* The write-ahead log of flintdb (src/src/wal/log_manager.{h,cpp}):       *)
(* appending records, the group-commit protocol of FlushThrough, the       *)
(* quiescent Checkpoint, and the scan that cuts a torn tail off on open.   *)
(*                                                                         *)
(* mutex_ makes AppendRecord and Checkpoint one step each; flush_mutex_    *)
(* splits FlushThrough into the pass over its while condition, the fsync   *)
(* made with no lock held, and the publication of the result.  A thread    *)
(* runs one transaction at a time, so threads stand for transactions.      *)
(***************************************************************************)
EXTENDS Naturals, Sequences

CONSTANTS Thread,          \* the threads (transactions) that use the log
          Body,            \* type and payload of a record
          MaxLsn,          \* bound: the highest LSN handed out
          WriteMayFail,    \* whether write() may fail (disk full, I/O error)
          UseCheckpoint    \* whether the host program calls Checkpoint

ASSUME LogAssumption ==
    /\ MaxLsn \in Nat
    /\ WriteMayFail \in BOOLEAN
    /\ UseCheckpoint \in BOOLEAN

VARIABLES
    log,                \* the WAL file, as the sequence of its records
    stable,             \* external: how many leading records are on stable storage
    next_lsn,
    durable_lsn,
    flush_in_progress,
    pc,                 \* where a thread is in FlushThrough
    target,             \* the last LSN a thread was given; 0 outside a transaction
    to_cover,           \* to_cover of the thread that is flushing
    covers              \* external: the records its fsync was called after

logvars == <<log, stable, next_lsn, durable_lsn, flush_in_progress, pc, target, to_cover, covers>>

LogRecord == [lsn : Nat, txn : Thread, body : Body, torn : BOOLEAN]

\* idle: not in FlushThrough.  checking: about to evaluate the while condition.
\* waiting: in flush_cv_.wait.  syncing: in fsync, flush_mutex_ not held.
\* flushed: FlushThrough returned.  failed: it rethrew the fsync error.
Pc == {"idle", "checking", "waiting", "syncing", "flushed", "failed"}

Larger(a, b) == IF a >= b THEN a ELSE b
-----------------------------------------------------------------------------
Init ==
    /\ log = <<>>
    /\ stable = 0
    /\ next_lsn = 1
    /\ durable_lsn = 0
    /\ flush_in_progress = FALSE
    /\ pc = [t \in Thread |-> "idle"]
    /\ target = [t \in Thread |-> 0]
    /\ to_cover = [t \in Thread |-> 0]
    /\ covers = [t \in Thread |-> 0]

\* The LSN is assigned and the bytes are written under one hold of mutex_.
AppendRecord(t, body) ==
    /\ pc[t] = "idle"
    /\ next_lsn <= MaxLsn
    /\ log' = Append(log, [lsn |-> next_lsn, txn |-> t, body |-> body, torn |-> FALSE])
    /\ next_lsn' = next_lsn + 1
    /\ target' = [target EXCEPT ![t] = next_lsn]
    /\ UNCHANGED <<stable, durable_lsn, flush_in_progress, pc, to_cover, covers>>

\* FullWrite throws, before its first byte or after some of them: the LSN is
\* used up and a fragment may stay in the file.
AppendFails(t, body) ==
    /\ WriteMayFail
    /\ pc[t] = "idle"
    /\ next_lsn <= MaxLsn
    /\ \/ log' = Append(log, [lsn |-> next_lsn, txn |-> t, body |-> body, torn |-> TRUE])
       \/ log' = log
    /\ next_lsn' = next_lsn + 1
    /\ UNCHANGED <<stable, durable_lsn, flush_in_progress, pc, target, to_cover, covers>>

\* Commit calls FlushThrough with the LSN of its Commit record.
FlushThrough(t) ==
    /\ pc[t] = "idle" /\ target[t] # 0
    /\ pc' = [pc EXCEPT ![t] = "checking"]
    /\ UNCHANGED <<log, stable, next_lsn, durable_lsn, flush_in_progress, target, to_cover, covers>>

AlreadyDurable(t) ==
    /\ durable_lsn >= target[t]
    /\ pc' = [pc EXCEPT ![t] = "flushed"]
    /\ UNCHANGED <<flush_in_progress, to_cover, covers>>

WaitForFlusher(t) ==
    /\ durable_lsn < target[t]
    /\ flush_in_progress
    /\ pc' = [pc EXCEPT ![t] = "waiting"]
    /\ UNCHANGED <<flush_in_progress, to_cover, covers>>

\* Faulty variant: next_lsn_ itself counts as written.
BecomeFlusherPastEnd(t) ==
    /\ durable_lsn < target[t]
    /\ ~flush_in_progress
    /\ flush_in_progress' = TRUE
    /\ to_cover' = [to_cover EXCEPT ![t] = Larger(target[t], next_lsn)]
    /\ covers' = [covers EXCEPT ![t] = Len(log)]
    /\ pc' = [pc EXCEPT ![t] = "syncing"]

\* Faulty variant: flush_in_progress_ is not looked at.
BecomeFlusherRegardless(t) ==
    /\ durable_lsn < target[t]
    /\ flush_in_progress' = TRUE
    /\ to_cover' = [to_cover EXCEPT ![t] = Larger(target[t], next_lsn - 1)]
    /\ covers' = [covers EXCEPT ![t] = Len(log)]
    /\ pc' = [pc EXCEPT ![t] = "syncing"]

BecomeFlusher(t) ==
    /\ durable_lsn < target[t]
    /\ ~flush_in_progress
    /\ flush_in_progress' = TRUE
    /\ to_cover' = [to_cover EXCEPT ![t] = Larger(target[t], next_lsn - 1)]
    /\ covers' = [covers EXCEPT ![t] = Len(log)]
    /\ pc' = [pc EXCEPT ![t] = "syncing"]

\* One evaluation of FlushThrough's while condition and what follows it, up
\* to the unlock.
CheckDurable(t) ==
    /\ pc[t] = "checking"
    /\ AlreadyDurable(t) \/ WaitForFlusher(t) \/ BecomeFlusher(t)
    /\ UNCHANGED <<log, stable, next_lsn, durable_lsn, target>>

\* Faulty variant: nobody is notified.
NotifyNobody(t, next) == [pc EXCEPT ![t] = next]

\* flush_cv_.notify_all(), with t itself moved to its next position.
NotifyAllBut(t, next) ==
    [u \in Thread |-> IF u = t THEN next
                      ELSE IF pc[u] = "waiting" THEN "checking" ELSE pc[u]]

\* The flusher has flush_mutex_ again; the locals of its round go out of scope.
FlushRoundEnds(t) ==
    /\ flush_in_progress' = FALSE
    /\ to_cover' = [to_cover EXCEPT ![t] = 0]
    /\ covers' = [covers EXCEPT ![t] = 0]

\* fsync returned: what was in the file when it was called is stable.
FsyncSucceeds(t) ==
    /\ pc[t] = "syncing"
    /\ stable' = Larger(stable, covers[t])
    /\ durable_lsn' = Larger(durable_lsn, to_cover[t])
    /\ pc' = NotifyAllBut(t, "checking")
    /\ FlushRoundEnds(t)
    /\ UNCHANGED <<log, next_lsn, target>>

\* Faulty variant: the error is rethrown before the notification.
FsyncFailsSilently(t) ==
    /\ pc[t] = "syncing"
    /\ pc' = [pc EXCEPT ![t] = "failed"]
    /\ FlushRoundEnds(t)
    /\ UNCHANGED <<log, stable, next_lsn, durable_lsn, target>>

\* fsync failed: every waiter is woken, only the flusher rethrows.
FsyncFails(t) ==
    /\ pc[t] = "syncing"
    /\ pc' = NotifyAllBut(t, "failed")
    /\ FlushRoundEnds(t)
    /\ UNCHANGED <<log, stable, next_lsn, durable_lsn, target>>

\* flush_cv_.wait may return without a notification.
SpuriousWakeup(t) ==
    /\ pc[t] = "waiting"
    /\ pc' = [pc EXCEPT ![t] = "checking"]
    /\ UNCHANGED <<log, stable, next_lsn, durable_lsn, flush_in_progress, target, to_cover, covers>>

\* The plain fsync: it does not take part in the group-commit protocol.
Flush(t) ==
    /\ pc[t] = "idle"
    /\ stable' = Len(log)
    /\ UNCHANGED <<log, next_lsn, durable_lsn, flush_in_progress, pc, target, to_cover, covers>>

\* External: the caller's transaction is over and its thread may start another.
EndTransaction(t) ==
    /\ pc[t] \in {"idle", "flushed", "failed"} /\ target[t] # 0
    /\ pc' = [pc EXCEPT ![t] = "idle"]
    /\ target' = [target EXCEPT ![t] = 0]
    /\ UNCHANGED <<log, stable, next_lsn, durable_lsn, flush_in_progress, to_cover, covers>>

\* Wipes the file and restarts the LSNs.  A running fsync was called after
\* nothing that is in the file from now on.
Checkpoint ==
    /\ log' = <<>>
    /\ stable' = 0
    /\ next_lsn' = 1
    /\ covers' = [t \in Thread |-> 0]
    /\ UNCHANGED <<durable_lsn, flush_in_progress, pc, target, to_cover>>

\* The precondition its header states: no transaction is active.
QuiescentCheckpoint ==
    UseCheckpoint /\ (\A t \in Thread : target[t] = 0) /\ Checkpoint

\* The constructor's scan: the records before the first one that does not
\* parse; the file is truncated behind them.
GoodLength(s) ==
    CHOOSE k \in 0..Len(s) : /\ \A i \in 1..k : ~s[i].torn
                             /\ k < Len(s) => s[k + 1].torn

\* Faulty variants: the last LSN is handed out again; LSNs start at 0.
NextLsnRepeated(s) == IF s = <<>> THEN 1 ELSE s[Len(s)].lsn
NextLsnFromZero(s) == IF s = <<>> THEN 0 ELSE s[Len(s)].lsn + 1

NextLsnOnOpen(s) == IF s = <<>> THEN 1 ELSE s[Len(s)].lsn + 1

\* A new LogManager is constructed over a file that holds the records s.
Reopen(s) ==
    LET good == SubSeq(s, 1, GoodLength(s)) IN
    /\ log' = good
    /\ next_lsn' = NextLsnOnOpen(good)
    /\ durable_lsn' = 0
    /\ flush_in_progress' = FALSE
    /\ pc' = [t \in Thread |-> "idle"]
    /\ target' = [t \in Thread |-> 0]
    /\ to_cover' = [t \in Thread |-> 0]
    /\ covers' = [t \in Thread |-> 0]

\* The process is killed: what write() accepted is still in the page cache.
ProcessCrash ==
    /\ Reopen(log)
    /\ stable' = IF stable <= GoodLength(log) THEN stable ELSE GoodLength(log)

\* The machine stops: any part of the file behind the stable records may be
\* missing, and what is found on reopening is what the disk holds.
PowerLoss ==
    \E n \in stable..Len(log) :
        /\ Reopen(SubSeq(log, 1, n))
        /\ stable' = GoodLength(SubSeq(log, 1, n))

Next ==
    \/ \E t \in Thread, b \in Body : AppendRecord(t, b)
    \/ \E t \in Thread, b \in Body : AppendFails(t, b)
    \/ \E t \in Thread : FlushThrough(t)
    \/ \E t \in Thread : CheckDurable(t)
    \/ \E t \in Thread : FsyncSucceeds(t)
    \/ \E t \in Thread : FsyncFails(t)
    \/ \E t \in Thread : SpuriousWakeup(t)
    \/ \E t \in Thread : Flush(t)
    \/ \E t \in Thread : EndTransaction(t)
    \/ QuiescentCheckpoint
    \/ ProcessCrash
    \/ PowerLoss

Spec == Init /\ [][Next]_logvars

\* A thread that can take flush_mutex_ takes it in the end, and fsync returns,
\* with a result or an error.  Nobody has to call anything.
Fairness ==
    \A t \in Thread : /\ WF_logvars(CheckDurable(t))
                      /\ WF_logvars(FsyncSucceeds(t) \/ FsyncFails(t))

FairSpec == Spec /\ Fairness
-----------------------------------------------------------------------------
\* The values of the log's variables.
TypeOK ==
    /\ log \in Seq(LogRecord)
    /\ stable \in Nat /\ stable <= Len(log)
    /\ next_lsn \in Nat \ {0}
    /\ durable_lsn \in Nat
    /\ flush_in_progress \in BOOLEAN
    /\ pc \in [Thread -> Pc]
    /\ target \in [Thread -> Nat]
    /\ to_cover \in [Thread -> Nat]
    /\ covers \in [Thread -> Nat]

\* What FlushThrough promises (log_manager.h:117-120): once it has returned,
\* the caller's record is among those on stable storage, with nothing before
\* it that the scan on open would stop at.
FlushedIsDurable ==
    \A t \in Thread : pc[t] = "flushed" =>
        \E i \in 1..stable : /\ log[i].lsn = target[t] /\ log[i].txn = t
                             /\ \A j \in 1..i : ~log[j].torn

\* The order recovery relies on: the file's records carry strictly increasing
\* LSNs below next_lsn_, through checkpoints, crashes and torn tails.
LsnOrder ==
    /\ \A i, j \in 1..Len(log) : i < j => log[i].lsn < log[j].lsn
    /\ \A i \in 1..Len(log) : log[i].lsn < next_lsn

\* flush_in_progress_ is set exactly while one thread, and one only, is in
\* its fsync: the flag can neither get stuck nor admit a second flusher.
OneFlusher ==
    /\ flush_in_progress <=> \E t \in Thread : pc[t] = "syncing"
    /\ \A t, u \in Thread : pc[t] = "syncing" /\ pc[u] = "syncing" => t = u

\* A thread sleeps in FlushThrough only while somebody else is flushing.
WaiterHasFlusher ==
    \A t \in Thread : pc[t] = "waiting" => flush_in_progress

\* Every FlushThrough returns or throws (or the process dies): a waiter is
\* neither stranded by a failed flush nor overtaken for ever by later ones.
FlushCompletes ==
    \A t \in Thread :
        (pc[t] \in {"checking", "waiting", "syncing"}) ~> (pc[t] \in {"flushed", "failed", "idle"})
=============================================================================
