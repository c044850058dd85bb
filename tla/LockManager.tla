---------------------------- MODULE LockManager ----------------------------
(***************************************************************************)
(* The Strict Two-Phase-Locking lock table of flintdb                      *)
(* (src/src/txn/lock_manager.{h,cpp}): shared and exclusive page locks,    *)
(* wait-die on conflict, every lock released at once at end of             *)
(* transaction.                                                            *)
(*                                                                         *)
(* One step is one critical section of mutex_: from the lock (or the       *)
(* return of cv_.wait) to the unlock (or the next cv_.wait).  A            *)
(* transaction lives on one thread, so the thread's control state is kept  *)
(* per transaction.                                                        *)
(***************************************************************************)
EXTENDS Naturals

CONSTANTS Txn,      \* TxnIds of this process; a smaller id is an older transaction
          PageKey,  \* (object, page) pairs that can be locked
          NoTxn     \* an empty exclusive_holder

ASSUME TxnAssumption == Txn \subseteq Nat /\ NoTxn \notin Txn

VARIABLES
    locks,        \* PageKey -> LockEntry; an entry without holders is an absent one
    held_by_txn,  \* Txn -> the pages it holds a lock on
    status,       \* where the transaction's thread is
    request       \* the lock a thread inside AcquireLock asks for

lmvars == <<locks, held_by_txn, status, request>>

kShared    == "shared"
kExclusive == "exclusive"
LockMode   == {kShared, kExclusive}

LockEntry == [shared_holders : SUBSET Txn, exclusive_holder : Txn \cup {NoTxn}]
Request   == [page : PageKey, mode : LockMode]

\* running: between calls.  asleep: in cv_.wait.  awake: notified, still to
\* take mutex_ and look again.  dying: AcquireLock threw, and the caller owes
\* an Abort.  done: ReleaseAll has run.
Status == {"running", "asleep", "awake", "dying", "done"}

Absent    == [shared_holders |-> {}, exclusive_holder |-> NoTxn]
NoRequest == [page |-> NoTxn, mode |-> "none"]
-----------------------------------------------------------------------------
Holders(entry) ==
    entry.shared_holders \cup ({entry.exclusive_holder} \ {NoTxn})

OtherHolders(entry, t) == Holders(entry) \ {t}

\* Faulty variant: readers do not keep a writer out.
ConflictsWithWriterOnly(entry, t, mode) == entry.exclusive_holder \notin {NoTxn, t}

\* Faulty variant: an exclusive holder does not keep anybody out.
ConflictsWithReadersOnly(entry, t, mode) ==
    mode = kExclusive /\ entry.shared_holders \ {t} # {}

ConflictsWithOthers(entry, t, mode) ==
    \/ entry.exclusive_holder \notin {NoTxn, t}
    \/ mode = kExclusive /\ entry.shared_holders \ {t} # {}

\* The early returns: t already holds a lock that is strong enough.
AlreadyHolds(entry, t, mode) ==
    \/ entry.exclusive_holder = t
    \/ mode = kShared /\ t \in entry.shared_holders

\* Faulty variant: the younger transaction waits.
MayWaitIfYounger(entry, t) == \A h \in OtherHolders(entry, t) : h < t

MayWait(entry, t) == \A h \in OtherHolders(entry, t) : t < h

Granted(entry, t, mode) ==
    IF mode = kExclusive
    THEN [shared_holders |-> entry.shared_holders \ {t}, exclusive_holder |-> t]
    ELSE [entry EXCEPT !.shared_holders = @ \cup {t}]

\* Faulty variant: an exclusive lock survives its transaction.
WithoutShared(entry, t) == [entry EXCEPT !.shared_holders = @ \ {t}]

Without(entry, t) ==
    [shared_holders   |-> entry.shared_holders \ {t},
     exclusive_holder |-> IF entry.exclusive_holder = t THEN NoTxn
                          ELSE entry.exclusive_holder]

HasAnyLock(t) == held_by_txn[t] # {}

\* Faulty variant: cv_.notify_one()
NotifyOne(st) ==
    LET sleepers == {t \in Txn : st[t] = "asleep"}
    IN  IF sleepers = {} THEN st
        ELSE [st EXCEPT ![CHOOSE t \in sleepers : TRUE] = "awake"]

\* cv_.notify_all()
NotifyAll(st) == [t \in Txn |-> IF st[t] = "asleep" THEN "awake" ELSE st[t]]
-----------------------------------------------------------------------------
Init ==
    /\ locks = [p \in PageKey |-> Absent]
    /\ held_by_txn = [t \in Txn |-> {}]
    /\ status = [t \in Txn |-> "running"]
    /\ request = [t \in Txn |-> NoRequest]

\* Faulty variant: the loop goes on after the grant.
ReturnMissing(t) ==
    status' = [status EXCEPT ![t] = "awake"] /\ UNCHANGED request

Return(t) ==
    /\ status' = [status EXCEPT ![t] = "running"]
    /\ request' = [request EXCEPT ![t] = NoRequest]

GrantHeld(t, p, m) ==
    /\ AlreadyHolds(locks[p], t, m)
    /\ Return(t)
    /\ UNCHANGED <<locks, held_by_txn>>

Grant(t, p, m) ==
    /\ ~AlreadyHolds(locks[p], t, m)
    /\ ~ConflictsWithOthers(locks[p], t, m)
    /\ locks' = [locks EXCEPT ![p] = Granted(locks[p], t, m)]
    /\ held_by_txn' = [held_by_txn EXCEPT ![t] = @ \cup {p}]
    /\ Return(t)

Blocked(t, p, m) ==
    /\ ~AlreadyHolds(locks[p], t, m)
    /\ ConflictsWithOthers(locks[p], t, m)
    /\ UNCHANGED <<locks, held_by_txn>>

Wait(t, p, m) ==
    /\ Blocked(t, p, m)
    /\ MayWait(locks[p], t)
    /\ status' = [status EXCEPT ![t] = "asleep"]
    /\ request' = [request EXCEPT ![t] = [page |-> p, mode |-> m]]

Die(t, p, m) ==
    /\ Blocked(t, p, m)
    /\ ~MayWait(locks[p], t)
    /\ status' = [status EXCEPT ![t] = "dying"]
    /\ request' = [request EXCEPT ![t] = NoRequest]

\* One pass through the while loop of AcquireLock.
LoopBody(t, p, m) ==
    GrantHeld(t, p, m) \/ Grant(t, p, m) \/ Wait(t, p, m) \/ Die(t, p, m)

AcquireLock(t, p, m) == status[t] = "running" /\ LoopBody(t, p, m)

\* The waiter has mutex_ again and re-checks everything from the top.
Recheck(t) ==
    status[t] = "awake" /\ LoopBody(t, request[t].page, request[t].mode)

\* cv_.wait may return without a notification.
SpuriousWakeup(t) ==
    /\ status[t] = "asleep"
    /\ status' = [status EXCEPT ![t] = "awake"]
    /\ UNCHANGED <<locks, held_by_txn, request>>

\* Called once per transaction, by Commit or by Abort.  A transaction that
\* holds nothing returns early and notifies nobody.
ReleaseAll(t) ==
    /\ status[t] \in {"running", "dying"}
    /\ IF HasAnyLock(t)
       THEN /\ locks' = [p \in PageKey |-> IF p \in held_by_txn[t]
                                           THEN Without(locks[p], t) ELSE locks[p]]
            /\ held_by_txn' = [held_by_txn EXCEPT ![t] = {}]
            /\ status' = NotifyAll([status EXCEPT ![t] = "done"])
       ELSE /\ status' = [status EXCEPT ![t] = "done"]
            /\ UNCHANGED <<locks, held_by_txn>>
    /\ UNCHANGED request

\* Every transaction has ended: the process has nothing left to do.
Quiescent == (\A t \in Txn : status[t] = "done") /\ UNCHANGED lmvars

Next ==
    \/ \E t \in Txn, p \in PageKey, m \in LockMode : AcquireLock(t, p, m)
    \/ \E t \in Txn : Recheck(t)
    \/ \E t \in Txn : SpuriousWakeup(t)
    \/ \E t \in Txn : ReleaseAll(t)
    \/ Quiescent

Spec == Init /\ [][Next]_lmvars

\* A woken thread gets mutex_ in the end, and every transaction that is not
\* blocked is ended by its session (a commit, a rollback, or the rollback
\* autocommit runs after an exception).
Fairness ==
    /\ \A t \in Txn : WF_lmvars(Recheck(t))
    /\ \A t \in Txn : WF_lmvars(ReleaseAll(t))

FairSpec == Spec /\ Fairness
-----------------------------------------------------------------------------
\* The values of the lock table's variables.
TypeOK ==
    /\ locks \in [PageKey -> LockEntry]
    /\ held_by_txn \in [Txn -> SUBSET PageKey]
    /\ status \in [Txn -> Status]
    /\ request \in [Txn -> Request \cup {NoRequest}]
    /\ \A t \in Txn : (request[t] \in Request) <=> (status[t] \in {"asleep", "awake"})

\* AcquireLock never lets two transactions hold a page when one of them holds
\* it exclusively, whatever upgrades, waits and releases came before.
MutualExclusion ==
    \A p \in PageKey : locks[p].exclusive_holder # NoTxn => locks[p].shared_holders = {}

\* locks_ and held_by_txn_ describe the same holdings, so ReleaseAll, which
\* walks held_by_txn_, leaves no lock of an ended transaction behind.
TablesAgree ==
    /\ \A t \in Txn, p \in PageKey : p \in held_by_txn[t] <=> t \in Holders(locks[p])
    /\ \A t \in Txn : status[t] = "done" => held_by_txn[t] = {}

\* Strict 2PL: a transaction loses a lock, or the strength of one, only in
\* the ReleaseAll that ends it, and holds nothing from then on.
StrictTwoPhase ==
    [][\A t \in Txn, p \in PageKey :
          /\ (t \in Holders(locks[p]) /\ t \notin Holders(locks[p])') => status'[t] = "done"
          /\ (locks[p].exclusive_holder = t /\ locks'[p].exclusive_holder # t)
                => status'[t] = "done"
          /\ status[t] = "done" => t \notin Holders(locks[p])']_lmvars

\* No lost wakeup: a thread asleep in cv_.wait is blocked right now, by the
\* table as it is after everything that happened since it fell asleep.
SleeperIsBlocked ==
    \A t \in Txn : status[t] = "asleep" =>
        /\ ~AlreadyHolds(locks[request[t].page], t, request[t].mode)
        /\ ConflictsWithOthers(locks[request[t].page], t, request[t].mode)

\* What wait-die is for: whatever shared locks older transactions take on the
\* page while t sleeps, one of the holders that block t is younger than t.
\* A chain of such holders climbs in TxnId and ends in a thread that is not
\* asleep, so the sleepers cannot all be waiting for each other.
SleeperHasYoungerBlocker ==
    \A t \in Txn : status[t] = "asleep" =>
        \E h \in OtherHolders(locks[request[t].page], t) : t < h

\* Every AcquireLock returns or throws, provided transactions end: no
\* deadlock, no missed notification, no starvation by spurious wakeups.
RequestsResolve ==
    \A t \in Txn : (status[t] \in {"asleep", "awake"}) ~> (status[t] \in {"running", "dying"})
-----------------------------------------------------------------------------
\* t is blocked by u at this moment.
WaitsFor(t, u) ==
    /\ status[t] = "asleep"
    /\ u \in OtherHolders(locks[request[t].page], t)

\* lock_manager.h:96-98 and SPEC.md:85 say that no cycle of "waits for" can
\* ever close.
NoWaitsForCycle ==
    \A t, u \in Txn : ~(WaitsFor(t, u) /\ WaitsFor(u, t))

\* lock_manager.h:124-125 says that a call to AcquireLock never both throws
\* and waits.
NeverWaitsThenThrows ==
    [][\A t \in Txn : status[t] \in {"asleep", "awake"} => status'[t] # "dying"]_lmvars
=============================================================================
