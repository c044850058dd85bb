------------------------- MODULE LockManagerProofs -------------------------
(***************************************************************************)
(* Proofs about the lock table, for every set of transactions and pages.   *)
(*                                                                         *)
(* The conjuncts of IInv need each other: that a sleeper stays blocked     *)
(* when another transaction upgrades to exclusive uses MutualExclusion,    *)
(* and that a release wakes every sleeper it could unblock uses            *)
(* TablesAgree (a transaction that skips the notification held nothing).   *)
(***************************************************************************)
EXTENDS LockManager, TLAPS

IInv ==
    /\ TypeOK
    /\ MutualExclusion
    /\ TablesAgree
    /\ SleeperIsBlocked
    /\ SleeperHasYoungerBlocker
-----------------------------------------------------------------------------
\* An entry that AcquireLock grants is an entry, has the transaction as a
\* holder at the strength it asked for, and keeps the other holders.
LEMMA GrantedEntry ==
    ASSUME NEW e \in LockEntry, NEW t \in Txn, NEW m \in LockMode,
           ~ConflictsWithOthers(e, t, m)
    PROVE  /\ Granted(e, t, m) \in LockEntry
           /\ Holders(Granted(e, t, m)) = Holders(e) \cup {t}
           /\ m = kExclusive =>
                /\ Granted(e, t, m).exclusive_holder = t
                /\ Granted(e, t, m).shared_holders = {}
           /\ m = kShared =>
                /\ Granted(e, t, m).exclusive_holder = e.exclusive_holder
                /\ Granted(e, t, m).shared_holders = e.shared_holders \cup {t}
<1>1. CASE m = kExclusive
  BY <1>1, TxnAssumption
     DEF Granted, LockEntry, ConflictsWithOthers, Holders, kExclusive, kShared
<1>2. CASE m = kShared
  BY <1>2, TxnAssumption
     DEF Granted, LockEntry, ConflictsWithOthers, Holders, kExclusive, kShared
<1>. QED  BY <1>1, <1>2 DEF LockMode

\* Taking a transaction out of an entry leaves exactly the other holders.
LEMMA WithoutEntry ==
    ASSUME NEW e \in LockEntry, NEW t \in Txn
    PROVE  /\ Without(e, t) \in LockEntry
           /\ Holders(Without(e, t)) = Holders(e) \ {t}
           /\ Without(e, t).shared_holders \subseteq e.shared_holders
           /\ Without(e, t).exclusive_holder \in {e.exclusive_holder, NoTxn}
  BY TxnAssumption DEF Without, LockEntry, Holders

\* A stored request names a page and a mode; no other value does.
LEMMA RequestType ==
    /\ NoRequest \notin Request
    /\ \A r \in Request : r.page \in PageKey /\ r.mode \in LockMode
    /\ \A p \in PageKey, m \in LockMode : [page |-> p, mode |-> m] \in Request
  BY DEF NoRequest, Request, LockMode, kShared, kExclusive
-----------------------------------------------------------------------------
\* The type invariant is preserved by one pass through AcquireLock's loop.
LEMMA LoopBodyType ==
    ASSUME TypeOK, NEW t \in Txn, NEW p \in PageKey, NEW m \in LockMode,
           LoopBody(t, p, m)
    PROVE  TypeOK'
<1>1. locks[p] \in LockEntry /\ held_by_txn[t] \in SUBSET PageKey
  BY DEF TypeOK
<1>2. CASE GrantHeld(t, p, m)
  BY <1>2, RequestType DEF GrantHeld, Return, TypeOK, Status
<1>3. CASE Grant(t, p, m)
  <2>1. Granted(locks[p], t, m) \in LockEntry
    BY <1>1, <1>3, GrantedEntry DEF Grant
  <2>. QED  BY <1>3, <2>1, RequestType DEF Grant, Return, TypeOK, Status
<1>4. CASE Wait(t, p, m)
  BY <1>4, RequestType DEF Wait, Blocked, TypeOK, Status
<1>5. CASE Die(t, p, m)
  BY <1>5, RequestType DEF Die, Blocked, TypeOK, Status
<1>. QED  BY <1>2, <1>3, <1>4, <1>5 DEF LoopBody

\* The type invariant is preserved by ReleaseAll and its notify_all.
LEMMA ReleaseAllType ==
    ASSUME TypeOK, NEW t \in Txn, ReleaseAll(t)
    PROVE  TypeOK'
<1>1. CASE HasAnyLock(t)
  <2>1. locks' \in [PageKey -> LockEntry]
    <3>1. \A p \in PageKey : locks[p] \in LockEntry
      BY DEF TypeOK
    <3>2. \A p \in PageKey : Without(locks[p], t) \in LockEntry
      BY <3>1, WithoutEntry
    <3>. QED  BY <1>1, <3>1, <3>2 DEF ReleaseAll
  <2>2. held_by_txn' \in [Txn -> SUBSET PageKey]
    BY <1>1 DEF ReleaseAll, TypeOK
  <2>3. status' \in [Txn -> Status]
    BY <1>1 DEF ReleaseAll, TypeOK, NotifyAll, Status
  <2>4. \A u \in Txn : (status'[u] \in {"asleep", "awake"}) <=> (status[u] \in {"asleep", "awake"})
    BY <1>1 DEF ReleaseAll, TypeOK, NotifyAll, Status
  <2>. QED  BY <2>1, <2>2, <2>3, <2>4 DEF ReleaseAll, TypeOK
<1>2. CASE ~HasAnyLock(t)
  BY <1>2 DEF ReleaseAll, TypeOK, Status
<1>. QED  BY <1>1, <1>2

\* The type invariant is preserved by every step.
LEMMA TypeInductive == TypeOK /\ [Next]_lmvars => TypeOK'
<1> SUFFICES ASSUME TypeOK, [Next]_lmvars PROVE TypeOK'
  OBVIOUS
<1>1. ASSUME NEW t \in Txn, NEW p \in PageKey, NEW m \in LockMode, AcquireLock(t, p, m)
      PROVE  TypeOK'
  BY <1>1, LoopBodyType DEF AcquireLock
<1>2. ASSUME NEW t \in Txn, Recheck(t)
      PROVE  TypeOK'
  <2>1. request[t] \in Request
    BY <1>2 DEF Recheck, TypeOK
  <2>. QED  BY <1>2, <2>1, RequestType, LoopBodyType DEF Recheck
<1>3. ASSUME NEW t \in Txn, SpuriousWakeup(t)
      PROVE  TypeOK'
  BY <1>3 DEF SpuriousWakeup, TypeOK, Status
<1>4. ASSUME NEW t \in Txn, ReleaseAll(t)
      PROVE  TypeOK'
  BY <1>4, ReleaseAllType
<1>5. CASE Quiescent \/ UNCHANGED lmvars
  BY <1>5 DEF Quiescent, lmvars, TypeOK
<1>. QED  BY <1>1, <1>2, <1>3, <1>4, <1>5 DEF Next

\* The lock table's variables keep their types: in particular a thread has a
\* pending request exactly while it is inside AcquireLock's loop.
THEOREM TypeCorrect == Spec => []TypeOK
<1>1. Init => TypeOK
  BY RequestType DEF Init, TypeOK, Absent, LockEntry, Status
<1>. QED  BY <1>1, TypeInductive, PTL DEF Spec
-----------------------------------------------------------------------------
\* What one pass through the loop does to the holders of a page, whichever
\* way it ends: the facts the invariants below are proved from.
LEMMA LoopBodyHolders ==
    ASSUME TypeOK, NEW t \in Txn, NEW p \in PageKey, NEW m \in LockMode,
           LoopBody(t, p, m)
    PROVE  /\ status' = [status EXCEPT ![t] = status'[t]]
           /\ request' = [request EXCEPT ![t] = request'[t]]
           /\ \/ UNCHANGED <<locks, held_by_txn>>
              \/ Grant(t, p, m)
  BY DEF LoopBody, GrantHeld, Grant, Wait, Die, Blocked, Return, TypeOK

\* One pass through the loop keeps locks_ and held_by_txn_ in agreement and
\* an exclusive holder alone.
LEMMA LoopBodyTables ==
    ASSUME TypeOK, MutualExclusion, TablesAgree,
           NEW t \in Txn, NEW p \in PageKey, NEW m \in LockMode,
           LoopBody(t, p, m)
    PROVE  MutualExclusion' /\ TablesAgree'
<1>0. status'[t] # "done" /\ \A u \in Txn \ {t} : status'[u] = status[u]
  BY DEF LoopBody, GrantHeld, Grant, Wait, Die, Return, TypeOK
<1>1. CASE UNCHANGED <<locks, held_by_txn>>
  BY <1>0, <1>1 DEF MutualExclusion, TablesAgree
<1>2. CASE Grant(t, p, m)
  <2> DEFINE g == Granted(locks[p], t, m)
  <2>1. locks[p] \in LockEntry
    BY DEF TypeOK
  <2>2. /\ Holders(g) = Holders(locks[p]) \cup {t}
        /\ m = kExclusive => g.shared_holders = {}
        /\ m = kShared => g.exclusive_holder = locks[p].exclusive_holder
    BY <1>2, <2>1, GrantedEntry DEF Grant
  <2>3. locks' = [locks EXCEPT ![p] = g] /\ held_by_txn' = [held_by_txn EXCEPT ![t] = @ \cup {p}]
    BY <1>2 DEF Grant
  <2>4. g.exclusive_holder # NoTxn => g.shared_holders = {}
    <3>1. CASE m = kExclusive
      BY <2>2, <3>1
    <3>2. CASE m = kShared
      \* A shared grant means nobody, t included, holds the page exclusively.
      <4>1. locks[p].exclusive_holder = NoTxn
        BY <1>2, <3>2 DEF Grant, AlreadyHolds, ConflictsWithOthers, kShared
      <4>. QED  BY <2>2, <3>2, <4>1
    <3>. QED  BY <3>1, <3>2 DEF LockMode
  <2>5. MutualExclusion'
    BY <2>3, <2>4 DEF MutualExclusion, TypeOK
  <2>6. TablesAgree'
    BY <1>0, <2>2, <2>3 DEF TablesAgree, TypeOK
  <2>. QED  BY <2>5, <2>6
<1>. QED  BY <1>1, <1>2, LoopBodyHolders

\* A thread that is asleep stays blocked, by a younger holder, while another
\* thread goes through the loop.
LEMMA LoopBodySleepers ==
    ASSUME TypeOK, MutualExclusion, SleeperIsBlocked, SleeperHasYoungerBlocker,
           NEW t \in Txn, NEW p \in PageKey, NEW m \in LockMode,
           status[t] # "asleep",
           LoopBody(t, p, m)
    PROVE  SleeperIsBlocked' /\ SleeperHasYoungerBlocker'
<1> SUFFICES ASSUME NEW u \in Txn, status'[u] = "asleep"
             PROVE  /\ ~AlreadyHolds(locks'[request'[u].page], u, request'[u].mode)
                    /\ ConflictsWithOthers(locks'[request'[u].page], u, request'[u].mode)
                    /\ \E h \in OtherHolders(locks'[request'[u].page], u) : u < h
  BY DEF SleeperIsBlocked, SleeperHasYoungerBlocker
<1>1. CASE u # t
  <2>1. status[u] = "asleep" /\ request'[u] = request[u]
    BY <1>1, LoopBodyHolders DEF TypeOK
  <2> DEFINE q == request[u].page
             k == request[u].mode
  <2>2. q \in PageKey /\ k \in LockMode
    BY <2>1, RequestType DEF TypeOK
  <2>3. /\ ~AlreadyHolds(locks[q], u, k)
        /\ ConflictsWithOthers(locks[q], u, k)
    BY <2>1 DEF SleeperIsBlocked
  <2>4. PICK h \in OtherHolders(locks[q], u) : u < h
    BY <2>1 DEF SleeperHasYoungerBlocker
  <2>5. CASE locks'[q] = locks[q]
    BY <2>1, <2>3, <2>4, <2>5
  <2>6. CASE locks'[q] # locks[q]
    <3>1. Grant(t, p, m) /\ p = q
      BY <2>2, <2>6, LoopBodyHolders DEF Grant, TypeOK
    <3> DEFINE g == Granted(locks[q], t, m)
    <3>2. locks'[q] = g /\ locks[q] \in LockEntry
      BY <2>2, <3>1 DEF Grant, TypeOK
    <3>3. ~ConflictsWithOthers(locks[q], t, m) /\ ~AlreadyHolds(locks[q], t, m)
      BY <3>1 DEF Grant
    <3>4. /\ Holders(g) = Holders(locks[q]) \cup {t}
          /\ m = kExclusive => g.exclusive_holder = t /\ g.shared_holders = {}
          /\ m = kShared => /\ g.exclusive_holder = locks[q].exclusive_holder
                            /\ g.shared_holders = locks[q].shared_holders \cup {t}
      BY <3>2, <3>3, GrantedEntry
    <3>5. \E x \in OtherHolders(g, u) : u < x
      BY <2>4, <3>4 DEF OtherHolders
    <3>6. locks[q].exclusive_holder = NoTxn
      \* Otherwise t's own request would have conflicted or been satisfied.
      BY <3>3 DEF ConflictsWithOthers, AlreadyHolds
    <3>7. k = kExclusive /\ locks[q].shared_holders \ {u} # {}
      BY <2>3, <3>6 DEF ConflictsWithOthers
    <3>8. ConflictsWithOthers(g, u, k) /\ ~AlreadyHolds(g, u, k)
      <4>1. CASE m = kExclusive
        BY <1>1, <3>4, <3>7, <4>1, TxnAssumption
           DEF ConflictsWithOthers, AlreadyHolds, kExclusive, kShared
      <4>2. CASE m = kShared
        BY <1>1, <3>4, <3>6, <3>7, <4>2, TxnAssumption
           DEF ConflictsWithOthers, AlreadyHolds, kExclusive, kShared
      <4>. QED  BY <4>1, <4>2 DEF LockMode
    <3>. QED  BY <2>1, <3>2, <3>5, <3>8
  <2>. QED  BY <2>5, <2>6
<1>2. CASE u = t
  <2>1. Wait(t, p, m)
    BY <1>2 DEF LoopBody, GrantHeld, Grant, Die, Return, TypeOK
  <2>2. request'[u] = [page |-> p, mode |-> m] /\ locks' = locks
    BY <1>2, <2>1 DEF Wait, Blocked, TypeOK
  <2>3. /\ ~AlreadyHolds(locks[p], t, m)
        /\ ConflictsWithOthers(locks[p], t, m)
        /\ MayWait(locks[p], t)
    BY <2>1 DEF Wait, Blocked
  <2>4. locks[p] \in LockEntry
    BY DEF TypeOK
  <2>5. OtherHolders(locks[p], t) # {}
    BY <2>3, <2>4 DEF ConflictsWithOthers, OtherHolders, Holders
  <2>6. \E h \in OtherHolders(locks[p], t) : t < h
    BY <2>3, <2>5 DEF MayWait
  <2>. QED  BY <1>2, <2>2, <2>3, <2>6
<1>. QED  BY <1>1, <1>2

\* After a ReleaseAll nobody is left asleep next to an entry that changed.
LEMMA ReleaseAllInv ==
    ASSUME IInv, NEW t \in Txn, ReleaseAll(t)
    PROVE  MutualExclusion' /\ TablesAgree' /\ SleeperIsBlocked' /\ SleeperHasYoungerBlocker'
<1>1. CASE HasAnyLock(t)
  <2>1. \A q \in PageKey : locks[q] \in LockEntry
    BY DEF IInv, TypeOK
  <2>2. \A q \in PageKey :
           locks'[q] = IF q \in held_by_txn[t] THEN Without(locks[q], t) ELSE locks[q]
    BY <1>1 DEF ReleaseAll
  <2>3. \A u \in Txn : status'[u] # "asleep"
    BY <1>1 DEF ReleaseAll, NotifyAll
  <2>4. MutualExclusion'
    <3> SUFFICES ASSUME NEW q \in PageKey, locks'[q].exclusive_holder # NoTxn
                 PROVE  locks'[q].shared_holders = {}
      BY DEF MutualExclusion
    <3>1. locks[q].exclusive_holder # NoTxn => locks[q].shared_holders = {}
      BY DEF IInv, MutualExclusion
    <3>2. CASE q \in held_by_txn[t]
      <4>1. /\ Without(locks[q], t).shared_holders \subseteq locks[q].shared_holders
            /\ Without(locks[q], t).exclusive_holder \in {locks[q].exclusive_holder, NoTxn}
        BY <2>1, WithoutEntry
      <4>. QED  BY <2>2, <3>1, <3>2, <4>1
    <3>3. CASE q \notin held_by_txn[t]
      BY <2>2, <3>1, <3>3
    <3>. QED  BY <3>2, <3>3
  <2>5. TablesAgree'
    <3>1. \A v \in Txn, q \in PageKey : q \in held_by_txn[v] <=> v \in Holders(locks[q])
      BY DEF IInv, TablesAgree
    <3>2. \A u \in Txn : held_by_txn'[u] = IF u = t THEN {} ELSE held_by_txn[u]
      BY <1>1 DEF ReleaseAll, IInv, TypeOK
    <3>3. \A q \in PageKey : Holders(Without(locks[q], t)) = Holders(locks[q]) \ {t}
      BY <2>1, WithoutEntry
    <3>4. \A u \in Txn, q \in PageKey : q \in held_by_txn'[u] <=> u \in Holders(locks'[q])
      BY <2>2, <3>1, <3>2, <3>3
    <3>5. \A u \in Txn \ {t} : status'[u] = "done" => status[u] = "done"
      BY <1>1 DEF ReleaseAll, NotifyAll, IInv, TypeOK
    <3>. QED  BY <3>2, <3>4, <3>5 DEF IInv, TablesAgree
  <2>6. SleeperIsBlocked' /\ SleeperHasYoungerBlocker'
    BY <2>3 DEF SleeperIsBlocked, SleeperHasYoungerBlocker
  <2>. QED  BY <2>4, <2>5, <2>6
<1>2. CASE ~HasAnyLock(t)
  <2>1. UNCHANGED <<locks, held_by_txn, request>>
    BY <1>2 DEF ReleaseAll
  <2>2. \A u \in Txn : status'[u] = "asleep" => status[u] = "asleep"
    BY <1>2 DEF ReleaseAll, IInv, TypeOK
  <2>3. \A u \in Txn : status'[u] = "done" => held_by_txn[u] = {}
    BY <1>2 DEF ReleaseAll, IInv, TypeOK, TablesAgree, HasAnyLock
  <2>. QED
    BY <2>1, <2>2, <2>3
       DEF IInv, MutualExclusion, TablesAgree, SleeperIsBlocked, SleeperHasYoungerBlocker
<1>. QED  BY <1>1, <1>2

\* The conjunction of the invariants is inductive.
LEMMA InvInductive == IInv /\ [Next]_lmvars => IInv'
<1> SUFFICES ASSUME IInv, [Next]_lmvars PROVE IInv'
  OBVIOUS
<1>1. TypeOK'
  BY TypeInductive DEF IInv
<1>2. ASSUME NEW t \in Txn, NEW p \in PageKey, NEW m \in LockMode,
             status[t] # "asleep", LoopBody(t, p, m)
      PROVE  IInv'
  BY <1>1, <1>2, LoopBodyTables, LoopBodySleepers DEF IInv
<1>3. ASSUME NEW t \in Txn, NEW p \in PageKey, NEW m \in LockMode, AcquireLock(t, p, m)
      PROVE  IInv'
  BY <1>2, <1>3 DEF AcquireLock
<1>4. ASSUME NEW t \in Txn, Recheck(t)
      PROVE  IInv'
  <2>1. request[t] \in Request /\ status[t] # "asleep"
    BY <1>4 DEF Recheck, IInv, TypeOK
  <2>. QED  BY <1>2, <1>4, <2>1, RequestType DEF Recheck
<1>5. ASSUME NEW t \in Txn, SpuriousWakeup(t)
      PROVE  IInv'
  <2>1. \A u \in Txn : /\ status'[u] = "asleep" => status[u] = "asleep"
                       /\ status'[u] = "done" => status[u] = "done"
    BY <1>5 DEF SpuriousWakeup, IInv, TypeOK
  <2>2. UNCHANGED <<locks, held_by_txn, request>>
    BY <1>5 DEF SpuriousWakeup
  <2>. QED
    BY <1>1, <2>1, <2>2
       DEF IInv, MutualExclusion, TablesAgree, SleeperIsBlocked, SleeperHasYoungerBlocker
<1>6. ASSUME NEW t \in Txn, ReleaseAll(t)
      PROVE  IInv'
  BY <1>1, <1>6, ReleaseAllInv DEF IInv
<1>7. CASE Quiescent \/ UNCHANGED lmvars
  BY <1>1, <1>7
     DEF Quiescent, lmvars, IInv, MutualExclusion, TablesAgree, SleeperIsBlocked,
         SleeperHasYoungerBlocker
<1>. QED  BY <1>3, <1>4, <1>5, <1>6, <1>7 DEF Next

\* The empty lock table of a new process satisfies it.
LEMMA InvInitially == Init => IInv
<1> SUFFICES ASSUME Init PROVE IInv
  OBVIOUS
<1>1. TypeOK
  BY RequestType DEF Init, TypeOK, Absent, LockEntry, Status
<1>2. MutualExclusion /\ TablesAgree
  BY DEF Init, MutualExclusion, TablesAgree, Absent, Holders
<1>3. SleeperIsBlocked /\ SleeperHasYoungerBlocker
  BY DEF Init, SleeperIsBlocked, SleeperHasYoungerBlocker
<1>. QED  BY <1>1, <1>2, <1>3 DEF IInv

\* The inductive invariant of the lock table.
THEOREM LockTableInvariant == Spec => []IInv
  BY InvInitially, InvInductive, PTL DEF Spec

\* No page ever has an exclusive holder beside any other holder.
THEOREM ExclusiveMeansAlone == Spec => []MutualExclusion
<1>1. IInv => MutualExclusion
  BY DEF IInv
<1>. QED  BY <1>1, LockTableInvariant, PTL

\* ReleaseAll leaves no lock of an ended transaction in the table.
THEOREM NothingLeftBehind == Spec => []TablesAgree
<1>1. IInv => TablesAgree  BY DEF IInv
<1>. QED  BY <1>1, LockTableInvariant, PTL

\* What a step may do to the locks of a transaction: only the ReleaseAll that
\* ends it takes any away or weakens one.
LEMMA LocksKept ==
    ASSUME IInv, IInv', [Next]_lmvars, NEW t \in Txn, NEW p \in PageKey
    PROVE  /\ (t \in Holders(locks[p]) /\ t \notin Holders(locks'[p])) => status'[t] = "done"
           /\ (locks[p].exclusive_holder = t /\ locks'[p].exclusive_holder # t) => status'[t] = "done"
           /\ status[t] = "done" => t \notin Holders(locks'[p])
<1>0. locks[p] \in LockEntry /\ (status[t] = "done" => t \notin Holders(locks[p]))
  BY DEF IInv, TypeOK, TablesAgree
<1>1. CASE locks'[p] = locks[p]
  BY <1>0, <1>1
<1>2. ASSUME NEW u \in Txn, NEW q \in PageKey, NEW m \in LockMode,
             status[u] # "done", LoopBody(u, q, m), locks'[p] # locks[p]
      PROVE  /\ Holders(locks'[p]) = Holders(locks[p]) \cup {u}
             /\ locks[p].exclusive_holder = t => locks'[p].exclusive_holder = t
  <2>1. Grant(u, q, m) /\ p = q /\ locks'[p] = Granted(locks[p], u, m)
    BY <1>2, LoopBodyHolders DEF Grant, IInv, TypeOK
  <2>2. locks[p].exclusive_holder \in {NoTxn, u} /\ locks[p].exclusive_holder # u
    BY <2>1 DEF Grant, ConflictsWithOthers, AlreadyHolds
  <2>. QED  BY <1>0, <2>1, <2>2, GrantedEntry, TxnAssumption DEF Grant
<1>3. ASSUME NEW u \in Txn, ReleaseAll(u), u # t
      PROVE  /\ t \in Holders(locks[p]) <=> t \in Holders(locks'[p])
             /\ locks[p].exclusive_holder = t => locks'[p].exclusive_holder = t
  <2>1. locks'[p] = locks[p] \/ locks'[p] = Without(locks[p], u)
    BY <1>3 DEF ReleaseAll
  <2>2. Holders(Without(locks[p], u)) = Holders(locks[p]) \ {u}
    BY <1>0, WithoutEntry
  <2>. QED  BY <1>3, <2>1, <2>2 DEF Without
<1>4. ASSUME ReleaseAll(t)
      PROVE  status'[t] = "done" /\ status[t] # "done"
  BY <1>4 DEF ReleaseAll, NotifyAll, IInv, TypeOK
<1>5. ASSUME locks'[p] # locks[p]
      PROVE  \/ \E u \in Txn, q \in PageKey, m \in LockMode :
                   status[u] # "done" /\ LoopBody(u, q, m)
             \/ \E u \in Txn : ReleaseAll(u)
  <2>1. ASSUME NEW u \in Txn, Recheck(u)
        PROVE  \E q \in PageKey, m \in LockMode : status[u] # "done" /\ LoopBody(u, q, m)
    <3>1. request[u] \in Request /\ status[u] # "done"
      BY <2>1 DEF Recheck, IInv, TypeOK
    <3>. QED  BY <2>1, <3>1, RequestType DEF Recheck
  <2>. QED  BY <1>5, <2>1 DEF Next, AcquireLock, SpuriousWakeup, Quiescent, lmvars
<1>. QED  BY <1>0, <1>1, <1>2, <1>3, <1>4, <1>5

\* Strict 2PL: locks and their strength are lost only in the ReleaseAll that
\* ends the transaction, and an ended transaction takes none.
THEOREM LocksHeldToTheEnd == Spec => StrictTwoPhase
<1> DEFINE Keep ==
      \A t \in Txn, p \in PageKey :
          /\ (t \in Holders(locks[p]) /\ t \notin Holders(locks[p])') => status'[t] = "done"
          /\ (locks[p].exclusive_holder = t /\ locks'[p].exclusive_holder # t)
                => status'[t] = "done"
          /\ status[t] = "done" => t \notin Holders(locks[p])'
<1>1. IInv /\ IInv' /\ [Next]_lmvars => [Keep]_lmvars
  BY LocksKept
<1>2. Spec => [][Keep]_lmvars
  BY <1>1, LockTableInvariant, PTL DEF Spec
<1>. QED  BY <1>2 DEF StrictTwoPhase

\* AcquireLock loses no wakeup: a sleeping thread is blocked in the current
\* table.
THEOREM NoLostWakeup == Spec => []SleeperIsBlocked
<1>1. IInv => SleeperIsBlocked
  BY DEF IInv
<1>. QED  BY <1>1, LockTableInvariant, PTL

\* Wait-die's guarantee: a sleeping thread always has a younger blocker.
THEOREM WaitDie == Spec => []SleeperHasYoungerBlocker
<1>1. IInv => SleeperHasYoungerBlocker
  BY DEF IInv
<1>. QED  BY <1>1, LockTableInvariant, PTL
=============================================================================
