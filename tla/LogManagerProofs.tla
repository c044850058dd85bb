-------------------------- MODULE LogManagerProofs --------------------------
(***************************************************************************)
(* Proofs about the write-ahead log, for every set of threads and any      *)
(* number of records.                                                      *)
(*                                                                         *)
(* The flusher election, the types and the order of the LSNs are proved    *)
(* with every fault the model has: failing writes and fsyncs, checkpoints, *)
(* crashes.  Durability of what FlushThrough returned from is proved for a *)
(* session without checkpoints and without failing writes: with either it  *)
(* does not hold (the counterexamples of README section 3).                *)
(***************************************************************************)
EXTENDS LogManager, SequenceLemmas

FlusherInv ==
    /\ pc \in [Thread -> Pc]
    /\ flush_in_progress \in BOOLEAN
    /\ OneFlusher
    /\ WaiterHasFlusher

\* Election of the flusher: the flag is set exactly while one thread is in
\* its fsync, and nobody sleeps without a flusher to wake it, whatever fails.
LEMMA FlusherInductive == FlusherInv /\ [Next]_logvars => FlusherInv'
<1> SUFFICES ASSUME FlusherInv, [Next]_logvars PROVE FlusherInv'
  OBVIOUS
<1> USE DEF FlusherInv, OneFlusher, WaiterHasFlusher, Pc
<1>1. ASSUME NEW t \in Thread, NEW b \in Body, AppendRecord(t, b) \/ AppendFails(t, b)
      PROVE  FlusherInv'
  BY <1>1 DEF AppendRecord, AppendFails
<1>2. ASSUME NEW t \in Thread, FlushThrough(t)
      PROVE  FlusherInv'
  BY <1>2 DEF FlushThrough
<1>3. ASSUME NEW t \in Thread, CheckDurable(t)
      PROVE  FlusherInv'
  <2>1. CASE AlreadyDurable(t)
    BY <1>3, <2>1 DEF CheckDurable, AlreadyDurable
  <2>2. CASE WaitForFlusher(t)
    BY <1>3, <2>2 DEF CheckDurable, WaitForFlusher
  <2>3. CASE BecomeFlusher(t)
    BY <1>3, <2>3 DEF CheckDurable, BecomeFlusher
  <2>. QED  BY <1>3, <2>1, <2>2, <2>3 DEF CheckDurable
<1>4. ASSUME NEW t \in Thread, FsyncSucceeds(t) \/ FsyncFails(t)
      PROVE  FlusherInv'
  BY <1>4 DEF FsyncSucceeds, FsyncFails, FlushRoundEnds, NotifyAllBut
<1>5. ASSUME NEW t \in Thread, SpuriousWakeup(t)
      PROVE  FlusherInv'
  BY <1>5 DEF SpuriousWakeup
<1>6. ASSUME NEW t \in Thread, Flush(t) \/ EndTransaction(t)
      PROVE  FlusherInv'
  BY <1>6 DEF Flush, EndTransaction
<1>7. CASE QuiescentCheckpoint
  BY <1>7 DEF QuiescentCheckpoint, Checkpoint
<1>8. CASE ProcessCrash \/ PowerLoss
  BY <1>8 DEF ProcessCrash, PowerLoss, Reopen, NextLsnOnOpen
<1>9. CASE UNCHANGED logvars
  BY <1>9 DEF logvars
<1>. QED  BY <1>1, <1>2, <1>3, <1>4, <1>5, <1>6, <1>7, <1>8, <1>9 DEF Next

\* At most one thread is between its unlock and its relock in FlushThrough,
\* and flush_in_progress_ says so, also after failed fsyncs and crashes.
THEOREM SingleFlusher == Spec => []OneFlusher
<1>1. Init => FlusherInv
  BY DEF Init, FlusherInv, OneFlusher, WaiterHasFlusher, Pc
<1>2. FlusherInv => OneFlusher
  BY DEF FlusherInv
<1>. QED  BY <1>1, <1>2, FlusherInductive, PTL DEF Spec

\* No thread is left in flush_cv_.wait after the flush it waited for ended.
THEOREM NoStrandedWaiter == Spec => []WaiterHasFlusher
<1>1. Init => FlusherInv
  BY DEF Init, FlusherInv, OneFlusher, WaiterHasFlusher, Pc
<1>2. FlusherInv => WaiterHasFlusher
  BY DEF FlusherInv
<1>. QED  BY <1>1, <1>2, FlusherInductive, PTL DEF Spec
-----------------------------------------------------------------------------
\* A running fsync was called after records that are still in the file.
CoversInFile == \A t \in Thread : covers[t] <= Len(log)

OrderInv == TypeOK /\ LsnOrder /\ CoversInFile

\* The scan on open always finds where to stop: at the first fragment or at
\* the end of the file.
LEMMA GoodLengthExists ==
    ASSUME NEW s \in Seq(LogRecord)
    PROVE  GoodLength(s) \in 0..Len(s)
<1> DEFINE P(k) == /\ \A i \in 1..k : ~s[i].torn
                   /\ k < Len(s) => s[k + 1].torn
           Torn == {i \in 1..Len(s) : s[i].torn}
<1>1. Len(s) \in Nat
  OBVIOUS
<1>2. \E k \in 0..Len(s) : P(k)
  <2>1. CASE Torn = {}
    <3>1. Len(s) \in 0..Len(s) /\ P(Len(s))
      BY <1>1, <2>1
    <3>. QED  BY <3>1
  <2>2. CASE Torn # {}
    <3>1. PICK n \in Torn : \A m \in Torn : n <= m
      <4>1. Torn \in SUBSET Nat
        BY <1>1
      <4> HIDE DEF Torn
      <4>. QED  BY <2>2, <4>1, LeastNatural
    <3>2. n - 1 \in 0..Len(s) /\ n \in 1..Len(s) /\ (n - 1) + 1 = n
      BY <1>1, <3>1
    <3>3. P(n - 1)
      <4>1. \A i \in 1..(n - 1) : ~s[i].torn
        BY <1>1, <3>1, <3>2
      <4>. QED  BY <3>1, <3>2, <4>1
    <3>. QED  BY <3>2, <3>3
  <2>. QED  BY <2>1, <2>2
<1> HIDE DEF P
<1>3. (CHOOSE k \in 0..Len(s) : P(k)) \in 0..Len(s)
  BY <1>2
<1>. QED  BY <1>3 DEF GoodLength, P

\* Reopening over a prefix of the file keeps the types and the order: the
\* next LSN is behind the last record the scan kept.
LEMMA ReopenOrder ==
    ASSUME OrderInv, NEW n \in 0..Len(log), NEW s, s = SubSeq(log, 1, n),
           Reopen(s), stable' \in 0..GoodLength(s)
    PROVE  OrderInv'
<1> DEFINE g == GoodLength(s)
<1>1. log \in Seq(LogRecord) /\ Len(log) \in Nat
  BY DEF OrderInv, TypeOK
<1>2. s \in Seq(LogRecord) /\ Len(s) = n /\ \A i \in 1..n : s[i] = log[i]
  BY <1>1, PrefixOfSeq
<1>3. g \in 0..n /\ stable' \in 0..g
  BY <1>2, GoodLengthExists
<1>4. log' = SubSeq(s, 1, g) /\ next_lsn' = NextLsnOnOpen(log')
  BY DEF Reopen
<1> HIDE DEF g
<1>5. log' \in Seq(LogRecord) /\ Len(log') = g /\ \A i \in 1..g : log'[i] = s[i]
  BY <1>2, <1>3, <1>4, PrefixOfSeq
<1>6. \A i \in 1..g : log'[i] = log[i] /\ i \in 1..Len(log) /\ log[i] \in LogRecord
  BY <1>1, <1>2, <1>3, <1>5, ElementOfSeq
<1>7. /\ pc' \in [Thread -> Pc] /\ target' \in [Thread -> Nat]
      /\ to_cover' \in [Thread -> Nat] /\ covers' \in [Thread -> Nat]
      /\ durable_lsn' \in Nat /\ CoversInFile'
  BY <1>3, <1>5 DEF Reopen, NextLsnOnOpen, Pc, CoversInFile
<1>8. flush_in_progress' \in BOOLEAN
  BY DEF Reopen
<1>9. next_lsn' \in Nat \ {0} /\ LsnOrder'
  <2>1. CASE g = 0
    <3>1. log' = <<>>
      BY <1>5, <2>1, EmptySeq
    <3>. QED  BY <1>4, <1>5, <2>1, <3>1 DEF NextLsnOnOpen, LsnOrder
  <2>2. CASE g # 0
    <3>1. log' # <<>>
      BY <1>5, <2>2, EmptySeq
    <3>2. next_lsn' = log[g].lsn + 1 /\ log[g].lsn \in Nat
      BY <1>3, <1>4, <1>5, <1>6, <2>2, <3>1 DEF NextLsnOnOpen, LogRecord
    <3>3. \A i, j \in 1..g : i < j => log'[i].lsn < log'[j].lsn
      BY <1>6 DEF OrderInv, LsnOrder
    <3>4. \A i \in 1..g : log[i].lsn \in Nat /\ log[i].lsn <= log[g].lsn
      BY <1>3, <1>6, <2>2 DEF OrderInv, LsnOrder, LogRecord
    <3>5. \A i \in 1..g : log'[i].lsn < next_lsn'
      BY <1>6, <3>2, <3>4
    <3>. QED  BY <1>5, <3>2, <3>3, <3>5 DEF LsnOrder
  <2>. QED  BY <2>1, <2>2
<1>10. stable' \in Nat /\ stable' <= Len(log')
  BY <1>3, <1>5
<1>. QED  BY <1>5, <1>7, <1>8, <1>9, <1>10 DEF OrderInv, TypeOK

\* A record appended with the next LSN, whole or torn, keeps the order.
LEMMA AppendOrder ==
    ASSUME OrderInv, NEW r \in LogRecord, r.lsn = next_lsn,
           log' = Append(log, r), next_lsn' = next_lsn + 1
    PROVE  /\ log' \in Seq(LogRecord) /\ Len(log') = Len(log) + 1
           /\ LsnOrder'
<1>1. log \in Seq(LogRecord) /\ Len(log) \in Nat /\ next_lsn \in Nat
  BY DEF OrderInv, TypeOK
<1>2. /\ log' \in Seq(LogRecord) /\ Len(log') = Len(log) + 1
      /\ \A i \in 1..Len(log) : log'[i] = log[i]
      /\ log'[Len(log) + 1] = r
  BY <1>1, AppendProperties
<1>3. \A i \in 1..Len(log) : log[i].lsn \in Nat
  <2>1. \A i \in 1..Len(log) : log[i] \in LogRecord
    BY <1>1, ElementOfSeq
  <2>. QED  BY <2>1 DEF LogRecord
<1>4. \A i \in 1..Len(log) + 1 : log'[i].lsn < next_lsn'
  BY <1>1, <1>2, <1>3 DEF OrderInv, LsnOrder
<1>5. \A i, j \in 1..Len(log) + 1 : i < j => log'[i].lsn < log'[j].lsn
  BY <1>1, <1>2, <1>3 DEF OrderInv, LsnOrder
<1>. QED  BY <1>2, <1>4, <1>5 DEF LsnOrder

\* Types and order are preserved by every step, whatever fails.
LEMMA OrderInductive == OrderInv /\ [Next]_logvars => OrderInv'
<1> SUFFICES ASSUME OrderInv, [Next]_logvars PROVE OrderInv'
  OBVIOUS
<1>0. Len(log) \in Nat /\ log \in Seq(LogRecord)
  BY DEF OrderInv, TypeOK
<1>1. ASSUME NEW t \in Thread, NEW b \in Body, NEW torn \in BOOLEAN,
             log' = Append(log, [lsn |-> next_lsn, txn |-> t, body |-> b, torn |-> torn]),
             next_lsn' = next_lsn + 1,
             target' \in [Thread -> Nat],
             UNCHANGED <<stable, durable_lsn, flush_in_progress, pc, to_cover, covers>>
      PROVE  OrderInv'
  <2>1. [lsn |-> next_lsn, txn |-> t, body |-> b, torn |-> torn] \in LogRecord
    BY DEF OrderInv, TypeOK, LogRecord
  <2>2. log' \in Seq(LogRecord) /\ Len(log') = Len(log) + 1 /\ LsnOrder'
    BY <1>1, <2>1, AppendOrder
  <2>. QED  BY <1>0, <1>1, <2>2 DEF OrderInv, TypeOK, CoversInFile
<1>2. ASSUME NEW t \in Thread, NEW b \in Body, AppendRecord(t, b)
      PROVE  OrderInv'
  <2>1. target' \in [Thread -> Nat]
    BY <1>2 DEF AppendRecord, OrderInv, TypeOK
  <2>. QED  BY <1>1, <1>2, <2>1 DEF AppendRecord
<1>3. ASSUME NEW t \in Thread, NEW b \in Body, AppendFails(t, b)
      PROVE  OrderInv'
  <2>1. CASE log' = log
    <3>1. \A i \in 1..Len(log) : log[i].lsn \in Nat
      <4>1. \A i \in 1..Len(log) : log[i] \in LogRecord
        BY <1>0, ElementOfSeq
      <4>. QED  BY <4>1 DEF LogRecord
    <3>2. LsnOrder'
      BY <1>3, <2>1, <3>1 DEF AppendFails, OrderInv, LsnOrder, TypeOK
    <3>. QED  BY <1>3, <2>1, <3>2 DEF AppendFails, OrderInv, TypeOK, CoversInFile
  <2>2. CASE log' # log
    BY <1>1, <1>3, <2>2 DEF AppendFails, OrderInv, TypeOK
  <2>. QED  BY <2>1, <2>2
<1>4. ASSUME NEW t \in Thread, FlushThrough(t) \/ SpuriousWakeup(t) \/ Flush(t) \/ EndTransaction(t)
      PROVE  OrderInv'
  <2> USE DEF OrderInv, TypeOK, LsnOrder, CoversInFile, Pc
  <2>1. CASE FlushThrough(t)
    BY <2>1 DEF FlushThrough
  <2>2. CASE SpuriousWakeup(t)
    BY <2>2 DEF SpuriousWakeup
  <2>3. CASE Flush(t)
    BY <1>0, <2>3 DEF Flush
  <2>4. CASE EndTransaction(t)
    BY <2>4 DEF EndTransaction
  <2>. QED  BY <1>4, <2>1, <2>2, <2>3, <2>4
<1>5. ASSUME NEW t \in Thread, CheckDurable(t)
      PROVE  OrderInv'
  <2> USE DEF CheckDurable, OrderInv, TypeOK, LsnOrder, CoversInFile, Pc
  <2>1. CASE AlreadyDurable(t)
    BY <1>5, <2>1 DEF AlreadyDurable
  <2>2. CASE WaitForFlusher(t)
    BY <1>5, <2>2 DEF WaitForFlusher
  <2>3. CASE BecomeFlusher(t)
    <3>1. Larger(target[t], next_lsn - 1) \in Nat
      BY DEF Larger
    <3>. QED  BY <1>0, <1>5, <2>3, <3>1 DEF BecomeFlusher
  <2>. QED  BY <1>5, <2>1, <2>2, <2>3
<1>6. ASSUME NEW t \in Thread, FsyncSucceeds(t) \/ FsyncFails(t)
      PROVE  OrderInv'
  <2>1. /\ UNCHANGED <<log, next_lsn, target>> /\ flush_in_progress' = FALSE
        /\ to_cover' = [to_cover EXCEPT ![t] = 0]
        /\ covers' = [covers EXCEPT ![t] = 0]
    BY <1>6 DEF FsyncSucceeds, FsyncFails, FlushRoundEnds
  <2>2. pc' \in [Thread -> Pc]
    BY <1>6 DEF FsyncSucceeds, FsyncFails, NotifyAllBut, OrderInv, TypeOK, Pc
  <2>3. stable' \in Nat /\ stable' <= Len(log) /\ durable_lsn' \in Nat
    BY <1>0, <1>6 DEF FsyncSucceeds, FsyncFails, Larger, OrderInv, TypeOK, CoversInFile
  <2>4. TypeOK'
    BY <2>1, <2>2, <2>3 DEF OrderInv, TypeOK
  <2>5. LsnOrder' /\ CoversInFile'
    BY <1>0, <2>1 DEF OrderInv, TypeOK, LsnOrder, CoversInFile
  <2>. QED  BY <2>4, <2>5 DEF OrderInv
<1>7. CASE QuiescentCheckpoint
  <2>1. log' \in Seq(LogRecord) /\ Len(log') = 0
    BY <1>7, EmptySeq DEF QuiescentCheckpoint, Checkpoint
  <2>. QED  BY <1>7, <2>1 DEF QuiescentCheckpoint, Checkpoint, OrderInv, TypeOK, LsnOrder, CoversInFile
<1>8. CASE ProcessCrash
  <2>1. SubSeq(log, 1, Len(log)) = log
    BY <1>0, SubSeqFull
  <2>2. GoodLength(log) \in 0..Len(log)
    BY <1>0, GoodLengthExists
  <2>3. stable' \in 0..GoodLength(log)
    BY <1>0, <1>8, <2>2 DEF ProcessCrash, OrderInv, TypeOK
  <2>. QED  BY <1>0, <1>8, <2>1, <2>3, ReopenOrder DEF ProcessCrash
<1>9. CASE PowerLoss
  <2>1. PICK n \in stable..Len(log) : /\ Reopen(SubSeq(log, 1, n))
                                      /\ stable' = GoodLength(SubSeq(log, 1, n))
    BY <1>9 DEF PowerLoss
  <2> DEFINE s == SubSeq(log, 1, n)
  <2>2. n \in 0..Len(log)
    BY <1>0 DEF OrderInv, TypeOK
  <2>3. GoodLength(s) \in 0..Len(s) /\ Len(s) = n
    BY <1>0, <2>2, PrefixOfSeq, GoodLengthExists
  <2>4. stable' \in 0..GoodLength(s) /\ Reopen(s)
    BY <2>1, <2>2, <2>3
  <2>. QED  BY <2>2, <2>4, ReopenOrder
<1>10. CASE UNCHANGED logvars
  BY <1>10 DEF logvars, OrderInv, TypeOK, LsnOrder, CoversInFile
<1>. QED  BY <1>2, <1>3, <1>4, <1>5, <1>6, <1>7, <1>8, <1>9, <1>10 DEF Next

\* A newly created log satisfies the invariant of types and order.
LEMMA OrderInitially == Init => OrderInv
<1> SUFFICES ASSUME Init PROVE OrderInv
  OBVIOUS
<1>1. log \in Seq(LogRecord) /\ Len(log) = 0
  BY EmptySeq DEF Init
<1>2. TypeOK
  <2>1. /\ pc \in [Thread -> Pc] /\ target \in [Thread -> Nat]
        /\ to_cover \in [Thread -> Nat] /\ covers \in [Thread -> Nat]
        /\ durable_lsn \in Nat /\ next_lsn \in Nat \ {0}
    BY DEF Init, Pc
  <2>2. flush_in_progress \in BOOLEAN
    BY DEF Init
  <2>. QED  BY <1>1, <2>1, <2>2 DEF Init, TypeOK
<1>3. LsnOrder /\ CoversInFile
  BY <1>1 DEF Init, LsnOrder, CoversInFile
<1>. QED  BY <1>2, <1>3 DEF OrderInv

\* It holds in every reachable state.
LEMMA OrderInvariant == Spec => []OrderInv
  BY OrderInitially, OrderInductive, PTL DEF Spec

\* The log's variables keep their types: stable storage never holds more
\* than the file, and LSN 0 is never handed out, so that 0 can stand for
\* "nothing durable yet" in durable_lsn_.
THEOREM LogTypeCorrect == Spec => []TypeOK
<1>1. OrderInv => TypeOK
  BY DEF OrderInv
<1>. QED  BY <1>1, OrderInvariant, PTL

\* Records carry strictly increasing LSNs below next_lsn_, for any number of
\* writers and through failed writes, checkpoints, torn tails and crashes.
THEOREM RecordsInLsnOrder == Spec => []LsnOrder
<1>1. OrderInv => LsnOrder
  BY DEF OrderInv
<1>. QED  BY <1>1, OrderInvariant, PTL
-----------------------------------------------------------------------------
\* The log of a session without checkpoints: LSNs are positions in the file
\* and nothing in it is torn.
FileIsDense ==
    /\ next_lsn = Len(log) + 1
    /\ \A i \in 1..Len(log) : log[i].lsn = i /\ ~log[i].torn

\* A thread's target is the position of a record of its own.
TargetsAreOwn ==
    \A t \in Thread : /\ target[t] <= Len(log)
                      /\ target[t] # 0 => log[target[t]].txn = t
                      /\ pc[t] # "idle" => target[t] # 0

\* durable_lsn_ claims no more than what is stable, a running fsync was
\* called after everything it will claim, and FlushThrough returned only
\* below durable_lsn_.
ClaimsAreStable ==
    /\ durable_lsn <= stable
    /\ \A t \in Thread :
         /\ pc[t] = "syncing" => to_cover[t] <= covers[t] /\ covers[t] <= Len(log)
         /\ pc[t] = "flushed" => target[t] <= durable_lsn

DurabilityInv == TypeOK /\ FileIsDense /\ TargetsAreOwn /\ ClaimsAreStable
NoFaults == ~WriteMayFail /\ ~UseCheckpoint

\* Over a file without fragments the scan on open stops at the end.
LEMMA GoodLengthOfIntact ==
    ASSUME NEW s \in Seq(LogRecord), \A i \in 1..Len(s) : ~s[i].torn
    PROVE  GoodLength(s) = Len(s)
<1> DEFINE P(k) == /\ \A i \in 1..k : ~s[i].torn
                   /\ k < Len(s) => s[k + 1].torn
<1>1. Len(s) \in Nat
  OBVIOUS
<1>2. Len(s) \in 0..Len(s) /\ P(Len(s))
  BY <1>1
<1>3. \A k \in 0..Len(s) : P(k) => k = Len(s)
  BY <1>1
<1>. HIDE DEF P
<1>4. (CHOOSE k \in 0..Len(s) : P(k)) = Len(s)
  BY <1>2, <1>3
<1>. QED  BY <1>4 DEF GoodLength, P

\* Reopening over the first n records of an intact file re-establishes the
\* invariant: the counters restart from what the scan found.
LEMMA ReopenInv ==
    ASSUME DurabilityInv, NEW n \in 0..Len(log), NEW s, s = SubSeq(log, 1, n),
           Reopen(s), stable' \in 0..n
    PROVE  DurabilityInv'
<1>1. log \in Seq(LogRecord) /\ Len(log) \in Nat
  BY DEF DurabilityInv, TypeOK
<1>2. s \in Seq(LogRecord) /\ Len(s) = n /\ \A i \in 1..n : s[i] = log[i]
  BY <1>1, PrefixOfSeq
<1>3. GoodLength(s) = n
  <2>1. \A i \in 1..Len(s) : ~s[i].torn
    BY <1>1, <1>2 DEF DurabilityInv, FileIsDense
  <2>. QED  BY <1>2, <2>1, GoodLengthOfIntact
<1>4. log' \in Seq(LogRecord) /\ Len(log') = n /\ \A i \in 1..n : log'[i] = log[i]
  BY <1>2, <1>3, PrefixOfSeq DEF Reopen, NextLsnOnOpen
<1>5. next_lsn' = n + 1
  <2>1. CASE n = 0
    <3>1. log' = <<>>
      BY <1>4, <2>1, EmptySeq
    <3>. QED  BY <2>1, <3>1 DEF Reopen, NextLsnOnOpen
  <2>2. CASE n # 0
    <3>1. log' # <<>>
      BY <1>4, <2>2, EmptySeq
    <3>2. next_lsn' = log'[n].lsn + 1
      BY <1>4, <3>1 DEF Reopen, NextLsnOnOpen
    <3>3. log[n].lsn = n /\ log'[n] = log[n]
      BY <1>1, <1>4, <2>2 DEF DurabilityInv, FileIsDense
    <3>. QED  BY <3>2, <3>3
  <2>. QED  BY <2>1, <2>2
<1>6. FileIsDense'
  BY <1>1, <1>4, <1>5 DEF FileIsDense, DurabilityInv
<1>7. TypeOK'
  <2>1. /\ pc' \in [Thread -> Pc] /\ target' \in [Thread -> Nat]
        /\ to_cover' \in [Thread -> Nat] /\ covers' \in [Thread -> Nat]
        /\ durable_lsn' \in Nat
    BY DEF Reopen, NextLsnOnOpen, Pc
  <2>2. flush_in_progress' \in BOOLEAN
    BY DEF Reopen, NextLsnOnOpen
  <2>3. next_lsn' \in Nat \ {0} /\ stable' \in Nat /\ stable' <= Len(log')
    BY <1>1, <1>4, <1>5
  <2>. QED  BY <1>4, <2>1, <2>2, <2>3 DEF TypeOK
<1>8. TargetsAreOwn' /\ ClaimsAreStable'
  BY <1>1, <1>4 DEF Reopen, NextLsnOnOpen, TargetsAreOwn, ClaimsAreStable
<1>. QED  BY <1>6, <1>7, <1>8 DEF DurabilityInv

\* The durability invariant is preserved by every step of the log, crashes
\* included, as long as no write fails and nothing is truncated.
LEMMA DurabilityInductive ==
    ASSUME NoFaults
    PROVE  DurabilityInv /\ [Next]_logvars => DurabilityInv'
<1> SUFFICES ASSUME DurabilityInv, [Next]_logvars PROVE DurabilityInv'
  OBVIOUS
<1>0. Len(log) \in Nat
  BY DEF DurabilityInv, TypeOK
<1>1. ASSUME NEW t \in Thread, NEW b \in Body, AppendRecord(t, b)
      PROVE  DurabilityInv'
  <2> DEFINE r == [lsn |-> next_lsn, txn |-> t, body |-> b, torn |-> FALSE]
  <2>1. r \in LogRecord /\ log \in Seq(LogRecord)
    BY DEF LogRecord, DurabilityInv, TypeOK
  <2>2. /\ log' = Append(log, r)
        /\ UNCHANGED <<stable, durable_lsn, flush_in_progress, pc, to_cover, covers>>
        /\ target' = [target EXCEPT ![t] = next_lsn]
        /\ next_lsn' = next_lsn + 1
        /\ pc[t] = "idle"
    BY <1>1 DEF AppendRecord
  <2>3. /\ log' \in Seq(LogRecord)
        /\ Len(log') = Len(log) + 1
        /\ \A i \in 1..Len(log) : log'[i] = log[i]
        /\ log'[Len(log) + 1] = r
    BY <2>1, <2>2, AppendProperties
  <2>4. next_lsn = Len(log) + 1
    BY DEF DurabilityInv, FileIsDense
  <2>5. TypeOK'
    BY <1>0, <2>2, <2>3 DEF DurabilityInv, TypeOK
  <2>6. FileIsDense'
    BY <1>0, <2>2, <2>3, <2>4 DEF DurabilityInv, FileIsDense
  <2>7. TargetsAreOwn'
    <3> SUFFICES ASSUME NEW u \in Thread
                 PROVE  /\ target'[u] <= Len(log')
                        /\ target'[u] # 0 => log'[target'[u]].txn = u
                        /\ pc'[u] # "idle" => target'[u] # 0
      BY DEF TargetsAreOwn
    <3>1. CASE u = t
      BY <1>0, <2>2, <2>3, <2>4, <3>1 DEF DurabilityInv, TypeOK
    <3>2. CASE u # t
      BY <1>0, <2>2, <2>3, <3>2 DEF DurabilityInv, TypeOK, TargetsAreOwn
    <3>. QED  BY <3>1, <3>2
  <2>8. ClaimsAreStable'
    BY <1>0, <2>2, <2>3 DEF DurabilityInv, TypeOK, ClaimsAreStable
  <2>. QED  BY <2>5, <2>6, <2>7, <2>8 DEF DurabilityInv
<1>2. ASSUME NEW t \in Thread, FlushThrough(t)
      PROVE  DurabilityInv'
  BY <1>2 DEF FlushThrough, DurabilityInv, TypeOK, Pc, FileIsDense, TargetsAreOwn, ClaimsAreStable
<1>3. ASSUME NEW t \in Thread, CheckDurable(t)
      PROVE  DurabilityInv'
  <2> USE DEF CheckDurable, DurabilityInv, TypeOK, Pc, FileIsDense, TargetsAreOwn, ClaimsAreStable
  <2>1. CASE AlreadyDurable(t)
    BY <1>3, <2>1 DEF AlreadyDurable
  <2>2. CASE WaitForFlusher(t)
    BY <1>3, <2>2 DEF WaitForFlusher
  <2>3. CASE BecomeFlusher(t)
    \* The target has been appended, so NextLsn() - 1 is what to_cover becomes.
    <3>1. Larger(target[t], next_lsn - 1) = Len(log)
      BY <1>0 DEF Larger
    <3>. QED  BY <1>0, <1>3, <2>3, <3>1 DEF BecomeFlusher
  <2>. QED  BY <1>3, <2>1, <2>2, <2>3
<1>4. ASSUME NEW t \in Thread, FsyncSucceeds(t)
      PROVE  DurabilityInv'
  <2>1. /\ pc[t] = "syncing" /\ pc' = NotifyAllBut(t, "checking")
        /\ stable' = Larger(stable, covers[t])
        /\ durable_lsn' = Larger(durable_lsn, to_cover[t])
        /\ UNCHANGED <<log, next_lsn, target>>
        /\ flush_in_progress' = FALSE
        /\ to_cover' = [to_cover EXCEPT ![t] = 0]
        /\ covers' = [covers EXCEPT ![t] = 0]
    BY <1>4 DEF FsyncSucceeds, FlushRoundEnds
  <2>2. to_cover[t] <= covers[t] /\ covers[t] <= Len(log)
    BY <2>1 DEF DurabilityInv, ClaimsAreStable
  <2>3. /\ durable_lsn' \in Nat /\ stable' \in Nat /\ stable' <= Len(log)
        /\ durable_lsn' <= stable' /\ durable_lsn <= durable_lsn'
    BY <1>0, <2>1, <2>2 DEF Larger, DurabilityInv, TypeOK, ClaimsAreStable
  <2>4. TypeOK'
    BY <2>1, <2>3 DEF DurabilityInv, TypeOK, NotifyAllBut, Pc
  <2>5. FileIsDense' /\ TargetsAreOwn'
    BY <2>1 DEF DurabilityInv, TypeOK, FileIsDense, TargetsAreOwn, NotifyAllBut
  <2>6. ClaimsAreStable'
    BY <1>0, <2>1, <2>3 DEF DurabilityInv, TypeOK, ClaimsAreStable, NotifyAllBut
  <2>. QED  BY <2>4, <2>5, <2>6 DEF DurabilityInv
<1>5. ASSUME NEW t \in Thread, FsyncFails(t)
      PROVE  DurabilityInv'
  BY <1>0, <1>5 DEF FsyncFails, FlushRoundEnds, NotifyAllBut, DurabilityInv, TypeOK, Pc, FileIsDense,
                TargetsAreOwn, ClaimsAreStable
<1>6. ASSUME NEW t \in Thread, SpuriousWakeup(t)
      PROVE  DurabilityInv'
  BY <1>6 DEF SpuriousWakeup, DurabilityInv, TypeOK, Pc, FileIsDense, TargetsAreOwn, ClaimsAreStable
<1>7. ASSUME NEW t \in Thread, Flush(t)
      PROVE  DurabilityInv'
  BY <1>0, <1>7 DEF Flush, DurabilityInv, TypeOK, FileIsDense, TargetsAreOwn, ClaimsAreStable
<1>8. ASSUME NEW t \in Thread, EndTransaction(t)
      PROVE  DurabilityInv'
  BY <1>0, <1>8
     DEF EndTransaction, DurabilityInv, TypeOK, Pc, FileIsDense, TargetsAreOwn, ClaimsAreStable
<1>9. CASE ProcessCrash
  <2>1. SubSeq(log, 1, Len(log)) = log
    BY SubSeqFull DEF DurabilityInv, TypeOK
  <2>2. GoodLength(log) = Len(log)
    BY GoodLengthOfIntact DEF DurabilityInv, TypeOK, FileIsDense
  <2>3. stable' \in 0..Len(log)
    BY <1>0, <1>9, <2>2 DEF ProcessCrash, DurabilityInv, TypeOK
  <2>. QED  BY <1>0, <1>9, <2>1, <2>3, ReopenInv DEF ProcessCrash
<1>10. CASE PowerLoss
  <2>1. PICK n \in stable..Len(log) : /\ Reopen(SubSeq(log, 1, n))
                                      /\ stable' = GoodLength(SubSeq(log, 1, n))
    BY <1>10 DEF PowerLoss
  <2>2. n \in 0..Len(log)
    BY <1>0 DEF DurabilityInv, TypeOK
  <2> DEFINE s == SubSeq(log, 1, n)
  <2>3. s \in Seq(LogRecord) /\ Len(s) = n /\ \A i \in 1..n : s[i] = log[i]
    BY <2>2, PrefixOfSeq DEF DurabilityInv, TypeOK
  <2>4. \A i \in 1..Len(s) : ~s[i].torn
    BY <1>0, <2>2, <2>3 DEF DurabilityInv, FileIsDense
  <2> HIDE DEF s
  <2>5. GoodLength(s) = n
    BY <2>3, <2>4, GoodLengthOfIntact
  <2>6. stable' \in 0..n /\ Reopen(s)
    BY <2>1, <2>2, <2>5 DEF s
  <2>. QED  BY <2>2, <2>6, ReopenInv DEF s
<1>11. CASE UNCHANGED logvars
  BY <1>11 DEF logvars, DurabilityInv, TypeOK, FileIsDense, TargetsAreOwn, ClaimsAreStable
<1>. QED
  BY <1>1, <1>2, <1>3, <1>4, <1>5, <1>6, <1>7, <1>8, <1>9, <1>10, <1>11
     DEF Next, NoFaults, AppendFails, QuiescentCheckpoint

\* A newly created log satisfies it.
LEMMA DurabilityInitially == Init => DurabilityInv
<1> SUFFICES ASSUME Init PROVE DurabilityInv
  OBVIOUS
<1>1. TypeOK
  BY OrderInitially DEF OrderInv
<1>2. log = <<>> /\ Len(log) = 0
  BY EmptySeq DEF Init
<1>3. FileIsDense /\ TargetsAreOwn /\ ClaimsAreStable
  BY <1>2 DEF Init, FileIsDense, TargetsAreOwn, ClaimsAreStable
<1>. QED  BY <1>1, <1>3 DEF DurabilityInv

\* Group commit: when FlushThrough has returned, the caller's record is on
\* stable storage, for any number of committers and any interleaving of
\* appends, fsyncs, failed fsyncs and crashes.
THEOREM GroupCommitIsDurable ==
    ASSUME NoFaults
    PROVE  Spec => []FlushedIsDurable
<1>1. DurabilityInv => FlushedIsDurable
  <2> SUFFICES ASSUME DurabilityInv, NEW t \in Thread, pc[t] = "flushed"
               PROVE  \E i \in 1..stable : /\ log[i].lsn = target[t] /\ log[i].txn = t
                                           /\ \A j \in 1..i : ~log[j].torn
    BY DEF FlushedIsDurable
  <2>1. target[t] \in 1..stable /\ stable <= Len(log)
    BY DEF DurabilityInv, TypeOK, TargetsAreOwn, ClaimsAreStable
  <2>2. log[target[t]].lsn = target[t] /\ log[target[t]].txn = t
    BY <2>1 DEF DurabilityInv, TypeOK, FileIsDense, TargetsAreOwn
  <2>3. \A j \in 1..target[t] : ~log[j].torn
    BY <2>1 DEF DurabilityInv, TypeOK, FileIsDense
  <2>. QED  BY <2>1, <2>2, <2>3
<1>. QED  BY <1>1, DurabilityInitially, DurabilityInductive, PTL DEF Spec
=============================================================================
