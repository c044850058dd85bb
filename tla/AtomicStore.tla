---------------------------- MODULE AtomicStore ----------------------------
(***************************************************************************)
(* What flintdb promises of its transactions (docs/SPEC.md section 2):     *)
(* each one takes effect on all its pages in one step or not at all, a     *)
(* crash may undo the latest commits but none that was acknowledged, and   *)
(* one reported as rolled back never takes effect.  No log, no buffer      *)
(* pool, no locks, no recovery.                                            *)
(***************************************************************************)
EXTENDS Naturals, Sequences

CONSTANTS PageKey,      \* pages
          Transaction,  \* transactions, over all sessions
          Blank         \* content of a page no transaction has written

VARIABLES commits,      \* the transactions in effect, in commit order
          acked,        \* those whose Commit returned
          rolled_back,  \* those whose Abort returned
          store         \* the durable content: page -> the transaction that wrote it

asvars == <<commits, acked, rolled_back, store>>

TxnsOf(h) == {h[i].txn : i \in 1..Len(h)}

\* The content a sequence of commits leaves behind.
Contents(h) ==
    [p \in PageKey |->
        LET writers == {i \in 1..Len(h) : p \in h[i].pages}
        IN  IF writers = {} THEN Blank
            ELSE h[CHOOSE i \in writers : \A j \in writers : j <= i].txn]

Init ==
    /\ commits = <<>> /\ acked = {} /\ rolled_back = {}
    /\ store = [p \in PageKey |-> Blank]

\* T writes all its pages W at once.
Commit(T, W) ==
    /\ T \notin TxnsOf(commits) \cup rolled_back
    /\ commits' = Append(commits, [txn |-> T, pages |-> W])
    /\ store' = [p \in PageKey |-> IF p \in W THEN T ELSE store[p]]
    /\ UNCHANGED <<acked, rolled_back>>

Acknowledge(T) ==
    /\ T \in TxnsOf(commits)
    /\ acked' = acked \cup {T}
    /\ UNCHANGED <<commits, rolled_back, store>>

RollBack(T) ==
    /\ T \notin TxnsOf(commits)
    /\ rolled_back' = rolled_back \cup {T}
    /\ UNCHANGED <<commits, acked, store>>

\* The first n commits survive, among them every acknowledged one.
Crash(n) ==
    /\ acked \subseteq TxnsOf(SubSeq(commits, 1, n))
    /\ commits' = SubSeq(commits, 1, n)
    /\ store' = Contents(commits')
    /\ UNCHANGED <<acked, rolled_back>>

Next ==
    \/ \E T \in Transaction, W \in SUBSET PageKey : Commit(T, W)
    \/ \E T \in Transaction : Acknowledge(T)
    \/ \E T \in Transaction : RollBack(T)
    \/ \E n \in 0..Len(commits) : Crash(n)

Spec == Init /\ [][Next]_asvars
=============================================================================
