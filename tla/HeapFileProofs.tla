--------------------------- MODULE HeapFileProofs ---------------------------
(***************************************************************************)
(* Proofs about the heap file under the lock table, for every set of       *)
(* transactions, every size of pages and file, and any number of restarts. *)
(***************************************************************************)
EXTENDS HeapFile, SequenceLemmas, FiniteSetTheorems

LP == INSTANCE LockManagerProofs WITH PageKey <- PageId

Row      == Txn \cup {NoTxn}
Slot     == [row : Row, deleted : BOOLEAN]
Page     == [formatted : BOOLEAN, slots : Seq(Slot)]
Rid      == [page_id : PageId, slot_id : Nat, row : Row]
CallName == {"none", "insert", "insert_new", "get", "delete", "scan", "find"}
CallType == [name : CallName, mode : LM!LockMode, todo : Seq(PageId), arg : Nat \cup {NoTxn},
             got : SUBSET Rid, from : SUBSET Rid]
-----------------------------------------------------------------------------
\* The values of all variables the proofs speak of.
Typed ==
    /\ page_ids \in Seq(PageId) /\ next_page_id \in Nat
    /\ pages \in [PageId -> Page] /\ disk \in [PageId -> Page]
    /\ dirtied \in [Txn -> SUBSET PageId]
    /\ op \in [Txn -> CallType] /\ ops \in [Txn -> Nat]
    /\ table \in SUBSET Rid
    /\ inserted \in [Txn -> SUBSET Rid] /\ deleted \in [Txn -> SUBSET Rid]
    /\ seen \in [Txn -> SUBSET Rid]

InFile == 0..next_page_id - 1

\* A call asks for the pages it was given, and ends with its transaction.
CallOK(t) ==
    /\ op[t].name \in {"insert", "insert_new", "delete"} => op[t].mode = LM!kExclusive
    /\ op[t].name \in {"insert", "insert_new"} => op[t].arg = t
    /\ op[t].name = "none" => op[t].todo = <<>>
    /\ op[t].name # "insert_new" => ToSet(op[t].todo) \subseteq ToSet(page_ids)
    /\ status[t] = "done" => op[t].name = "none"
    /\ status[t] = "dying" => op[t].todo # <<>>
    /\ status[t] \in {"asleep", "awake"} => op[t].todo # <<>> /\ request[t].page = Here(t)

\* The page Insert has just allocated is known to nobody else.
FreshOK(t) ==
    op[t].name = "insert_new" =>
        /\ status[t] = "running"
        /\ op[t].todo = <<Here(t)>>
        /\ Here(t) \in InFile /\ Here(t) \notin ToSet(page_ids)
        /\ Here(t) \in dirtied[t] /\ pages[Here(t)] = InitHeapPage
        /\ \A u \in Txn \ {t} : Here(t) \notin ToSet(op[u].todo) /\ Here(t) \notin held_by_txn[u]

\* A transaction that has made no call has left no trace.
UnusedOK(t) ==
    ops[t] = 0 => /\ op[t].name = "none" /\ dirtied[t] = {}
                  /\ inserted[t] = {} /\ deleted[t] = {} /\ seen[t] = {}

Inserting == {t \in Txn : op[t].name = "insert"}

\* page_ids_ names pages of the file once; every insertion under way has room
\* to grow the file; locks and changes are on pages of the file.
ControlInv ==
    /\ ToSet(page_ids) \subseteq InFile /\ IsInjective(page_ids)
    /\ next_page_id + Cardinality(Inserting) <= MaxPages
    /\ \A t \in Txn : /\ CallOK(t) /\ FreshOK(t) /\ UnusedOK(t)
                      /\ held_by_txn[t] \subseteq InFile /\ dirtied[t] \subseteq InFile

PageOK(page) == Len(page.slots) <= SlotsPerPage /\ (~page.formatted => page.slots = <<>>)

\* Pages behind the end of the file are zeros, in the pool and in the file.
PagesInv ==
    \A p \in PageId : /\ PageOK(pages[p]) /\ PageOK(disk[p])
                      /\ p >= next_page_id => pages[p] = Zeroed /\ disk[p] = Zeroed

\* Only its own transaction reaches a page that was changed and not committed.
WritersHoldLocks ==
    \A t \in Txn : Active(t) => \A p \in dirtied[t] :
        locks[p].exclusive_holder = t \/ (op[t].name = "insert_new" /\ p = Here(t))

\* A page differs from the file only by the changes of one open transaction.
CleanPages ==
    \A p \in PageId : (\A t \in Txn : Active(t) => p \notin dirtied[t]) => pages[p] = disk[p]

OnPage(records, p) == {r \in records : r.page_id = p}

\* The changes of a transaction are on the pages it has dirtied, and account
\* for the difference between these and the file.
ChangesOK(t) ==
    /\ \A r \in inserted[t] \cup deleted[t] : r.page_id \in dirtied[t]
    /\ \A r \in inserted[t] : r.row = t /\ r.page_id \in ToSet(page_ids)
    /\ Active(t) =>
          /\ \A r \in deleted[t] : r.slot_id <= Len(pages[r.page_id].slots)
          /\ \A p \in dirtied[t] :
                Records(p, pages[p]) =
                    (Records(p, disk[p]) \cup OnPage(inserted[t], p)) \ OnPage(deleted[t], p)

ChangesInv == \A t \in Txn : ChangesOK(t)

\* A committed row was inserted by a transaction that has ended, on a page
\* that is published.
TableInv ==
    /\ FileIsCommitted
    /\ \A r \in table : r.page_id \in ToSet(page_ids)
    /\ \A u \in Txn : Active(u) =>
          /\ \A r \in table : r.row # u
          /\ \A t \in Txn : \A r \in op[t].from : r.row # u

\* What t has read is on pages it still has locked.
SeenInv ==
    \A t \in Txn : Active(t) =>
        \A r \in seen[t] : r \in table \cup inserted[t] /\ r.page_id \in held_by_txn[t]

\* What a Scan has to find, it has found or will find on a page ahead of it.
ScanInv ==
    \A t \in Txn : op[t].name = "scan" =>
        \A r \in ((op[t].from \cap table) \cup inserted[t]) \ deleted[t] :
            r \in op[t].got \/ r.page_id \in ToSet(op[t].todo)

HeapInv ==
    /\ Typed /\ LP!IInv /\ ControlInv /\ PagesInv
    /\ WritersHoldLocks /\ CleanPages /\ ChangesInv
    /\ TableInv /\ SeenInv /\ ScanInv
-----------------------------------------------------------------------------
\* What the assumptions on the constants amount to.
LEMMA Constants ==
    /\ SlotsPerPage \in Nat /\ SlotsPerPage > 0 /\ MaxPages \in Nat /\ MaxPages > 0
    /\ RowsOnOpen \in Nat /\ RowsOnOpen <= SlotsPerPage
    /\ Txn \subseteq Nat /\ NoTxn \notin Txn /\ IsFiniteSet(Txn)
    /\ PageId \subseteq Nat /\ 0 \in PageId
  BY HeapAssumption DEF HeapAssumption, PageId

\* The elements of a sequence, and what Append and Tail do to them.
LEMMA ElementsOf ==
    ASSUME NEW R, NEW s \in Seq(R)
    PROVE  /\ DOMAIN s = 1..Len(s) /\ Len(s) \in Nat
           /\ \A i \in 1..Len(s) : s[i] \in ToSet(s) /\ s[i] \in R
           /\ \A x \in ToSet(s) : x \in R /\ \E i \in 1..Len(s) : s[i] = x
           /\ s # <<>> => /\ Head(s) = s[1] /\ Head(s) \in ToSet(s) /\ Head(s) \in R
                          /\ Tail(s) \in Seq(R) /\ Len(s) # 0
                          /\ s[Len(s)] \in ToSet(s)
                          /\ ToSet(Tail(s)) \subseteq ToSet(s)
                          /\ ToSet(s) \subseteq {Head(s)} \cup ToSet(Tail(s))
<1>1. DOMAIN s = 1..Len(s) /\ Len(s) \in Nat
  BY LenProperties
<1>2. \A i \in 1..Len(s) : s[i] \in ToSet(s) /\ s[i] \in R
  BY <1>1, ElementOfSeq DEF ToSet
<1>3. \A x \in ToSet(s) : x \in R /\ \E i \in 1..Len(s) : s[i] = x
  BY <1>1, <1>2 DEF ToSet
<1>4. ASSUME s # <<>>
      PROVE  /\ Head(s) = s[1] /\ Head(s) \in ToSet(s) /\ Head(s) \in R
             /\ Tail(s) \in Seq(R) /\ Len(s) # 0
             /\ s[Len(s)] \in ToSet(s)
             /\ ToSet(Tail(s)) \subseteq ToSet(s)
             /\ ToSet(s) \subseteq {Head(s)} \cup ToSet(Tail(s))
  <2>1. Len(s) # 0
    BY <1>4, EmptySeq
  <2>2. /\ Head(s) = s[1] /\ Tail(s) \in Seq(R) /\ Len(Tail(s)) = Len(s) - 1
        /\ \A i \in 1..Len(Tail(s)) : Tail(s)[i] = s[i + 1]
    BY <1>4, HeadTailProperties
  <2>3. DOMAIN Tail(s) = 1..Len(Tail(s))
    BY <2>2, LenProperties
  <2>4. 1 \in 1..Len(s) /\ Len(s) \in 1..Len(s)
    BY <1>1, <2>1
  <2>5. ToSet(Tail(s)) \subseteq ToSet(s)
    BY <1>1, <1>2, <2>1, <2>2, <2>3 DEF ToSet
  <2>6. ASSUME NEW x \in ToSet(s), x # s[1]
        PROVE  x \in ToSet(Tail(s))
    <3>1. PICK i \in 1..Len(s) : s[i] = x
      BY <1>3
    <3>2. i - 1 \in 1..Len(Tail(s)) /\ Tail(s)[i - 1] = x
      BY <1>1, <2>2, <2>6, <3>1
    <3>. QED  BY <2>3, <3>2 DEF ToSet
  <2>. QED  BY <1>2, <2>1, <2>2, <2>4, <2>5, <2>6
<1>. QED  BY <1>1, <1>2, <1>3, <1>4

\* The elements of a sequence behind an Append.
LEMMA AppendedElements ==
    ASSUME NEW R, NEW s \in Seq(R), NEW x \in R
    PROVE  /\ Append(s, x) \in Seq(R) /\ Len(Append(s, x)) = Len(s) + 1
           /\ ToSet(Append(s, x)) = ToSet(s) \cup {x}
           /\ (IsInjective(s) /\ x \notin ToSet(s)) => IsInjective(Append(s, x))
<1> DEFINE a == Append(s, x)
<1>1. /\ a \in Seq(R) /\ Len(a) = Len(s) + 1 /\ a[Len(s) + 1] = x
      /\ \A i \in 1..Len(s) : a[i] = s[i]
  BY AppendProperties
<1>2. DOMAIN s = 1..Len(s) /\ Len(s) \in Nat /\ DOMAIN a = 1..(Len(s) + 1)
  BY <1>1, LenProperties
<1> HIDE DEF a
<1>3. \A i \in 1..(Len(s) + 1) : i \in 1..Len(s) \/ i = Len(s) + 1
  BY <1>2
<1>4. ToSet(a) = ToSet(s) \cup {x}
  <2>1. ASSUME NEW y \in ToSet(a) PROVE y \in ToSet(s) \cup {x}
    BY <1>1, <1>2, <1>3 DEF ToSet
  <2>2. ASSUME NEW y \in ToSet(s) \cup {x} PROVE y \in ToSet(a)
    <3>1. Len(s) + 1 \in DOMAIN a /\ DOMAIN s \subseteq DOMAIN a
      BY <1>2
    <3>. QED  BY <1>1, <1>2, <3>1 DEF ToSet
  <2>. QED  BY <2>1, <2>2
<1>5. ASSUME IsInjective(s), x \notin ToSet(s)
      PROVE  IsInjective(a)
  <2> SUFFICES ASSUME NEW i \in 1..(Len(s) + 1), NEW j \in 1..(Len(s) + 1), a[i] = a[j]
               PROVE  i = j
    BY <1>2 DEF IsInjective
  <2>1. CASE i \in 1..Len(s) /\ j \in 1..Len(s)
    BY <1>1, <1>2, <1>5, <2>1 DEF IsInjective
  <2>2. \A k \in 1..Len(s) : a[k] # x
    BY <1>1, <1>2, <1>5 DEF ToSet
  <2>. QED  BY <1>1, <1>3, <2>1, <2>2
<1>. QED  BY <1>1, <1>4, <1>5 DEF a

\* One page, and none.
LEMMA ShortQueues ==
    /\ ToSet(<<>>) = {}
    /\ \A R : <<>> \in Seq(R)
    /\ \A p : <<p>> # <<>> /\ Head(<<p>>) = p /\ ToSet(<<p>>) = {p}
    /\ \A R : \A p \in R : <<p>> \in Seq(R)
<1>1. ToSet(<<>>) = {} /\ \A R : <<>> \in Seq(R)
  BY EmptySeq DEF ToSet
<1>2. ASSUME NEW p PROVE <<p>> # <<>> /\ Head(<<p>>) = p /\ ToSet(<<p>>) = {p}
  <2>1. Len(<<p>>) = 1 /\ <<p>>[1] = p /\ DOMAIN <<p>> = {1}
    OBVIOUS
  <2>. QED  BY <2>1 DEF ToSet
<1>. QED  BY <1>1, <1>2

\* page_ids_ as the constructor makes it.
LEMMA PageIdsOfFile ==
    ASSUME NEW n \in 0..MaxPages
    PROVE  /\ PageIdsOnOpen(n) \in Seq(PageId)
           /\ ToSet(PageIdsOnOpen(n)) = 0..n - 1
           /\ IsInjective(PageIdsOnOpen(n))
<1>1. n \in Nat /\ \A i \in 1..n : i - 1 \in PageId
  BY Constants DEF PageId
<1>2. PageIdsOnOpen(n) \in Seq(PageId)
  BY <1>1, IsASeq DEF PageIdsOnOpen
<1>3. ToSet(PageIdsOnOpen(n)) = 0..n - 1
  <2>1. \A k \in 0..n - 1 : k + 1 \in 1..n /\ (k + 1) - 1 = k
    BY <1>1
  <2>. QED  BY <1>1, <2>1 DEF PageIdsOnOpen, ToSet
<1>4. IsInjective(PageIdsOnOpen(n))
  BY <1>1 DEF PageIdsOnOpen, IsInjective
<1>. QED  BY <1>2, <1>3, <1>4
-----------------------------------------------------------------------------
\* The parts of a page and of its records.
LEMMA PageParts ==
    ASSUME NEW page \in Page
    PROVE  /\ page.formatted \in BOOLEAN /\ page.slots \in Seq(Slot)
           /\ DOMAIN page.slots = 1..Len(page.slots) /\ Len(page.slots) \in Nat
           /\ \A s \in 1..Len(page.slots) : /\ page.slots[s] \in Slot
                                            /\ page.slots[s].row \in Row
                                            /\ page.slots[s].deleted \in BOOLEAN
<1>1. page.formatted \in BOOLEAN /\ page.slots \in Seq(Slot)
  BY DEF Page
<1>2. DOMAIN page.slots = 1..Len(page.slots) /\ Len(page.slots) \in Nat
  BY <1>1, LenProperties
<1>3. \A s \in 1..Len(page.slots) : page.slots[s] \in Slot
  BY <1>1, ElementOfSeq
<1>4. \A x \in Slot : x.row \in Row /\ x.deleted \in BOOLEAN
  BY DEF Slot
<1>. QED  BY <1>1, <1>2, <1>3, <1>4

\* The parts of a call record behind an EXCEPT.
LEMMA RecordParts ==
    ASSUME NEW page \in Page, NEW pid \in PageId
    PROVE  /\ Records(pid, page) \subseteq Rid
           /\ \A r \in Records(pid, page) : r.page_id = pid /\ r.slot_id \in 1..Len(page.slots)
           /\ \A s : Live(page, s) => /\ Record(pid, page, s) \in Records(pid, page)
                                      /\ s \in 1..Len(page.slots)
<1>1. \A s \in 1..Len(page.slots) :
         /\ Record(pid, page, s) \in Rid
         /\ Record(pid, page, s).page_id = pid /\ Record(pid, page, s).slot_id = s
  BY PageParts DEF Record, Rid
<1>. QED  BY <1>1, PageParts DEF Records, Live

\* A page with other slots.
LEMMA PageExcept ==
    ASSUME NEW page \in Page, NEW y
    PROVE  [page EXCEPT !.slots = y] = [formatted |-> page.formatted, slots |-> y]
<1>1. PICK f \in BOOLEAN, z \in Seq(Slot) : page = [formatted |-> f, slots |-> z]
  BY DEF Page
<1>. QED  BY <1>1

\* Pages without records.
LEMMA EmptyPages ==
    /\ Zeroed \in Page /\ InitHeapPage \in Page
    /\ Zeroed.slots = <<>> /\ InitHeapPage.slots = <<>> /\ Len(<<>>) = 0
    /\ InitHeapPage.formatted = TRUE
    /\ \A p : Records(p, Zeroed) = {} /\ Records(p, InitHeapPage) = {}
<1>1. <<>> \in Seq(Slot) /\ Len(<<>>) = 0 /\ DOMAIN <<>> = {}
  BY EmptySeq
<1>. QED  BY <1>1 DEF Zeroed, InitHeapPage, Page, Records

\* The page earlier transactions left.
LEMMA OldPage ==
    ASSUME NEW n \in 0..RowsOnOpen
    PROVE  /\ FirstPage(n) \in Page /\ PageOK(FirstPage(n))
           /\ \A r \in Records(0, FirstPage(n)) : r.row = NoTxn /\ r.page_id = 0
<1>0. n \in Nat /\ n <= SlotsPerPage
  BY Constants
<1> DEFINE sl == [s \in 1..n |-> [row |-> NoTxn, deleted |-> FALSE]]
<1>1. sl \in Seq(Slot) /\ Len(sl) = n /\ \A s \in 1..n : sl[s].row = NoTxn
  <2>1. \A s \in 1..n : [row |-> NoTxn, deleted |-> FALSE] \in Slot
    BY DEF Slot, Row
  <2>2. sl \in [1..n -> Slot]
    BY <2>1
  <2>3. DOMAIN sl = 1..n /\ \A s \in 1..n : sl[s].row = NoTxn
    OBVIOUS
  <2> HIDE DEF sl
  <2>4. sl \in Seq(Slot)
    BY <1>0, <2>2, SeqDef
  <2>5. DOMAIN sl = 1..Len(sl) /\ Len(sl) \in Nat
    BY <2>4, LenProperties
  <2>6. Len(sl) = n
    BY <1>0, <2>3, <2>5
  <2>. QED  BY <2>3, <2>4, <2>6
<1>2. FirstPage(n).slots = sl /\ FirstPage(n).formatted = TRUE
  BY DEF FirstPage
<1> HIDE DEF sl
<1>3. FirstPage(n) = [formatted |-> TRUE, slots |-> sl]
  BY DEF FirstPage, sl
<1>4. FirstPage(n) \in Page
  BY <1>1, <1>3 DEF Page
<1>5. DOMAIN sl = 1..n
  BY <1>1, LenProperties
<1>. QED  BY <1>0, <1>1, <1>2, <1>4, <1>5 DEF PageOK, Records, Record

\* Page::InsertRecord adds one record, in a new slot at the end.
LEMMA InsertedRecord ==
    ASSUME NEW page \in Page, NEW pid \in PageId, NEW row \in Row
    PROVE  LET new == InsertRecord(page, row)
               r   == Record(pid, new, Len(new.slots))
           IN  /\ new \in Page /\ new.formatted = page.formatted
               /\ Len(new.slots) = Len(page.slots) + 1
               /\ Records(pid, new) = Records(pid, page) \cup {r}
               /\ r \in Rid /\ r.page_id = pid /\ r.slot_id = Len(page.slots) + 1 /\ r.row = row
<1> DEFINE x   == [row |-> row, deleted |-> FALSE]
           new == InsertRecord(page, row)
           n   == Len(page.slots)
<1>1. page.slots \in Seq(Slot) /\ n \in Nat /\ DOMAIN page.slots = 1..n
  BY PageParts
<1>2. x \in Slot /\ x.row = row /\ x.deleted = FALSE
  BY DEF Slot
<1>3a. new = [formatted |-> page.formatted, slots |-> Append(page.slots, x)]
  BY PageExcept DEF InsertRecord
<1> HIDE DEF x, new
<1>3. new.slots = Append(page.slots, x) /\ new.formatted = page.formatted
  BY <1>3a
<1>4. /\ new.slots \in Seq(Slot) /\ Len(new.slots) = n + 1 /\ new.slots[n + 1] = x
      /\ \A i \in 1..n : new.slots[i] = page.slots[i]
  BY <1>1, <1>2, <1>3, AppendProperties
<1>5. new \in Page
  BY <1>3, <1>3a, <1>4, PageParts DEF Page
<1>6. DOMAIN new.slots = 1..(n + 1)
  BY <1>4, <1>5, PageParts
<1> HIDE DEF n
<1>7. Record(pid, new, n + 1) = [page_id |-> pid, slot_id |-> n + 1, row |-> row]
  BY <1>2, <1>4 DEF Record
<1>8. \A i \in 1..n : /\ Live(new, i) <=> Live(page, i)
                      /\ Record(pid, new, i) = Record(pid, page, i)
  BY <1>1, <1>4, <1>6 DEF Live, Record
<1>9. Live(new, n + 1)
  BY <1>1, <1>2, <1>4, <1>6 DEF Live
<1>10. Records(pid, new) = Records(pid, page) \cup {Record(pid, new, n + 1)}
  <2>1. \A i \in DOMAIN new.slots : i \in 1..n \/ i = n + 1
    BY <1>1, <1>6
  <2>2. 1..n \subseteq DOMAIN new.slots /\ n + 1 \in DOMAIN new.slots
    BY <1>1, <1>6
  <2>3. ASSUME NEW r \in Records(pid, new)
        PROVE  r \in Records(pid, page) \cup {Record(pid, new, n + 1)}
    <3>1. PICK i \in DOMAIN new.slots : Live(new, i) /\ r = Record(pid, new, i)
      BY DEF Records
    <3>. QED  BY <1>1, <1>8, <2>1, <3>1 DEF Records
  <2>4. ASSUME NEW r \in Records(pid, page) PROVE r \in Records(pid, new)
    BY <1>1, <1>8, <2>2 DEF Records
  <2>5. Record(pid, new, n + 1) \in Records(pid, new)
    BY <1>9, <2>2 DEF Records
  <2>. QED  BY <2>3, <2>4, <2>5
<1>11. Record(pid, new, n + 1) \in Rid
  BY <1>1, <1>7 DEF Rid
<1>12. LET r == Record(pid, new, Len(new.slots))
       IN  /\ new \in Page /\ new.formatted = page.formatted
           /\ Len(new.slots) = n + 1
           /\ Records(pid, new) = Records(pid, page) \cup {r}
           /\ r \in Rid /\ r.page_id = pid /\ r.slot_id = n + 1 /\ r.row = row
  BY <1>3, <1>4, <1>5, <1>7, <1>10, <1>11
<1>. QED  BY <1>12 DEF new, n

\* Page::DeleteRecord takes one record away.
LEMMA DeletedRecord ==
    ASSUME NEW page \in Page, NEW pid \in PageId, NEW s, Live(page, s)
    PROVE  LET new == DeleteRecord(page, s)
               r   == Record(pid, page, s)
           IN  /\ new \in Page /\ new.formatted = page.formatted
               /\ Len(new.slots) = Len(page.slots)
               /\ Records(pid, new) = Records(pid, page) \ {r}
               /\ r \in Rid /\ r.page_id = pid /\ r.slot_id \in 1..Len(page.slots)
               /\ r \in Records(pid, page)
<1> DEFINE new == DeleteRecord(page, s)
           n   == Len(page.slots)
           x   == [page.slots[s] EXCEPT !.deleted = TRUE]
<1>1. /\ page.slots \in Seq(Slot) /\ n \in Nat /\ DOMAIN page.slots = 1..n
      /\ s \in 1..n /\ page.slots[s] \in Slot
  BY PageParts DEF Live
<1>2. x \in Slot /\ x.row = page.slots[s].row /\ x.deleted = TRUE
  BY <1>1 DEF Slot
<1>3. new = [formatted |-> page.formatted, slots |-> [page.slots EXCEPT ![s] = x]]
  BY PageExcept DEF DeleteRecord
<1> HIDE DEF x, new
<1>4. new.slots = [page.slots EXCEPT ![s] = x] /\ new.formatted = page.formatted
  BY <1>3
<1>5. /\ new.slots \in Seq(Slot) /\ Len(new.slots) = n /\ new.slots[s] = x
      /\ \A i \in 1..n : i # s => new.slots[i] = page.slots[i]
  BY <1>1, <1>2, <1>4, ExceptSeq
<1>6. new \in Page
  BY <1>3, <1>5, PageParts DEF Page
<1>7. DOMAIN new.slots = 1..n
  BY <1>5, <1>6, PageParts
<1> HIDE DEF n
<1>8. \A i \in 1..n : /\ Live(new, i) <=> (Live(page, i) /\ i # s)
                      /\ Record(pid, new, i) = Record(pid, page, i)
                      /\ Record(pid, page, i).slot_id = i
  BY <1>1, <1>2, <1>5, <1>7 DEF Live, Record
<1>9. Records(pid, new) = Records(pid, page) \ {Record(pid, page, s)}
  BY <1>1, <1>7, <1>8 DEF Records
<1>10. /\ Record(pid, page, s) \in Rid /\ Record(pid, page, s).page_id = pid
       /\ Record(pid, page, s).slot_id \in 1..n /\ Record(pid, page, s) \in Records(pid, page)
  BY <1>1, RecordParts DEF n
<1>. QED  BY <1>4, <1>5, <1>6, <1>9, <1>10 DEF new, n
-----------------------------------------------------------------------------
\* The two instances of LockManager are one.
LEMMA SameLocks ==
    /\ LM!Next <=> LP!Next
    /\ LM!Init <=> LP!Init
    /\ LM!TypeOK <=> LP!TypeOK
  BY DEF LM!Next, LP!Next, LM!Init, LP!Init, LM!TypeOK, LP!TypeOK, LM!AcquireLock, LP!AcquireLock,
     LM!Recheck, LP!Recheck, LM!SpuriousWakeup, LP!SpuriousWakeup, LM!ReleaseAll, LP!ReleaseAll,
     LM!Quiescent, LP!Quiescent, LM!LoopBody, LP!LoopBody, LM!GrantHeld, LP!GrantHeld,
     LM!Grant, LP!Grant, LM!Wait, LP!Wait, LM!Die, LP!Die, LM!Blocked, LP!Blocked,
     LM!Return, LP!Return, LM!Granted, LP!Granted, LM!Without, LP!Without,
     LM!AlreadyHolds, LP!AlreadyHolds, LM!ConflictsWithOthers, LP!ConflictsWithOthers,
     LM!MayWait, LP!MayWait, LM!OtherHolders, LP!OtherHolders, LM!Holders, LP!Holders,
     LM!HasAnyLock, LP!HasAnyLock, LM!NotifyAll, LP!NotifyAll, LM!Absent, LP!Absent,
     LM!NoRequest, LP!NoRequest, LM!Request, LP!Request, LM!LockEntry, LP!LockEntry,
     LM!LockMode, LP!LockMode, LM!Status, LP!Status, LM!kShared, LP!kShared,
     LM!kExclusive, LP!kExclusive, LM!lmvars, LP!lmvars

\* The values of the lock table.
LEMMA LocksTyped ==
    ASSUME LP!IInv
    PROVE  /\ LM!TypeOK
           /\ locks \in [PageId -> LM!LockEntry] /\ held_by_txn \in [Txn -> SUBSET PageId]
           /\ status \in [Txn -> {"running", "asleep", "awake", "dying", "done"}]
           /\ DOMAIN request = Txn
           /\ \A t \in Txn : status[t] \in {"asleep", "awake"} =>
                 request[t].page \in PageId /\ request[t].mode \in LM!LockMode
<1>1. LM!TypeOK
  BY SameLocks DEF LP!IInv
<1>. QED  BY <1>1 DEF LM!TypeOK, LM!Status, LM!Request

\* Who holds a page exclusively holds it alone, and who holds it at all keeps
\* others from holding it exclusively.
LEMMA Exclusion ==
    ASSUME LP!IInv, NEW t \in Txn, NEW p \in PageId
    PROVE  /\ locks[p].exclusive_holder = t => p \in held_by_txn[t]
           /\ \A u \in Txn : (p \in held_by_txn[u] /\ locks[p].exclusive_holder = t) => u = t
           /\ LM!AlreadyHolds(locks[p], t, LM!kShared) => p \in held_by_txn[t]
           /\ LM!AlreadyHolds(locks[p], t, LM!kExclusive) => locks[p].exclusive_holder = t
<1>1. /\ locks[p].exclusive_holder # NoTxn => locks[p].shared_holders = {}
      /\ \A u \in Txn : p \in held_by_txn[u] <=> u \in LP!Holders(locks[p])
  BY DEF LP!IInv, LP!MutualExclusion, LP!TablesAgree
<1>2. t # NoTxn
  BY Constants
<1>. QED  BY <1>1, <1>2 DEF LP!Holders, LM!AlreadyHolds, LM!kShared, LM!kExclusive

\* One pass through the loop of AcquireLock, as the heap file sees it.
LEMMA PassThroughLoop ==
    ASSUME LP!IInv, NEW t \in Txn, NEW p \in PageId, NEW m \in LM!LockMode,
           status[t] # "done", LM!LoopBody(t, p, m)
    PROVE  /\ \A u \in Txn \ {t} : /\ status'[u] = status[u] /\ request'[u] = request[u]
                                   /\ held_by_txn'[u] = held_by_txn[u]
           /\ status'[t] \in {"running", "asleep", "dying"}
           /\ status'[t] = "asleep" => request'[t].page = p
           /\ held_by_txn[t] \subseteq held_by_txn'[t]
           /\ held_by_txn'[t] \subseteq held_by_txn[t] \cup {p}
           /\ (\A u \in Txn \ {t} : p \notin held_by_txn[u]) => status'[t] = "running"
<1>1. /\ status \in [Txn -> {"running", "asleep", "awake", "dying", "done"}] /\ DOMAIN request = Txn
      /\ held_by_txn \in [Txn -> SUBSET PageId] /\ locks[p] \in LM!LockEntry
  BY LocksTyped
<1>2. CASE LM!GrantHeld(t, p, m)
  BY <1>1, <1>2 DEF LM!GrantHeld, LM!Return
<1>3. CASE LM!Grant(t, p, m)
  BY <1>1, <1>3 DEF LM!Grant, LM!Return
<1>4. ASSUME LM!Blocked(t, p, m) PROVE \E u \in Txn \ {t} : p \in held_by_txn[u]
  <2>1. \A u \in Txn : p \in held_by_txn[u] <=> u \in LP!Holders(locks[p])
    BY DEF LP!IInv, LP!TablesAgree
  <2>2. \E u \in Txn \ {t} : u \in LP!Holders(locks[p])
    BY <1>1, <1>4, Constants
       DEF LM!Blocked, LM!ConflictsWithOthers, LP!Holders, LM!LockEntry
  <2>. QED  BY <2>1, <2>2
<1>5. CASE LM!Wait(t, p, m)
  <2>1. \E u \in Txn \ {t} : p \in held_by_txn[u]
    BY <1>4, <1>5 DEF LM!Wait
  <2>. QED  BY <1>1, <1>5, <2>1 DEF LM!Wait, LM!Blocked
<1>6. CASE LM!Die(t, p, m)
  <2>1. \E u \in Txn \ {t} : p \in held_by_txn[u]
    BY <1>4, <1>6 DEF LM!Die
  <2>. QED  BY <1>1, <1>6, <2>1 DEF LM!Die, LM!Blocked
<1>. QED  BY <1>2, <1>3, <1>5, <1>6 DEF LM!LoopBody

\* The end of a transaction, as the heap file sees it.
LEMMA Releasing ==
    ASSUME LP!IInv, NEW t \in Txn, LM!ReleaseAll(t)
    PROVE  /\ status'[t] = "done" /\ held_by_txn'[t] = {} /\ request' = request
           /\ \A u \in Txn \ {t} :
                 /\ held_by_txn'[u] = held_by_txn[u]
                 /\ \/ status'[u] = status[u]
                    \/ status[u] = "asleep" /\ status'[u] = "awake"
<1>1. /\ status \in [Txn -> {"running", "asleep", "awake", "dying", "done"}]
      /\ held_by_txn \in [Txn -> SUBSET PageId]
  BY LocksTyped
<1>2. CASE LM!HasAnyLock(t)
  BY <1>1, <1>2 DEF LM!ReleaseAll, LM!NotifyAll
<1>3. CASE ~LM!HasAnyLock(t)
  BY <1>1, <1>3 DEF LM!ReleaseAll, LM!HasAnyLock
<1>. QED  BY <1>2, <1>3

\* A lock step of t: the page is the one t's call is at.
LEMMA LockStep ==
    ASSUME Typed, LP!IInv, ControlInv, NEW t \in Txn, LockPage(t) \/ RecheckLock(t)
    PROVE  /\ op[t].todo # <<>> /\ Here(t) \in PageId /\ op[t].name # "none"
           /\ status[t] \in {"running", "awake"}
           /\ \E m \in LM!LockMode : LM!LoopBody(t, Here(t), m)
           /\ UNCHANGED <<filevars, op, ops, crashes, histvars>>
<1>1. op[t] \in CallType /\ CallOK(t)
  BY DEF Typed, ControlInv
<1>2. op[t].todo \in Seq(PageId) /\ op[t].mode \in LM!LockMode
  BY <1>1 DEF CallType
<1>3. CASE LockPage(t)
  <2>1. op[t].todo # <<>> /\ status[t] = "running" /\ LM!LoopBody(t, Here(t), op[t].mode)
        /\ UNCHANGED <<filevars, op, ops, crashes, histvars>>
    BY <1>3 DEF LockPage, LM!AcquireLock, Here
  <2>. QED  BY <1>1, <1>2, <2>1, ElementsOf DEF Here, CallOK
<1>4. CASE RecheckLock(t)
  <2>1. status[t] = "awake" /\ LM!LoopBody(t, request[t].page, request[t].mode)
        /\ UNCHANGED <<filevars, op, ops, crashes, histvars>>
    BY <1>4 DEF RecheckLock, LM!Recheck
  <2>2. request[t].page = Here(t) /\ op[t].todo # <<>> /\ request[t].mode \in LM!LockMode
    BY <1>1, <2>1, LocksTyped DEF CallOK
  <2>. QED  BY <1>1, <1>2, <2>1, <2>2, ElementsOf DEF Here, CallOK
<1>. QED  BY <1>3, <1>4
-----------------------------------------------------------------------------
(***************************************************************************)
(* The steps of a transaction by what they do to the state.                *)
(***************************************************************************)
\* A function is entered and page_ids_ read.
EnterShape(t, c) ==
    /\ c \in CallType /\ c.name \in {"insert", "get", "delete", "scan", "find"}
    /\ c.name \in {"insert", "delete"} => c.mode = LM!kExclusive
    /\ c.name = "insert" => c.arg = t /\ next_page_id + Cardinality(Inserting) < MaxPages
    /\ c.name = "scan" => c.todo = page_ids
    /\ c.from = table /\ ToSet(c.todo) \subseteq ToSet(page_ids)
    /\ status[t] = "running" /\ op[t].name = "none"
    /\ op' = [op EXCEPT ![t] = c] /\ ops' = [ops EXCEPT ![t] = @ + 1]
    /\ UNCHANGED <<lmvars, filevars, crashes, histvars>>

\* The call of t goes on to c, having read the records S under a lock.
ReadShape(t, c, S) ==
    /\ c \in CallType /\ S \in SUBSET Rid /\ status[t] = "running"
    /\ op[t].name \notin {"none", "insert_new"}
    /\ \/ c = NoCall
       \/ /\ c.name = op[t].name /\ c.mode = op[t].mode /\ c.arg = op[t].arg
          /\ c.from = op[t].from /\ ToSet(c.todo) \subseteq ToSet(op[t].todo)
    /\ c.name = "scan" =>
          /\ Here(t) \in held_by_txn[t]
          /\ c.got = op[t].got \cup Records(Here(t), pages[Here(t)])
          /\ ToSet(op[t].todo) \subseteq {Here(t)} \cup ToSet(c.todo)
    /\ \A r \in S : r.page_id \in held_by_txn[t] /\ r \in Records(r.page_id, pages[r.page_id])
    /\ op' = [op EXCEPT ![t] = c] /\ seen' = [seen EXCEPT ![t] = @ \cup S]
    /\ UNCHANGED <<lmvars, filevars, ops, crashes, table, inserted, deleted>>

\* t replaces page p by new, which adds the records I and removes D, and
\* returns.
WriteShape(t, p, new, I, D) ==
    /\ p \in PageId /\ new \in Page /\ PageOK(new) /\ I \in SUBSET Rid /\ D \in SUBSET Rid
    /\ status[t] = "running" /\ locks[p].exclusive_holder = t
    /\ Len(pages[p].slots) <= Len(new.slots)
    /\ Records(p, new) = (Records(p, pages[p]) \cup I) \ D
    /\ \A r \in I : r.page_id = p /\ r.row = t /\ r.slot_id > Len(pages[p].slots)
    /\ \A r \in D : r.page_id = p /\ r.slot_id <= Len(new.slots)
    /\ \/ op[t].name \in {"insert", "delete"} /\ p \in ToSet(page_ids) /\ page_ids' = page_ids
       \/ op[t].name = "insert_new" /\ p = Here(t) /\ page_ids' = Append(page_ids, p)
    /\ pages' = [pages EXCEPT ![p] = new] /\ dirtied' = [dirtied EXCEPT ![t] = @ \cup {p}]
    /\ inserted' = [inserted EXCEPT ![t] = @ \cup I]
    /\ deleted' = [deleted EXCEPT ![t] = @ \cup D]
    /\ op' = [op EXCEPT ![t] = NoCall]
    /\ UNCHANGED <<lmvars, next_page_id, disk, ops, crashes, table, seen>>

\* The empty call.
LEMMA NoCallParts ==
    /\ NoCall \in CallType /\ NoCall.name = "none" /\ NoCall.todo = <<>> /\ NoCall.from = {}
    /\ ToSet(NoCall.todo) = {}
<1>1. NoCall.name = "none" /\ NoCall.todo = <<>> /\ NoCall.from = {}
  BY DEF NoCall
<1>2. NoCall \in CallType
  BY ShortQueues DEF NoCall, CallType, CallName, LM!LockMode, LM!kShared, LM!kExclusive
<1>. QED  BY <1>1, <1>2, ShortQueues

\* The parts of a call.
LEMMA CallParts ==
    ASSUME Typed, NEW t \in Txn
    PROVE  /\ op[t] \in CallType /\ op[t].name \in CallName /\ op[t].mode \in LM!LockMode
           /\ op[t].todo \in Seq(PageId) /\ op[t].arg \in Nat \cup {NoTxn}
           /\ op[t].got \in SUBSET Rid /\ op[t].from \in SUBSET Rid
           /\ op[t].todo # <<>> => Here(t) \in PageId /\ Here(t) \in ToSet(op[t].todo)
<1>1. op[t] \in CallType
  BY DEF Typed
<1>2. /\ op[t].name \in CallName /\ op[t].mode \in LM!LockMode
      /\ op[t].todo \in Seq(PageId) /\ op[t].arg \in Nat \cup {NoTxn}
      /\ op[t].got \in SUBSET Rid /\ op[t].from \in SUBSET Rid
  BY <1>1 DEF CallType
<1>. QED  BY <1>1, <1>2, ElementsOf DEF Here

\* The functions up to the release of page_ids_mutex_.
LEMMA EnterSteps ==
    ASSUME Typed, NEW t \in Txn,
           \/ Insert(t) \/ Scan(t) \/ \E u \in Txn \cup {NoTxn} : Find(t, u)
           \/ \E pid \in PageId, s \in 1..SlotsPerPage : GetRow(t, pid, s) \/ Delete(t, pid, s)
    PROVE  \E c : EnterShape(t, c)
<1>0. page_ids \in Seq(PageId) /\ table \in SUBSET Rid /\ t \in Nat
  BY Constants DEF Typed
<1>1. ASSUME NEW name \in {"insert", "get", "delete", "scan", "find"}, NEW m \in LM!LockMode,
             NEW todo \in Seq(PageId), NEW arg \in Nat \cup {NoTxn},
             Enter(t, Call(name, m, todo, arg)),
             name \in {"insert", "delete"} => m = LM!kExclusive,
             name = "insert" => arg = t /\ next_page_id + Cardinality(Inserting) < MaxPages,
             name = "scan" => todo = page_ids,
             ToSet(todo) \subseteq ToSet(page_ids)
      PROVE  \E c : EnterShape(t, c)
  <2> DEFINE c == Call(name, m, todo, arg)
  <2>1. /\ c.name = name /\ c.mode = m /\ c.todo = todo /\ c.arg = arg /\ c.from = table
    BY DEF Call
  <2>2. c \in CallType
    BY <1>0, <1>1 DEF Call, CallType, CallName
  <2> HIDE DEF c
  <2>3. /\ status[t] = "running" /\ op[t].name = "none"
        /\ op' = [op EXCEPT ![t] = c] /\ ops' = [ops EXCEPT ![t] = @ + 1]
        /\ UNCHANGED <<lmvars, filevars, crashes, histvars>>
    BY <1>1 DEF Enter, c
  <2>4. EnterShape(t, c)
    BY <1>1, <2>1, <2>2, <2>3 DEF EnterShape
  <2>. QED  BY <2>4
<1>2. {LM!kShared, LM!kExclusive} \subseteq LM!LockMode
  BY DEF LM!LockMode
<1>3. CASE Insert(t)
  <2> DEFINE todo == IF page_ids = <<>> THEN <<>> ELSE <<Last(page_ids)>>
  <2>1. todo \in Seq(PageId) /\ ToSet(todo) \subseteq ToSet(page_ids)
    <3>1. CASE page_ids = <<>>
      BY <3>1, ShortQueues
    <3>2. CASE page_ids # <<>>
      <4>1. Last(page_ids) \in ToSet(page_ids) /\ Last(page_ids) \in PageId
        BY <1>0, <3>2, ElementsOf DEF Last
      <4>. QED  BY <3>2, <4>1, ShortQueues
    <3>. QED  BY <3>1, <3>2
  <2>2. /\ next_page_id + Cardinality(Inserting) < MaxPages
        /\ Enter(t, Call("insert", LM!kExclusive, todo, t))
    BY <1>3 DEF Insert, Inserting
  <2> HIDE DEF todo
  <2>. QED  BY <1>0, <1>1, <1>2, <2>1, <2>2
<1>4. CASE Scan(t)
  BY <1>0, <1>1, <1>2, <1>4 DEF Scan
<1>5. ASSUME NEW u \in Txn \cup {NoTxn}, Find(t, u) PROVE \E c : EnterShape(t, c)
  <2>1. u \in Nat \cup {NoTxn}
    BY Constants
  <2>. QED  BY <1>0, <1>1, <1>2, <1>5, <2>1 DEF Find
<1>6. ASSUME NEW pid \in PageId, NEW s \in 1..SlotsPerPage, GetRow(t, pid, s) \/ Delete(t, pid, s)
      PROVE  \E c : EnterShape(t, c)
  <2>1. <<pid>> \in Seq(PageId) /\ ToSet(<<pid>>) \subseteq ToSet(page_ids) /\ s \in Nat \cup {NoTxn}
    BY <1>6, ShortQueues DEF GetRow, Delete
  <2>2. CASE GetRow(t, pid, s)
    BY <1>1, <1>2, <2>1, <2>2 DEF GetRow
  <2>3. CASE Delete(t, pid, s)
    BY <1>1, <1>2, <2>1, <2>3 DEF Delete
  <2>. QED  BY <1>6, <2>2, <2>3
<1>. QED  BY <1>3, <1>4, <1>5, <1>6

\* What holds when a call is at a page.
LEMMA AtPage ==
    ASSUME Typed, LP!IInv, NEW t \in Txn, NEW name, At(t, name)
    PROVE  /\ op[t].name = name /\ op[t].todo # <<>> /\ status[t] = "running"
           /\ Here(t) \in PageId /\ pages[Here(t)] \in Page
           /\ Here(t) \in held_by_txn[t]
           /\ op[t].mode = LM!kExclusive => locks[Here(t)].exclusive_holder = t
<1>1. /\ op[t].name = name /\ op[t].todo # <<>> /\ status[t] = "running"
      /\ LM!AlreadyHolds(locks[Here(t)], t, op[t].mode)
  BY DEF At, Here
<1>2. Here(t) \in PageId /\ op[t].mode \in {LM!kShared, LM!kExclusive}
  BY <1>1, CallParts DEF LM!LockMode
<1>3. Here(t) \in held_by_txn[t] /\ (op[t].mode = LM!kExclusive => locks[Here(t)].exclusive_holder = t)
  BY <1>1, <1>2, Exclusion
<1>. QED  BY <1>1, <1>2, <1>3 DEF Typed

\* The steps that read, or find that there is nothing to do.
LEMMA ReadSteps ==
    ASSUME Typed, LP!IInv, ControlInv, NEW t \in Txn,
           \/ LastIsFull(t) \/ GetRowAt(t) \/ ScanPage(t) \/ ScanReturns(t) \/ FindPage(t)
           \/ FindNothing(t) \/ (DeleteAt(t) /\ ~Live(pages[Here(t)], op[t].arg))
    PROVE  \E c, S : ReadShape(t, c, S)
<1> DEFINE p == Here(t)
           Same == UNCHANGED <<lmvars, filevars, ops, crashes, table, inserted, deleted>>
<1>1. /\ op[t] \in CallType /\ op[t].todo \in Seq(PageId) /\ op[t].got \in SUBSET Rid
      /\ CallOK(t) /\ op \in [Txn -> CallType] /\ seen \in [Txn -> SUBSET Rid]
  BY CallParts DEF Typed, ControlInv
<1>2. status \in [Txn -> {"running", "asleep", "awake", "dying", "done"}]
  BY LocksTyped
<1>3. seen = [seen EXCEPT ![t] = @ \cup {}]
  BY <1>1
<1>4. ASSUME op[t].name \notin {"none", "insert_new"}, status[t] = "running",
             op' = [op EXCEPT ![t] = NoCall],
             NEW S \in SUBSET Rid, seen' = [seen EXCEPT ![t] = @ \cup S],
             \A r \in S : r.page_id \in held_by_txn[t] /\ r \in Records(r.page_id, pages[r.page_id]),
             Same
      PROVE  \E c, X : ReadShape(t, c, X)
  <2>1. ReadShape(t, NoCall, S)
    BY <1>4, NoCallParts DEF ReadShape
  <2>. QED  BY <2>1
<1>5. {} \in SUBSET Rid
  OBVIOUS
<1>6. CASE LastIsFull(t)
  <2>1. /\ op[t].name = "insert" /\ status[t] = "running"
        /\ op' = [op EXCEPT ![t].todo = <<>>] /\ Same /\ seen' = seen
    BY <1>6 DEF LastIsFull, At, histvars
  <2> DEFINE c == [op[t] EXCEPT !.todo = <<>>]
  <2>2. /\ c \in CallType /\ c.name = "insert" /\ c.mode = op[t].mode /\ c.arg = op[t].arg
        /\ c.from = op[t].from /\ c.todo = <<>>
    BY <1>1, <2>1, ShortQueues DEF CallType
  <2>3. op' = [op EXCEPT ![t] = c]
    BY <2>1
  <2>4. ToSet(c.todo) = {}
    BY <2>2, ShortQueues
  <2> HIDE DEF c
  <2>5. ReadShape(t, c, {})
    BY <1>3, <2>1, <2>2, <2>3, <2>4 DEF ReadShape
  <2>. QED  BY <2>5
<1>7. CASE GetRowAt(t)
  <2>1. At(t, "get") /\ Same /\ op' = [op EXCEPT ![t] = NoCall]
    BY <1>7 DEF GetRowAt, Return
  <2>2. p \in PageId /\ pages[p] \in Page /\ p \in held_by_txn[t] /\ status[t] = "running"
        /\ op[t].name = "get"
    BY <2>1, AtPage
  <2> DEFINE S == IF Live(pages[p], op[t].arg) THEN {Record(p, pages[p], op[t].arg)} ELSE {}
  <2>3. seen' = [seen EXCEPT ![t] = @ \cup S]
    BY <1>7 DEF GetRowAt
  <2>4. S \subseteq Records(p, pages[p])
    BY <2>2, RecordParts
  <2> HIDE DEF S, p
  <2>5. S \in SUBSET Rid /\ \A r \in S : r.page_id = p
    BY <2>2, <2>4, RecordParts
  <2>. QED  BY <1>4, <2>1, <2>2, <2>3, <2>4, <2>5
<1>8. CASE ScanPage(t)
  <2> DEFINE S == Records(p, pages[p])
             q == Tail(op[t].todo)
             g == op[t].got \cup S
             c == [op[t] EXCEPT !.todo = q, !.got = g]
  <2>1. At(t, "scan") /\ Same
    BY <1>8 DEF ScanPage
  <2>2. p \in PageId /\ pages[p] \in Page /\ p \in held_by_txn[t] /\ status[t] = "running"
        /\ op[t].name = "scan" /\ op[t].todo # <<>>
    BY <2>1, AtPage
  <2>3. seen' = [seen EXCEPT ![t] = @ \cup S] /\ op' = [op EXCEPT ![t] = c]
    BY <1>8 DEF ScanPage
  <2>4. S \in SUBSET Rid /\ \A r \in S : r.page_id = p
    BY <2>2, RecordParts
  <2>5. q \in Seq(PageId) /\ ToSet(q) \subseteq ToSet(op[t].todo)
        /\ ToSet(op[t].todo) \subseteq {p} \cup ToSet(q)
    BY <1>1, <2>2, ElementsOf DEF Here
  <2>6. g \in SUBSET Rid
    BY <1>1, <2>4
  <2> HIDE DEF q, g
  <2>7. /\ c \in CallType /\ c.name = op[t].name /\ c.mode = op[t].mode /\ c.arg = op[t].arg
        /\ c.from = op[t].from /\ c.todo = q /\ c.got = g
    BY <1>1, <2>5, <2>6 DEF CallType
  <2> HIDE DEF c
  <2>8. ReadShape(t, c, S)
    BY <1>1, <2>1, <2>2, <2>3, <2>4, <2>5, <2>7 DEF ReadShape, g
  <2>. QED  BY <2>8
<1>9. CASE ScanReturns(t) \/ FindNothing(t)
  <2>1. /\ op[t].name \in {"scan", "find"} /\ op[t].todo = <<>>
        /\ op' = [op EXCEPT ![t] = NoCall] /\ Same /\ seen' = seen
    BY <1>9 DEF ScanReturns, FindNothing, Return, histvars
  <2>2. status[t] = "running"
    BY <1>1, <1>2, <2>1 DEF CallOK
  <2>. QED  BY <1>3, <1>4, <1>5, <2>1, <2>2
<1>10. CASE FindPage(t)
  <2> DEFINE hits == {s \in DOMAIN pages[p].slots :
                         Live(pages[p], s) /\ pages[p].slots[s].row = op[t].arg}
             s0   == CHOOSE s \in hits : \A i \in hits : s <= i
             q    == Tail(op[t].todo)
             c    == [op[t] EXCEPT !.todo = q]
  <2>1. At(t, "find") /\ Same
    BY <1>10 DEF FindPage
  <2>2. p \in PageId /\ pages[p] \in Page /\ p \in held_by_txn[t] /\ status[t] = "running"
        /\ op[t].name = "find" /\ op[t].todo # <<>>
    BY <2>1, AtPage
  <2>3. CASE hits = {}
    <3>1. op' = [op EXCEPT ![t] = c] /\ seen' = seen
      BY <1>10, <2>3 DEF FindPage
    <3>2. q \in Seq(PageId) /\ ToSet(q) \subseteq ToSet(op[t].todo)
      BY <1>1, <2>2, ElementsOf
    <3> HIDE DEF q
    <3>3. /\ c \in CallType /\ c.name = op[t].name /\ c.mode = op[t].mode /\ c.arg = op[t].arg
          /\ c.from = op[t].from /\ c.todo = q
      BY <1>1, <3>2 DEF CallType
    <3> HIDE DEF c
    <3>4. ReadShape(t, c, {})
      BY <1>3, <2>1, <2>2, <3>1, <3>2, <3>3 DEF ReadShape
    <3>. QED  BY <3>4
  <2>4. CASE hits # {}
    <3>1. hits \in SUBSET Nat
      BY <2>2, PageParts
    <3>2. s0 \in hits
      <4>1. \E n \in hits : \A m \in hits : n <= m
        <5> HIDE DEF hits
        <5>. QED  BY <2>4, <3>1, LeastNatural
      <4>. QED  BY <4>1
    <3>3. /\ op' = [op EXCEPT ![t] = NoCall]
          /\ seen' = [seen EXCEPT ![t] = @ \cup {Record(p, pages[p], s0)}]
      BY <1>10, <2>4 DEF FindPage, Return
    <3>4. Live(pages[p], s0)
      BY <3>2
    <3> HIDE DEF s0, p
    <3>5. Record(p, pages[p], s0) \in Records(p, pages[p])
      BY <2>2, <3>4, RecordParts
    <3>6. Record(p, pages[p], s0) \in Rid /\ Record(p, pages[p], s0).page_id = p
      BY <2>2, <3>5, RecordParts
    <3> DEFINE S == {Record(p, pages[p], s0)}
    <3>7. /\ S \in SUBSET Rid /\ seen' = [seen EXCEPT ![t] = @ \cup S]
          /\ \A r \in S : r.page_id = p /\ r \in Records(p, pages[p])
      BY <3>3, <3>5, <3>6
    <3> HIDE DEF S
    <3>. QED  BY <1>4, <2>1, <2>2, <3>3, <3>7
  <2>. QED  BY <2>3, <2>4
<1>11. CASE DeleteAt(t) /\ ~Live(pages[Here(t)], op[t].arg)
  <2>1. /\ op[t].name = "delete" /\ status[t] = "running"
        /\ op' = [op EXCEPT ![t] = NoCall] /\ Same /\ seen' = seen
    BY <1>11 DEF DeleteAt, At, Return, filevars
  <2>. QED  BY <1>3, <1>4, <1>5, <2>1
<1>. QED  BY <1>6, <1>7, <1>8, <1>9, <1>10, <1>11

\* The steps that change a page under its lock.
LEMMA WriteSteps ==
    ASSUME Typed, LP!IInv, ControlInv, PagesInv, NEW t \in Txn,
           \/ InsertIntoLast(t) \/ InsertIntoNew(t)
           \/ (DeleteAt(t) /\ Live(pages[Here(t)], op[t].arg))
    PROVE  \E p, new, I, D : WriteShape(t, p, new, I, D)
<1> DEFINE p    == Here(t)
           Same == UNCHANGED <<lmvars, next_page_id, disk, ops, crashes, table, seen>>
<1>1. CallOK(t) /\ FreshOK(t) /\ PagesInv
  BY DEF ControlInv
<1>2. /\ inserted \in [Txn -> SUBSET Rid] /\ deleted \in [Txn -> SUBSET Rid]
      /\ pages \in [PageId -> Page] /\ SlotsPerPage \in Nat /\ SlotsPerPage > 0
  BY Constants DEF Typed
<1>3. inserted = [inserted EXCEPT ![t] = @ \cup {}] /\ deleted = [deleted EXCEPT ![t] = @ \cup {}]
  BY <1>2
<1>4. ASSUME NEW name \in {"insert", "insert_new"}, At(t, name), HasRoom(pages[p]), PutRow(t, p), Same,
             deleted' = deleted,
             \/ name = "insert" /\ page_ids' = page_ids
             \/ name = "insert_new" /\ page_ids' = Append(page_ids, p)
      PROVE  \E q, new, I, D : WriteShape(t, q, new, I, D)
  <2>1. /\ op[t].name = name /\ op[t].todo # <<>> /\ status[t] = "running"
        /\ p \in PageId /\ pages[p] \in Page /\ p \in held_by_txn[t]
        /\ op[t].mode = LM!kExclusive => locks[p].exclusive_holder = t
    BY <1>4, AtPage
  <2>2. op[t].arg = t /\ locks[p].exclusive_holder = t /\ t \in Row
    BY <1>1, <2>1 DEF CallOK, Row
  <2> DEFINE new == InsertRecord(pages[p], t)
             r   == Record(p, new, Len(new.slots))
             I   == {r}
  <2>3. /\ pages' = [pages EXCEPT ![p] = new]
        /\ dirtied' = [dirtied EXCEPT ![t] = @ \cup {p}]
        /\ inserted' = [inserted EXCEPT ![t] = @ \cup I]
        /\ op' = [op EXCEPT ![t] = NoCall]
    BY <1>4, <2>2 DEF PutRow, Return
  <2>4. /\ new \in Page /\ new.formatted = pages[p].formatted
        /\ Len(new.slots) = Len(pages[p].slots) + 1
        /\ Records(p, new) = Records(p, pages[p]) \cup {r}
        /\ r \in Rid /\ r.page_id = p /\ r.slot_id = Len(pages[p].slots) + 1 /\ r.row = t
    BY <2>1, <2>2, InsertedRecord
  <2>5. Len(pages[p].slots) \in Nat
    BY <2>1, PageParts
  <2> HIDE DEF new, r, p
  <2>6. PageOK(new)
    BY <1>2, <1>4, <2>4, <2>5 DEF PageOK, HasRoom
  <2>7. /\ Records(p, new) = (Records(p, pages[p]) \cup I) \ {} /\ I \in SUBSET Rid
        /\ Len(pages[p].slots) <= Len(new.slots)
        /\ \A x \in I : x.page_id = p /\ x.row = t /\ x.slot_id > Len(pages[p].slots)
    BY <2>4, <2>5
  <2>8. name = "insert" => p \in ToSet(page_ids)
    <3>1. p \in ToSet(op[t].todo)
      BY <2>1, CallParts DEF p
    <3>. QED  BY <1>1, <2>1, <3>1 DEF CallOK
  <2> HIDE DEF I
  <2>9. WriteShape(t, p, new, I, {})
    BY <1>3, <1>4, <2>1, <2>2, <2>3, <2>4, <2>6, <2>7, <2>8 DEF WriteShape, p
  <2>. QED  BY <2>9
<1>5. CASE InsertIntoLast(t)
  <2>1. /\ At(t, "insert") /\ HasRoom(pages[p]) /\ PutRow(t, p) /\ Same
        /\ deleted' = deleted /\ page_ids' = page_ids
    BY <1>5 DEF InsertIntoLast
  <2>. QED  BY <1>4, <2>1
<1>6. CASE InsertIntoNew(t)
  <2>1. /\ At(t, "insert_new") /\ PutRow(t, p) /\ Same
        /\ deleted' = deleted /\ page_ids' = Append(page_ids, p)
    BY <1>6 DEF InsertIntoNew
  <2>2. pages[p] = InitHeapPage
    BY <1>1, <2>1 DEF FreshOK, At
  <2>3. HasRoom(pages[p])
    BY <1>2, <2>2, EmptyPages DEF HasRoom
  <2>. QED  BY <1>4, <2>1, <2>3
<1>7. CASE DeleteAt(t) /\ Live(pages[p], op[t].arg)
  <2> DEFINE s   == op[t].arg
             new == DeleteRecord(pages[p], s)
             r   == Record(p, pages[p], s)
             D   == {r}
  <2>1. At(t, "delete") /\ Same /\ op' = [op EXCEPT ![t] = NoCall]
        /\ page_ids' = page_ids /\ inserted' = inserted
    BY <1>7 DEF DeleteAt, Return
  <2>2. /\ pages' = [pages EXCEPT ![p] = new]
        /\ dirtied' = [dirtied EXCEPT ![t] = @ \cup {p}]
        /\ deleted' = [deleted EXCEPT ![t] = @ \cup D]
    BY <1>7 DEF DeleteAt
  <2>3. /\ op[t].name = "delete" /\ op[t].todo # <<>> /\ status[t] = "running"
        /\ p \in PageId /\ pages[p] \in Page /\ p \in held_by_txn[t]
        /\ op[t].mode = LM!kExclusive => locks[p].exclusive_holder = t
    BY <2>1, AtPage
  <2>4. locks[p].exclusive_holder = t
    BY <1>1, <2>3 DEF CallOK
  <2>5. /\ new \in Page /\ new.formatted = pages[p].formatted
        /\ Len(new.slots) = Len(pages[p].slots)
        /\ Records(p, new) = Records(p, pages[p]) \ {r}
        /\ r \in Rid /\ r.page_id = p /\ r.slot_id \in 1..Len(pages[p].slots)
    BY <1>7, <2>3, DeletedRecord
  <2>6. Len(pages[p].slots) \in Nat /\ PageOK(pages[p]) /\ Live(pages[p], s)
    BY <1>1, <1>7, <2>3, PageParts DEF PagesInv
  <2>7. Len(pages[p].slots) # 0
    BY <2>3, <2>6, PageParts DEF Live
  <2> HIDE DEF new, r, p
  <2>8. PageOK(new)
    BY <2>5, <2>6, <2>7, EmptyPages DEF PageOK
  <2>9. /\ Records(p, new) = (Records(p, pages[p]) \cup {}) \ D /\ D \in SUBSET Rid
        /\ Len(pages[p].slots) <= Len(new.slots)
        /\ \A x \in D : x.page_id = p /\ x.slot_id <= Len(new.slots)
    BY <2>5, <2>6
  <2>10. p \in ToSet(page_ids)
    <3>1. p \in ToSet(op[t].todo)
      BY <2>3, CallParts DEF p
    <3>. QED  BY <1>1, <2>3, <3>1 DEF CallOK
  <2> HIDE DEF D
  <2>11. WriteShape(t, p, new, {}, D)
    BY <1>3, <2>1, <2>2, <2>3, <2>4, <2>5, <2>8, <2>9, <2>10 DEF WriteShape, p
  <2>. QED  BY <2>11
<1>. QED  BY <1>5, <1>6, <1>7

\* An insertion that found no room has room in the file.
LEMMA RoomToGrow ==
    ASSUME Typed, ControlInv, NEW t \in Txn, op[t].name = "insert"
    PROVE  /\ next_page_id \in PageId /\ next_page_id \in Nat
           /\ IsFiniteSet(Inserting) /\ Cardinality(Inserting) \in Nat
           /\ Cardinality(Inserting \ {t}) = Cardinality(Inserting) - 1
<1>1. t \in Inserting /\ Inserting \subseteq Txn
  BY DEF Inserting
<1>2. IsFiniteSet(Inserting)
  BY <1>1, Constants, FS_Subset
<1>3. Cardinality(Inserting) \in Nat /\ Cardinality(Inserting \ {t}) \in Nat
  BY <1>2, FS_CardinalityType, FS_RemoveElement
<1>4. Cardinality(Inserting \ {t}) = Cardinality(Inserting) - 1
  BY <1>1, <1>2, FS_RemoveElement
<1>. QED  BY <1>2, <1>3, <1>4, Constants DEF ControlInv, Typed, PageId

\* The allocation of a page.
GrowShape(t) == NewHeapPage(t) /\ status[t] = "running"

\* Every step has one of these shapes.
LEMMA StepShapes ==
    ASSUME Typed, LP!IInv, ControlInv, PagesInv, [Next]_vars
    PROVE  \/ \E t \in Txn : \/ \E c : EnterShape(t, c)
                             \/ LockPage(t) \/ RecheckLock(t)
                             \/ \E c, S : ReadShape(t, c, S)
                             \/ \E p, new, I, D : WriteShape(t, p, new, I, D)
                             \/ GrowShape(t)
                             \/ Commit(t) \/ Abort(t)
           \/ Crash
           \/ UNCHANGED vars
<1> DEFINE Shaped(t) == \/ \E c : EnterShape(t, c)
                        \/ LockPage(t) \/ RecheckLock(t)
                        \/ \E c, S : ReadShape(t, c, S)
                        \/ \E p, new, I, D : WriteShape(t, p, new, I, D)
                        \/ GrowShape(t)
                        \/ Commit(t) \/ Abort(t)
<1>1. ASSUME NEW t \in Txn, Step(t) PROVE Shaped(t)
  <2>1. CASE \/ Insert(t) \/ Scan(t) \/ \E u \in Txn \cup {NoTxn} : Find(t, u)
             \/ \E pid \in PageId, s \in 1..SlotsPerPage : GetRow(t, pid, s) \/ Delete(t, pid, s)
    BY <2>1, EnterSteps
  <2>2. CASE \/ LastIsFull(t) \/ GetRowAt(t) \/ ScanPage(t) \/ ScanReturns(t) \/ FindPage(t)
             \/ FindNothing(t) \/ (DeleteAt(t) /\ ~Live(pages[Here(t)], op[t].arg))
    BY <2>2, ReadSteps
  <2>3. CASE \/ InsertIntoLast(t) \/ InsertIntoNew(t)
             \/ (DeleteAt(t) /\ Live(pages[Here(t)], op[t].arg))
    BY <2>3, WriteSteps
  <2>4. CASE NewHeapPage(t)
    <3>1. op[t].name = "insert" /\ op[t].todo = <<>> /\ CallOK(t)
      BY <2>4 DEF NewHeapPage, ControlInv
    <3>2. status[t] = "running"
      BY <3>1, LocksTyped DEF CallOK
    <3>. QED  BY <2>4, <3>2 DEF GrowShape
  <2>5. CASE LockPage(t) \/ RecheckLock(t) \/ Commit(t) \/ Abort(t)
    BY <2>5
  <2> HIDE DEF Shaped
  <2>. QED  BY <1>1, <2>1, <2>2, <2>3, <2>4, <2>5 DEF Step
<1> HIDE DEF Shaped
<1>2. (\E t \in Txn : Shaped(t)) \/ Crash \/ UNCHANGED vars
  BY <1>1 DEF Next, Quiescent
<1>. QED  BY <1>2 DEF Shaped

\* The invariant of the lock table holds in the heap file's steps; a restart
\* empties the table.
LEMMA LocksInductive ==
    ASSUME Typed, LP!IInv, ControlInv, PagesInv, [Next]_vars
    PROVE  LP!IInv'
<1>0. [LP!Next]_lmvars => LP!IInv'
  BY Constants, LP!InvInductive DEF lmvars, LP!lmvars
<1>1. ASSUME NEW t \in Txn, LockPage(t) \/ RecheckLock(t) \/ Commit(t) \/ Abort(t)
      PROVE  LM!Next
  <2>1. CASE LockPage(t)
    <3>1. op[t].todo # <<>> /\ LM!AcquireLock(t, Here(t), op[t].mode)
      BY <2>1 DEF LockPage, Here
    <3>2. Here(t) \in PageId /\ op[t].mode \in LM!LockMode
      BY <3>1, CallParts
    <3>. QED  BY <3>1, <3>2 DEF LM!Next
  <2>2. CASE RecheckLock(t)
    BY <2>2 DEF RecheckLock, LM!Next
  <2>3. CASE Commit(t) \/ Abort(t)
    BY <2>3 DEF Commit, Abort, LM!Next
  <2>. QED  BY <1>1, <2>1, <2>2, <2>3
<1>2. CASE UNCHANGED lmvars
  BY <1>0, <1>2
<1>3. CASE Crash
  <2>1. /\ locks' = [p \in PageId |-> LM!Absent]
        /\ held_by_txn' = [t \in Txn |-> {}]
        /\ status' = [t \in Txn |-> IF ops[t] > 0 THEN "done" ELSE status[t]]
        /\ request' = [t \in Txn |-> LM!NoRequest]
    BY <1>3 DEF Crash
  <2>2. \A t \in Txn : status'[t] \in {"running", "dying", "done"}
    <3> SUFFICES ASSUME NEW t \in Txn PROVE status'[t] \in {"running", "dying", "done"}
      OBVIOUS
    <3>1. ops[t] \in Nat /\ CallOK(t) /\ UnusedOK(t)
      BY DEF Typed, ControlInv
    <3>2. CASE ops[t] = 0
      BY <2>1, <3>1, <3>2, LocksTyped DEF CallOK, UnusedOK
    <3>3. CASE ops[t] > 0
      BY <2>1, <3>3
    <3>. QED  BY <3>1, <3>2, <3>3
  <2>3. LM!NoRequest \notin LM!Request
    BY DEF LM!NoRequest, LM!Request, LM!LockMode, LM!kShared, LM!kExclusive
  <2>4. LM!TypeOK'
    BY <2>1, <2>2, <2>3 DEF LM!TypeOK, LM!Absent, LM!LockEntry, LM!Status
  <2>5. LP!TypeOK' <=> LM!TypeOK'
    BY DEF LM!TypeOK, LP!TypeOK, LM!Request, LP!Request, LM!NoRequest, LP!NoRequest,
           LM!LockEntry, LP!LockEntry, LM!Status, LP!Status, LM!LockMode, LP!LockMode,
           LM!kShared, LP!kShared, LM!kExclusive, LP!kExclusive
  <2>6. LP!MutualExclusion' /\ LP!TablesAgree'
    BY <2>1 DEF LP!MutualExclusion, LP!TablesAgree, LP!Holders, LM!Absent
  <2>7. LP!SleeperIsBlocked' /\ LP!SleeperHasYoungerBlocker'
    BY <2>2 DEF LP!SleeperIsBlocked, LP!SleeperHasYoungerBlocker
  <2>. QED  BY <2>4, <2>5, <2>6, <2>7 DEF LP!IInv
<1>4. ASSUME NEW t \in Txn,
             \/ \E c : EnterShape(t, c)
             \/ \E c, S : ReadShape(t, c, S)
             \/ \E p, new, I, D : WriteShape(t, p, new, I, D)
             \/ GrowShape(t)
      PROVE  UNCHANGED lmvars
  BY <1>4 DEF EnterShape, ReadShape, WriteShape, GrowShape, NewHeapPage
<1>. QED  BY <1>0, <1>1, <1>2, <1>3, <1>4, StepShapes, SameLocks DEF vars

\* A lock is kept, in its strength, by every step but the one that ends its
\* transaction.
LEMMA ExclusiveKept ==
    ASSUME Typed, LP!IInv, ControlInv, PagesInv, [Next]_vars, ~Crash,
           NEW t \in Txn, NEW p \in PageId, locks[p].exclusive_holder = t, status'[t] # "done"
    PROVE  locks'[p].exclusive_holder = t
<1>1. LP!IInv'
  BY LocksInductive
<1>2. ASSUME NEW u \in Txn, LockPage(u) \/ RecheckLock(u) \/ Commit(u) \/ Abort(u)
      PROVE  LP!Next
  <2>1. CASE LockPage(u)
    <3>1. op[u].todo # <<>> /\ LM!AcquireLock(u, Here(u), op[u].mode)
      BY <2>1 DEF LockPage, Here
    <3>2. Here(u) \in PageId /\ op[u].mode \in LM!LockMode
      BY <3>1, CallParts
    <3>3. LM!Next
      BY <3>1, <3>2 DEF LM!Next
    <3>. QED  BY <3>3, SameLocks
  <2>2. CASE RecheckLock(u) \/ Commit(u) \/ Abort(u)
    <3>1. LM!Next
      BY <2>2 DEF RecheckLock, Commit, Abort, LM!Next
    <3>. QED  BY <3>1, SameLocks
  <2>. QED  BY <1>2, <2>1, <2>2
<1>3. ASSUME NEW u \in Txn,
             \/ \E c : EnterShape(u, c)
             \/ \E c, S : ReadShape(u, c, S)
             \/ \E q, new, I, D : WriteShape(u, q, new, I, D)
             \/ GrowShape(u)
      PROVE  UNCHANGED lmvars
  BY <1>3 DEF EnterShape, ReadShape, WriteShape, GrowShape, NewHeapPage
<1>4. UNCHANGED vars => UNCHANGED lmvars
  BY DEF vars
<1>5. LP!Next \/ UNCHANGED lmvars
  BY <1>2, <1>3, <1>4, StepShapes
<1>6. [LP!Next]_(LP!lmvars)
  BY <1>5 DEF lmvars, LP!lmvars
<1>. QED  BY <1>1, <1>6, Constants, LP!LocksKept

-----------------------------------------------------------------------------
\* The variables keep their types.
LEMMA TypedInductive ==
    ASSUME Typed, LP!IInv, ControlInv, PagesInv, [Next]_vars
    PROVE  Typed'
<1> USE DEF Typed
<1>1. ASSUME NEW t \in Txn, NEW c, EnterShape(t, c) PROVE Typed'
  BY <1>1 DEF EnterShape, filevars, histvars
<1>2. ASSUME NEW t \in Txn, LockPage(t) \/ RecheckLock(t) PROVE Typed'
  BY <1>2, LockStep DEF filevars, histvars
<1>3. ASSUME NEW t \in Txn, NEW c, NEW S, ReadShape(t, c, S) PROVE Typed'
  BY <1>3 DEF ReadShape, filevars
<1>4. ASSUME NEW t \in Txn, NEW p, NEW new, NEW I, NEW D, WriteShape(t, p, new, I, D) PROVE Typed'
  <2>1. page_ids' \in Seq(PageId)
    <3>1. p \in PageId /\ page_ids' \in {page_ids, Append(page_ids, p)}
      BY <1>4 DEF WriteShape
    <3>2. Append(page_ids, p) \in Seq(PageId)
      BY <3>1, AppendedElements
    <3>. QED  BY <3>1, <3>2
  <2>2. /\ p \in PageId /\ new \in Page /\ I \in SUBSET Rid /\ D \in SUBSET Rid
        /\ pages' = [pages EXCEPT ![p] = new] /\ dirtied' = [dirtied EXCEPT ![t] = @ \cup {p}]
        /\ inserted' = [inserted EXCEPT ![t] = @ \cup I]
        /\ deleted' = [deleted EXCEPT ![t] = @ \cup D]
        /\ op' = [op EXCEPT ![t] = NoCall]
        /\ UNCHANGED <<next_page_id, disk, ops, table, seen>>
    BY <1>4 DEF WriteShape
  <2>. QED  BY <2>1, <2>2, NoCallParts
<1>5. ASSUME NEW t \in Txn, GrowShape(t) PROVE Typed'
  <2>1. /\ op[t].name = "insert"
        /\ next_page_id' = next_page_id + 1
        /\ pages' = [pages EXCEPT ![next_page_id] = InitHeapPage]
        /\ dirtied' = [dirtied EXCEPT ![t] = @ \cup {next_page_id}]
        /\ op' = [op EXCEPT ![t].name = "insert_new", ![t].todo = <<next_page_id>>]
        /\ UNCHANGED <<page_ids, disk, ops, table, inserted, deleted, seen>>
    BY <1>5 DEF GrowShape, NewHeapPage, histvars
  <2>2. next_page_id \in PageId /\ next_page_id \in Nat
    BY <2>1, RoomToGrow
  <2>3. <<next_page_id>> \in Seq(PageId)
    BY <2>2, ShortQueues
  <2>4. [[op[t] EXCEPT !.name = "insert_new"] EXCEPT !.todo = <<next_page_id>>] \in CallType
    BY <2>3 DEF CallType, CallName
  <2>. QED  BY <2>1, <2>2, <2>4, EmptyPages
<1>6. ASSUME NEW t \in Txn, Commit(t) PROVE Typed'
  BY <1>6 DEF Commit
<1>7. ASSUME NEW t \in Txn, Abort(t) PROVE Typed'
  BY <1>7, NoCallParts DEF Abort, Return, histvars
<1>8. CASE Crash
  <2>1. next_page_id \in 0..MaxPages
    <3>1. Inserting \subseteq Txn
      BY DEF Inserting
    <3>2. Cardinality(Inserting) \in Nat
      BY <3>1, Constants, FS_Subset, FS_CardinalityType
    <3>. QED  BY <3>2, Constants DEF ControlInv
  <2>2. page_ids' \in Seq(PageId)
    BY <1>8, <2>1, PageIdsOfFile DEF Crash
  <2>. QED  BY <1>8, <2>2, NoCallParts DEF Crash, histvars
<1>9. CASE UNCHANGED vars
  BY <1>9 DEF vars, filevars, histvars
<1> HIDE DEF Typed
<1>. QED  BY <1>1, <1>2, <1>3, <1>4, <1>5, <1>6, <1>7, <1>8, <1>9, StepShapes
-----------------------------------------------------------------------------
\* A call's pages are in the file, and so is the page it is at.
LEMMA QueueInFile ==
    ASSUME Typed, ControlInv, NEW t \in Txn
    PROVE  /\ ToSet(op[t].todo) \subseteq InFile
           /\ op[t].todo # <<>> => Here(t) \in InFile
<1>1. CallOK(t) /\ FreshOK(t) /\ ToSet(page_ids) \subseteq InFile
  BY DEF ControlInv
<1>2. ToSet(op[t].todo) \subseteq InFile
  <2>1. CASE op[t].name = "insert_new"
    <3>1. op[t].todo = <<Here(t)>> /\ Here(t) \in InFile
      BY <1>1, <2>1 DEF FreshOK
    <3>2. ToSet(<<Here(t)>>) = {Here(t)}
      BY ShortQueues
    <3>3. ToSet(op[t].todo) = ToSet(<<Here(t)>>)
      BY <3>1
    <3>. QED  BY <3>1, <3>2, <3>3
  <2>2. CASE op[t].name # "insert_new"
    BY <1>1, <2>2 DEF CallOK
  <2>. QED  BY <2>1, <2>2
<1>. QED  BY <1>2, CallParts

\* The count of insertions under way.
LEMMA InsertingFinite ==
    /\ IsFiniteSet(Inserting) /\ Cardinality(Inserting) \in Nat
    /\ \A X \in SUBSET Inserting : Cardinality(X) \in Nat /\ Cardinality(X) <= Cardinality(Inserting)
    /\ \A t \in Txn \ Inserting : Cardinality(Inserting \cup {t}) = Cardinality(Inserting) + 1
<1>1. IsFiniteSet(Inserting)
  <2>1. Inserting \subseteq Txn
    BY DEF Inserting
  <2>. QED  BY <2>1, Constants, FS_Subset
<1>. QED  BY <1>1, FS_CardinalityType, FS_Subset, FS_AddElement

\* What a transaction's own step leaves alone.
LEMMA OthersCalls ==
    ASSUME Typed, NEW t \in Txn, NEW c, op' = [op EXCEPT ![t] = c]
    PROVE  /\ op'[t] = c /\ \A u \in Txn \ {t} : op'[u] = op[u]
           /\ c.name # "insert" => Inserting' = Inserting \ {t}
           /\ c.name = "insert" => Inserting' = Inserting \cup {t}
<1>1. op'[t] = c /\ \A u \in Txn \ {t} : op'[u] = op[u]
  BY DEF Typed
<1>. QED  BY <1>1 DEF Inserting

\* A step that enters an operation keeps the control invariant.
LEMMA ControlEnter ==
    ASSUME Typed, LP!IInv, ControlInv, NEW t \in Txn, NEW c, EnterShape(t, c)
    PROVE  ControlInv'
<1>1. /\ op' = [op EXCEPT ![t] = c] /\ ops' = [ops EXCEPT ![t] = @ + 1]
      /\ UNCHANGED <<locks, held_by_txn, status, request, page_ids, next_page_id, pages, disk,
                     dirtied, inserted, deleted, seen>>
      /\ status[t] = "running" /\ op[t].name = "none"
      /\ c.name \in {"insert", "get", "delete", "scan", "find"}
      /\ c.name \in {"insert", "delete"} => c.mode = LM!kExclusive
      /\ c.name = "insert" => c.arg = t /\ next_page_id + Cardinality(Inserting) < MaxPages
      /\ ToSet(c.todo) \subseteq ToSet(page_ids)
  BY DEF EnterShape, lmvars, filevars, histvars
<1>2. op'[t] = c /\ \A u \in Txn \ {t} : op'[u] = op[u]
  BY <1>1, OthersCalls
<1>3. next_page_id' + Cardinality(Inserting') <= MaxPages
  <2>1. t \notin Inserting
    BY <1>1 DEF Inserting
  <2>2. CASE c.name = "insert"
    <3>1. Inserting' = Inserting \cup {t}
      BY <1>1, <2>2, OthersCalls
    <3>2. Cardinality(Inserting') = Cardinality(Inserting) + 1
      BY <2>1, <3>1, InsertingFinite
    <3>. QED  BY <1>1, <2>2, <3>2, InsertingFinite, Constants DEF Typed
  <2>3. CASE c.name # "insert"
    <3>1. Inserting' = Inserting \ {t}
      BY <1>1, <2>3, OthersCalls
    <3>2. Inserting' = Inserting
      BY <2>1, <3>1
    <3>. QED  BY <1>1, <3>2 DEF ControlInv
  <2>. QED  BY <2>2, <2>3
<1>4. ASSUME NEW u \in Txn
      PROVE  /\ CallOK(u)' /\ FreshOK(u)' /\ UnusedOK(u)'
             /\ held_by_txn'[u] \subseteq InFile' /\ dirtied'[u] \subseteq InFile'
  <2>1. /\ CallOK(u) /\ FreshOK(u) /\ UnusedOK(u)
        /\ held_by_txn[u] \subseteq InFile /\ dirtied[u] \subseteq InFile
    BY DEF ControlInv
  <2>2. CASE u = t
    <3>1. ops'[t] # 0
      BY <1>1 DEF Typed
    <3>2. CallOK(t)' /\ FreshOK(t)' /\ UnusedOK(t)'
      BY <1>1, <1>2, <3>1 DEF CallOK, FreshOK, UnusedOK
    <3>. QED  BY <1>1, <2>1, <2>2, <3>2 DEF InFile
  <2>3. CASE u # t
    <3>1. op'[u] = op[u] /\ ops'[u] = ops[u]
      BY <1>1, <1>2, <2>3 DEF Typed
    <3>2. CallOK(u)' /\ UnusedOK(u)'
      BY <1>1, <2>1, <3>1 DEF CallOK, UnusedOK, Here
    <3>3. FreshOK(u)'
      BY <1>1, <1>2, <2>1, <3>1 DEF FreshOK, Here, InFile
    <3>. QED  BY <1>1, <2>1, <3>2, <3>3 DEF InFile
  <2>. QED  BY <2>2, <2>3
<1>. QED  BY <1>1, <1>3, <1>4 DEF ControlInv, InFile

\* So does a step of LockPage, whether granted, waiting or dying.
LEMMA ControlLock ==
    ASSUME Typed, LP!IInv, ControlInv, NEW t \in Txn, LockPage(t) \/ RecheckLock(t)
    PROVE  ControlInv'
<1>1. /\ op[t].todo # <<>> /\ Here(t) \in PageId /\ op[t].name # "none"
      /\ status[t] \in {"running", "awake"}
      /\ \E m \in LM!LockMode : LM!LoopBody(t, Here(t), m)
      /\ UNCHANGED <<page_ids, next_page_id, pages, disk, dirtied, op, ops, inserted, deleted, seen>>
  BY LockStep DEF filevars, histvars
<1>2. /\ \A u \in Txn \ {t} : /\ status'[u] = status[u] /\ request'[u] = request[u]
                              /\ held_by_txn'[u] = held_by_txn[u]
      /\ status'[t] \in {"running", "asleep", "dying"}
      /\ status'[t] = "asleep" => request'[t].page = Here(t)
      /\ held_by_txn[t] \subseteq held_by_txn'[t]
      /\ held_by_txn'[t] \subseteq held_by_txn[t] \cup {Here(t)}
      /\ (\A u \in Txn \ {t} : Here(t) \notin held_by_txn[u]) => status'[t] = "running"
  BY <1>1, PassThroughLoop
<1>3. Here(t) \in InFile /\ Here(t) \in ToSet(op[t].todo)
  BY <1>1, QueueInFile, CallParts
<1>4. Inserting' = Inserting
  BY <1>1 DEF Inserting
<1>5. ASSUME NEW u \in Txn
      PROVE  /\ CallOK(u)' /\ FreshOK(u)' /\ UnusedOK(u)'
             /\ held_by_txn'[u] \subseteq InFile' /\ dirtied'[u] \subseteq InFile'
  <2>1. /\ CallOK(u) /\ FreshOK(u) /\ UnusedOK(u)
        /\ held_by_txn[u] \subseteq InFile /\ dirtied[u] \subseteq InFile
    BY DEF ControlInv
  <2>2. UnusedOK(u)' /\ dirtied'[u] \subseteq InFile'
    BY <1>1, <2>1 DEF UnusedOK, InFile
  <2>3. CASE u = t
    <3>1. CallOK(t)'
      BY <1>1, <1>2, <2>1, <2>3 DEF CallOK, Here
    <3>2. FreshOK(t)'
      BY <1>1, <1>2, <2>1, <2>3 DEF FreshOK, Here, InFile
    <3>. QED  BY <1>1, <1>2, <1>3, <2>1, <2>2, <2>3, <3>1, <3>2 DEF InFile
  <2>4. CASE u # t
    <3>1. CallOK(u)'
      BY <1>1, <1>2, <2>1, <2>4 DEF CallOK, Here
    <3>2. FreshOK(u)'
      <4>1. op[u].name = "insert_new" => Here(u) \notin held_by_txn'[t]
        BY <1>2, <1>3, <2>1, <2>4 DEF FreshOK
      <4>. QED  BY <1>1, <1>2, <2>1, <2>4, <4>1 DEF FreshOK, Here, InFile
    <3>. QED  BY <1>1, <1>2, <2>1, <2>2, <2>4, <3>1, <3>2 DEF InFile
  <2>. QED  BY <2>3, <2>4
<1>. QED  BY <1>1, <1>4, <1>5 DEF ControlInv, InFile

\* So does a step that only reads a locked page.
LEMMA ControlRead ==
    ASSUME Typed, LP!IInv, ControlInv, NEW t \in Txn, NEW c, NEW S, ReadShape(t, c, S)
    PROVE  ControlInv'
<1>1. /\ op' = [op EXCEPT ![t] = c] /\ seen' = [seen EXCEPT ![t] = @ \cup S]
      /\ UNCHANGED <<locks, held_by_txn, status, request, page_ids, next_page_id, pages, disk,
                     dirtied, ops, inserted, deleted>>
      /\ status[t] = "running" /\ op[t].name \notin {"none", "insert_new"}
      /\ \/ c = NoCall
         \/ /\ c.name = op[t].name /\ c.mode = op[t].mode /\ c.arg = op[t].arg
            /\ ToSet(c.todo) \subseteq ToSet(op[t].todo)
  BY DEF ReadShape, lmvars, filevars
<1>2. op'[t] = c /\ \A u \in Txn \ {t} : op'[u] = op[u]
  BY <1>1, OthersCalls
<1>3. next_page_id' + Cardinality(Inserting') <= MaxPages
  <2>1. Inserting' \subseteq Inserting
    BY <1>1, <1>2, NoCallParts DEF Inserting
  <2>2. Cardinality(Inserting') \in Nat /\ Cardinality(Inserting') <= Cardinality(Inserting)
    BY <2>1, InsertingFinite
  <2>. QED  BY <1>1, <2>2, InsertingFinite, Constants DEF ControlInv, Typed
<1>4. ASSUME NEW u \in Txn
      PROVE  /\ CallOK(u)' /\ FreshOK(u)' /\ UnusedOK(u)'
             /\ held_by_txn'[u] \subseteq InFile' /\ dirtied'[u] \subseteq InFile'
  <2>1. /\ CallOK(u) /\ FreshOK(u) /\ UnusedOK(u)
        /\ held_by_txn[u] \subseteq InFile /\ dirtied[u] \subseteq InFile
    BY DEF ControlInv
  <2>2. CASE u = t
    <3>1. CallOK(t)' /\ FreshOK(t)' /\ UnusedOK(t)'
      BY <1>1, <1>2, <2>1, <2>2, NoCallParts DEF CallOK, FreshOK, UnusedOK
    <3>. QED  BY <1>1, <2>1, <2>2, <3>1 DEF InFile
  <2>3. CASE u # t
    <3>1. op'[u] = op[u] /\ seen'[u] = seen[u]
      BY <1>1, <1>2, <2>3 DEF Typed
    <3>2. CallOK(u)' /\ UnusedOK(u)'
      BY <1>1, <2>1, <3>1 DEF CallOK, UnusedOK, Here
    <3>3. FreshOK(u)'
      BY <1>1, <1>2, <2>1, <3>1, NoCallParts DEF FreshOK, Here, InFile
    <3>. QED  BY <1>1, <2>1, <3>2, <3>3 DEF InFile
  <2>. QED  BY <2>2, <2>3
<1>. QED  BY <1>1, <1>3, <1>4 DEF ControlInv, InFile

\* So does a step that changes a locked page.
LEMMA ControlWrite ==
    ASSUME Typed, LP!IInv, ControlInv, NEW t \in Txn, NEW p, NEW new, NEW I, NEW D,
           WriteShape(t, p, new, I, D)
    PROVE  ControlInv'
<1>1. /\ p \in PageId /\ status[t] = "running" /\ locks[p].exclusive_holder = t
      /\ \/ op[t].name \in {"insert", "delete"} /\ p \in ToSet(page_ids) /\ page_ids' = page_ids
         \/ op[t].name = "insert_new" /\ p = Here(t) /\ page_ids' = Append(page_ids, p)
      /\ pages' = [pages EXCEPT ![p] = new] /\ dirtied' = [dirtied EXCEPT ![t] = @ \cup {p}]
      /\ inserted' = [inserted EXCEPT ![t] = @ \cup I]
      /\ deleted' = [deleted EXCEPT ![t] = @ \cup D]
      /\ op' = [op EXCEPT ![t] = NoCall]
      /\ UNCHANGED <<locks, held_by_txn, status, request, next_page_id, disk, ops, seen>>
  BY DEF WriteShape, lmvars
<1>2. op'[t] = NoCall /\ \A u \in Txn \ {t} : op'[u] = op[u]
  BY <1>1, OthersCalls
<1>3. CallOK(t) /\ FreshOK(t) /\ UnusedOK(t) /\ ToSet(page_ids) \subseteq InFile /\ IsInjective(page_ids)
  BY DEF ControlInv
<1>4. p \in held_by_txn[t]
  BY <1>1, Exclusion
<1>5. p \in InFile
  BY <1>1, <1>3 DEF FreshOK
<1>6. /\ ToSet(page_ids') \subseteq InFile /\ IsInjective(page_ids')
      /\ ToSet(page_ids) \subseteq ToSet(page_ids')
      /\ ToSet(page_ids') \subseteq ToSet(page_ids) \cup {p}
  <2>1. CASE page_ids' = page_ids
    BY <1>3, <2>1
  <2>2. CASE op[t].name = "insert_new" /\ p = Here(t) /\ page_ids' = Append(page_ids, p)
    <3>1. p \notin ToSet(page_ids) /\ page_ids \in Seq(PageId)
      BY <1>3, <2>2 DEF FreshOK, Typed
    <3> DEFINE a == Append(page_ids, p)
    <3>2. ToSet(a) = ToSet(page_ids) \cup {p} /\ IsInjective(a)
      BY <1>1, <1>3, <3>1, AppendedElements
    <3>3. page_ids' = a
      BY <2>2
    <3> HIDE DEF a
    <3>. QED  BY <1>3, <1>5, <3>2, <3>3
  <2>. QED  BY <1>1, <2>1, <2>2
<1>7. next_page_id' + Cardinality(Inserting') <= MaxPages
  <2>1. Inserting' \subseteq Inserting
    BY <1>2, NoCallParts DEF Inserting
  <2>2. Cardinality(Inserting') \in Nat /\ Cardinality(Inserting') <= Cardinality(Inserting)
    BY <2>1, InsertingFinite
  <2>. QED  BY <1>1, <2>2, InsertingFinite, Constants DEF ControlInv, Typed
<1>8. ASSUME NEW u \in Txn
      PROVE  /\ CallOK(u)' /\ FreshOK(u)' /\ UnusedOK(u)'
             /\ held_by_txn'[u] \subseteq InFile' /\ dirtied'[u] \subseteq InFile'
  <2>1. /\ CallOK(u) /\ FreshOK(u) /\ UnusedOK(u)
        /\ held_by_txn[u] \subseteq InFile /\ dirtied[u] \subseteq InFile
    BY DEF ControlInv
  <2>2. CASE u = t
    <3>1. ops[t] # 0
      BY <1>1, <1>3 DEF UnusedOK
    <3>2. CallOK(t)' /\ FreshOK(t)' /\ UnusedOK(t)'
      BY <1>1, <1>2, <3>1, NoCallParts DEF CallOK, FreshOK, UnusedOK
    <3>3. dirtied'[t] = dirtied[t] \cup {p}
      BY <1>1 DEF Typed
    <3>. QED  BY <1>1, <1>5, <2>1, <2>2, <3>2, <3>3 DEF InFile
  <2>3. CASE u # t
    <3>1. op'[u] = op[u] /\ dirtied'[u] = dirtied[u] /\ inserted'[u] = inserted[u]
          /\ deleted'[u] = deleted[u]
      BY <1>1, <1>2, <2>3 DEF Typed
    <3>2. CallOK(u)' /\ UnusedOK(u)'
      BY <1>1, <1>6, <2>1, <3>1 DEF CallOK, UnusedOK, Here
    <3>3. FreshOK(u)'
      <4>1. CASE op[u].name = "insert_new"
        <5>1. Here(u) # p /\ Here(u) \in PageId /\ Here(u)' = Here(u)
          BY <1>4, <2>1, <2>3, <3>1, <4>1, CallParts, ShortQueues DEF FreshOK, Here
        <5>2. pages'[Here(u)] = pages[Here(u)]
          BY <1>1, <5>1 DEF Typed
        <5>. QED
          BY <1>1, <1>2, <1>6, <2>1, <3>1, <4>1, <5>1, <5>2, NoCallParts DEF FreshOK, InFile
      <4>2. CASE op[u].name # "insert_new"
        BY <3>1, <4>2 DEF FreshOK
      <4>. QED  BY <4>1, <4>2
    <3>. QED  BY <1>1, <2>1, <3>1, <3>2, <3>3 DEF InFile
  <2>. QED  BY <2>2, <2>3
<1>. QED  BY <1>1, <1>6, <1>7, <1>8 DEF ControlInv, InFile

\* So does the step of Insert that allocates a page and publishes it in
\* page_ids_.
LEMMA ControlGrow ==
    ASSUME Typed, LP!IInv, ControlInv, NEW t \in Txn, GrowShape(t)
    PROVE  ControlInv'
<1> DEFINE n == next_page_id
           c == [[op[t] EXCEPT !.name = "insert_new"] EXCEPT !.todo = <<n>>]
<1>1. /\ op[t].name = "insert" /\ status[t] = "running"
      /\ n' = n + 1
      /\ pages' = [pages EXCEPT ![n] = InitHeapPage]
      /\ dirtied' = [dirtied EXCEPT ![t] = @ \cup {n}]
      /\ op' = [op EXCEPT ![t] = c]
      /\ UNCHANGED <<locks, held_by_txn, status, request, page_ids, disk, ops, inserted, deleted, seen>>
  BY DEF GrowShape, NewHeapPage, lmvars, histvars
<1>2. /\ n \in PageId /\ n \in Nat /\ IsFiniteSet(Inserting) /\ Cardinality(Inserting) \in Nat
      /\ Cardinality(Inserting \ {t}) = Cardinality(Inserting) - 1
  BY <1>1, RoomToGrow
<1>3. c.name = "insert_new" /\ c.mode = op[t].mode /\ c.arg = op[t].arg /\ c.todo = <<n>>
  BY CallParts DEF CallType
<1> HIDE DEF c
<1>4. op'[t] = c /\ (\A u \in Txn \ {t} : op'[u] = op[u]) /\ Inserting' = Inserting \ {t}
  BY <1>1, <1>3, OthersCalls
<1>5. InFile' = InFile \cup {n} /\ n \notin InFile
  BY <1>1, <1>2 DEF InFile
<1>6. n' + Cardinality(Inserting') <= MaxPages
  BY <1>1, <1>2, <1>4, Constants DEF ControlInv
<1>7. Head(c.todo) = n /\ ToSet(c.todo) = {n} /\ c.todo # <<>>
  BY <1>3, ShortQueues
<1>8. CallOK(t) /\ UnusedOK(t) /\ ToSet(page_ids) \subseteq InFile
  BY DEF ControlInv
<1>9. ASSUME NEW u \in Txn
      PROVE  /\ CallOK(u)' /\ FreshOK(u)' /\ UnusedOK(u)'
             /\ held_by_txn'[u] \subseteq InFile' /\ dirtied'[u] \subseteq InFile'
  <2>1. /\ CallOK(u) /\ FreshOK(u) /\ UnusedOK(u)
        /\ held_by_txn[u] \subseteq InFile /\ dirtied[u] \subseteq InFile
    BY DEF ControlInv
  <2>2. CASE u = t
    <3>1. CallOK(t)' /\ UnusedOK(t)'
      BY <1>1, <1>3, <1>4, <1>8 DEF CallOK, UnusedOK
    <3>2. dirtied'[t] = dirtied[t] \cup {n}
      BY <1>1 DEF Typed
    <3>3. Here(t)' = n
      BY <1>4, <1>7 DEF Here
    <3>4. pages'[n] = InitHeapPage
      BY <1>1, <1>2 DEF Typed
    <3>5. \A w \in Txn \ {t} : n \notin ToSet(op'[w].todo) /\ n \notin held_by_txn'[w]
      <4>1. \A w \in Txn : ToSet(op[w].todo) \subseteq InFile /\ held_by_txn[w] \subseteq InFile
        BY QueueInFile DEF ControlInv
      <4>. QED  BY <1>1, <1>4, <1>5, <4>1
    <3>6. op'[t].todo = <<n>> /\ n \notin ToSet(page_ids)
      BY <1>3, <1>4, <1>5, <1>8
    <3>7. FreshOK(t)'
      BY <1>1, <1>5, <3>2, <3>3, <3>4, <3>5, <3>6 DEF FreshOK
    <3>. QED  BY <1>1, <1>5, <2>1, <2>2, <3>1, <3>2, <3>7
  <2>3. CASE u # t
    <3>1. op'[u] = op[u] /\ dirtied'[u] = dirtied[u]
      BY <1>1, <1>4, <2>3 DEF Typed
    <3>2. CallOK(u)' /\ UnusedOK(u)'
      BY <1>1, <2>1, <3>1 DEF CallOK, UnusedOK, Here
    <3>3. FreshOK(u)'
      <4>1. CASE op[u].name = "insert_new"
        <5>1. Here(u) # n /\ Here(u) \in PageId /\ Here(u)' = Here(u)
          BY <1>5, <2>1, <3>1, <4>1, CallParts, ShortQueues DEF FreshOK, Here
        <5>2. pages'[Here(u)] = pages[Here(u)]
          BY <1>1, <5>1 DEF Typed
        <5>3. \A w \in Txn \ {u} : Here(u) \notin ToSet(op'[w].todo)
          BY <1>4, <1>7, <2>1, <4>1, <5>1 DEF FreshOK
        <5>. QED
          BY <1>1, <1>5, <2>1, <3>1, <4>1, <5>1, <5>2, <5>3 DEF FreshOK
      <4>2. CASE op[u].name # "insert_new"
        BY <3>1, <4>2 DEF FreshOK
      <4>. QED  BY <4>1, <4>2
    <3>. QED  BY <1>1, <1>5, <2>1, <3>1, <3>2, <3>3
  <2>. QED  BY <2>2, <2>3
<1>. QED  BY <1>1, <1>5, <1>6, <1>9 DEF ControlInv

\* Open transactions have changed different pages; a fresh page is nobody
\* else's.
LEMMA DirtyDisjoint ==
    ASSUME Typed, LP!IInv, ControlInv, WritersHoldLocks, NEW t \in Txn, Active(t)
    PROVE  \A u \in Txn \ {t} :
              /\ Active(u) => dirtied[t] \cap dirtied[u] = {}
              /\ op[u].name = "insert_new" => Here(u) \notin dirtied[t]
<1>1. \A w \in Txn : Active(w) => \A p \in dirtied[w] :
         p \in held_by_txn[w] \/ (op[w].name = "insert_new" /\ p = Here(w))
  <2>1. \A w \in Txn : dirtied[w] \subseteq PageId
    BY DEF Typed
  <2>. QED  BY <2>1, Exclusion DEF WritersHoldLocks
<1>2. ASSUME NEW u \in Txn, NEW w \in Txn \ {u}, op[u].name = "insert_new", Active(w)
      PROVE  Here(u) \notin dirtied[w]
  <2>1. Here(u) \notin ToSet(op[w].todo) /\ Here(u) \notin held_by_txn[w]
    BY <1>2 DEF ControlInv, FreshOK
  <2>2. op[w].name = "insert_new" => Here(w) \in ToSet(op[w].todo)
    <3>1. op[w].name = "insert_new" => op[w].todo = <<Here(w)>>
      BY DEF ControlInv, FreshOK
    <3>. QED  BY <3>1, ShortQueues
  <2>. QED  BY <1>1, <1>2, <2>1, <2>2
<1>3. ASSUME NEW u \in Txn \ {t}, Active(u), NEW p \in dirtied[t] \cap dirtied[u]
      PROVE  FALSE
  <2>1. p \in PageId
    BY DEF Typed
  <2>2. CASE op[t].name = "insert_new" /\ p = Here(t)
    BY <1>2, <1>3, <2>2
  <2>3. CASE op[u].name = "insert_new" /\ p = Here(u)
    BY <1>2, <1>3, <2>3
  <2>4. CASE locks[p].exclusive_holder = t /\ locks[p].exclusive_holder = u
    BY <1>3, <2>4
  <2>. QED  BY <1>3, <2>2, <2>3, <2>4 DEF WritersHoldLocks
<1>. QED  BY <1>2, <1>3

\* Commit and Abort.
LEMMA ControlEnd ==
    ASSUME Typed, LP!IInv, ControlInv, WritersHoldLocks, NEW t \in Txn, Commit(t) \/ Abort(t)
    PROVE  ControlInv'
<1>1. /\ LM!ReleaseAll(t) /\ Active(t)
      /\ UNCHANGED <<page_ids, next_page_id, dirtied, ops, inserted, deleted, seen>>
      /\ op' = [op EXCEPT ![t] = NoCall] \/ (op' = op /\ op[t].name = "none")
      /\ \A p \in PageId : p \notin dirtied[t] => pages'[p] = pages[p]
  BY DEF Commit, Abort, Return, histvars, Active, LM!ReleaseAll
<1>2. /\ status'[t] = "done" /\ held_by_txn'[t] = {} /\ request' = request
      /\ \A u \in Txn \ {t} : /\ held_by_txn'[u] = held_by_txn[u]
                              /\ \/ status'[u] = status[u]
                                 \/ status[u] = "asleep" /\ status'[u] = "awake"
  BY <1>1, Releasing
<1>3. /\ op'[t].name = "none" /\ op'[t].todo = <<>> /\ ToSet(op'[t].todo) = {}
      /\ \A u \in Txn \ {t} : op'[u] = op[u]
  <2>1. CallOK(t)
    BY DEF ControlInv
  <2>. QED  BY <1>1, <2>1, NoCallParts, ShortQueues DEF CallOK, Typed
<1>4. next_page_id' + Cardinality(Inserting') <= MaxPages
  <2>1. Inserting' \subseteq Inserting
    BY <1>3 DEF Inserting
  <2>2. Cardinality(Inserting') \in Nat /\ Cardinality(Inserting') <= Cardinality(Inserting)
    BY <2>1, InsertingFinite
  <2>. QED  BY <1>1, <2>2, InsertingFinite, Constants DEF ControlInv, Typed
<1>5. ASSUME NEW u \in Txn
      PROVE  /\ CallOK(u)' /\ FreshOK(u)' /\ UnusedOK(u)'
             /\ held_by_txn'[u] \subseteq InFile' /\ dirtied'[u] \subseteq InFile'
  <2>1. /\ CallOK(u) /\ FreshOK(u) /\ UnusedOK(u)
        /\ held_by_txn[u] \subseteq InFile /\ dirtied[u] \subseteq InFile
    BY DEF ControlInv
  <2>2. CASE u = t
    <3>1. CallOK(t)' /\ FreshOK(t)' /\ UnusedOK(t)'
      BY <1>1, <1>2, <1>3, <2>1, <2>2 DEF CallOK, FreshOK, UnusedOK
    <3>. QED  BY <1>1, <1>2, <2>1, <2>2, <3>1 DEF InFile
  <2>3. CASE u # t
    <3>1. CallOK(u)' /\ UnusedOK(u)'
      BY <1>1, <1>2, <1>3, <2>1, <2>3 DEF CallOK, UnusedOK, Here
    <3>2. FreshOK(u)'
      <4>1. CASE op[u].name = "insert_new"
        <5>1. Here(u) \notin dirtied[t]
          BY <1>1, <2>3, <4>1, DirtyDisjoint
        <5>2. Here(u) \in PageId /\ Here(u)' = Here(u) /\ op'[u] = op[u]
          BY <1>3, <2>1, <2>3, <4>1, CallParts, ShortQueues DEF FreshOK, Here
        <5>3. pages'[Here(u)] = pages[Here(u)]
          BY <1>1, <5>1, <5>2
        <5>4. \A w \in Txn \ {u} : Here(u) \notin ToSet(op'[w].todo) /\ Here(u) \notin held_by_txn'[w]
          BY <1>2, <1>3, <2>1, <4>1 DEF FreshOK
        <5>5. status'[u] = "running"
          BY <1>2, <2>1, <2>3, <4>1 DEF FreshOK
        <5>. QED
          BY <1>1, <2>1, <4>1, <5>2, <5>3, <5>4, <5>5 DEF FreshOK, InFile
      <4>2. CASE op[u].name # "insert_new"
        BY <1>3, <2>3, <4>2 DEF FreshOK
      <4>. QED  BY <4>1, <4>2
    <3>. QED  BY <1>1, <1>2, <2>1, <2>3, <3>1, <3>2 DEF InFile
  <2>. QED  BY <2>2, <2>3
<1>. QED  BY <1>1, <1>4, <1>5 DEF ControlInv, InFile

\* A restart: nobody is in a call, and only transactions that had made none go on.
LEMMA AfterCrash ==
    ASSUME Typed, LP!IInv, ControlInv, Crash
    PROVE  /\ next_page_id \in 0..MaxPages
           /\ page_ids' \in Seq(PageId) /\ ToSet(page_ids') = InFile /\ IsInjective(page_ids')
           /\ \A t \in Txn : /\ op'[t] = NoCall /\ held_by_txn'[t] = {}
                             /\ status'[t] \in {"running", "done"}
                             /\ status'[t] # "done" => ops[t] = 0 /\ status[t] # "done"
           /\ pages' = disk
           /\ UNCHANGED <<next_page_id, disk, dirtied, ops, table, inserted, deleted, seen>>
<1>1. next_page_id \in 0..MaxPages
  BY InsertingFinite, Constants DEF ControlInv, Typed
<1>2. page_ids' = PageIdsOnOpen(next_page_id)
  BY DEF Crash
<1>3. page_ids' \in Seq(PageId) /\ ToSet(page_ids') = InFile /\ IsInjective(page_ids')
  BY <1>1, <1>2, PageIdsOfFile DEF InFile
<1>4. ASSUME NEW t \in Txn
      PROVE  /\ op'[t] = NoCall /\ held_by_txn'[t] = {}
             /\ status'[t] \in {"running", "done"}
             /\ status'[t] # "done" => ops[t] = 0 /\ status[t] # "done"
  <2>1. /\ op'[t] = NoCall /\ held_by_txn'[t] = {}
        /\ status'[t] = IF ops[t] > 0 THEN "done" ELSE status[t]
    BY DEF Crash
  <2>2. ops[t] \in Nat /\ CallOK(t) /\ UnusedOK(t)
    BY DEF Typed, ControlInv
  <2>3. ops[t] = 0 => status[t] \in {"running", "done"}
    BY <2>2, LocksTyped DEF CallOK, UnusedOK
  <2>. QED  BY <2>1, <2>2, <2>3
<1>5. /\ pages' = disk
      /\ UNCHANGED <<next_page_id, disk, dirtied, ops, table, inserted, deleted, seen>>
  BY DEF Crash, histvars
<1>. QED  BY <1>1, <1>3, <1>4, <1>5

\* So does a crash, after which page_ids_ is the whole file.
LEMMA ControlCrash ==
    ASSUME Typed, LP!IInv, ControlInv, Crash
    PROVE  ControlInv'
<1>1. Inserting' = {}
  BY AfterCrash, NoCallParts DEF Inserting
<1>2. next_page_id' + Cardinality(Inserting') <= MaxPages
  BY <1>1, AfterCrash, FS_EmptySet, Constants
<1>3. InFile' = InFile
  BY AfterCrash DEF InFile
<1>4. ASSUME NEW u \in Txn
      PROVE  /\ CallOK(u)' /\ FreshOK(u)' /\ UnusedOK(u)'
             /\ held_by_txn'[u] \subseteq InFile' /\ dirtied'[u] \subseteq InFile'
  <2>1. UnusedOK(u) /\ dirtied[u] \subseteq InFile
    BY DEF ControlInv
  <2>2. CallOK(u)' /\ FreshOK(u)'
    BY AfterCrash, NoCallParts DEF CallOK, FreshOK
  <2>3. UnusedOK(u)'
    BY <2>1, AfterCrash, NoCallParts DEF UnusedOK
  <2>. QED  BY <1>3, <2>1, <2>2, <2>3, AfterCrash
<1>. QED  BY <1>2, <1>3, <1>4, AfterCrash DEF ControlInv

\* So does every step.
LEMMA ControlInductive ==
    ASSUME Typed, LP!IInv, ControlInv, PagesInv, WritersHoldLocks, [Next]_vars
    PROVE  ControlInv'
<1>1. CASE UNCHANGED vars
  BY <1>1 DEF vars, lmvars, filevars, histvars, ControlInv, CallOK, FreshOK, UnusedOK, Inserting,
              InFile, Here
<1>. QED
  BY <1>1, StepShapes, ControlEnter, ControlLock, ControlRead, ControlWrite, ControlGrow, ControlEnd,
     ControlCrash
-----------------------------------------------------------------------------
\* The page that is written is in the file, and held by t alone.
LEMMA WrittenPage ==
    ASSUME Typed, LP!IInv, ControlInv, NEW t \in Txn, NEW p, NEW new, NEW I, NEW D,
           WriteShape(t, p, new, I, D)
    PROVE  /\ p \in InFile /\ p < next_page_id /\ p \in held_by_txn[t]
           /\ p \in ToSet(page_ids') /\ ToSet(page_ids) \subseteq ToSet(page_ids')
           /\ \A u \in Txn \ {t} : p \notin held_by_txn[u]
           /\ \A u \in Txn \ {t} : op[u].name = "insert_new" => p # Here(u)
<1>1. /\ p \in PageId /\ locks[p].exclusive_holder = t
      /\ \/ op[t].name \in {"insert", "delete"} /\ p \in ToSet(page_ids) /\ page_ids' = page_ids
         \/ op[t].name = "insert_new" /\ p = Here(t) /\ page_ids' = Append(page_ids, p)
  BY DEF WriteShape
<1>2. FreshOK(t) /\ ToSet(page_ids) \subseteq InFile /\ page_ids \in Seq(PageId)
  BY DEF ControlInv, Typed
<1>3. p \in InFile
  BY <1>1, <1>2 DEF FreshOK
<1>4. p \in held_by_txn[t] /\ \A u \in Txn \ {t} : p \notin held_by_txn[u]
  BY <1>1, Exclusion
<1>5. p < next_page_id
  BY <1>3 DEF InFile, Typed
<1>6. p \in ToSet(page_ids') /\ ToSet(page_ids) \subseteq ToSet(page_ids')
  <2>1. ToSet(Append(page_ids, p)) = ToSet(page_ids) \cup {p}
    BY <1>1, <1>2, AppendedElements
  <2> DEFINE a == Append(page_ids, p)
  <2> HIDE DEF a
  <2>2. page_ids' = a \/ (page_ids' = page_ids /\ p \in ToSet(page_ids))
    BY <1>1 DEF a
  <2>3. ToSet(a) = ToSet(page_ids) \cup {p}
    BY <2>1 DEF a
  <2>. QED  BY <2>2, <2>3
<1>7. \A u \in Txn \ {t} : op[u].name = "insert_new" => p # Here(u)
  BY <1>4 DEF ControlInv, FreshOK
<1>. QED  BY <1>3, <1>4, <1>5, <1>6, <1>7

\* The allocated page.
LEMMA GrownFile ==
    ASSUME Typed, ControlInv, NEW t \in Txn, GrowShape(t)
    PROVE  /\ op[t].name = "insert" /\ status[t] = "running"
           /\ next_page_id \in PageId /\ next_page_id \in Nat /\ next_page_id \notin InFile
           /\ next_page_id' = next_page_id + 1
           /\ pages' = [pages EXCEPT ![next_page_id] = InitHeapPage]
           /\ dirtied' = [dirtied EXCEPT ![t] = @ \cup {next_page_id}]
           /\ op'[t].name = "insert_new" /\ Here(t)' = next_page_id /\ op'[t].from = op[t].from
           /\ \A u \in Txn \ {t} : op'[u] = op[u]
           /\ UNCHANGED <<locks, held_by_txn, status, request, page_ids, disk, ops, table, inserted,
                          deleted, seen>>
<1> DEFINE n == next_page_id
           c == [[op[t] EXCEPT !.name = "insert_new"] EXCEPT !.todo = <<n>>]
<1>1. /\ op[t].name = "insert" /\ status[t] = "running"
      /\ n' = n + 1
      /\ pages' = [pages EXCEPT ![n] = InitHeapPage]
      /\ dirtied' = [dirtied EXCEPT ![t] = @ \cup {n}]
      /\ op' = [op EXCEPT ![t] = c]
      /\ UNCHANGED <<locks, held_by_txn, status, request, page_ids, disk, ops, table, inserted,
                     deleted, seen>>
  BY DEF GrowShape, NewHeapPage, lmvars, histvars
<1>2. n \in PageId /\ n \in Nat /\ n \notin InFile
  <2>1. n \in PageId /\ n \in Nat
    BY <1>1, RoomToGrow
  <2>. QED  BY <2>1 DEF InFile
<1>3. c.name = "insert_new" /\ c.from = op[t].from /\ c.todo = <<n>>
  BY CallParts DEF CallType
<1> HIDE DEF c
<1>4. op'[t] = c /\ \A u \in Txn \ {t} : op'[u] = op[u]
  BY <1>1, OthersCalls
<1>5. Head(<<n>>) = n
  BY ShortQueues
<1>. QED  BY <1>1, <1>2, <1>3, <1>4, <1>5 DEF Here

\* Every step keeps the pages well formed.
LEMMA PagesInductive ==
    ASSUME Typed, LP!IInv, ControlInv, PagesInv, [Next]_vars
    PROVE  PagesInv'
<1>1. ASSUME UNCHANGED <<pages, disk, next_page_id>> PROVE PagesInv'
  BY <1>1 DEF PagesInv
<1>2. ASSUME NEW t \in Txn,
             \/ \E c : EnterShape(t, c)
             \/ \E c, S : ReadShape(t, c, S)
             \/ LockPage(t) \/ RecheckLock(t)
      PROVE  UNCHANGED <<pages, disk, next_page_id>>
  BY <1>2 DEF EnterShape, ReadShape, LockPage, RecheckLock, filevars
<1>3. ASSUME NEW t \in Txn, NEW p, NEW new, NEW I, NEW D, WriteShape(t, p, new, I, D)
      PROVE  PagesInv'
  <2>1. /\ p \in PageId /\ PageOK(new) /\ pages' = [pages EXCEPT ![p] = new]
        /\ UNCHANGED <<disk, next_page_id>>
    BY <1>3 DEF WriteShape
  <2>2. p < next_page_id /\ next_page_id \in Nat /\ p \in Nat
    BY <1>3, <2>1, WrittenPage, Constants DEF Typed
  <2>3. pages'[p] = new /\ \A q \in PageId \ {p} : pages'[q] = pages[q]
    BY <2>1 DEF Typed
  <2>4. \A q \in PageId : q >= next_page_id => q # p
    BY <2>2
  <2>5. ASSUME NEW q \in PageId
        PROVE  /\ PageOK(pages'[q]) /\ PageOK(disk'[q])
               /\ q >= next_page_id' => pages'[q] = Zeroed /\ disk'[q] = Zeroed
    BY <2>1, <2>3, <2>4 DEF PagesInv
  <2>. QED  BY <2>5 DEF PagesInv
<1>4. ASSUME NEW t \in Txn, GrowShape(t) PROVE PagesInv'
  <2>1. PageOK(InitHeapPage)
    BY EmptyPages, Constants DEF PageOK
  <2>2. /\ next_page_id \in PageId /\ next_page_id \in Nat /\ next_page_id' = next_page_id + 1
        /\ pages' = [pages EXCEPT ![next_page_id] = InitHeapPage] /\ disk' = disk
    BY <1>4, GrownFile
  <2>3. /\ pages'[next_page_id] = InitHeapPage
        /\ \A q \in PageId \ {next_page_id} : pages'[q] = pages[q]
    BY <2>2 DEF Typed
  <2>4. \A q \in PageId : q >= next_page_id + 1 => q >= next_page_id /\ q # next_page_id
    BY <2>2, Constants
  <2>. QED  BY <2>1, <2>2, <2>3, <2>4 DEF PagesInv
<1>5. ASSUME NEW t \in Txn, Commit(t) PROVE PagesInv'
  <2>1. /\ \A p \in PageId : disk'[p] = IF p \in dirtied[t] THEN pages[p] ELSE disk[p]
        /\ UNCHANGED <<pages, next_page_id>>
    BY <1>5 DEF Commit
  <2>. QED  BY <2>1 DEF PagesInv
<1>6. ASSUME NEW t \in Txn, Abort(t) PROVE PagesInv'
  <2>1. /\ \A p \in PageId : pages'[p] = IF p \in dirtied[t] THEN disk[p] ELSE pages[p]
        /\ UNCHANGED <<disk, next_page_id>>
    BY <1>6 DEF Abort
  <2>. QED  BY <2>1 DEF PagesInv
<1>7. CASE Crash
  BY <1>7 DEF Crash, PagesInv
<1>8. UNCHANGED vars => UNCHANGED <<pages, disk, next_page_id>>
  BY DEF vars, filevars
<1>. QED  BY <1>1, <1>2, <1>3, <1>4, <1>5, <1>6, <1>7, <1>8, StepShapes

\* Uncommitted changes stay under exclusive locks.
LEMMA WritersInductive ==
    ASSUME Typed, LP!IInv, ControlInv, PagesInv, WritersHoldLocks, [Next]_vars
    PROVE  WritersHoldLocks'
<1> SUFFICES ASSUME NEW u \in Txn, Active(u)', NEW q \in dirtied'[u]
             PROVE  locks'[q].exclusive_holder = u \/ (op'[u].name = "insert_new" /\ q = Here(u)')
  BY DEF WritersHoldLocks
<1>0. status'[u] # "done"
  BY DEF Active
<1>1. dirtied \in [Txn -> SUBSET PageId] /\ dirtied' \in [Txn -> SUBSET PageId] /\ q \in PageId
  BY TypedInductive DEF Typed
<1>2. ASSUME Active(u), q \in dirtied[u], ~Crash,
             op[u].name = "insert_new" =>
                 \/ op'[u] = op[u]
                 \/ q = Here(u) => locks'[q].exclusive_holder = u
      PROVE  locks'[q].exclusive_holder = u \/ (op'[u].name = "insert_new" /\ q = Here(u)')
  <2>1. locks[q].exclusive_holder = u \/ (op[u].name = "insert_new" /\ q = Here(u))
    BY <1>2 DEF WritersHoldLocks
  <2>2. locks[q].exclusive_holder = u => locks'[q].exclusive_holder = u
    BY <1>0, <1>1, <1>2, ExclusiveKept
  <2>. QED  BY <1>2, <2>1, <2>2 DEF Here
<1>3. CASE Crash
  <2>1. ops[u] = 0 /\ dirtied'[u] = dirtied[u]
    BY <1>0, <1>3, AfterCrash
  <2>2. dirtied[u] = {}
    BY <2>1 DEF ControlInv, UnusedOK
  <2>. QED  BY <2>1, <2>2
<1>4. CASE ~Crash
  <2>1. ASSUME NEW t \in Txn, NEW c, EnterShape(t, c)
        PROVE  Active(u) /\ dirtied' = dirtied /\ (op[u].name = "insert_new" => op'[u] = op[u])
    BY <1>0, <2>1, OthersCalls DEF EnterShape, Active, lmvars, filevars
  <2>2. ASSUME NEW t \in Txn, NEW c, NEW S, ReadShape(t, c, S)
        PROVE  Active(u) /\ dirtied' = dirtied /\ (op[u].name = "insert_new" => op'[u] = op[u])
    BY <1>0, <2>2, OthersCalls DEF ReadShape, Active, lmvars, filevars
  <2>3. ASSUME NEW t \in Txn, LockPage(t) \/ RecheckLock(t)
        PROVE  Active(u) /\ dirtied' = dirtied /\ op' = op
    <3>1. /\ op[t].todo # <<>> /\ Here(t) \in PageId /\ status[t] \in {"running", "awake"}
          /\ \E m \in LM!LockMode : LM!LoopBody(t, Here(t), m)
          /\ dirtied' = dirtied /\ op' = op
      BY <2>3, LockStep DEF filevars
    <3>2. \A w \in Txn \ {t} : status'[w] = status[w]
      BY <3>1, PassThroughLoop
    <3>. QED  BY <1>0, <3>1, <3>2 DEF Active
  <2>4. ASSUME NEW t \in Txn, NEW p, NEW new, NEW I, NEW D, WriteShape(t, p, new, I, D)
        PROVE  locks'[q].exclusive_holder = u \/ (op'[u].name = "insert_new" /\ q = Here(u)')
    <3>1. /\ p \in PageId /\ locks[p].exclusive_holder = t /\ op' = [op EXCEPT ![t] = NoCall]
          /\ dirtied' = [dirtied EXCEPT ![t] = @ \cup {p}] /\ UNCHANGED <<locks, status>>
          /\ op[t].name = "insert_new" => p = Here(t)
      BY <2>4 DEF WriteShape, lmvars
    <3>2. CASE u = t /\ q = p
      BY <3>1, <3>2
    <3>3. CASE u # t \/ q # p
      <4>1. q \in dirtied[u] /\ Active(u)
        BY <1>0, <1>1, <3>1, <3>3 DEF Active
      <4>2. op[u].name = "insert_new" => op'[u] = op[u] \/ (q = Here(u) => locks'[q].exclusive_holder = u)
        BY <3>1, OthersCalls
      <4>. QED  BY <1>2, <1>4, <4>1, <4>2
    <3>. QED  BY <3>2, <3>3
  <2>5. ASSUME NEW t \in Txn, GrowShape(t)
        PROVE  locks'[q].exclusive_holder = u \/ (op'[u].name = "insert_new" /\ q = Here(u)')
    <3>1. /\ op[t].name = "insert" /\ dirtied' = [dirtied EXCEPT ![t] = @ \cup {next_page_id}]
          /\ op'[t].name = "insert_new" /\ Here(t)' = next_page_id /\ status' = status
          /\ \A w \in Txn \ {t} : op'[w] = op[w]
      BY <2>5, GrownFile
    <3>2. CASE u = t /\ q = next_page_id
      BY <3>1, <3>2
    <3>3. CASE u # t \/ q # next_page_id
      <4>1. q \in dirtied[u] /\ Active(u)
        BY <1>0, <1>1, <3>1, <3>3 DEF Active
      <4>2. op[u].name = "insert_new" => op'[u] = op[u]
        BY <3>1
      <4>. QED  BY <1>2, <1>4, <4>1, <4>2
    <3>. QED  BY <3>2, <3>3
  <2>6. ASSUME NEW t \in Txn, Commit(t) \/ Abort(t)
        PROVE  Active(u) /\ dirtied' = dirtied /\ op'[u] = op[u]
    <3>1. /\ LM!ReleaseAll(t) /\ dirtied' = dirtied
          /\ op' = [op EXCEPT ![t] = NoCall] \/ op' = op
      BY <2>6 DEF Commit, Abort, Return
    <3>2. status'[t] = "done" /\ \A w \in Txn \ {t} : \/ status'[w] = status[w]
                                                      \/ status[w] = "asleep" /\ status'[w] = "awake"
      BY <3>1, Releasing
    <3>. QED  BY <1>0, <3>1, <3>2, OthersCalls DEF Active
  <2>7. UNCHANGED vars => Active(u) /\ dirtied' = dirtied /\ op' = op
    BY <1>0 DEF vars, lmvars, filevars, Active
  <2>. QED  BY <1>2, <1>4, <2>1, <2>2, <2>3, <2>4, <2>5, <2>6, <2>7, StepShapes
<1>. QED  BY <1>3, <1>4
-----------------------------------------------------------------------------
\* The steps that leave pages, changes and the openness of transactions alone.
LEMMA QuietSteps ==
    ASSUME Typed, LP!IInv, ControlInv, NEW t \in Txn,
           \/ \E c : EnterShape(t, c)
           \/ \E c, S : ReadShape(t, c, S)
           \/ LockPage(t) \/ RecheckLock(t)
    PROVE  /\ \A u \in Txn : Active(u)' <=> Active(u)
           /\ UNCHANGED <<page_ids, next_page_id, pages, disk, dirtied, table, inserted, deleted>>
<1>1. CASE (\E c : EnterShape(t, c)) \/ (\E c, S : ReadShape(t, c, S))
  BY <1>1 DEF EnterShape, ReadShape, lmvars, filevars, histvars, Active
<1>2. CASE LockPage(t) \/ RecheckLock(t)
  <2>1. /\ Here(t) \in PageId /\ status[t] \in {"running", "awake"}
        /\ \E m \in LM!LockMode : LM!LoopBody(t, Here(t), m)
        /\ UNCHANGED <<page_ids, next_page_id, pages, disk, dirtied, table, inserted, deleted>>
    BY <1>2, LockStep DEF filevars, histvars
  <2>2. /\ status'[t] \in {"running", "asleep", "dying"}
        /\ \A u \in Txn \ {t} : status'[u] = status[u]
    BY <2>1, PassThroughLoop
  <2>. QED  BY <2>1, <2>2 DEF Active
<1>. QED  BY <1>1, <1>2

\* The end of t, by Commit or Abort.
LEMMA EndSteps ==
    ASSUME Typed, LP!IInv, ControlInv, NEW t \in Txn, Commit(t) \/ Abort(t)
    PROVE  /\ Active(t) /\ ~Active(t)' /\ \A u \in Txn \ {t} : Active(u)' <=> Active(u)
           /\ held_by_txn'[t] = {} /\ \A u \in Txn \ {t} : held_by_txn'[u] = held_by_txn[u]
           /\ op'[t].name = "none" /\ \A u \in Txn \ {t} : op'[u] = op[u]
           /\ op'[t].from \subseteq op[t].from
           /\ Commit(t) => /\ \A p \in PageId : disk'[p] = IF p \in dirtied[t] THEN pages[p] ELSE disk[p]
                           /\ table' = (table \cup inserted[t]) \ deleted[t]
                           /\ pages' = pages
           /\ Abort(t) => /\ \A p \in PageId : pages'[p] = IF p \in dirtied[t] THEN disk[p] ELSE pages[p]
                          /\ UNCHANGED <<disk, table>>
           /\ UNCHANGED <<page_ids, next_page_id, dirtied, ops, inserted, deleted, seen>>
<1>1. /\ LM!ReleaseAll(t)
      /\ op' = [op EXCEPT ![t] = NoCall] \/ (op' = op /\ op[t].name = "none")
      /\ Commit(t) => /\ \A p \in PageId : disk'[p] = IF p \in dirtied[t] THEN pages[p] ELSE disk[p]
                      /\ table' = (table \cup inserted[t]) \ deleted[t]
                      /\ pages' = pages
      /\ Abort(t) => /\ \A p \in PageId : pages'[p] = IF p \in dirtied[t] THEN disk[p] ELSE pages[p]
                     /\ UNCHANGED <<disk, table>>
      /\ UNCHANGED <<page_ids, next_page_id, dirtied, ops, inserted, deleted, seen>>
  BY DEF Commit, Abort, Return, histvars
<1>2. status[t] \in {"running", "dying"}
  BY <1>1 DEF LM!ReleaseAll
<1>3. /\ status'[t] = "done" /\ held_by_txn'[t] = {}
      /\ \A u \in Txn \ {t} : /\ held_by_txn'[u] = held_by_txn[u]
                              /\ \/ status'[u] = status[u]
                                 \/ status[u] = "asleep" /\ status'[u] = "awake"
  BY <1>1, Releasing
<1>4. op'[t].name = "none" /\ op'[t].from \subseteq op[t].from /\ \A u \in Txn \ {t} : op'[u] = op[u]
  BY <1>1, NoCallParts DEF Typed
<1>5. Active(t) /\ ~Active(t)' /\ \A u \in Txn \ {t} : Active(u)' <=> Active(u)
  BY <1>2, <1>3 DEF Active
<1>. QED  BY <1>1, <1>3, <1>4, <1>5

\* A page t writes is on no other open transaction's list.
LEMMA WrittenAlone ==
    ASSUME Typed, LP!IInv, ControlInv, WritersHoldLocks, NEW t \in Txn, NEW p, NEW new, NEW I, NEW D,
           WriteShape(t, p, new, I, D)
    PROVE  Active(t) /\ \A u \in Txn \ {t} : Active(u) => p \notin dirtied[u]
<1>1. p \in PageId /\ locks[p].exclusive_holder = t /\ status[t] = "running"
  BY DEF WriteShape
<1>2. \A u \in Txn \ {t} : op[u].name = "insert_new" => p # Here(u)
  BY WrittenPage
<1>. QED  BY <1>1, <1>2 DEF WritersHoldLocks, Active

\* Other pages are as in the file.
LEMMA CleanInductive ==
    ASSUME Typed, LP!IInv, ControlInv, PagesInv, WritersHoldLocks, CleanPages, [Next]_vars
    PROVE  CleanPages'
<1> SUFFICES ASSUME NEW q \in PageId, \A u \in Txn : Active(u)' => q \notin dirtied'[u]
             PROVE  pages'[q] = disk'[q]
  BY DEF CleanPages
<1>0. \A u \in Txn : dirtied[u] \subseteq PageId
  BY DEF Typed
<1>1. ASSUME \A u \in Txn : Active(u) => q \notin dirtied[u] PROVE pages[q] = disk[q]
  BY <1>1 DEF CleanPages
<1>2. ASSUME NEW t \in Txn,
             \/ \E c : EnterShape(t, c)
             \/ \E c, S : ReadShape(t, c, S)
             \/ LockPage(t) \/ RecheckLock(t)
      PROVE  pages'[q] = disk'[q]
  BY <1>1, <1>2, QuietSteps
<1>3. ASSUME NEW t \in Txn, NEW p, NEW new, NEW I, NEW D, WriteShape(t, p, new, I, D)
      PROVE  pages'[q] = disk'[q]
  <2>1. /\ p \in PageId /\ pages' = [pages EXCEPT ![p] = new] /\ status' = status /\ disk' = disk
        /\ dirtied' = [dirtied EXCEPT ![t] = @ \cup {p}] /\ status[t] = "running"
    BY <1>3 DEF WriteShape, lmvars
  <2>2. p \in dirtied'[t] /\ \A u \in Txn : dirtied[u] \subseteq dirtied'[u]
    BY <2>1 DEF Typed
  <2>3. \A u \in Txn : Active(u)' <=> Active(u)
    BY <2>1 DEF Active
  <2>4. q # p
    BY <2>1, <2>2, <2>3 DEF Active
  <2>. QED  BY <1>1, <2>1, <2>2, <2>3, <2>4 DEF Typed
<1>4. ASSUME NEW t \in Txn, GrowShape(t) PROVE pages'[q] = disk'[q]
  <2>1. /\ next_page_id \in PageId /\ pages' = [pages EXCEPT ![next_page_id] = InitHeapPage]
        /\ dirtied' = [dirtied EXCEPT ![t] = @ \cup {next_page_id}]
        /\ status' = status /\ disk' = disk /\ status[t] = "running"
    BY <1>4, GrownFile
  <2>2. next_page_id \in dirtied'[t] /\ \A u \in Txn : dirtied[u] \subseteq dirtied'[u]
    BY <2>1 DEF Typed
  <2>3. \A u \in Txn : Active(u)' <=> Active(u)
    BY <2>1 DEF Active
  <2>4. q # next_page_id
    BY <2>1, <2>2, <2>3 DEF Active
  <2>. QED  BY <1>1, <2>1, <2>2, <2>3, <2>4 DEF Typed
<1>5. ASSUME NEW t \in Txn, Commit(t) \/ Abort(t) PROVE pages'[q] = disk'[q]
  <2>1. CASE q \in dirtied[t]
    BY <1>5, <2>1, EndSteps
  <2>2. CASE q \notin dirtied[t]
    <3>1. \A u \in Txn : Active(u) => q \notin dirtied[u]
      BY <1>5, <2>2, EndSteps
    <3>. QED  BY <1>1, <1>5, <2>2, <3>1, EndSteps
  <2>. QED  BY <2>1, <2>2
<1>6. CASE Crash
  BY <1>6 DEF Crash
<1>7. CASE UNCHANGED vars
  <2>1. UNCHANGED <<pages, disk, dirtied, status>>
    BY <1>7 DEF vars, lmvars, filevars
  <2>. QED  BY <1>1, <2>1 DEF Active
<1>. QED  BY <1>2, <1>3, <1>4, <1>5, <1>6, <1>7, StepShapes

\* A page under t's lock is the file's page with t's own changes.
LEMMA LockedPage ==
    ASSUME Typed, LP!IInv, ControlInv, WritersHoldLocks, CleanPages, ChangesInv,
           NEW t \in Txn, Active(t), NEW p \in PageId, p \in held_by_txn[t]
    PROVE  Records(p, pages[p]) =
               (Records(p, disk[p]) \cup OnPage(inserted[t], p)) \ OnPage(deleted[t], p)
<1>1. CASE p \in dirtied[t]
  BY <1>1 DEF ChangesInv, ChangesOK
<1>2. CASE p \notin dirtied[t]
  <2>1. ASSUME NEW u \in Txn \ {t}, Active(u), p \in dirtied[u] PROVE FALSE
    <3>1. locks[p].exclusive_holder = u \/ (op[u].name = "insert_new" /\ p = Here(u))
      BY <2>1 DEF WritersHoldLocks
    <3>2. locks[p].exclusive_holder # u
      BY <2>1, Exclusion
    <3>3. op[u].name = "insert_new" => Here(u) \notin held_by_txn[t]
      BY <2>1 DEF ControlInv, FreshOK
    <3>. QED  BY <3>1, <3>2, <3>3
  <2>2. pages[p] = disk[p]
    BY <1>2, <2>1 DEF CleanPages
  <2>3. OnPage(inserted[t], p) = {} /\ OnPage(deleted[t], p) = {}
    BY <1>2 DEF ChangesInv, ChangesOK, OnPage
  <2>. QED  BY <2>2, <2>3
<1>. QED  BY <1>1, <1>2

\* The changes t has made when it writes once more.
LEMMA ChangesWrite ==
    ASSUME Typed, LP!IInv, ControlInv, WritersHoldLocks, CleanPages, ChangesInv,
           NEW t \in Txn, NEW p, NEW new, NEW I, NEW D, WriteShape(t, p, new, I, D)
    PROVE  ChangesInv'
<1>1. /\ p \in PageId /\ new \in Page /\ I \in SUBSET Rid /\ D \in SUBSET Rid
      /\ Len(pages[p].slots) <= Len(new.slots)
      /\ Records(p, new) = (Records(p, pages[p]) \cup I) \ D
      /\ \A r \in I : r.page_id = p /\ r.row = t /\ r.slot_id > Len(pages[p].slots)
      /\ \A r \in D : r.page_id = p /\ r.slot_id <= Len(new.slots)
      /\ pages' = [pages EXCEPT ![p] = new] /\ dirtied' = [dirtied EXCEPT ![t] = @ \cup {p}]
      /\ inserted' = [inserted EXCEPT ![t] = @ \cup I]
      /\ deleted' = [deleted EXCEPT ![t] = @ \cup D]
      /\ UNCHANGED <<disk, status>>
  BY DEF WriteShape, lmvars
<1>2. /\ p \in held_by_txn[t] /\ p \in ToSet(page_ids') /\ ToSet(page_ids) \subseteq ToSet(page_ids')
      /\ Active(t) /\ \A u \in Txn \ {t} : Active(u) => p \notin dirtied[u]
  BY WrittenPage, WrittenAlone
<1>3. /\ pages'[p] = new /\ \A q \in PageId \ {p} : pages'[q] = pages[q]
      /\ dirtied'[t] = dirtied[t] \cup {p}
      /\ inserted'[t] = inserted[t] \cup I /\ deleted'[t] = deleted[t] \cup D
      /\ \A u \in Txn \ {t} : /\ dirtied'[u] = dirtied[u]
                              /\ inserted'[u] = inserted[u] /\ deleted'[u] = deleted[u]
  BY <1>1 DEF Typed
<1>4. \A u \in Txn : Active(u)' <=> Active(u)
  BY <1>1 DEF Active
<1>5. ASSUME NEW u \in Txn \ {t} PROVE ChangesOK(u)'
  <2>1. ChangesOK(u) /\ dirtied[u] \subseteq PageId
    BY DEF ChangesInv, Typed
  <2>2. Active(u) => \A q \in dirtied[u] : q # p /\ pages'[q] = pages[q]
    BY <1>2, <1>3, <2>1
  <2>3. \A r \in inserted'[u] \cup deleted'[u] : r.page_id \in dirtied'[u]
    BY <1>3, <2>1 DEF ChangesOK
  <2>4. \A r \in inserted'[u] : r.row = u /\ r.page_id \in ToSet(page_ids')
    BY <1>2, <1>3, <2>1 DEF ChangesOK
  <2>5. ASSUME Active(u)
        PROVE  /\ \A r \in deleted'[u] : r.slot_id <= Len(pages'[r.page_id].slots)
               /\ \A q \in dirtied'[u] :
                     Records(q, pages'[q]) =
                         (Records(q, disk'[q]) \cup OnPage(inserted'[u], q)) \ OnPage(deleted'[u], q)
    BY <1>1, <1>3, <2>1, <2>2, <2>5 DEF ChangesOK
  <2>. QED  BY <1>4, <2>3, <2>4, <2>5 DEF ChangesOK
<1>6. ChangesOK(t)'
  <2>1. ChangesOK(t) /\ dirtied[t] \subseteq PageId
    BY DEF ChangesInv, Typed
  <2>2. \A r \in inserted'[t] \cup deleted'[t] : r.page_id \in dirtied'[t]
    BY <1>1, <1>3, <2>1 DEF ChangesOK
  <2>3. \A r \in inserted'[t] : r.row = t /\ r.page_id \in ToSet(page_ids')
    BY <1>1, <1>2, <1>3, <2>1 DEF ChangesOK
  <2>4. Len(pages[p].slots) \in Nat /\ Len(new.slots) \in Nat
    BY <1>1, PageParts DEF Typed
  <2>5. \A r \in Rid : r.slot_id \in Nat /\ r.page_id \in PageId
    BY DEF Rid
  <2>6. inserted[t] \in SUBSET Rid /\ deleted[t] \in SUBSET Rid
    BY DEF Typed
  <2>7. ASSUME NEW r \in deleted'[t] PROVE r.slot_id <= Len(pages'[r.page_id].slots)
    <3>1. CASE r \in D
      BY <1>1, <1>3, <3>1
    <3>2. CASE r \in deleted[t] /\ r.page_id # p
      BY <1>2, <1>3, <2>1, <2>5, <2>6, <3>2 DEF ChangesOK
    <3>3. CASE r \in deleted[t] /\ r.page_id = p
      <4>1. r.slot_id <= Len(pages[p].slots) /\ r.slot_id \in Nat
        BY <1>2, <2>1, <2>5, <2>6, <3>3 DEF ChangesOK
      <4>. QED  BY <1>1, <1>3, <2>4, <3>3, <4>1
    <3>. QED  BY <1>3, <3>1, <3>2, <3>3
  <2>8. ASSUME NEW q \in dirtied'[t]
        PROVE  Records(q, pages'[q]) =
                   (Records(q, disk'[q]) \cup OnPage(inserted'[t], q)) \ OnPage(deleted'[t], q)
    <3>1. CASE q # p
      <4>1. q \in dirtied[t] /\ pages'[q] = pages[q] /\ disk'[q] = disk[q]
        BY <1>1, <1>3, <2>1, <3>1
      <4>2. OnPage(inserted'[t], q) = OnPage(inserted[t], q) /\ OnPage(deleted'[t], q) = OnPage(deleted[t], q)
        BY <1>1, <1>3, <3>1 DEF OnPage
      <4>. QED  BY <1>2, <2>1, <4>1, <4>2 DEF ChangesOK
    <3>2. CASE q = p
      <4>1. Records(p, pages[p]) =
               (Records(p, disk[p]) \cup OnPage(inserted[t], p)) \ OnPage(deleted[t], p)
        BY <1>1, <1>2, LockedPage
      <4>2. OnPage(inserted'[t], p) = OnPage(inserted[t], p) \cup I
        BY <1>1, <1>3 DEF OnPage
      <4>3. OnPage(deleted'[t], p) = OnPage(deleted[t], p) \cup D
        BY <1>1, <1>3 DEF OnPage
      <4>4. ASSUME NEW r \in I, r \in OnPage(deleted[t], p) PROVE FALSE
        <5>1. r \in deleted[t] /\ r.page_id = p /\ r.slot_id \in Nat
          BY <2>5, <2>6, <4>4 DEF OnPage
        <5>2. r.slot_id <= Len(pages[p].slots)
          BY <1>2, <2>1, <5>1 DEF ChangesOK
        <5>3. r.slot_id > Len(pages[p].slots)
          BY <1>1
        <5>. QED  BY <2>4, <5>1, <5>2, <5>3
      <4>. QED  BY <1>1, <1>3, <3>2, <4>1, <4>2, <4>3, <4>4
    <3>. QED  BY <3>1, <3>2
  <2>. QED  BY <2>2, <2>3, <2>7, <2>8 DEF ChangesOK
<1>. QED  BY <1>5, <1>6 DEF ChangesInv

\* Every step keeps the account of what running transactions changed.
LEMMA ChangesInductive ==
    ASSUME Typed, LP!IInv, ControlInv, PagesInv, WritersHoldLocks, CleanPages, ChangesInv, [Next]_vars
    PROVE  ChangesInv'
<1>1. ASSUME NEW t \in Txn,
             \/ \E c : EnterShape(t, c)
             \/ \E c, S : ReadShape(t, c, S)
             \/ LockPage(t) \/ RecheckLock(t)
      PROVE  ChangesInv'
  BY <1>1, QuietSteps DEF ChangesInv, ChangesOK
<1>2. ASSUME NEW t \in Txn, GrowShape(t) PROVE ChangesInv'
  <2> DEFINE n == next_page_id
  <2>1. /\ n \in PageId /\ n \in Nat /\ n \notin InFile /\ pages' = [pages EXCEPT ![n] = InitHeapPage]
        /\ dirtied' = [dirtied EXCEPT ![t] = @ \cup {n}]
        /\ UNCHANGED <<status, disk, page_ids, inserted, deleted>>
    BY <1>2, GrownFile
  <2>2. /\ pages'[n] = InitHeapPage /\ \A q \in PageId \ {n} : pages'[q] = pages[q]
        /\ dirtied'[t] = dirtied[t] \cup {n} /\ \A u \in Txn \ {t} : dirtied'[u] = dirtied[u]
    BY <2>1 DEF Typed
  <2>3. Records(n, pages'[n]) = {} /\ Records(n, disk[n]) = {}
    BY <2>1, <2>2, EmptyPages DEF PagesInv
  <2> HIDE DEF n
  <2>4. ASSUME NEW u \in Txn PROVE ChangesOK(u)'
    <3>1. ChangesOK(u) /\ dirtied[u] \subseteq InFile /\ dirtied[u] \subseteq PageId
      BY DEF ChangesInv, ControlInv, Typed
    <3>2. dirtied[u] \subseteq dirtied'[u] /\ dirtied'[u] \subseteq dirtied[u] \cup {n}
      BY <2>2
    <3>3. \A q \in dirtied[u] : q # n /\ pages'[q] = pages[q]
      BY <2>1, <2>2, <3>1
    <3>4. Active(u)' <=> Active(u)
      BY <2>1 DEF Active
    <3>5. OnPage(inserted[u], n) = {} /\ OnPage(deleted[u], n) = {}
      BY <3>1, <3>3 DEF ChangesOK, OnPage
    <3>6. ASSUME Active(u), NEW q \in dirtied'[u]
          PROVE  Records(q, pages'[q]) =
                   (Records(q, disk'[q]) \cup OnPage(inserted'[u], q)) \ OnPage(deleted'[u], q)
      <4>1. CASE q = n
        BY <2>1, <2>3, <3>5, <4>1
      <4>2. CASE q \in dirtied[u]
        BY <2>1, <3>1, <3>3, <3>6, <4>2 DEF ChangesOK
      <4>. QED  BY <3>2, <4>1, <4>2
    <3>7. Active(u) => \A r \in deleted'[u] : r.slot_id <= Len(pages'[r.page_id].slots)
      BY <2>1, <3>1, <3>3 DEF ChangesOK
    <3>. QED  BY <2>1, <3>1, <3>2, <3>4, <3>6, <3>7 DEF ChangesOK
  <2>. QED  BY <2>4 DEF ChangesInv
<1>3. ASSUME NEW t \in Txn, Commit(t) \/ Abort(t), NEW u \in Txn PROVE ChangesOK(u)'
  <2>1. ChangesOK(u) /\ dirtied[u] \subseteq PageId
    BY DEF ChangesInv, Typed
  <2>2. UNCHANGED <<page_ids, dirtied, inserted, deleted>>
    BY <1>3, EndSteps
  <2>3. CASE u = t
    <3>1. ~Active(t)'
      BY <1>3, EndSteps
    <3>. QED  BY <2>1, <2>2, <2>3, <3>1 DEF ChangesOK
  <2>4. CASE u # t
    <3>1. Active(t) /\ (Active(u)' <=> Active(u))
      BY <1>3, <2>4, EndSteps
    <3>2. Active(u) => dirtied[t] \cap dirtied[u] = {}
      BY <2>4, <3>1, DirtyDisjoint
    <3>3. Active(u) => \A q \in dirtied[u] : pages'[q] = pages[q] /\ disk'[q] = disk[q]
      BY <1>3, <2>1, <3>2, EndSteps
    <3>. QED  BY <2>1, <2>2, <3>1, <3>3 DEF ChangesOK
  <2>. QED  BY <2>3, <2>4
<1>4. ASSUME Crash, NEW u \in Txn PROVE ChangesOK(u)'
  <2>1. ChangesOK(u) /\ dirtied[u] \subseteq InFile /\ UnusedOK(u)
    BY DEF ChangesInv, ControlInv
  <2>2. /\ UNCHANGED <<dirtied, inserted, deleted>> /\ ToSet(page_ids') = InFile
        /\ Active(u)' => ops[u] = 0
    BY <1>4, AfterCrash DEF Active
  <2>3. Active(u)' => dirtied[u] = {} /\ deleted[u] = {}
    BY <2>1, <2>2 DEF UnusedOK
  <2>. QED  BY <2>1, <2>2, <2>3 DEF ChangesOK
<1>5. CASE UNCHANGED vars
  BY <1>5 DEF vars, lmvars, filevars, histvars, ChangesInv, ChangesOK, Active
<1>. QED  BY <1>1, <1>2, <1>3, <1>4, <1>5, ChangesWrite, StepShapes DEF ChangesInv
-----------------------------------------------------------------------------
\* FileIsCommitted record by record.
LEMMA TableByPage ==
    ASSUME Typed
    PROVE  FileIsCommitted <=>
              \A r \in Rid : r \in table <=> r \in Records(r.page_id, disk[r.page_id])
<1>1. \A p \in PageId : /\ Records(p, disk[p]) \subseteq Rid
                        /\ \A r \in Records(p, disk[p]) : r.page_id = p
  BY RecordParts DEF Typed
<1>2. \A r \in Rid : r.page_id \in PageId
  BY DEF Rid
<1>3. \A r : r \in UNION {Records(p, disk[p]) : p \in PageId} <=>
             r \in Rid /\ r \in Records(r.page_id, disk[r.page_id])
  BY <1>1, <1>2
<1>4. table \in SUBSET Rid
  BY DEF Typed
<1>. QED  BY <1>3, <1>4 DEF FileIsCommitted

\* What Commit makes of the file is what it makes of the table.
LEMMA CommitWrites ==
    ASSUME Typed, LP!IInv, ControlInv, ChangesInv, FileIsCommitted, NEW t \in Txn, Commit(t), Typed'
    PROVE  FileIsCommitted'
<1>1. \A r \in Rid : r \in table <=> r \in Records(r.page_id, disk[r.page_id])
  BY TableByPage
<1>2. FileIsCommitted' <=>
         \A r \in Rid : r \in table' <=> r \in Records(r.page_id, disk'[r.page_id])
  <2>1. \A p \in PageId : /\ Records(p, disk'[p]) \subseteq Rid
                          /\ \A r \in Records(p, disk'[p]) : r.page_id = p
    BY RecordParts DEF Typed
  <2>2. \A r \in Rid : r.page_id \in PageId
    BY DEF Rid
  <2>3. \A r : r \in UNION {Records(p, disk'[p]) : p \in PageId} <=>
               r \in Rid /\ r \in Records(r.page_id, disk'[r.page_id])
    BY <2>1, <2>2
  <2>4. table' \in SUBSET Rid
    BY DEF Typed
  <2>5. FileIsCommitted' <=> UNION {Records(p, disk'[p]) : p \in PageId} = table'
    BY DEF FileIsCommitted, Records, Record, Live
  <2>. QED  BY <2>3, <2>4, <2>5
<1>3. /\ Active(t) /\ table' = (table \cup inserted[t]) \ deleted[t]
      /\ \A p \in PageId : disk'[p] = IF p \in dirtied[t] THEN pages[p] ELSE disk[p]
  BY EndSteps
<1>4. ChangesOK(t)
  BY DEF ChangesInv
<1>5. ASSUME NEW r \in Rid PROVE r \in table' <=> r \in Records(r.page_id, disk'[r.page_id])
  <2> DEFINE q == r.page_id
  <2>1. q \in PageId
    BY DEF Rid
  <2>2. CASE q \in dirtied[t]
    <3>1. Records(q, pages[q]) =
             (Records(q, disk[q]) \cup OnPage(inserted[t], q)) \ OnPage(deleted[t], q)
      BY <1>3, <1>4, <2>2 DEF ChangesOK
    <3>2. disk'[q] = pages[q]
      BY <1>3, <2>1, <2>2
    <3>3. /\ r \in inserted[t] <=> r \in OnPage(inserted[t], q)
          /\ r \in deleted[t] <=> r \in OnPage(deleted[t], q)
      BY DEF OnPage
    <3>. QED  BY <1>1, <1>3, <3>1, <3>2, <3>3
  <2>3. CASE q \notin dirtied[t]
    <3>1. r \notin inserted[t] /\ r \notin deleted[t]
      BY <1>4, <2>3 DEF ChangesOK
    <3>2. disk'[q] = disk[q]
      BY <1>3, <2>1, <2>3
    <3>. QED  BY <1>1, <1>3, <3>1, <3>2
  <2>. QED  BY <2>2, <2>3
<1>. QED  BY <1>2, <1>5

\* What any step does to the openness of transactions, to the table as each
\* Scan found it, and to the committed records.
LEMMA HistorySteps ==
    ASSUME Typed, LP!IInv, ControlInv, PagesInv, [Next]_vars
    PROVE  /\ \A u \in Txn : Active(u)' => Active(u)
           /\ \A u \in Txn : op'[u].from \subseteq op[u].from \cup table
           /\ ToSet(page_ids) \subseteq ToSet(page_ids')
           /\ (\A t \in Txn : ~Commit(t)) => UNCHANGED <<table, disk>>
<1> DEFINE Goal == /\ \A u \in Txn : Active(u)' => Active(u)
                   /\ \A u \in Txn : op'[u].from \subseteq op[u].from \cup table
                   /\ ToSet(page_ids) \subseteq ToSet(page_ids')
                   /\ (\A t \in Txn : ~Commit(t)) => UNCHANGED <<table, disk>>
<1>1. ASSUME NEW t \in Txn, NEW c, EnterShape(t, c) PROVE Goal
  <2>1. \A u \in Txn : op'[u].from \subseteq op[u].from \cup table
    BY <1>1, OthersCalls DEF EnterShape
  <2>. QED  BY <1>1, <2>1, QuietSteps
<1>2. ASSUME NEW t \in Txn, NEW c, NEW S, ReadShape(t, c, S) PROVE Goal
  <2>1. \A u \in Txn : op'[u].from \subseteq op[u].from \cup table
    BY <1>2, OthersCalls, NoCallParts DEF ReadShape
  <2>. QED  BY <1>2, <2>1, QuietSteps
<1>3. ASSUME NEW t \in Txn, LockPage(t) \/ RecheckLock(t) PROVE Goal
  <2>1. op' = op
    BY <1>3, LockStep
  <2>. QED  BY <1>3, <2>1, QuietSteps
<1>4. ASSUME NEW t \in Txn, NEW p, NEW new, NEW I, NEW D, WriteShape(t, p, new, I, D) PROVE Goal
  <2>1. op' = [op EXCEPT ![t] = NoCall] /\ UNCHANGED <<status, table, disk>>
    BY <1>4 DEF WriteShape, lmvars
  <2>2. \A u \in Txn : op'[u].from \subseteq op[u].from \cup table
    BY <2>1, OthersCalls, NoCallParts
  <2>3. ToSet(page_ids) \subseteq ToSet(page_ids')
    BY <1>4, WrittenPage
  <2>. QED  BY <2>1, <2>2, <2>3 DEF Active
<1>5. ASSUME NEW t \in Txn, GrowShape(t) PROVE Goal
  BY <1>5, GrownFile DEF Active
<1>6. ASSUME NEW t \in Txn, Commit(t) \/ Abort(t) PROVE Goal
  BY <1>6, EndSteps
<1>7. ASSUME Crash PROVE Goal
  <2>1. ToSet(page_ids) \subseteq InFile
    BY DEF ControlInv
  <2>. QED  BY <1>7, <2>1, AfterCrash, NoCallParts DEF Active
<1>8. ASSUME UNCHANGED vars PROVE Goal
  BY <1>8 DEF vars, lmvars, filevars, histvars, Active
<1> HIDE DEF Goal
<1>9. Goal
  BY <1>1, <1>2, <1>3, <1>4, <1>5, <1>6, <1>7, <1>8, StepShapes
<1>. QED  BY <1>9 DEF Goal

\* The table and the file agree after every step.
LEMMA TableInductive ==
    ASSUME Typed, LP!IInv, ControlInv, PagesInv, ChangesInv, TableInv, [Next]_vars
    PROVE  TableInv'
<1>1. /\ \A u \in Txn : Active(u)' => Active(u)
      /\ \A u \in Txn : op'[u].from \subseteq op[u].from \cup table
      /\ ToSet(page_ids) \subseteq ToSet(page_ids')
      /\ (\A t \in Txn : ~Commit(t)) => UNCHANGED <<table, disk>>
  BY HistorySteps
<1>2. CASE \A t \in Txn : ~Commit(t)
  <2>1. FileIsCommitted'
    BY <1>1, <1>2 DEF TableInv, FileIsCommitted
  <2>2. \A r \in table' : r.page_id \in ToSet(page_ids')
    BY <1>1, <1>2 DEF TableInv
  <2>3. ASSUME NEW u \in Txn, Active(u)'
        PROVE  /\ \A r \in table' : r.row # u
               /\ \A t \in Txn : \A r \in op'[t].from : r.row # u
    BY <1>1, <1>2, <2>3 DEF TableInv
  <2>. QED  BY <2>1, <2>2, <2>3 DEF TableInv
<1>3. ASSUME NEW t \in Txn, Commit(t) PROVE TableInv'
  <2>1. FileIsCommitted'
    BY <1>3, CommitWrites, TypedInductive DEF TableInv
  <2>2. table' \subseteq table \cup inserted[t] /\ ~Active(t)'
    BY <1>3, EndSteps
  <2>3. \A r \in inserted[t] : r.row = t /\ r.page_id \in ToSet(page_ids)
    BY DEF ChangesInv, ChangesOK
  <2>4. \A r \in table' : r.page_id \in ToSet(page_ids')
    BY <1>1, <2>2, <2>3 DEF TableInv
  <2>5. ASSUME NEW u \in Txn, Active(u)'
        PROVE  /\ \A r \in table' : r.row # u
               /\ \A w \in Txn : \A r \in op'[w].from : r.row # u
    BY <1>1, <2>2, <2>3, <2>5 DEF TableInv
  <2>. QED  BY <2>1, <2>4, <2>5 DEF TableInv
<1>. QED  BY <1>2, <1>3

\* What a transaction reads under a lock is committed or its own.
LEMMA ReadsCommittedOrOwn ==
    ASSUME Typed, LP!IInv, ControlInv, WritersHoldLocks, CleanPages, ChangesInv, TableInv,
           NEW t \in Txn, Active(t), NEW p \in PageId, p \in held_by_txn[t]
    PROVE  \A r \in Rid : r.page_id = p =>
              /\ r \in Records(p, pages[p]) => r \in table \cup inserted[t]
              /\ r \in (table \cup inserted[t]) \ deleted[t] => r \in Records(p, pages[p])
<1>1. \A r \in Rid : r \in table <=> r \in Records(r.page_id, disk[r.page_id])
  BY TableByPage DEF TableInv
<1>2. Records(p, pages[p]) =
         (Records(p, disk[p]) \cup OnPage(inserted[t], p)) \ OnPage(deleted[t], p)
  BY LockedPage
<1>. QED  BY <1>1, <1>2 DEF OnPage

\* What was read stays.
LEMMA SeenInductive ==
    ASSUME HeapInv, [Next]_vars
    PROVE  SeenInv'
<1> USE DEF HeapInv
<1> SUFFICES ASSUME NEW u \in Txn, Active(u)', NEW r \in seen'[u]
             PROVE  r \in table' \cup inserted'[u] /\ r.page_id \in held_by_txn'[u]
  BY DEF SeenInv
<1>0. Active(u)
  BY HistorySteps
<1>1. ASSUME r \in seen[u] PROVE r \in table \cup inserted[u] /\ r.page_id \in held_by_txn[u]
  BY <1>0, <1>1 DEF SeenInv
<1>2. ASSUME NEW t \in Txn, NEW c, EnterShape(t, c)
      PROVE  r \in table' \cup inserted'[u] /\ r.page_id \in held_by_txn'[u]
  BY <1>1, <1>2 DEF EnterShape, lmvars, histvars
<1>3. ASSUME NEW t \in Txn, LockPage(t) \/ RecheckLock(t)
      PROVE  r \in table' \cup inserted'[u] /\ r.page_id \in held_by_txn'[u]
  <2>1. /\ Here(t) \in PageId /\ status[t] \in {"running", "awake"}
        /\ \E m \in LM!LockMode : LM!LoopBody(t, Here(t), m)
        /\ UNCHANGED <<table, inserted, seen>>
    BY <1>3, LockStep DEF histvars
  <2>2. \A w \in Txn : held_by_txn[w] \subseteq held_by_txn'[w]
    BY <2>1, PassThroughLoop
  <2>. QED  BY <1>1, <2>1, <2>2
<1>4. ASSUME NEW t \in Txn, NEW c, NEW S, ReadShape(t, c, S)
      PROVE  r \in table' \cup inserted'[u] /\ r.page_id \in held_by_txn'[u]
  <2>1. /\ S \in SUBSET Rid /\ status[t] = "running"
        /\ \A x \in S : x.page_id \in held_by_txn[t] /\ x \in Records(x.page_id, pages[x.page_id])
        /\ seen' = [seen EXCEPT ![t] = @ \cup S]
        /\ UNCHANGED <<table, inserted, held_by_txn>>
    BY <1>4 DEF ReadShape, lmvars
  <2>2. seen'[u] = IF u = t THEN seen[u] \cup S ELSE seen[u]
    BY <2>1 DEF Typed
  <2>3. CASE r \in seen[u]
    BY <1>1, <2>1, <2>3
  <2>4. CASE u = t /\ r \in S
    <3>1. r \in Rid /\ r.page_id \in held_by_txn[t] /\ r \in Records(r.page_id, pages[r.page_id])
      BY <2>1, <2>4
    <3>2. r.page_id \in PageId
      BY <3>1 DEF Rid
    <3>3. r \in table \cup inserted[t]
      BY <1>0, <2>4, <3>1, <3>2, ReadsCommittedOrOwn
    <3>. QED  BY <2>1, <2>4, <3>1, <3>3
  <2>. QED  BY <2>2, <2>3, <2>4
<1>5. ASSUME NEW t \in Txn, NEW p, NEW new, NEW I, NEW D, WriteShape(t, p, new, I, D)
      PROVE  r \in table' \cup inserted'[u] /\ r.page_id \in held_by_txn'[u]
  <2>1. inserted' = [inserted EXCEPT ![t] = @ \cup I] /\ UNCHANGED <<table, seen, held_by_txn>>
    BY <1>5 DEF WriteShape, lmvars
  <2>2. inserted[u] \subseteq inserted'[u]
    BY <2>1 DEF Typed
  <2>. QED  BY <1>1, <2>1, <2>2
<1>6. ASSUME NEW t \in Txn, GrowShape(t)
      PROVE  r \in table' \cup inserted'[u] /\ r.page_id \in held_by_txn'[u]
  BY <1>1, <1>6, GrownFile
<1>7. ASSUME NEW t \in Txn, Abort(t)
      PROVE  r \in table' \cup inserted'[u] /\ r.page_id \in held_by_txn'[u]
  <2>1. u # t
    BY <1>7, EndSteps
  <2>. QED  BY <1>1, <1>7, <2>1, EndSteps
<1>8. ASSUME NEW t \in Txn, Commit(t)
      PROVE  r \in table' \cup inserted'[u] /\ r.page_id \in held_by_txn'[u]
  <2>1. /\ u # t /\ Active(t) /\ table' = (table \cup inserted[t]) \ deleted[t]
        /\ seen' = seen /\ inserted' = inserted /\ held_by_txn'[u] = held_by_txn[u]
    BY <1>8, EndSteps
  <2>2. r \in table \cup inserted[u] /\ r.page_id \in held_by_txn[u]
    BY <1>1, <2>1
  <2>3. r \notin deleted[t]
    <3> SUFFICES ASSUME r \in deleted[t] PROVE FALSE
      OBVIOUS
    <3>1. r.page_id \in dirtied[t] /\ r.page_id \in PageId
      BY DEF ChangesInv, ChangesOK, Typed
    <3>2. \/ locks[r.page_id].exclusive_holder = t
          \/ op[t].name = "insert_new" /\ r.page_id = Here(t)
      BY <2>1, <3>1 DEF WritersHoldLocks
    <3>3. op[t].name = "none"
      BY <1>8 DEF Commit
    <3>. QED  BY <2>1, <2>2, <3>1, <3>2, <3>3, Exclusion
  <2>. QED  BY <2>1, <2>2, <2>3
<1>9. CASE Crash
  <2>1. ops[u] = 0 /\ seen'[u] = seen[u]
    BY <1>9, AfterCrash DEF Active
  <2>2. seen[u] = {}
    BY <2>1 DEF ControlInv, UnusedOK
  <2>. QED  BY <2>1, <2>2
<1>10. CASE UNCHANGED vars
  BY <1>1, <1>10 DEF vars, lmvars, histvars
<1> HIDE DEF HeapInv
<1>11. Typed /\ LP!IInv /\ ControlInv /\ PagesInv
  BY DEF HeapInv
<1>. QED  BY <1>2, <1>3, <1>4, <1>5, <1>6, <1>7, <1>8, <1>9, <1>10, <1>11, StepShapes

\* A Scan does not lose its way.
LEMMA ScanInductive ==
    ASSUME HeapInv, [Next]_vars
    PROVE  ScanInv'
<1> USE DEF HeapInv
<1> SUFFICES ASSUME NEW u \in Txn, op'[u].name = "scan",
                    NEW r \in ((op'[u].from \cap table') \cup inserted'[u]) \ deleted'[u]
             PROVE  r \in op'[u].got \/ r.page_id \in ToSet(op'[u].todo)
  BY DEF ScanInv
<1>1. ASSUME op'[u] = op[u], inserted'[u] = inserted[u], deleted'[u] = deleted[u],
             r \in op[u].from \cap table' => r \in table
      PROVE  r \in op'[u].got \/ r.page_id \in ToSet(op'[u].todo)
  BY <1>1 DEF ScanInv
<1>2. ASSUME NEW t \in Txn, NEW c, EnterShape(t, c)
      PROVE  r \in op'[u].got \/ r.page_id \in ToSet(op'[u].todo)
  <2>1. /\ op' = [op EXCEPT ![t] = c] /\ UNCHANGED <<table, inserted, deleted>>
        /\ c.name = "scan" => c.todo = page_ids
    BY <1>2 DEF EnterShape, histvars
  <2>2. op'[t] = c /\ \A w \in Txn \ {t} : op'[w] = op[w]
    BY <2>1, OthersCalls
  <2>3. CASE u = t
    <3>1. r \in table \/ r \in inserted[t]
      BY <2>1, <2>3
    <3>2. r.page_id \in ToSet(page_ids)
      BY <3>1 DEF TableInv, ChangesInv, ChangesOK
    <3>. QED  BY <2>1, <2>2, <2>3, <3>2
  <2>4. CASE u # t
    BY <1>1, <2>1, <2>2, <2>4
  <2>. QED  BY <2>3, <2>4
<1>3. ASSUME NEW t \in Txn, LockPage(t) \/ RecheckLock(t)
      PROVE  r \in op'[u].got \/ r.page_id \in ToSet(op'[u].todo)
  <2>1. UNCHANGED <<op, table, inserted, deleted>>
    BY <1>3, LockStep DEF histvars
  <2>. QED  BY <1>1, <2>1
<1>4. ASSUME NEW t \in Txn, NEW c, NEW S, ReadShape(t, c, S)
      PROVE  r \in op'[u].got \/ r.page_id \in ToSet(op'[u].todo)
  <2>1. /\ op' = [op EXCEPT ![t] = c] /\ UNCHANGED <<table, inserted, deleted>>
        /\ status[t] = "running"
        /\ \/ c = NoCall
           \/ c.name = op[t].name /\ c.from = op[t].from
        /\ c.name = "scan" =>
              /\ Here(t) \in held_by_txn[t]
              /\ c.got = op[t].got \cup Records(Here(t), pages[Here(t)])
              /\ ToSet(op[t].todo) \subseteq {Here(t)} \cup ToSet(c.todo)
    BY <1>4 DEF ReadShape
  <2>2. op'[t] = c /\ \A w \in Txn \ {t} : op'[w] = op[w]
    BY <2>1, OthersCalls
  <2>3. CASE u = t
    <3>1. c.name = "scan" /\ op[t].name = "scan" /\ c.from = op[t].from
      BY <2>1, <2>2, <2>3, NoCallParts
    <3>2. r \in ((op[t].from \cap table) \cup inserted[t]) \ deleted[t]
      BY <2>1, <2>2, <2>3, <3>1
    <3>3. r \in op[t].got \/ r.page_id \in ToSet(op[t].todo)
      BY <3>1, <3>2 DEF ScanInv
    <3>4. ASSUME r.page_id = Here(t) PROVE r \in Records(Here(t), pages[Here(t)])
      <4>1. r \in Rid
        BY <3>2 DEF Typed
      <4>2. Here(t) \in held_by_txn[t] /\ Here(t) \in PageId
        BY <2>1, <3>1, <3>4, <4>1 DEF Rid
      <4>3. Active(t)
        BY <2>1 DEF Active
      <4>. QED  BY <3>2, <3>4, <4>1, <4>2, <4>3, ReadsCommittedOrOwn
    <3>. QED  BY <2>1, <2>2, <2>3, <3>1, <3>3, <3>4
  <2>4. CASE u # t
    BY <1>1, <2>1, <2>2, <2>4
  <2>. QED  BY <2>3, <2>4
<1>5. ASSUME NEW t \in Txn, NEW p, NEW new, NEW I, NEW D, WriteShape(t, p, new, I, D)
      PROVE  r \in op'[u].got \/ r.page_id \in ToSet(op'[u].todo)
  <2>1. /\ op' = [op EXCEPT ![t] = NoCall] /\ table' = table
        /\ inserted' = [inserted EXCEPT ![t] = @ \cup I]
        /\ deleted' = [deleted EXCEPT ![t] = @ \cup D]
    BY <1>5 DEF WriteShape
  <2>2. op'[t] = NoCall /\ \A w \in Txn \ {t} : op'[w] = op[w]
    BY <2>1, OthersCalls
  <2>3. u # t
    BY <2>2, NoCallParts
  <2>4. inserted'[u] = inserted[u] /\ deleted'[u] = deleted[u]
    BY <2>1, <2>3 DEF Typed
  <2>. QED  BY <1>1, <2>1, <2>2, <2>3, <2>4
<1>6. ASSUME NEW t \in Txn, GrowShape(t)
      PROVE  r \in op'[u].got \/ r.page_id \in ToSet(op'[u].todo)
  BY <1>1, <1>6, GrownFile
<1>7. ASSUME NEW t \in Txn, Commit(t) \/ Abort(t)
      PROVE  r \in op'[u].got \/ r.page_id \in ToSet(op'[u].todo)
  <2>1. /\ u # t /\ op'[u] = op[u] /\ Active(t)
        /\ table' = table \/ table' = (table \cup inserted[t]) \ deleted[t]
        /\ inserted' = inserted /\ deleted' = deleted
    BY <1>7, EndSteps
  <2>2. ASSUME r \in op[u].from \cap table' PROVE r \in table
    <3>1. r.row # t
      BY <2>1, <2>2 DEF TableInv
    <3>2. r \notin inserted[t]
      BY <3>1 DEF ChangesInv, ChangesOK
    <3>. QED  BY <2>1, <2>2, <3>2
  <2>. QED  BY <1>1, <2>1, <2>2
<1>8. CASE Crash
  BY <1>8, AfterCrash, NoCallParts
<1>9. CASE UNCHANGED vars
  BY <1>1, <1>9 DEF vars, histvars
<1> HIDE DEF HeapInv
<1>10. Typed /\ LP!IInv /\ ControlInv /\ PagesInv
  BY DEF HeapInv
<1>. QED  BY <1>2, <1>3, <1>4, <1>5, <1>6, <1>7, <1>8, <1>9, <1>10, StepShapes
-----------------------------------------------------------------------------
\* The invariant holds when a database is opened.
LEMMA HeapInitially == Init => HeapInv
<1> SUFFICES ASSUME Init PROVE HeapInv
  OBVIOUS
<1>1. PICK n \in 0..RowsOnOpen :
         /\ next_page_id = IF n = 0 THEN 0 ELSE 1
         /\ disk = [p \in PageId |-> IF n > 0 /\ p = 0 THEN FirstPage(n) ELSE Zeroed]
         /\ table = IF n = 0 THEN {} ELSE Records(0, FirstPage(n))
  BY DEF Init
<1>2. /\ page_ids = PageIdsOnOpen(next_page_id) /\ pages = disk
      /\ dirtied = [t \in Txn |-> {}]
      /\ op = [t \in Txn |-> NoCall] /\ ops = [t \in Txn |-> 0]
      /\ inserted = [t \in Txn |-> {}] /\ deleted = [t \in Txn |-> {}]
      /\ seen = [t \in Txn |-> {}]
      /\ LM!Init
  BY DEF Init
<1>3. LP!IInv
  BY <1>2, Constants, SameLocks, LP!InvInitially
<1>4. /\ status = [t \in Txn |-> "running"] /\ held_by_txn = [t \in Txn |-> {}]
  BY <1>2 DEF LM!Init
<1>5. next_page_id \in 0..MaxPages /\ next_page_id \in Nat /\ n \in Nat
  BY <1>1, Constants
<1>6. page_ids \in Seq(PageId) /\ ToSet(page_ids) = InFile /\ IsInjective(page_ids)
  BY <1>2, <1>5, PageIdsOfFile DEF InFile
<1>7. /\ FirstPage(n) \in Page /\ PageOK(FirstPage(n))
      /\ \A r \in Records(0, FirstPage(n)) : r.row = NoTxn /\ r.page_id = 0
      /\ Records(0, FirstPage(n)) \subseteq Rid
  BY OldPage, RecordParts, Constants
<1>8. PageOK(Zeroed)
  BY EmptyPages, Constants DEF PageOK
<1>9. Typed
  BY <1>1, <1>2, <1>5, <1>6, <1>7, EmptyPages, NoCallParts DEF Typed
<1>10. ControlInv
  <2>1. Inserting = {}
    BY <1>2, NoCallParts DEF Inserting
  <2>2. next_page_id + Cardinality(Inserting) <= MaxPages
    BY <1>5, <2>1, FS_EmptySet, Constants
  <2>3. ASSUME NEW t \in Txn PROVE CallOK(t) /\ FreshOK(t) /\ UnusedOK(t)
    BY <1>2, <1>4, NoCallParts DEF CallOK, FreshOK, UnusedOK
  <2>. QED  BY <1>2, <1>4, <1>6, <2>2, <2>3 DEF ControlInv
<1>11. PagesInv
  <2>1. \A p \in PageId : p >= next_page_id => ~(n > 0 /\ p = 0)
    BY <1>1, <1>5
  <2>. QED  BY <1>1, <1>2, <1>7, <1>8, <2>1 DEF PagesInv
<1>12. WritersHoldLocks /\ CleanPages /\ ChangesInv
  BY <1>2, <1>4 DEF WritersHoldLocks, CleanPages, ChangesInv, ChangesOK
<1>13. TableInv
  <2>1. \A r \in Rid : r \in table <=> r \in Records(r.page_id, disk[r.page_id])
    <3>1. ASSUME NEW r \in Rid PROVE r \in table <=> r \in Records(r.page_id, disk[r.page_id])
      <4>1. r.page_id \in PageId
        BY DEF Rid
      <4>2. CASE n = 0
        BY <1>1, <4>1, <4>2, EmptyPages
      <4>3. CASE n > 0 /\ r.page_id = 0
        BY <1>1, <4>1, <4>3
      <4>4. CASE n > 0 /\ r.page_id # 0
        <5>1. disk[r.page_id] = Zeroed
          BY <1>1, <4>1, <4>4
        <5>2. r \notin table
          BY <1>1, <1>7, <4>4
        <5>. QED  BY <5>1, <5>2, EmptyPages
      <4>. QED  BY <1>5, <4>2, <4>3, <4>4
    <3>. QED  BY <3>1
  <2>2. FileIsCommitted
    BY <1>9, <2>1, TableByPage
  <2>3. \A r \in table : r.page_id \in ToSet(page_ids) /\ r.row = NoTxn
    BY <1>1, <1>5, <1>6, <1>7 DEF InFile
  <2>. QED  BY <1>2, <2>2, <2>3, NoCallParts, Constants DEF TableInv
<1>14. SeenInv /\ ScanInv
  BY <1>2, NoCallParts DEF SeenInv, ScanInv
<1>. QED  BY <1>3, <1>9, <1>10, <1>11, <1>12, <1>13, <1>14 DEF HeapInv

\* HeapInv is inductive.
LEMMA HeapInductive == HeapInv /\ [Next]_vars => HeapInv'
<1> SUFFICES ASSUME HeapInv, [Next]_vars PROVE HeapInv'
  OBVIOUS
<1>1. /\ Typed /\ LP!IInv /\ ControlInv /\ PagesInv /\ WritersHoldLocks /\ CleanPages
      /\ ChangesInv /\ TableInv
  BY DEF HeapInv
<1>2. Typed' /\ LP!IInv' /\ ControlInv' /\ PagesInv'
  BY <1>1, TypedInductive, LocksInductive, ControlInductive, PagesInductive
<1>3. WritersHoldLocks' /\ CleanPages' /\ ChangesInv' /\ TableInv'
  BY <1>1, WritersInductive, CleanInductive, ChangesInductive, TableInductive
<1>4. SeenInv' /\ ScanInv'
  BY SeenInductive, ScanInductive
<1>. QED  BY <1>2, <1>3, <1>4 DEF HeapInv

\* The inductive invariant of the heap file.
THEOREM HeapFileInvariant == Spec => []HeapInv
  BY HeapInitially, HeapInductive, PTL DEF Spec
-----------------------------------------------------------------------------
\* page_ids_ names pages of the file only and each once, whoever grows the
\* file, rolls back or restarts; no page has more rows than fit on it.
THEOREM HeapTypeCorrect == Spec => []TypeOK
<1>1. HeapInv => TypeOK
  <2> SUFFICES ASSUME HeapInv PROVE TypeOK
    OBVIOUS
  <2>1. Typed /\ LP!IInv /\ ControlInv /\ PagesInv
    BY DEF HeapInv
  <2>2. LM!TypeOK
    BY <2>1, LocksTyped
  <2>3. next_page_id \in 0..MaxPages
    BY <2>1, InsertingFinite, Constants DEF ControlInv, Typed
  <2>. QED  BY <2>1, <2>2, <2>3 DEF TypeOK, ControlInv, PagesInv, PageOK, InFile, Typed
<1>. QED  BY <1>1, HeapFileInvariant, PTL

\* HeapFile::Insert neither waits nor dies on the page it has just allocated.
THEOREM FreshPagesAreFree == Spec => []FreshPageNeverBlocks
<1>1. HeapInv => FreshPageNeverBlocks
  BY DEF HeapInv, ControlInv, FreshOK, FreshPageNeverBlocks
<1>. QED  BY <1>1, HeapFileInvariant, PTL

\* The data file holds the committed records and no others, over commits,
\* rollbacks and restarts.
THEOREM FileHoldsCommitted == Spec => []FileIsCommitted
<1>1. HeapInv => FileIsCommitted
  BY DEF HeapInv, TableInv
<1>. QED  BY <1>1, HeapFileInvariant, PTL

\* Reads are repeatable: what GetRow, Scan or Find returned stays committed,
\* or the transaction's own, to the transaction's end.
THEOREM ReadsRepeatable == Spec => []ReadsAreStable
<1>1. HeapInv => ReadsAreStable
  BY DEF HeapInv, SeenInv, ReadsAreStable
<1>. QED  BY <1>1, HeapFileInvariant, PTL

\* A Scan returns every record that was committed all through it, and those
\* of its own transaction.
THEOREM ScanIsComplete == Spec => []ScanMissesNothing
<1>1. HeapInv => ScanMissesNothing
  BY ShortQueues DEF HeapInv, ScanInv, ScanMissesNothing
<1>. QED  BY <1>1, HeapFileInvariant, PTL
=============================================================================
