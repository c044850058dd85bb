----------------------- MODULE DatabaseDdlRowsProofs -----------------------
(***************************************************************************)
(* Proofs about what tables and indexes hold over CREATE TABLE and CREATE  *)
(* INDEX, rollbacks, checkpoints and deaths of the process at any step of  *)
(* a commit, when no transaction begins during a CREATE (ExclusiveDdl) or  *)
(* over the log of an earlier process (OneSessionPerLog).                  *)
(***************************************************************************)
EXTENDS DatabaseDdlProofs

Added(name) == {r \in Row : <<name, r>> \in txn.added}

\* The object whose backfill is being flushed.
Filling == IF At("flush") THEN NewIds ELSE {}

\* The file as recovery would leave it.
Replays(o) == [p \in DOMAIN file[o] |-> Replayed(o, p)]

\* The log has nothing for the page.
NoRecord(o, p) == \A n \in DOMAIN wal : \A r \in wal[n].updates : ~(r.object = o /\ r.page = p)

\* The file is as recovery would leave it, except for what a commit has still
\* to force.
FileInv ==
    ~At("down") => \A o \in ObjectId : \A p \in DOMAIN file[o] :
        Replayed(o, p) = IF txn.state = "logged" /\ <<o, p>> \in txn.dirtied THEN cache[o][p]
                         ELSE file[o][p]

\* A pool differs from its file by the pages of the one transaction, or by
\* the backfill.
CacheInv ==
    /\ call.at # "idle" => txn = NoTxn
    /\ txn.state # "none" => txn.observed = objects
    /\ \A a \in txn.added : \E t \in Tables(Saved) : t.name = a[1] /\ t.heap_object_id \in objects
    /\ \A o \in ObjectId \ objects : dirty[o] = {} \/ (At("header") /\ o = call.todo[1].id)
    /\ At("header") => call.todo[1].id \notin objects
    /\ \A o \in objects : \A p \in DOMAIN file[o] :
          /\ (IF o \in Filling THEN p \notin dirty[o] ELSE <<o, p>> \notin txn.dirtied) => cache[o][p] = file[o][p]
          /\ (p \in dirty[o] /\ o \notin Filling) => <<o, p>> \in txn.dirtied

\* A CREATE has its new objects to itself, and they are empty until the
\* backfill.
NewInv ==
    /\ At("header") => \A p : NoRecord(call.todo[1].id, p)
    /\ Creating => \A o \in NewIds : \A p : NoRecord(o, p)
    /\ Creating /\ ~At("flush") => \A o \in NewIds \cap objects :
          cache[o] = file[o] /\ file[o] = IF o \in TreeIds(Saved) THEN <<{NoRoot}>> ELSE <<>>
    /\ call.of.kind = "table" => rows[call.of.name] = {}
    /\ At("flush") => \A i \in Indexes(Saved) : i.name = call.of.name =>
          TreeRows(cache[i.object_id]) = rows[i.table_name]

\* The pages of a tree that is readable and has these rows.
TreeHolds(pages, has) == pages # <<>> /\ pages[1] # Zeroed /\ TreeRows(pages) = has

AckedIndex(i) == i.name \in acked \/ (i.is_primary_key /\ i.table_name \in acked)

\* Tables, and indexes whose CREATE has returned, hold the committed rows, and
\* in the pool those of the transaction.
RowsInv ==
    /\ \A n \in TableName : (\A t \in Tables(Saved) : t.name # n) => rows[n] = {}
    /\ \A t \in Tables(Saved) :
          /\ RowsIn(Replays(t.heap_object_id)) = rows[t.name]
          /\ t.heap_object_id \in objects => RowsIn(cache[t.heap_object_id]) = rows[t.name] \cup Added(t.name)
    /\ \A i \in Indexes(Saved) : AckedIndex(i) =>
          /\ TreeHolds(Replays(i.object_id), rows[i.table_name])
          /\ i.object_id \in objects => TreeHolds(cache[i.object_id], rows[i.table_name] \cup Added(i.table_name))

ContentInv == FileInv /\ CacheInv /\ NewInv /\ RowsInv

\* No two transactions in the log have the same TxnId, and the running one has
\* the last entry: its Commit record is missing until it is logged, and its
\* Updates are the pages of the pool.
LogInv ==
    /\ \A n, k \in DOMAIN wal : wal[n].txn = wal[k].txn => n = k
    /\ next_txn_id > 1 => \A n \in DOMAIN wal : wal[n].txn < next_txn_id
    /\ txn.state # "none" => Len(wal) \in DOMAIN wal /\ next_txn_id > 1
    /\ txn.state \in {"active", "committing"} => ~LastEntry.commit
    /\ txn.state = "active" => LastEntry.updates = {}
    /\ txn.state = "committing" => \A r \in LastEntry.updates :
          <<r.object, r.page>> \in txn.dirtied /\ r.image = cache[r.object][r.page]
-----------------------------------------------------------------------------
\* A page without a record is as in the file.
LEMMA ReplayedFree ==
    ASSUME NEW o, NEW p
    PROVE  /\ NoRecord(o, p) => Replayed(o, p) = file[o][p]
           /\ NoRecord(o, p)' => Replayed(o, p)' = file'[o][p]
<1>1. \A n : Redo(n) \subseteq wal[n].updates /\ Redo(n)' \subseteq wal'[n].updates
  BY DEF Redo
<1>. QED  BY <1>1 DEF Replayed, NoRecord

\* The replayed records of a page in an entry, and the entries that have some.
PageRecords(o, p, i) == {r \in Redo(i) : r.object = o /\ r.page = p}
Hits(o, p) == {i \in DOMAIN wal : PageRecords(o, p, i) # {}}

ReplayedAt(o, p, k) ==
    /\ Hits(o, p) = {} => Replayed(o, p) = file[o][p]
    /\ Hits(o, p) # {} /\ k = Max(Hits(o, p)) => Replayed(o, p) = (CHOOSE r \in PageRecords(o, p, k) : TRUE).image

LEMMA ReplayedAtFacts == \A o, p, k : ReplayedAt(o, p, k)
BY DEF ReplayedAt, Replayed, Hits, PageRecords

LEMMA ReplayedAtAfter == (\A o, p, k : ReplayedAt(o, p, k))'
BY ReplayedAtFacts, PTL

\* The replay depends on the log and, without a record, on the file.
LEMMA ReplayedEither ==
    ASSUME NEW o, NEW p, wal' = wal
    PROVE  Replayed(o, p)' = Replayed(o, p) \/ (Replayed(o, p) = file[o][p] /\ Replayed(o, p)' = file'[o][p])
<1>1. \A n : Redo(n)' = Redo(n)
  BY DEF Redo, Committed
<1>2. Hits(o, p)' = Hits(o, p) /\ \A k : PageRecords(o, p, k)' = PageRecords(o, p, k)
  BY <1>1 DEF Hits, PageRecords
<1> DEFINE hits == Hits(o, p)
<1>3. PICK k : k = Max(hits)
  OBVIOUS
<1>4. ReplayedAt(o, p, k) /\ ReplayedAt(o, p, k)'
  BY ReplayedAtFacts, ReplayedAtAfter
<1> DEFINE z == PageRecords(o, p, k)
<1>5. /\ hits = {} => Replayed(o, p) = file[o][p] /\ Replayed(o, p)' = file'[o][p]
      /\ hits # {} => PageRecords(o, p, k)' = z /\ Replayed(o, p) = (CHOOSE r \in z : TRUE).image
                      /\ Replayed(o, p)' = (CHOOSE r \in PageRecords(o, p, k)' : TRUE).image
  BY <1>2, <1>3, <1>4 DEF ReplayedAt
<1> HIDE DEF hits, z
<1>. QED  BY <1>5

LEMMA ReplayedSame ==
    ASSUME NEW o, NEW p, wal' = wal, file'[o][p] = file[o][p]
    PROVE  Replayed(o, p)' = Replayed(o, p)
BY ReplayedEither

\* Files of the same length have the same pages after the replay, if each page
\* has.
LEMMA ReplaysSame ==
    ASSUME NEW o, DOMAIN file'[o] = DOMAIN file[o],
           \A p \in DOMAIN file[o] : Replayed(o, p)' = Replayed(o, p)
    PROVE  Replays(o)' = Replays(o)
BY DEF Replays

\* Nothing is under way: the pools, the files and what recovery would make of
\* them agree.
LEMMA Clean ==
    ASSUME StructInv, ContentInv, txn = NoTxn, ~At("down")
    PROVE  /\ \A o \in ObjectId : /\ Replays(o) = file[o]
                                  /\ \A p \in DOMAIN file[o] : Replayed(o, p) = file[o][p]
           /\ \A o \in objects : o \notin Filling =>
                 /\ cache[o] = file[o] /\ cache[o] = Replays(o)
                 /\ \A p \in DOMAIN file[o] : p \notin dirty[o]
<1>1. txn.state = "none" /\ txn.dirtied = {} /\ Typed
  BY DEF NoTxn, StructInv
<1>2. ASSUME NEW o \in ObjectId
      PROVE  Replays(o) = file[o] /\ \A p \in DOMAIN file[o] : Replayed(o, p) = file[o][p]
  <2>1. \A p \in DOMAIN file[o] : Replayed(o, p) = file[o][p]
    BY <1>1 DEF ContentInv, FileInv
  <2>2. file[o] = [p \in DOMAIN file[o] |-> file[o][p]]
    BY <1>1, ObjectPages
  <2>. QED  BY <2>1, <2>2 DEF Replays
<1>3. ASSUME NEW o \in objects, o \notin Filling
      PROVE  /\ cache[o] = file[o] /\ cache[o] = Replays(o)
             /\ \A p \in DOMAIN file[o] : p \notin dirty[o]
  <2>1. o \in ObjectId /\ DOMAIN cache[o] = DOMAIN file[o]
    BY DirtiedPages
  <2>2. file[o] = [p \in DOMAIN file[o] |-> file[o][p]] /\ cache[o] = [p \in DOMAIN cache[o] |-> cache[o][p]]
    BY <1>1, <2>1, ObjectPages
  <2>3. \A p \in DOMAIN file[o] : cache[o][p] = file[o][p] /\ p \notin dirty[o]
    BY <1>1, <1>3 DEF ContentInv, CacheInv
  <2>4. cache[o] = file[o]
    BY <2>1, <2>2, <2>3
  <2>. QED  BY <1>2, <2>1, <2>3, <2>4
<1>. QED  BY <1>2, <1>3

\* Outside the flush of a backfill no object is being filled.
LEMMA NotFilling ==
    /\ ~At("flush") => Filling = {}
    /\ ~At("flush")' => Filling' = {}
BY DEF Filling

\* A step that changes only objects that are in no acknowledged statement,
\* and after which pools are as recovery would make their files.
LEMMA RowsKept ==
    ASSUME StructInv, RowsInv, Saved' = Saved, UNCHANGED <<rows, acked>>, txn'.added = {},
           NEW F, \A t \in Tables(Saved) : t.heap_object_id \notin F,
           \A i \in Indexes(Saved) : AckedIndex(i) => i.object_id \notin F,
           \A o \in ObjectId : o \notin F => Replays(o)' = Replays(o),
           \A o \in objects' : o \notin F => cache'[o] = Replays(o)
    PROVE  RowsInv'
<1>1. \A n : Added(n)' = {}
  BY DEF Added
<1>2. /\ \A t \in Tables(Saved) : t.heap_object_id \in ObjectId
      /\ \A i \in Indexes(Saved) : i.object_id \in ObjectId
  <2>1. Tables(Saved) \subseteq TableInfo /\ Indexes(Saved) \subseteq IndexSet
    BY SavedOK, CatalogFields DEF CatalogOK, StructInv
  <2>. QED  BY <2>1 DEF TableInfo, IndexSet
<1>3. \A n \in TableName : (\A t \in Tables(Saved') : t.name # n) => rows'[n] = {}
  BY DEF RowsInv
<1>4. ASSUME NEW t \in Tables(Saved')
      PROVE  /\ RowsIn(Replays(t.heap_object_id)') = rows'[t.name]
             /\ t.heap_object_id \in objects' =>
                   RowsIn(cache'[t.heap_object_id]) = rows'[t.name] \cup Added(t.name)'
  <2>1. Replays(t.heap_object_id)' = Replays(t.heap_object_id) /\ RowsIn(Replays(t.heap_object_id)) = rows[t.name]
    BY <1>2 DEF RowsInv
  <2>2. t.heap_object_id \in objects' => cache'[t.heap_object_id] = Replays(t.heap_object_id)
    OBVIOUS
  <2>. QED  BY <1>1, <2>1, <2>2
<1>5. \A i : AckedIndex(i)' = AckedIndex(i)
  BY DEF AckedIndex
<1>6. ASSUME NEW i \in Indexes(Saved'), AckedIndex(i)'
      PROVE  /\ TreeHolds(Replays(i.object_id)', rows'[i.table_name])
             /\ i.object_id \in objects' =>
                   TreeHolds(cache'[i.object_id], rows'[i.table_name] \cup Added(i.table_name)')
  <2>1. AckedIndex(i) /\ i.object_id \notin F
    BY <1>5, <1>6
  <2>2. TreeHolds(Replays(i.object_id), rows[i.table_name]) /\ Replays(i.object_id)' = Replays(i.object_id)
    BY <1>2, <2>1 DEF RowsInv
  <2>3. i.object_id \in objects' => cache'[i.object_id] = Replays(i.object_id)
    BY <2>1
  <2>. QED  BY <1>1, <2>2, <2>3
<1>. QED  BY <1>3, <1>4, <1>6 DEF RowsInv
-----------------------------------------------------------------------------
\* A step between DDL statements after which pools and files are what recovery
\* would make of the files before it.
Settles ==
    /\ call.at = "idle" /\ UNCHANGED <<metadata, objects, call, rows, acked>>
    /\ txn'.dirtied = {} /\ txn'.added = {} /\ txn'.state # "logged"
    /\ txn'.state # "none" => txn'.observed = objects
    /\ \A o \in ObjectId : /\ file'[o] = Replays(o) /\ dirty'[o] \subseteq dirty[o]
                           /\ \A p \in DOMAIN file[o] : Replayed(o, p)' = Replayed(o, p)
    /\ \A o \in objects : cache'[o] = Replays(o) /\ \A p \in DOMAIN file[o] : p \notin dirty'[o]

LEMMA SettlesContent ==
    ASSUME StructInv, ContentInv, Settles
    PROVE  ContentInv'
<1> USE DEF Settles
<1>0. /\ Saved' = Saved /\ ~At("header") /\ ~At("flush") /\ ~At("header")' /\ ~At("flush")' /\ call.of.kind = "none"
      /\ ~Creating' /\ objects \subseteq ObjectId
  <2>1. Saved' = Saved /\ objects \subseteq ObjectId
    BY SavedSame DEF StructInv, Typed
  <2>2. call.of.kind = "none"
    BY DEF StructInv, ControlInv
  <2>. QED  BY <2>1, <2>2 DEF At, Creating
<1>1. \A o \in ObjectId : /\ DOMAIN file'[o] = DOMAIN file[o]
                          /\ \A p \in DOMAIN file[o] : file'[o][p] = Replayed(o, p) /\ Replays(o)[p] = Replayed(o, p)
  <2>1. \A o : DOMAIN Replays(o) = DOMAIN file[o] /\ \A p \in DOMAIN file[o] : Replays(o)[p] = Replayed(o, p)
    BY DEF Replays
  <2>. QED  BY <2>1
<1>2. \A o \in ObjectId : Replays(o)' = Replays(o)
  BY <1>1, ReplaysSame
<1>3. FileInv'
  BY <1>1 DEF FileInv
<1>4. CacheInv'
  <2>1. \A o \in ObjectId \ objects : dirty[o] = {}
    BY <1>0 DEF ContentInv, CacheInv
  <2>2. Filling' = {}
    BY <1>0, NotFilling
  <2>3. \A o \in objects : \A p \in DOMAIN file'[o] : cache'[o][p] = file'[o][p] /\ p \notin dirty'[o]
    BY <1>0, <1>1
  <2>4. \A o \in ObjectId \ objects : dirty'[o] = {}
    BY <2>1
  <2>. QED  BY <1>0, <2>2, <2>3, <2>4 DEF CacheInv
<1>5. NewInv'
  BY <1>0 DEF NewInv
<1>6. RowsInv'
  <2> DEFINE F == {}
  <2>1. /\ \A t \in Tables(Saved) : t.heap_object_id \notin F
        /\ \A i \in Indexes(Saved) : AckedIndex(i) => i.object_id \notin F
        /\ \A o \in ObjectId : o \notin F => Replays(o)' = Replays(o)
        /\ \A o \in objects' : o \notin F => cache'[o] = Replays(o)
    BY <1>2
  <2> HIDE DEF F
  <2>. QED  BY <1>0, <2>1, RowsKept DEF ContentInv
<1>. QED  BY <1>3, <1>4, <1>5, <1>6 DEF ContentInv

\* The last record that is replayed of a page, if there is one, has its image.
NoRedo(o, p) == \A n \in DOMAIN wal : \A r \in Redo(n) : ~(r.object = o /\ r.page = p)

LastRecord(o, p) ==
    \/ NoRedo(o, p) /\ Replayed(o, p) = file[o][p]
    \/ \E n \in DOMAIN wal : \E r \in Redo(n) :
          /\ r.object = o /\ r.page = p /\ Replayed(o, p) = r.image
          /\ \A k \in DOMAIN wal : k > n => \A q \in Redo(k) : ~(q.object = o /\ q.page = p)

LEMMA LastRecordFacts == Typed => \A o, p : LastRecord(o, p)
BY ReplayedFacts DEF LastRecord, NoRedo

LEMMA LastRecordAfter == Typed' => (\A o, p : LastRecord(o, p))'
BY LastRecordFacts, PTL

\* The records s have the page, and have it as x.
Names(s, o, p) == \E r \in s : r.object = o /\ r.page = p
Images(s, o, p, x) == \A r \in s : r.object = o /\ r.page = p => r.image = x

\* The records s of the last entry, m, are the only ones that recovery replays
\* after the step and not before it.
Puts(m, s) ==
    /\ m \in DOMAIN wal' /\ DOMAIN wal' = DOMAIN wal \cup {m} /\ \A k \in DOMAIN wal' : k <= m
    /\ Redo(m)' = s /\ (m \in DOMAIN wal => Redo(m) = {})
    /\ \A k \in DOMAIN wal : k # m => Redo(k)' = Redo(k)

\* They are replayed last.
LEMMA ReplayedPuts ==
    ASSUME Typed, Typed', NEW m, NEW s, Puts(m, s), UNCHANGED file, NEW o, NEW p, NEW x
    PROVE  /\ ~Names(s, o, p) => Replayed(o, p)' = Replayed(o, p)
           /\ Names(s, o, p) /\ Images(s, o, p, x) => Replayed(o, p)' = x
<1>1. /\ DOMAIN wal \subseteq Nat /\ m \in Nat /\ DOMAIN wal' \subseteq 0..m
      /\ \A n \in DOMAIN wal : n \in 0..m
  <2>1. DOMAIN wal \subseteq Nat
    BY WalFacts
  <2>2. wal' \in Seq(EntrySet)
    BY DEF Typed
  <2>3. DOMAIN wal' \subseteq Nat
    BY <2>2, LenProperties
  <2>. QED  BY <2>1, <2>3 DEF Puts
<1>2. LastRecord(o, p)'
  BY LastRecordAfter
<1>4. ASSUME \A r \in s : ~(r.object = o /\ r.page = p)
      PROVE  Replayed(o, p)' = Replayed(o, p)
  <2>1. /\ PageRecords(o, p, m)' = {} /\ (m \in DOMAIN wal => PageRecords(o, p, m) = {})
        /\ \A k \in DOMAIN wal : k # m => PageRecords(o, p, k)' = PageRecords(o, p, k)
    BY <1>4 DEF Puts, PageRecords
  <2>2. DOMAIN wal' = DOMAIN wal \cup {m}
    BY DEF Puts
  <2>3. Hits(o, p)' = Hits(o, p) /\ \A k \in Hits(o, p) : PageRecords(o, p, k)' = PageRecords(o, p, k)
    BY <2>1, <2>2 DEF Hits
  <2> DEFINE hits == Hits(o, p)
             last == Max(hits)
  <2>4. hits # {} => last \in hits
    <3>1. hits \in SUBSET (0..m)
      BY <1>1 DEF Hits
    <3> HIDE DEF hits
    <3>2. hits # {} => \E n \in hits : \A k \in hits : k <= n
      BY <1>1, <3>1, GreatestNatural
    <3>3. hits # {} => \E n \in hits : \A k \in hits : n >= k
      BY <1>1, <3>1, <3>2
    <3>. QED  BY <3>3 DEF Max
  <2>5. ReplayedAt(o, p, last)
    BY ReplayedAtFacts
  <2>6. PICK k : k = last
    OBVIOUS
  <2>7. ReplayedAt(o, p, k)'
    BY ReplayedAtAfter
  <2> DEFINE z == PageRecords(o, p, k)
  <2>8. /\ hits = {} => Replayed(o, p) = file[o][p] /\ Replayed(o, p)' = file'[o][p]
        /\ hits # {} => PageRecords(o, p, k)' = z /\ Replayed(o, p) = (CHOOSE r \in z : TRUE).image
                        /\ Replayed(o, p)' = (CHOOSE r \in PageRecords(o, p, k)' : TRUE).image
    BY <2>3, <2>4, <2>5, <2>6, <2>7 DEF ReplayedAt
  <2> HIDE DEF hits, z
  <2>. QED  BY <2>8
<1>5. ASSUME NEW a \in s, a.object = o /\ a.page = p,
             \A r \in s : r.object = o /\ r.page = p => r.image = x
      PROVE  Replayed(o, p)' = x
  <2>1. m \in DOMAIN wal' /\ a \in Redo(m)' /\ Redo(m)' = s
    BY DEF Puts
  <2>2. ~NoRedo(o, p)'
    BY <1>5, <2>1 DEF NoRedo
  <2>3. PICK n \in DOMAIN wal' : \E r \in Redo(n)' :
          /\ r.object = o /\ r.page = p /\ Replayed(o, p)' = r.image
          /\ \A k \in DOMAIN wal' : k > n => \A q \in Redo(k)' : ~(q.object = o /\ q.page = p)
    BY <1>2, <2>2 DEF LastRecord
  <2>4. n = m
    <3>1. ~(m > n)
      BY <1>5, <2>1, <2>3
    <3>2. n <= m /\ n \in Nat
      BY <1>1 DEF Puts
    <3>. QED  BY <1>1, <3>1, <3>2
  <2>. QED  BY <1>5, <2>1, <2>3, <2>4
<1>. QED  BY <1>4, <1>5 DEF Names, Images

\* The Begin record.
LEMMA BeginPuts ==
    ASSUME StructInv, Begin, next_txn_id \in Nat, NEW m, m = Len(wal) + 1
    PROVE  Puts(m, {})
<1> DEFINE e == Entry(next_txn_id)
<1>1. e \in EntrySet /\ e.updates = {} /\ e.commit = FALSE
  BY DEF Entry, EntrySet
<1>2. wal \in Seq(EntrySet) /\ wal' = Append(wal, e) /\ Len(wal) \in Nat /\ DOMAIN wal = 1..Len(wal)
  BY WalFacts DEF StructInv, Begin
<1> HIDE DEF e
<1>3. Appended(wal, wal', e)
  BY <1>1, <1>2, AppendEntry
<1>4. m \in Nat /\ DOMAIN wal' = DOMAIN wal \cup {m} /\ \A k \in DOMAIN wal' : k <= m
  BY <1>2, <1>3 DEF Appended
<1>5. wal'[m] = e /\ m \notin DOMAIN wal /\ \A n \in DOMAIN wal : wal'[n] = wal[n]
  BY <1>2, <1>3 DEF Appended
<1>6. {j \in DOMAIN wal' : wal'[j].commit} = {j \in DOMAIN wal : wal[j].commit}
  BY <1>1, <1>4, <1>5
<1>7. Committed' = Committed
  BY <1>5, <1>6 DEF Committed
<1>8. Redo(m)' = {} /\ \A k \in DOMAIN wal : Redo(k)' = Redo(k)
  BY <1>1, <1>5, <1>7 DEF Redo
<1>. QED  BY <1>4, <1>5, <1>8 DEF Puts

\* The log is the same but for its last entry, whose TxnId no other has.
LEMMA RewriteFacts ==
    ASSUME StructInv, LogInv, txn.state \in {"active", "committing"}, NEW e, Rewritten(wal, wal', e),
           e.txn = LastEntry.txn
    PROVE  /\ Len(wal) \in DOMAIN wal /\ DOMAIN wal' = DOMAIN wal /\ \A k \in DOMAIN wal' : k <= Len(wal)
           /\ Len(wal') = Len(wal) /\ wal'[Len(wal)] = e
           /\ LastEntry = wal[Len(wal)] /\ ~LastEntry.commit /\ Redo(Len(wal)) = {}
           /\ \A k \in DOMAIN wal : k # Len(wal) => wal'[k] = wal[k] /\ wal[k].txn # e.txn
           /\ \A k \in DOMAIN wal : wal'[k].txn = wal[k].txn
<1>1. Len(wal) \in DOMAIN wal /\ Len(wal) \in Nat /\ DOMAIN wal = 1..Len(wal)
  BY WalFacts DEF StructInv, LogInv
<1>2. LastEntry = wal[Len(wal)] /\ ~LastEntry.commit
  BY DEF LastEntry, LogInv
<1>3. \A k \in DOMAIN wal : k # Len(wal) => wal[k].txn # wal[Len(wal)].txn
  BY <1>1 DEF LogInv
<1>4. wal[Len(wal)].txn \notin Committed
  <2>1. \A k \in DOMAIN wal : wal[k].commit => wal[k].txn # wal[Len(wal)].txn
    BY <1>1, <1>2, <1>3
  <2>. QED  BY <2>1 DEF Committed
<1>5. Redo(Len(wal)) = {}
  BY <1>4 DEF Redo
<1>6. /\ DOMAIN wal' = DOMAIN wal /\ Len(wal') = Len(wal)
      /\ \A n \in DOMAIN wal : wal'[n] = IF n = Len(wal) THEN e ELSE wal[n]
  BY DEF Rewritten
<1>7. wal'[Len(wal)] = e /\ \A k \in DOMAIN wal : k # Len(wal) => wal'[k] = wal[k]
  BY <1>1, <1>6
<1>. QED  BY <1>1, <1>2, <1>3, <1>5, <1>6, <1>7

\* An Update record is not replayed before its Commit record.
LEMMA LogUpdatePuts ==
    ASSUME StructInv, LogInv, NEW o, NEW p, LogUpdate(o, p), NEW m, m = Len(wal)
    PROVE  Puts(m, {})
<1> DEFINE e == WithUpdate(LastEntry, Image(o, p))
<1>1. Rewritten(wal, wal', e) /\ txn.state \in {"active", "committing"} /\ Image(o, p) \in Update
  BY LogUpdateFacts DEF LogUpdate
<1>2. e.txn = LastEntry.txn /\ e.commit = LastEntry.commit
  <2>1. LastEntry \in EntrySet
    BY <1>1, WalFacts DEF StructInv, LogInv, LastEntry
  <2>. QED  BY <1>1, <2>1, EntryFields
<1> HIDE DEF e
<1>3. /\ m \in DOMAIN wal /\ DOMAIN wal' = DOMAIN wal /\ \A k \in DOMAIN wal' : k <= m
      /\ wal'[m] = e /\ LastEntry = wal[m] /\ ~LastEntry.commit /\ Redo(m) = {}
      /\ \A k \in DOMAIN wal : k # m => wal'[k] = wal[k] /\ wal[k].txn # e.txn
      /\ \A k \in DOMAIN wal : wal'[k].txn = wal[k].txn
  BY <1>1, <1>2, RewriteFacts
<1>4. {j \in DOMAIN wal' : wal'[j].commit} = {j \in DOMAIN wal : wal[j].commit}
  BY <1>2, <1>3
<1>5. Committed' = Committed
  BY <1>3, <1>4 DEF Committed
<1>6. e.txn \notin Committed
  <2>1. \A k \in DOMAIN wal : wal[k].commit => wal[k].txn # e.txn
    BY <1>3
  <2>. QED  BY <2>1 DEF Committed
<1>7. Redo(m)' = {}
  BY <1>3, <1>5, <1>6 DEF Redo
<1>8. \A k \in DOMAIN wal : k # m => Redo(k)' = Redo(k)
  BY <1>3, <1>5 DEF Redo
<1>. QED  BY <1>3, <1>7, <1>8 DEF Puts

\* The Commit record makes recovery replay the Updates of the transaction, and
\* no others.
LEMMA LogCommitPuts ==
    ASSUME StructInv, LogInv, LogCommit, NEW m, m = Len(wal)
    PROVE  Puts(m, LastEntry.updates)
<1> DEFINE e == WithCommit(LastEntry)
<1>1. Rewritten(wal, wal', e) /\ txn.state \in {"active", "committing"}
  BY LogCommitFacts DEF LogCommit
<1>2. e.txn = LastEntry.txn /\ e.commit = TRUE /\ e.updates = LastEntry.updates
  <2>1. \A x \in EntrySet : WithCommit(x).txn = x.txn /\ WithCommit(x).commit = TRUE /\ WithCommit(x).updates = x.updates
    BY DEF WithCommit, EntrySet
  <2>. QED  BY <1>1, <2>1, WalFacts DEF StructInv, LogInv, LastEntry
<1> HIDE DEF e
<1>3. /\ m \in DOMAIN wal /\ DOMAIN wal' = DOMAIN wal /\ \A k \in DOMAIN wal' : k <= m
      /\ wal'[m] = e /\ LastEntry = wal[m] /\ ~LastEntry.commit /\ Redo(m) = {}
      /\ \A k \in DOMAIN wal : k # m => wal'[k] = wal[k] /\ wal[k].txn # e.txn
      /\ \A k \in DOMAIN wal : wal'[k].txn = wal[k].txn
  BY <1>1, <1>2, RewriteFacts
<1>4. \A x : x \in Committed' <=> x \in Committed \/ x = e.txn
  <2>1. \A x : x \in Committed <=> \E k \in DOMAIN wal : wal[k].commit /\ x = wal[k].txn
    BY DEF Committed
  <2>2. \A x : x \in Committed' <=> \E k \in DOMAIN wal' : wal'[k].commit /\ x = wal'[k].txn
    BY DEF Committed
  <2>. QED  BY <1>2, <1>3, <2>1, <2>2
<1>5. Redo(m)' = LastEntry.updates
  BY <1>2, <1>3, <1>4 DEF Redo
<1>6. \A k \in DOMAIN wal : k # m => Redo(k)' = Redo(k)
  BY <1>3, <1>4 DEF Redo
<1>. QED  BY <1>3, <1>5, <1>6 DEF Puts

LEMMA BeginContent ==
    ASSUME StructInv, StructInv', ContentInv, IdsInv, ExclusiveDdl, Begin
    PROVE  ContentInv'
<1>0. /\ UNCHANGED <<catalog, metadata, objects, file, cache, dirty, call, rows, acked>>
      /\ call.at = "idle" /\ txn.state = "none" /\ txn' = [NoTxn EXCEPT !.state = "active", !.observed = objects]
  BY DEF Begin, catalogvars, At, Observed
<1>1. txn = NoTxn /\ ~At("down") /\ Filling = {} /\ objects \subseteq ObjectId
  <2>1. ~At("flush") /\ ~At("down")
    BY <1>0 DEF At
  <2>. QED  BY <1>0, <2>1, NotFilling DEF StructInv, ControlInv, Typed
<1>2. txn'.dirtied = {} /\ txn'.added = {} /\ txn'.state = "active" /\ txn'.observed = objects
  BY <1>0 DEF NoTxn
<1>3. /\ \A o \in ObjectId : /\ Replays(o) = file[o]
                             /\ \A p \in DOMAIN file[o] : Replayed(o, p) = file[o][p]
      /\ \A o \in objects : cache[o] = Replays(o) /\ \A p \in DOMAIN file[o] : p \notin dirty[o]
  BY <1>1, Clean
<1>4. \A o \in ObjectId : \A p \in DOMAIN file[o] : Replayed(o, p)' = Replayed(o, p)
  <2> TAKE o \in ObjectId
  <2> TAKE p \in DOMAIN file[o]
  <2> DEFINE s == {}
  <2>1. PICK m : m = Len(wal) + 1
    OBVIOUS
  <2>2. Puts(m, s) /\ ~Names(s, o, p)
    BY <2>1, BeginPuts DEF IdsInv, Names
  <2> HIDE DEF s
  <2>. QED  BY <1>0, <2>2, ReplayedPuts DEF StructInv
<1>5. Settles
  BY <1>0, <1>2, <1>3, <1>4 DEF Settles
<1>. QED  BY <1>5, SettlesContent

\* In a transaction that is not committed, files are as recovery would leave
\* them; behind its Commit record, pools are.
LEMMA DuringTransaction ==
    ASSUME StructInv, ContentInv, txn.state # "none"
    PROVE  /\ call.at = "idle" /\ ~At("down") /\ Filling = {} /\ txn.observed = objects
           /\ \A o \in ObjectId : \A p \in DOMAIN file[o] :
                 Replayed(o, p) = IF txn.state = "logged" /\ <<o, p>> \in txn.dirtied THEN cache[o][p] ELSE file[o][p]
           /\ \A o \in objects : \A p \in DOMAIN file[o] :
                 /\ <<o, p>> \notin txn.dirtied => cache[o][p] = file[o][p]
                 /\ p \in dirty[o] => <<o, p>> \in txn.dirtied
<1>1. call.at = "idle" /\ txn.observed = objects
  BY DEF ContentInv, CacheInv, NoTxn
<1>2. ~At("down") /\ ~At("flush")
  BY <1>1 DEF At
<1>3. Filling = {}
  BY <1>2, NotFilling
<1>. QED  BY <1>1, <1>2, <1>3 DEF ContentInv, CacheInv, FileInv

LEMMA ForcePagesContent ==
    ASSUME StructInv, ContentInv, ForcePages
    PROVE  ContentInv'
<1>0. /\ UNCHANGED <<catalog, metadata, objects, cache, wal, call, rows, acked>> /\ txn' = NoTxn
      /\ txn.state = "logged"
      /\ file' = [o \in ObjectId |-> Flushed(o, {p \in DOMAIN file[o] : <<o, p>> \in txn.dirtied})]
      /\ dirty' = [o \in ObjectId |-> {p \in dirty[o] : <<o, p>> \notin txn.dirtied}]
  BY DEF ForcePages, catalogvars, bounds
<1>1. /\ call.at = "idle"
      /\ \A o \in ObjectId : \A p \in DOMAIN file[o] :
            Replayed(o, p) = IF <<o, p>> \in txn.dirtied THEN cache[o][p] ELSE file[o][p]
      /\ \A o \in objects : \A p \in DOMAIN file[o] :
            /\ <<o, p>> \notin txn.dirtied => cache[o][p] = file[o][p]
            /\ p \in dirty[o] => <<o, p>> \in txn.dirtied
  BY <1>0, DuringTransaction
<1>2. ASSUME NEW o \in ObjectId
      PROVE  /\ file'[o] = Replays(o) /\ dirty'[o] \subseteq dirty[o]
             /\ \A p \in DOMAIN file[o] : Replayed(o, p)' = Replayed(o, p)
  <2>1. file'[o] = [p \in DOMAIN file[o] |-> IF <<o, p>> \in txn.dirtied THEN cache[o][p] ELSE file[o][p]]
    BY <1>0 DEF Flushed
  <2>2. file'[o] = Replays(o)
    BY <1>1, <2>1 DEF Replays
  <2>3. \A p \in DOMAIN file[o] : Replayed(o, p)' = Replayed(o, p)
    <3> TAKE p \in DOMAIN file[o]
    <3>1. file'[o][p] = Replayed(o, p)
      BY <2>2 DEF Replays
    <3>. QED  BY <1>0, <3>1, ReplayedEither
  <2>. QED  BY <1>0, <2>2, <2>3
<1>3. ASSUME NEW o \in objects
      PROVE  cache'[o] = Replays(o) /\ \A p \in DOMAIN file[o] : p \notin dirty'[o]
  <2>1. o \in ObjectId /\ DOMAIN cache[o] = DOMAIN file[o] /\ cache[o] = [p \in DOMAIN cache[o] |-> cache[o][p]]
    BY DirtiedPages, ObjectPages DEF StructInv
  <2>2. \A p \in DOMAIN file[o] : cache[o][p] = Replayed(o, p)
    BY <1>1, <2>1
  <2>3. cache[o] = Replays(o)
    BY <2>1, <2>2 DEF Replays
  <2>. QED  BY <1>0, <1>1, <2>1, <2>3
<1>4. Settles
  BY <1>0, <1>1, <1>2, <1>3 DEF Settles, NoTxn
<1>. QED  BY <1>4, SettlesContent

LEMMA AbortContent ==
    ASSUME StructInv, ContentInv, Abort
    PROVE  ContentInv'
<1>0. /\ UNCHANGED <<catalog, metadata, objects, file, wal, call, rows, acked>> /\ txn' = NoTxn
      /\ txn.state = "active"
      /\ cache' = [o \in ObjectId |->
                      [p \in DOMAIN cache[o] |-> IF <<o, p>> \in txn.dirtied THEN file[o][p] ELSE cache[o][p]]]
      /\ dirty' = [o \in ObjectId |-> {p \in dirty[o] : <<o, p>> \notin txn.dirtied}]
  BY DEF Abort, catalogvars, bounds
<1>1. /\ call.at = "idle"
      /\ \A o \in ObjectId : \A p \in DOMAIN file[o] : Replayed(o, p) = file[o][p]
      /\ \A o \in objects : \A p \in DOMAIN file[o] :
            /\ <<o, p>> \notin txn.dirtied => cache[o][p] = file[o][p]
            /\ p \in dirty[o] => <<o, p>> \in txn.dirtied
  BY <1>0, DuringTransaction
<1>2. ASSUME NEW o \in ObjectId
      PROVE  /\ file'[o] = Replays(o) /\ dirty'[o] \subseteq dirty[o]
             /\ \A p \in DOMAIN file[o] : Replayed(o, p)' = Replayed(o, p)
  <2>1. file[o] = [p \in DOMAIN file[o] |-> file[o][p]]
    BY ObjectPages DEF StructInv
  <2>2. file[o] = Replays(o)
    BY <1>1, <2>1 DEF Replays
  <2>. QED  BY <1>0, <2>2, ReplayedSame
<1>3. ASSUME NEW o \in objects
      PROVE  cache'[o] = Replays(o) /\ \A p \in DOMAIN file[o] : p \notin dirty'[o]
  <2>1. o \in ObjectId /\ DOMAIN cache[o] = DOMAIN file[o]
    BY DirtiedPages
  <2>2. cache'[o] = [p \in DOMAIN cache[o] |-> IF <<o, p>> \in txn.dirtied THEN file[o][p] ELSE cache[o][p]]
    BY <1>0, <2>1
  <2>3. cache'[o] = Replays(o)
    BY <1>1, <2>1, <2>2 DEF Replays
  <2>. QED  BY <1>0, <1>1, <2>1, <2>3
<1>4. Settles
  BY <1>0, <1>1, <1>2, <1>3 DEF Settles, NoTxn
<1>. QED  BY <1>4, SettlesContent

LEMMA CheckpointContent ==
    ASSUME StructInv, ContentInv, Checkpoint
    PROVE  ContentInv'
<1>0. /\ UNCHANGED <<catalog, metadata, objects, cache, txn, call, rows, acked>> /\ wal' = <<>>
      /\ call.at = "idle" /\ txn.state = "none"
      /\ file' = [o \in ObjectId |-> IF o \in objects THEN Flushed(o, dirty[o]) ELSE file[o]]
      /\ dirty' = [o \in ObjectId |-> IF o \in objects THEN {} ELSE dirty[o]]
  BY DEF Checkpoint, catalogvars, bounds, At
<1>1. txn = NoTxn /\ ~At("down") /\ Filling = {} /\ objects \subseteq ObjectId
  <2>1. ~At("flush") /\ ~At("down")
    BY <1>0 DEF At
  <2>. QED  BY <1>0, <2>1, NotFilling DEF StructInv, ControlInv, Typed
<1>2. /\ \A o \in ObjectId : /\ Replays(o) = file[o]
                             /\ \A p \in DOMAIN file[o] : Replayed(o, p) = file[o][p]
      /\ \A o \in objects : cache[o] = file[o] /\ cache[o] = Replays(o) /\ \A p \in DOMAIN file[o] : p \notin dirty[o]
  BY <1>1, Clean
<1>3. ASSUME NEW o \in ObjectId
      PROVE  /\ file'[o] = Replays(o) /\ dirty'[o] \subseteq dirty[o]
             /\ \A p \in DOMAIN file[o] : Replayed(o, p)' = Replayed(o, p)
  <2>1. file[o] = [p \in DOMAIN file[o] |-> file[o][p]]
    BY ObjectPages DEF StructInv
  <2>2. o \in objects => Flushed(o, dirty[o]) = file[o]
    BY <1>2, <2>1 DEF Flushed
  <2>3. file'[o] = file[o]
    BY <1>0, <2>2
  <2>4. \A p : NoRecord(o, p)'
    BY <1>0 DEF NoRecord
  <2>5. \A p \in DOMAIN file[o] : Replayed(o, p)' = file'[o][p]
    BY <2>4, ReplayedFree
  <2>. QED  BY <1>0, <1>2, <2>3, <2>5
<1>4. Settles
  BY <1>0, <1>1, <1>2, <1>3 DEF Settles, NoTxn
<1>. QED  BY <1>4, SettlesContent
-----------------------------------------------------------------------------
\* A table is known by its name and by its ObjectId.
LEMMA SavedTables ==
    ASSUME StructInv
    PROVE  /\ \A t, u \in Tables(Saved) : t.name = u.name \/ t.heap_object_id = u.heap_object_id => t = u
           /\ \A i, j \in Indexes(Saved) : i.name = j.name \/ i.object_id = j.object_id => i = j
           /\ \A t \in Tables(Saved) : t.name \in TableName /\ t.heap_object_id \in ObjectId /\ t.heap_object_id \notin TreeIds(Saved)
           /\ \A i \in Indexes(Saved) : i.table_name \in TableName /\ i.object_id \in ObjectId
                                        /\ i.object_id \in TreeIds(Saved) /\ i.object_id \notin HeapIds(Saved)
           /\ \A i \in Indexes(Saved), t \in Tables(Saved) : t.name # i.name
           /\ \A i \in Indexes(Saved) : \E t \in Tables(Saved) : t.name = i.table_name
<1>1. CatalogOK(Saved)
  BY SavedOK DEF StructInv
<1>2. Tables(Saved) \subseteq TableInfo /\ Indexes(Saved) \subseteq IndexSet
  BY <1>1, CatalogFields DEF CatalogOK
<1>3. /\ \A t \in Tables(Saved) : t.name \in TableName /\ t.heap_object_id \in ObjectId
      /\ \A i \in Indexes(Saved) : i.table_name \in TableName /\ i.object_id \in ObjectId
  BY <1>2 DEF TableInfo, IndexSet
<1>4. /\ \A t \in Tables(Saved) : t.heap_object_id \notin TreeIds(Saved)
      /\ \A i \in Indexes(Saved) : i.object_id \in TreeIds(Saved) /\ i.object_id \notin HeapIds(Saved)
  BY <1>1 DEF CatalogOK, TreeIds, HeapIds
<1>. QED  BY <1>1, <1>3, <1>4 DEF CatalogOK

\* An Update record changes nothing that recovery would do.
LEMMA LogUpdateContent ==
    ASSUME StructInv, StructInv', ContentInv, LogInv, NEW q, NEW v, LogUpdate(q, v)
    PROVE  ContentInv'
<1>0. /\ UNCHANGED <<catalog, metadata, objects, file, cache, dirty, call, rows, acked>>
      /\ txn.state \in {"active", "committing"} /\ txn' = [txn EXCEPT !.state = "committing"]
  BY DEF LogUpdate, catalogvars, bounds
<1>1. /\ call.at = "idle" /\ ~At("down") /\ Filling = {}
      /\ \A o \in ObjectId : \A p \in DOMAIN file[o] : Replayed(o, p) = file[o][p]
  BY <1>0, DuringTransaction
<1>2. /\ txn'.state = "committing" /\ txn'.observed = txn.observed /\ txn'.dirtied = txn.dirtied /\ txn'.added = txn.added
  BY <1>0 DEF StructInv, Typed
<1>3. ASSUME NEW o, NEW p PROVE Replayed(o, p)' = Replayed(o, p)
  <2> DEFINE s == {}
  <2>1. PICK m : m = Len(wal)
    OBVIOUS
  <2>2. Puts(m, s) /\ ~Names(s, o, p)
    BY <2>1, LogUpdatePuts DEF Names
  <2> HIDE DEF s
  <2>. QED  BY <1>0, <2>2, ReplayedPuts DEF StructInv
<1>4. \A o : Replays(o)' = Replays(o)
  BY <1>0, <1>3 DEF Replays
<1>5. Saved' = Saved /\ ~At("header")' /\ ~At("flush")' /\ Filling' = {} /\ ~Creating' /\ call'.of.kind = "none" /\ ~At("header")
  <2>1. Saved' = Saved /\ call'.of.kind = "none"
    BY <1>0, <1>1, SavedSame DEF StructInv, ControlInv
  <2>2. ~At("header")' /\ ~At("flush")' /\ ~At("header")
    BY <1>0, <1>1 DEF At
  <2>. QED  BY <2>1, <2>2, NotFilling DEF Creating
<1>6. FileInv'
  BY <1>0, <1>1, <1>2, <1>3 DEF FileInv
<1>7. CacheInv'
  <2>1. /\ \A a \in txn.added : \E t \in Tables(Saved) : t.name = a[1] /\ t.heap_object_id \in objects
        /\ \A o \in ObjectId \ objects : dirty[o] = {}
        /\ txn.observed = objects
        /\ \A o \in objects : \A p \in DOMAIN file[o] :
              /\ <<o, p>> \notin txn.dirtied => cache[o][p] = file[o][p]
              /\ p \in dirty[o] => <<o, p>> \in txn.dirtied
    BY <1>0, <1>1, <1>5 DEF ContentInv, CacheInv
  <2>. QED  BY <1>0, <1>1, <1>2, <1>5, <2>1 DEF CacheInv
<1>8. NewInv'
  BY <1>5 DEF NewInv
<1>9. RowsInv'
  <2>1. \A n : Added(n)' = Added(n)
    BY <1>2 DEF Added
  <2>2. \A i : AckedIndex(i)' = AckedIndex(i)
    BY <1>0 DEF AckedIndex
  <2>. QED  BY <1>0, <1>4, <1>5, <2>1, <2>2 DEF ContentInv, RowsInv
<1>. QED  BY <1>6, <1>7, <1>8, <1>9 DEF ContentInv

LEMMA LogCommitContent ==
    ASSUME StructInv, StructInv', ContentInv, LogInv, LogCommit
    PROVE  ContentInv'
<1> DEFINE s == LastEntry.updates
<1>0. /\ UNCHANGED <<catalog, metadata, objects, file, cache, dirty, call, acked>>
      /\ txn.state \in {"active", "committing"} /\ txn' = [txn EXCEPT !.state = "logged"]
      /\ rows' = [t \in TableName |-> rows[t] \cup {r \in Row : <<t, r>> \in txn.added}]
      /\ Unlogged = {}
  BY DEF LogCommit, catalogvars, bounds
<1>1. /\ call.at = "idle" /\ ~At("down") /\ Filling = {} /\ txn.observed = objects
      /\ \A o \in ObjectId : \A p \in DOMAIN file[o] : Replayed(o, p) = file[o][p]
      /\ \A o \in objects : \A p \in DOMAIN file[o] :
            /\ <<o, p>> \notin txn.dirtied => cache[o][p] = file[o][p]
            /\ p \in dirty[o] => <<o, p>> \in txn.dirtied
  BY <1>0, DuringTransaction
<1>2. /\ txn'.state = "logged" /\ txn'.observed = txn.observed /\ txn'.dirtied = txn.dirtied /\ txn'.added = txn.added
  BY <1>0 DEF StructInv, Typed
<1>3. \A d \in txn.dirtied : /\ d = <<d[1], d[2]>> /\ d[1] \in objects /\ d[1] \in ObjectId /\ d[2] \in Nat \ {0}
                             /\ cache[d[1]][d[2]] \in PageContent /\ d[2] \in 1..Len(file[d[1]])
  BY DirtiedPages
<1>4. /\ \A r \in s : <<r.object, r.page>> \in txn.dirtied /\ r.image = cache[r.object][r.page]
      /\ \A d \in txn.dirtied : \E r \in s : r.object = d[1] /\ r.page = d[2]
  BY <1>0 DEF LogInv, Unlogged, Logged
<1>5. ASSUME NEW o, NEW p
      PROVE  Replayed(o, p)' = IF <<o, p>> \in txn.dirtied THEN cache[o][p] ELSE Replayed(o, p)
  <2>1. Typed /\ Typed'
    BY DEF StructInv
  <2>2. \A r \in s : r.object = o /\ r.page = p => <<o, p>> \in txn.dirtied /\ r.image = cache[o][p]
    BY <1>4
  <2>3. <<o, p>> \in txn.dirtied => \E r \in s : r.object = o /\ r.page = p
    <3> DEFINE d == <<o, p>>
    <3>1. d[1] = o /\ d[2] = p
      OBVIOUS
    <3> HIDE DEF d
    <3>2. d \in txn.dirtied => \E r \in s : r.object = o /\ r.page = p
      BY <1>4, <3>1
    <3>. QED  BY <3>2 DEF d
  <2>0. PICK m : m = Len(wal)
    OBVIOUS
  <2>4. Puts(m, s)
    BY <2>0, LogCommitPuts
  <2> HIDE DEF s
  <2>5. Images(s, o, p, cache[o][p]) /\ (Names(s, o, p) <=> <<o, p>> \in txn.dirtied)
    BY <2>2, <2>3 DEF Names, Images
  <2>6. /\ ~Names(s, o, p) => Replayed(o, p)' = Replayed(o, p)
        /\ Names(s, o, p) /\ Images(s, o, p, cache[o][p]) => Replayed(o, p)' = cache[o][p]
    BY <1>0, <2>1, <2>4, ReplayedPuts
  <2>. QED  BY <2>5, <2>6
<1> HIDE DEF s
<1>6. Saved' = Saved /\ ~At("header")' /\ ~At("flush")' /\ Filling' = {} /\ ~Creating' /\ call'.of.kind = "none"
      /\ objects \subseteq ObjectId /\ TodoIds = {} /\ Running
  <2>1. Saved' = Saved /\ call'.of.kind = "none" /\ call.todo = <<>>
    BY <1>0, <1>1, SavedSame DEF StructInv, ControlInv
  <2>2. ~At("header")' /\ ~At("flush")'
    BY <1>0, <1>1 DEF At
  <2>3. TodoIds = {}
    BY <2>1 DEF TodoIds, ToSet
  <2>. QED  BY <1>1, <2>1, <2>2, <2>3, NotFilling DEF Creating, StructInv, Typed, Running
<1>7. FileInv'
  BY <1>0, <1>1, <1>2, <1>5 DEF FileInv
<1>8. CacheInv'
  <2>1. /\ \A a \in txn'.added : \E t \in Tables(Saved') : t.name = a[1] /\ t.heap_object_id \in objects'
        /\ \A o \in ObjectId \ objects' : dirty'[o] = {}
    <3>1. ~At("header")
      BY <1>1 DEF At
    <3>. QED  BY <1>0, <1>2, <1>6, <3>1 DEF ContentInv, CacheInv
  <2>2. call'.at = "idle" /\ txn'.observed = objects'
    BY <1>0, <1>1, <1>2
  <2>3. \A o \in objects' : \A p \in DOMAIN file'[o] :
          /\ <<o, p>> \notin txn'.dirtied => cache'[o][p] = file'[o][p]
          /\ p \in dirty'[o] => <<o, p>> \in txn'.dirtied
    BY <1>0, <1>1, <1>2
  <2>. QED  BY <1>6, <2>1, <2>2, <2>3 DEF CacheInv
<1>9. NewInv'
  BY <1>6 DEF NewInv
<1>10. \A n \in TableName : rows'[n] = rows[n] \cup Added(n) /\ Added(n)' = Added(n)
  BY <1>0, <1>2 DEF Added
<1>11. \A n : (\A t \in Tables(Saved) : t.name = n => t.heap_object_id \notin objects) => Added(n) = {}
  <2> SUFFICES ASSUME NEW n, NEW r, <<n, r>> \in txn.added
               PROVE  \E t \in Tables(Saved) : t.name = n /\ t.heap_object_id \in objects
    BY DEF Added
  <2> DEFINE a == <<n, r>>
  <2>1. a \in txn.added /\ a[1] = n
    OBVIOUS
  <2> HIDE DEF a
  <2>. QED  BY <2>1 DEF ContentInv, CacheInv
<1>12. ASSUME NEW o \in objects
       PROVE  Replays(o)' = cache[o]
  <2>1. o \in ObjectId /\ DOMAIN cache[o] = DOMAIN file[o] /\ cache[o] = [p \in DOMAIN cache[o] |-> cache[o][p]]
    BY DirtiedPages, ObjectPages DEF StructInv
  <2>2. \A p \in DOMAIN file[o] : Replayed(o, p)' = cache[o][p]
    <3> TAKE p \in DOMAIN file[o]
    <3>1. Replayed(o, p)' = IF <<o, p>> \in txn.dirtied THEN cache[o][p] ELSE Replayed(o, p)
      BY <1>5
    <3>2. Replayed(o, p) = file[o][p] /\ (<<o, p>> \notin txn.dirtied => cache[o][p] = file[o][p])
      BY <1>1, <2>1
    <3>. QED  BY <3>1, <3>2
  <2>. QED  BY <1>0, <2>1, <2>2 DEF Replays
<1>13. ASSUME NEW o \in ObjectId, o \notin objects
       PROVE  Replays(o)' = Replays(o)
  <2>1. \A p : <<o, p>> \notin txn.dirtied
    <3> SUFFICES ASSUME NEW p, <<o, p>> \in txn.dirtied PROVE FALSE
      OBVIOUS
    <3> DEFINE d == <<o, p>>
    <3>1. d \in txn.dirtied /\ d[1] = o
      OBVIOUS
    <3> HIDE DEF d
    <3>. QED  BY <1>3, <1>13, <3>1
  <2>2. \A p \in DOMAIN file[o] : Replayed(o, p)' = Replayed(o, p)
    BY <1>5, <2>1
  <2>. QED  BY <1>0, <2>2, ReplaysSame
<1>14. RowsInv'
  <2>1. ASSUME NEW n \in TableName, \A t \in Tables(Saved) : t.name # n
        PROVE  rows'[n] = {}
    BY <1>10, <1>11, <2>1 DEF ContentInv, RowsInv
  <2>2. ASSUME NEW t \in Tables(Saved)
        PROVE  /\ RowsIn(Replays(t.heap_object_id)') = rows'[t.name]
               /\ t.heap_object_id \in objects => RowsIn(cache[t.heap_object_id]) = rows'[t.name] \cup Added(t.name)'
    <3>1. t.name \in TableName /\ t.heap_object_id \in ObjectId
      BY SavedTables
    <3>2. /\ RowsIn(Replays(t.heap_object_id)) = rows[t.name]
          /\ t.heap_object_id \in objects => RowsIn(cache[t.heap_object_id]) = rows[t.name] \cup Added(t.name)
      BY DEF ContentInv, RowsInv
    <3>3. CASE t.heap_object_id \in objects
      BY <1>10, <1>12, <3>1, <3>2, <3>3
    <3>4. CASE t.heap_object_id \notin objects
      <4>1. \A u \in Tables(Saved) : u.name = t.name => u.heap_object_id \notin objects
        BY <3>4, SavedTables
      <4>2. Added(t.name) = {}
        BY <1>11, <4>1
      <4>. QED  BY <1>10, <1>13, <3>1, <3>2, <3>4, <4>2
    <3>. QED  BY <3>3, <3>4
  <2>3. ASSUME NEW i \in Indexes(Saved), AckedIndex(i)'
        PROVE  /\ TreeHolds(Replays(i.object_id)', rows'[i.table_name])
               /\ i.object_id \in objects => TreeHolds(cache[i.object_id], rows'[i.table_name] \cup Added(i.table_name)')
    <3>1. AckedIndex(i)
      BY <1>0, <2>3 DEF AckedIndex
    <3>2. i.object_id \in objects
      <4>1. i \in Indexes(catalog)
        BY <1>6 DEF StructInv, ListedInv, Includes
      <4>2. i.object_id \in AckedIds
        BY <3>1, <4>1 DEF AckedIds, AckedIndex
      <4>. QED  BY <1>6, <4>2 DEF StructInv, AckedInv
    <3>3. TreeHolds(cache[i.object_id], rows[i.table_name] \cup Added(i.table_name)) /\ i.table_name \in TableName
      BY <3>1, <3>2, SavedTables DEF ContentInv, RowsInv
    <3>4. /\ rows'[i.table_name] = rows[i.table_name] \cup Added(i.table_name)
          /\ rows'[i.table_name] \cup Added(i.table_name)' = rows[i.table_name] \cup Added(i.table_name)
      BY <1>10, <3>3
    <3>. QED  BY <1>12, <3>2, <3>3, <3>4
  <2>. QED  BY <1>0, <1>6, <2>1, <2>2, <2>3 DEF RowsInv
<1>. QED  BY <1>7, <1>8, <1>9, <1>14 DEF ContentInv

LEMMA CrashContent ==
    ASSUME StructInv, ContentInv, Crash
    PROVE  ContentInv'
<1>0. /\ UNCHANGED <<metadata, file, wal, rows, acked>> /\ objects' = {} /\ txn' = NoTxn
      /\ dirty' = [o \in ObjectId |-> {}] /\ call' = [Idle EXCEPT !.at = "down"]
  BY DEF Crash
<1>1. call'.at = "down" /\ call'.of.kind = "none"
  BY <1>0 DEF Idle
<1>2. Saved' = Saved /\ At("down")' /\ ~At("header")' /\ ~At("flush")' /\ ~Creating'
  BY <1>0, <1>1, SavedSame DEF At, Creating
<1>3. FileInv'
  BY <1>2 DEF FileInv
<1>4. CacheInv'
  BY <1>0, <1>2 DEF CacheInv, NoTxn
<1>5. NewInv'
  BY <1>1, <1>2 DEF NewInv
<1>6. RowsInv'
  <2> DEFINE F == {}
  <2>1. \A o \in ObjectId : Replays(o)' = Replays(o)
    BY <1>0, ReplayedSame, ReplaysSame
  <2>2. /\ \A t \in Tables(Saved) : t.heap_object_id \notin F
        /\ \A i \in Indexes(Saved) : AckedIndex(i) => i.object_id \notin F
        /\ \A o \in ObjectId : o \notin F => Replays(o)' = Replays(o)
        /\ \A o \in objects' : o \notin F => cache'[o] = Replays(o)
    BY <1>0, <2>1
  <2>3. txn'.added = {}
    BY <1>0 DEF NoTxn
  <2> HIDE DEF F
  <2>. QED  BY <1>0, <1>2, <2>2, <2>3, RowsKept DEF ContentInv
<1>. QED  BY <1>3, <1>4, <1>5, <1>6 DEF ContentInv

LEMMA OpenContent ==
    ASSUME StructInv, StructInv', ContentInv, Open
    PROVE  ContentInv'
<1>0. /\ UNCHANGED <<metadata, objects, cache, dirty, wal, txn, rows, acked>> /\ At("down")
      /\ \/ /\ file' = [o \in ObjectId |-> [p \in DOMAIN file[o] |-> Replayed(o, p)]]
            /\ \E known : call' = [at |-> "attach", todo |-> known, of |-> [kind |-> "open", name |-> NoColumn]]
         \/ call' = [call EXCEPT !.at = "failed"]
  BY DEF Open
<1>1. ~(call' = [call EXCEPT !.at = "failed"])
  BY DEF StructInv, Typed
<1>2. call'.at = "attach" /\ call'.of.kind = "open"
  BY <1>0, <1>1
<1>3. Saved' = Saved /\ ~At("down")' /\ ~At("header")' /\ ~At("flush")' /\ ~Creating' /\ objects = {} /\ txn = NoTxn
      /\ ~At("header")
  BY <1>0, <1>2, SavedSame DEF At, Creating, StructInv, ControlInv
<1>4. \A o \in ObjectId : file'[o] = Replays(o)
  BY <1>0, <1>1 DEF Replays
<1>5. \A o \in ObjectId : /\ DOMAIN file'[o] = DOMAIN file[o]
                          /\ \A p \in DOMAIN file[o] : file'[o][p] = Replayed(o, p)
  <2>1. \A o : DOMAIN Replays(o) = DOMAIN file[o] /\ \A p \in DOMAIN file[o] : Replays(o)[p] = Replayed(o, p)
    BY DEF Replays
  <2>. QED  BY <1>4, <2>1
<1>6. \A o \in ObjectId : \A p \in DOMAIN file[o] : Replayed(o, p)' = Replayed(o, p)
  BY <1>0, <1>5, ReplayedEither
<1>7. FileInv'
  BY <1>0, <1>3, <1>5, <1>6 DEF FileInv, NoTxn
<1>8. CacheInv'
  BY <1>0, <1>3 DEF ContentInv, CacheInv, NoTxn
<1>9. NewInv'
  BY <1>2, <1>3 DEF NewInv
<1>10. RowsInv'
  <2> DEFINE F == {}
  <2>1. \A o \in ObjectId : Replays(o)' = Replays(o)
    BY <1>5, <1>6, ReplaysSame
  <2>2. /\ \A t \in Tables(Saved) : t.heap_object_id \notin F
        /\ \A i \in Indexes(Saved) : AckedIndex(i) => i.object_id \notin F
        /\ \A o \in ObjectId : o \notin F => Replays(o)' = Replays(o)
        /\ \A o \in objects' : o \notin F => cache'[o] = Replays(o)
    BY <1>0, <1>3, <2>1
  <2>3. txn'.added = {}
    BY <1>0, <1>3 DEF NoTxn
  <2> HIDE DEF F
  <2>. QED  BY <1>0, <1>3, <2>2, <2>3, RowsKept DEF ContentInv
<1>. QED  BY <1>7, <1>8, <1>9, <1>10 DEF ContentInv
-----------------------------------------------------------------------------
\* A step outside any transaction that writes only to objects without records
\* that no acknowledged statement has made.
LEMMA QuietContent ==
    ASSUME StructInv, ContentInv, txn = NoTxn, txn' = NoTxn, ~At("down"), Saved' = Saved,
           UNCHANGED <<wal, rows, acked>>,
           NEW F, \A t \in Tables(Saved) : t.heap_object_id \notin F,
           \A i \in Indexes(Saved) : AckedIndex(i) => i.object_id \notin F,
           \A o \in F : \A p : NoRecord(o, p),
           \A o \in ObjectId : o \notin F => file'[o] = file[o],
           \A o \in objects' : o \notin F => o \in ObjectId /\ cache'[o] = file[o]
    PROVE  FileInv' /\ RowsInv'
<1>1. /\ \A o \in ObjectId : /\ Replays(o) = file[o]
                             /\ \A p \in DOMAIN file[o] : Replayed(o, p) = file[o][p]
  BY Clean
<1>2. ASSUME NEW o \in ObjectId, o \notin F, NEW p \in DOMAIN file[o]
      PROVE  Replayed(o, p)' = Replayed(o, p) /\ Replayed(o, p)' = file'[o][p]
  <2>1. file'[o][p] = file[o][p]
    BY <1>2
  <2>2. Replayed(o, p)' = Replayed(o, p)
    BY <2>1, ReplayedSame
  <2>. QED  BY <1>1, <2>1, <2>2
<1>3. ASSUME NEW o \in F, NEW p
      PROVE  Replayed(o, p)' = file'[o][p]
  <2>1. NoRecord(o, p)'
    BY DEF NoRecord
  <2>. QED  BY <2>1, ReplayedFree
<1>4. FileInv'
  BY <1>2, <1>3 DEF FileInv, NoTxn
<1>5. ASSUME NEW o \in ObjectId, o \notin F
      PROVE  Replays(o)' = Replays(o)
  <2>1. DOMAIN file'[o] = DOMAIN file[o] /\ \A p \in DOMAIN file[o] : Replayed(o, p)' = Replayed(o, p)
    BY <1>2, <1>5
  <2>. QED  BY <2>1, ReplaysSame
<1>6. \A o \in objects' : o \notin F => cache'[o] = Replays(o)
  BY <1>1
<1>7. txn'.added = {}
  BY DEF NoTxn
<1>8. RowsInv'
  BY <1>5, <1>6, <1>7, RowsKept DEF ContentInv
<1>. QED  BY <1>4, <1>8

LEMMA AttachStorageContent ==
    ASSUME StructInv, ContentInv, AttachStorage
    PROVE  ContentInv'
<1> DEFINE n == Next1.id
<1>0. /\ UNCHANGED <<catalog, metadata, file, dirty, wal, txn, failures, rows, acked>>
      /\ call.todo # <<>> /\ call.at = "attach" /\ Attached(n)
      /\ cache' = [cache EXCEPT ![n] = file[n]] /\ (Next1.kind = "heap" \/ file[n] # <<>>)
  BY DEF AttachStorage, catalogvars, bounds, At
<1>1. file' \in [ObjectId -> Seq(PageContent)] /\ cache' \in [ObjectId -> Seq(PageContent)] /\ dirty' \in [ObjectId -> SUBSET Nat]
  <2>1. n \in ObjectId
    BY <1>0, TailTodo DEF StructInv, Todo
  <2>. QED  BY <1>0, <2>1 DEF StructInv, Typed
<1>2. /\ Saved' = Saved /\ objects' = objects \cup {n} /\ ~At("header")'
      /\ Creating' = Creating /\ NewIds' = NewIds
      /\ n \in ObjectId /\ n \in Ids(Saved)
      /\ n \in TreeIds(Saved) <=> Next1.kind = "index"
      /\ Creating => n \notin objects
  BY <1>0, <1>1, AttachedControl
<1>3. cache'[n] = file[n] /\ \A o \in ObjectId : o # n => cache'[o] = cache[o]
  BY <1>0, <1>2 DEF StructInv, Typed
<1>4. /\ call'.at = "attach" /\ call'.of = call.of /\ ~At("down") /\ ~At("flush") /\ ~At("header") /\ ~At("flush")'
      /\ txn = NoTxn /\ txn' = NoTxn /\ objects \subseteq ObjectId /\ Filling = {} /\ Filling' = {}
  <2>1. call'.at = "attach" /\ call'.of = call.of
    BY <1>0 DEF Attached, StructInv, Typed
  <2>2. ~At("down") /\ ~At("flush") /\ ~At("header") /\ ~At("flush")'
    BY <1>0, <2>1 DEF At
  <2>. QED  BY <1>0, <2>1, <2>2, NotFilling DEF ContentInv, CacheInv, StructInv, Typed
<1>5. Creating => (n \notin TreeIds(Saved) /\ file[n] = <<>>)
  <2>1. 1 \in DOMAIN call.todo /\ n = call.todo[1].id
    BY <1>0, TailTodo DEF StructInv
  <2>2. Creating => file[n] = <<>>
    BY <1>4, <2>1 DEF StructInv, ListedInv
  <2>. QED  BY <1>0, <1>2, <2>2
<1> HIDE DEF n
<1>6. \A o \in objects : cache[o] = file[o] /\ \A p \in DOMAIN file[o] : p \notin dirty[o]
  BY <1>4, Clean
<1>7. \A o \in ObjectId \ objects : dirty[o] = {}
  BY <1>4 DEF ContentInv, CacheInv
<1>8. \A o \in objects' : o \in ObjectId /\ cache'[o] = file[o] /\ \A p \in DOMAIN file[o] : p \notin dirty[o]
  <2> TAKE o \in objects'
  <2>1. CASE o \in objects
    BY <1>3, <1>4, <1>6, <2>1
  <2>2. CASE o \notin objects
    BY <1>2, <1>3, <1>7, <2>2
  <2>. QED  BY <2>1, <2>2
<1>9. FileInv' /\ RowsInv'
  <2> DEFINE F == {}
  <2>1. /\ \A t \in Tables(Saved) : t.heap_object_id \notin F
        /\ \A i \in Indexes(Saved) : AckedIndex(i) => i.object_id \notin F
        /\ \A o \in F : \A p : NoRecord(o, p)
        /\ \A o \in ObjectId : o \notin F => file'[o] = file[o]
        /\ \A o \in objects' : o \notin F => o \in ObjectId /\ cache'[o] = file[o]
    BY <1>0, <1>8
  <2> HIDE DEF F
  <2>. QED  BY <1>0, <1>2, <1>4, <2>1, QuietContent
<1>10. CacheInv'
  <2>1. \A o \in ObjectId \ objects' : dirty'[o] = {}
    BY <1>0, <1>2, <1>7
  <2>2. \A o \in objects' : \A p \in DOMAIN file'[o] : cache'[o][p] = file'[o][p] /\ p \notin dirty'[o]
    BY <1>0, <1>8
  <2>. QED  BY <1>2, <1>4, <2>1, <2>2 DEF CacheInv, NoTxn
<1>11. NewInv'
  <2>1. Creating' => \A o \in NewIds' : \A p : NoRecord(o, p)'
    BY <1>0, <1>2 DEF ContentInv, NewInv, NoRecord
  <2>2. Creating' => \A o \in NewIds' \cap objects' :
          cache'[o] = file'[o] /\ file'[o] = IF o \in TreeIds(Saved') THEN <<{NoRoot}>> ELSE <<>>
    <3> SUFFICES ASSUME Creating, NEW o \in NewIds, o \in objects'
                 PROVE  cache'[o] = file[o] /\ file[o] = IF o \in TreeIds(Saved) THEN <<{NoRoot}>> ELSE <<>>
      BY <1>0, <1>2
    <3>1. CASE o = n
      BY <1>5, <1>8, <3>1
    <3>2. CASE o # n
      <4>1. o \in NewIds \cap objects
        BY <1>2, <3>2
      <4>. QED  BY <1>4, <1>8, <4>1 DEF ContentInv, NewInv
    <3>. QED  BY <3>1, <3>2
  <2>3. call'.of.kind = "table" => rows'[call'.of.name] = {}
    BY <1>0, <1>4 DEF ContentInv, NewInv
  <2>. QED  BY <1>2, <1>4, <2>1, <2>2, <2>3 DEF NewInv
<1>. QED  BY <1>9, <1>10, <1>11 DEF ContentInv

\* A tree that an acknowledged statement has made has a header.
LEMMA AckedHasHeader ==
    ASSUME StructInv, ContentInv, txn = NoTxn, ~At("down"), NEW i \in Indexes(Saved), AckedIndex(i)
    PROVE  file[i.object_id] # <<>> /\ file[i.object_id][1] # Zeroed
<1>1. TreeHolds(Replays(i.object_id), rows[i.table_name])
  BY DEF ContentInv, RowsInv
<1>2. Replays(i.object_id) = file[i.object_id]
  BY Clean, SavedTables
<1>. QED  BY <1>1, <1>2 DEF TreeHolds

LEMMA NewHeaderContent ==
    ASSUME StructInv, ContentInv, NewHeader
    PROVE  ContentInv'
<1> DEFINE n == Next1.id
<1>0. /\ UNCHANGED <<catalog, metadata, objects, wal, txn, failures, rows, acked>>
      /\ call.todo # <<>> /\ call.at = "attach" /\ Next1.kind = "index" /\ file[n] = <<>>
      /\ file' = [file EXCEPT ![n] = Zeros(1)] /\ cache' = [cache EXCEPT ![n] = <<{NoRoot}>>]
      /\ dirty' = [dirty EXCEPT ![n] = {1}] /\ call' = [call EXCEPT !.at = "header"]
  BY DEF NewHeader, catalogvars, bounds, At
<1>1. Saved' = Saved
  BY <1>0, SavedSame
<1>2. /\ 1 \in DOMAIN call.todo /\ Next1 = call.todo[1] /\ n \in ObjectId /\ n \in TreeIds(Saved)
  <2>1. 1 \in DOMAIN call.todo /\ Next1 = call.todo[1] /\ Next1 \in Todo /\ Next1 \in ToSet(call.todo)
    BY <1>0, TailTodo DEF StructInv
  <2>. QED  BY <1>0, <2>1 DEF StructInv, ListedInv, Todo
<1>3. call'.at = "header" /\ call'.todo = call.todo /\ call'.of = call.of
  BY <1>0 DEF StructInv, Typed
<1>4. /\ NewIds' = NewIds /\ Creating' = Creating /\ ~At("down") /\ ~At("flush") /\ ~At("header")
      /\ At("header")' /\ ~At("flush")'
  BY <1>0, <1>3 DEF NewIds, Creating, At
<1>5. /\ \A o \in ObjectId : o # n => file'[o] = file[o] /\ cache'[o] = cache[o] /\ dirty'[o] = dirty[o]
  BY <1>0, <1>2 DEF StructInv, Typed
<1>6. txn = NoTxn /\ txn' = NoTxn /\ objects \subseteq ObjectId /\ Filling = {} /\ Filling' = {}
  BY <1>0, <1>4, NotFilling DEF ContentInv, CacheInv, StructInv, Typed
<1> HIDE DEF n
<1>7. n \notin objects
  <2>1. SUFFICES ASSUME n \in objects PROVE FALSE
    OBVIOUS
  <2>2. cache[n] # <<>> /\ Len(cache[n]) = Len(file[n]) /\ cache[n] \in Seq(PageContent)
    BY <1>2, <2>1, DirtiedPages DEF StructInv, PagesInv
  <2>3. Len(file[n]) = 0
    BY <1>0 DEF n
  <2>. QED  BY <2>2, <2>3, EmptySeq
<1>8. \A p : NoRecord(n, p)
  <2>1. \A k \in DOMAIN wal : \A r \in wal[k].updates : r.page \in Nat \ {0} /\ r.page <= Len(file[r.object])
    BY WalFacts DEF StructInv, PagesInv
  <2>2. Len(file[n]) = 0
    BY <1>0 DEF n
  <2>. QED  BY <2>1, <2>2 DEF NoRecord
<1>9. \A o \in objects : o \in ObjectId /\ o # n /\ cache[o] = file[o] /\ \A p \in DOMAIN file[o] : p \notin dirty[o]
  BY <1>4, <1>6, <1>7, Clean
<1>10. FileInv' /\ RowsInv'
  <2> DEFINE F == {n}
  <2>1. \A t \in Tables(Saved) : t.heap_object_id \notin F
    BY <1>2, SavedTables
  <2>2. \A i \in Indexes(Saved) : AckedIndex(i) => i.object_id \notin F
    <3>1. \A i \in Indexes(Saved) : AckedIndex(i) => file[i.object_id] # <<>>
      BY <1>4, <1>6, AckedHasHeader
    <3>2. file[n] = <<>>
      BY <1>0 DEF n
    <3>. QED  BY <3>1, <3>2
  <2>3. /\ \A o \in F : \A p : NoRecord(o, p)
        /\ \A o \in ObjectId : o \notin F => file'[o] = file[o]
        /\ \A o \in objects' : o \notin F => o \in ObjectId /\ cache'[o] = file[o]
    BY <1>0, <1>5, <1>8, <1>9
  <2> HIDE DEF F
  <2>. QED  BY <1>0, <1>1, <1>4, <1>6, <2>1, <2>2, <2>3, QuietContent
<1>11. CacheInv'
  <2>1. \A o \in ObjectId \ objects' : dirty'[o] = {} \/ o = call'.todo[1].id
    <3>1. \A o \in ObjectId \ objects : dirty[o] = {}
      BY <1>4 DEF ContentInv, CacheInv
    <3>. QED  BY <1>0, <1>2, <1>3, <1>5, <3>1 DEF n
  <2>2. \A o \in objects' : \A p \in DOMAIN file'[o] : cache'[o][p] = file'[o][p] /\ p \notin dirty'[o]
    BY <1>0, <1>5, <1>9
  <2>3. call'.todo[1].id \notin objects'
    BY <1>0, <1>2, <1>3, <1>7 DEF n
  <2>. QED  BY <1>4, <1>6, <2>1, <2>2, <2>3 DEF CacheInv, NoTxn
<1>12. NewInv'
  <2>1. (\A p : NoRecord(call.todo[1].id, p))'
    <3>1. call'.todo[1].id = n
      BY <1>2, <1>3 DEF n
    <3>. QED  BY <1>0, <1>8, <3>1 DEF NoRecord
  <2>2. Creating' => \A o \in NewIds' : \A p : NoRecord(o, p)'
    BY <1>0, <1>4 DEF ContentInv, NewInv, NoRecord
  <2>3. Creating' => \A o \in NewIds' \cap objects' :
          cache'[o] = file'[o] /\ file'[o] = IF o \in TreeIds(Saved') THEN <<{NoRoot}>> ELSE <<>>
    <3>1. Creating => \A o \in NewIds \cap objects :
            cache[o] = file[o] /\ file[o] = IF o \in TreeIds(Saved) THEN <<{NoRoot}>> ELSE <<>>
      BY <1>4 DEF ContentInv, NewInv
    <3>. QED  BY <1>0, <1>1, <1>4, <1>5, <1>9, <3>1
  <2>4. call'.of.kind = "table" => rows'[call'.of.name] = {}
    BY <1>0, <1>3 DEF ContentInv, NewInv
  <2>. QED  BY <1>4, <2>1, <2>2, <2>3, <2>4 DEF NewInv
<1>. QED  BY <1>10, <1>11, <1>12 DEF ContentInv

LEMMA FlushHeaderContent ==
    ASSUME StructInv, ContentInv, FlushHeader
    PROVE  ContentInv'
<1> DEFINE n == Next1.id
<1>0. /\ UNCHANGED <<catalog, metadata, cache, wal, txn, failures, rows, acked>>
      /\ call.at = "header" /\ Attached(n)
      /\ file' = [file EXCEPT ![n] = Flushed(n, {1})] /\ dirty' = [dirty EXCEPT ![n] = {}]
  BY DEF FlushHeader, catalogvars, bounds, At
<1>1. /\ call.todo # <<>> /\ Next1 = call.todo[1] /\ n \in ObjectId /\ Next1.kind = "index" /\ At("header")
      /\ file[n] = <<Zeroed>> /\ cache[n] = <<{NoRoot}>>
  <2>1. call.todo # <<>> /\ call.todo[1].kind = "index" /\ At("header")
    BY <1>0 DEF StructInv, ControlInv, At
  <2>2. Next1 = call.todo[1] /\ Next1 \in Todo
    BY <2>1, TailTodo DEF StructInv
  <2>. QED  BY <2>1, <2>2 DEF StructInv, PagesInv, Todo
<1>2. Flushed(n, {1}) = <<{NoRoot}>>
  <2>1. DOMAIN file[n] = {1} /\ cache[n][1] = {NoRoot}
    BY <1>1
  <2>2. Flushed(n, {1}) = [p \in {1} |-> {NoRoot}]
    BY <2>1 DEF Flushed
  <2>. QED  BY <2>2
<1>3. <<{NoRoot}>> \in Seq(PageContent)
  <2>1. {NoRoot} \in PageContent
    BY DEF PageContent
  <2>. QED  BY <2>1
<1>4. /\ file' \in [ObjectId -> Seq(PageContent)] /\ cache' \in [ObjectId -> Seq(PageContent)]
      /\ dirty' \in [ObjectId -> SUBSET Nat] /\ dirty'[n] = {}
      /\ file'[n] = <<{NoRoot}>> /\ \A o \in ObjectId : o # n => file'[o] = file[o] /\ dirty'[o] = dirty[o]
  BY <1>0, <1>1, <1>2, <1>3 DEF StructInv, Typed
<1>5. file[n] # <<>> /\ file[n][1] = Zeroed
  BY <1>1
<1>6. /\ Saved' = Saved /\ objects' = objects \cup {n} /\ ~At("header")'
      /\ Creating' = Creating /\ NewIds' = NewIds
      /\ n \in ObjectId /\ n \in TreeIds(Saved)
  BY <1>0, <1>1, <1>4, <1>5, AttachedControl
<1>7. /\ call'.at = "attach" /\ call'.of = call.of /\ ~At("down") /\ ~At("flush") /\ ~At("flush")'
      /\ txn = NoTxn /\ txn' = NoTxn /\ objects \subseteq ObjectId /\ Filling = {} /\ Filling' = {}
  <2>1. call'.at = "attach" /\ call'.of = call.of
    BY <1>0 DEF Attached, StructInv, Typed
  <2>2. ~At("down") /\ ~At("flush") /\ ~At("flush")'
    BY <1>0, <2>1 DEF At
  <2>. QED  BY <1>0, <2>1, <2>2, NotFilling DEF ContentInv, CacheInv, StructInv, Typed
<1> HIDE DEF n
<1>8. n \notin objects /\ (\A p : NoRecord(n, p)) /\ (\A o \in ObjectId \ objects : o # n => dirty[o] = {})
  BY <1>1 DEF ContentInv, CacheInv, NewInv, n
<1>9. \A o \in objects : o \in ObjectId /\ o # n /\ cache[o] = file[o] /\ \A p \in DOMAIN file[o] : p \notin dirty[o]
  BY <1>7, <1>8, Clean
<1>10. FileInv' /\ RowsInv'
  <2> DEFINE F == {n}
  <2>1. \A t \in Tables(Saved) : t.heap_object_id \notin F
    BY <1>6, SavedTables
  <2>2. \A i \in Indexes(Saved) : AckedIndex(i) => i.object_id \notin F
    <3>1. \A i \in Indexes(Saved) : AckedIndex(i) => file[i.object_id][1] # Zeroed
      BY <1>7, AckedHasHeader
    <3>. QED  BY <1>5, <3>1
  <2>3. /\ \A o \in F : \A p : NoRecord(o, p)
        /\ \A o \in ObjectId : o \notin F => file'[o] = file[o]
        /\ \A o \in objects' : o \notin F => o \in ObjectId /\ cache'[o] = file[o]
    BY <1>0, <1>4, <1>6, <1>8, <1>9
  <2> HIDE DEF F
  <2>. QED  BY <1>0, <1>6, <1>7, <2>1, <2>2, <2>3, QuietContent
<1>11. \A o \in objects' : cache'[o] = file'[o] /\ \A p \in DOMAIN file'[o] : p \notin dirty'[o]
  <2> TAKE o \in objects'
  <2>1. CASE o = n
    BY <1>0, <1>1, <1>4, <2>1
  <2>2. CASE o # n
    BY <1>0, <1>4, <1>6, <1>9, <2>2
  <2>. QED  BY <2>1, <2>2
<1>12. CacheInv'
  <2>1. \A o \in ObjectId \ objects' : dirty'[o] = {}
    BY <1>4, <1>6, <1>8
  <2>. QED  BY <1>6, <1>7, <1>11, <2>1 DEF CacheInv, NoTxn
<1>13. NewInv'
  <2>2. Creating' => \A o \in NewIds' : \A p : NoRecord(o, p)'
    BY <1>0, <1>6 DEF ContentInv, NewInv, NoRecord
  <2>3. Creating' => \A o \in NewIds' \cap objects' :
          cache'[o] = file'[o] /\ file'[o] = IF o \in TreeIds(Saved') THEN <<{NoRoot}>> ELSE <<>>
    <3> SUFFICES ASSUME Creating, NEW o \in NewIds, o \in objects'
                 PROVE  file'[o] = IF o \in TreeIds(Saved) THEN <<{NoRoot}>> ELSE <<>>
      BY <1>6, <1>11
    <3>1. CASE o = n
      BY <1>4, <1>6, <3>1
    <3>2. CASE o # n
      <4>1. o \in NewIds \cap objects
        BY <1>6, <3>2
      <4>2. file[o] = IF o \in TreeIds(Saved) THEN <<{NoRoot}>> ELSE <<>>
        BY <1>7, <4>1 DEF ContentInv, NewInv
      <4>. QED  BY <1>4, <1>7, <3>2, <4>1, <4>2
    <3>. QED  BY <3>1, <3>2
  <2>4. call'.of.kind = "table" => rows'[call'.of.name] = {}
    BY <1>0, <1>7 DEF ContentInv, NewInv
  <2>. QED  BY <1>6, <1>7, <2>2, <2>3, <2>4 DEF NewInv
<1>. QED  BY <1>10, <1>12, <1>13 DEF ContentInv
-----------------------------------------------------------------------------
\* The trees of the statements that new names hold the rows of their tables.
Fulfils(new) ==
    \A i \in Indexes(Saved) : (i.name \in new \/ (i.is_primary_key /\ i.table_name \in new)) =>
        i.object_id \in objects /\ TreeHolds(cache[i.object_id], rows[i.table_name])

\* A call returns, and new names what it acknowledges.
LEMMA ReturnContent ==
    ASSUME StructInv, ContentInv, UNCHANGED <<catalog, metadata, objects, file, cache, dirty, wal, txn, rows>>,
           call.at \in {"attach", "flush"}, call' = Idle, NEW new, acked' = acked \cup new, Fulfils(new),
           \A o \in objects : \A p \in DOMAIN file[o] : p \notin dirty[o]
    PROVE  ContentInv'
<1>1. /\ Saved' = Saved /\ ~At("down") /\ ~At("header") /\ ~At("header")' /\ ~At("flush")' /\ ~Creating'
      /\ call'.at = "idle" /\ call'.of.kind = "none"
  <2>1. call'.at = "idle" /\ call'.of.kind = "none"
    BY DEF Idle
  <2>. QED  BY <2>1, SavedSame DEF At, Creating
<1>2. txn = NoTxn /\ Filling' = {} /\ objects \subseteq ObjectId
  BY <1>1, NotFilling DEF ContentInv, CacheInv, StructInv, Typed
<1>3. \A o \in objects : \A p \in DOMAIN file[o] : cache[o][p] = file[o][p]
  BY <1>2 DEF ContentInv, CacheInv, NoTxn
<1>4. ASSUME NEW o \in objects
      PROVE  cache[o] = Replays(o)
  <2>1. o \in ObjectId /\ DOMAIN cache[o] = DOMAIN file[o] /\ cache[o] = [p \in DOMAIN cache[o] |-> cache[o][p]]
        /\ file[o] = [p \in DOMAIN file[o] |-> file[o][p]]
    BY DirtiedPages, ObjectPages DEF StructInv
  <2>2. cache[o] = file[o]
    BY <1>3, <2>1
  <2>. QED  BY <1>1, <1>2, <2>1, <2>2, Clean
<1>5. \A o, p : Replayed(o, p)' = Replayed(o, p)
  BY DEF Replayed, Redo, Committed
<1>6. \A o : Replays(o)' = Replays(o)
  BY <1>5 DEF Replays
<1>7. FileInv'
  BY <1>1, <1>5 DEF ContentInv, FileInv
<1>8. CacheInv'
  <2>1. \A o \in ObjectId \ objects : dirty[o] = {}
    BY <1>1 DEF ContentInv, CacheInv
  <2>. QED  BY <1>1, <1>2, <1>3, <2>1 DEF CacheInv, NoTxn
<1>9. NewInv'
  BY <1>1 DEF NewInv
<1>10. \A n : Added(n)' = Added(n) /\ Added(n) = {}
  BY <1>2 DEF Added, NoTxn
<1>11. RowsInv'
  <2>1. ASSUME NEW i \in Indexes(Saved), AckedIndex(i)'
        PROVE  /\ TreeHolds(Replays(i.object_id), rows[i.table_name])
               /\ i.object_id \in objects => TreeHolds(cache[i.object_id], rows[i.table_name] \cup Added(i.table_name))
    <3>1. CASE AckedIndex(i)
      BY <3>1 DEF ContentInv, RowsInv
    <3>2. CASE ~AckedIndex(i)
      <4>1. i.name \in new \/ (i.is_primary_key /\ i.table_name \in new)
        BY <2>1, <3>2 DEF AckedIndex
      <4>2. i.object_id \in objects /\ TreeHolds(cache[i.object_id], rows[i.table_name])
        BY <4>1 DEF Fulfils
      <4>3. rows[i.table_name] \cup Added(i.table_name) = rows[i.table_name]
        BY <1>10
      <4>. QED  BY <1>4, <4>2, <4>3
    <3>. QED  BY <3>1, <3>2
  <2>. QED  BY <1>1, <1>6, <1>10, <2>1 DEF ContentInv, RowsInv
<1>. QED  BY <1>7, <1>8, <1>9, <1>11 DEF ContentInv

\* A tree that has no rows.
LEMMA EmptyTree == TreeHolds(<<{NoRoot}>>, {})
<1> DEFINE q == <<{NoRoot}>>
<1>1. q # <<>> /\ q[1] = {NoRoot} /\ {NoRoot} # Zeroed
  BY HeaderPages
<1> HIDE DEF q
<1>2. TreeRows(q) = {}
  BY <1>1 DEF TreeRows
<1>3. TreeHolds(q, {})
  BY <1>1, <1>2 DEF TreeHolds
<1>. QED  BY <1>3 DEF q

LEMMA AttachDoneContent ==
    ASSUME StructInv, ContentInv, AttachDone
    PROVE  ContentInv'
<1> DEFINE new == IF call.of.kind = "table" THEN {call.of.name} ELSE {}
<1>0. /\ UNCHANGED <<catalog, metadata, objects, file, cache, dirty, wal, txn, rows>>
      /\ call.at = "attach" /\ call.todo = <<>> /\ call' = Idle /\ acked' = acked \cup new
  BY DEF AttachDone, Return, catalogvars, storagevars, At
<1>1. ~At("down") /\ ~At("flush") /\ txn = NoTxn /\ Filling = {} /\ Running /\ TodoIds = {}
  <2>1. ~At("down") /\ ~At("flush") /\ Running /\ TodoIds = {}
    BY <1>0 DEF At, Running, TodoIds, ToSet
  <2>. QED  BY <1>0, <2>1, NotFilling DEF ContentInv, CacheInv
<1>2. \A o \in objects : \A p \in DOMAIN file[o] : p \notin dirty[o]
  BY <1>1, Clean
<1>3. Fulfils(new)
  <2> SUFFICES ASSUME NEW i \in Indexes(Saved), i.name \in new \/ (i.is_primary_key /\ i.table_name \in new)
               PROVE  i.object_id \in objects /\ TreeHolds(cache[i.object_id], rows[i.table_name])
    BY DEF Fulfils
  <2>1. call.of.kind = "table" /\ new = {call.of.name} /\ Creating
    BY DEF Creating
  <2>2. \E t \in Tables(Saved) : t.name = call.of.name
    BY <2>1 DEF StructInv, ListedInv
  <2>3. i.is_primary_key /\ i.table_name = call.of.name
    BY <2>1, <2>2, SavedTables
  <2>4. i \in Indexes(catalog)
    BY <1>1 DEF StructInv, ListedInv, Includes
  <2>5. i.object_id \in NewIds
    BY <2>1, <2>3, <2>4 DEF NewIds
  <2>6. i.object_id \in objects
    BY <1>1, <2>1, <2>5 DEF StructInv, ListedInv
  <2>7. cache[i.object_id] = <<{NoRoot}>> /\ rows[i.table_name] = {}
    <3>1. i.object_id \in TreeIds(Saved)
      BY SavedTables
    <3>. QED  BY <1>1, <2>1, <2>3, <2>5, <2>6, <3>1 DEF ContentInv, NewInv
  <2>. QED  BY <2>6, <2>7, EmptyTree
<1> HIDE DEF new
<1>. QED  BY <1>0, <1>2, <1>3, ReturnContent

LEMMA PopulateThrowsContent ==
    ASSUME StructInv, ContentInv, PopulateThrows
    PROVE  ContentInv'
<1> DEFINE new == {}
<1>0. /\ UNCHANGED <<catalog, metadata, objects, file, cache, dirty, wal, txn, rows>>
      /\ call.at = "attach" /\ call' = Idle /\ acked' = acked \cup new
  BY DEF PopulateThrows, Return, catalogvars, storagevars, At
<1>1. ~At("down") /\ ~At("flush") /\ txn = NoTxn /\ Filling = {}
  <2>1. ~At("down") /\ ~At("flush")
    BY <1>0 DEF At
  <2>. QED  BY <1>0, <2>1, NotFilling DEF ContentInv, CacheInv
<1>2. \A o \in objects : \A p \in DOMAIN file[o] : p \notin dirty[o]
  BY <1>1, Clean
<1>3. Fulfils(new)
  BY DEF Fulfils
<1> HIDE DEF new
<1>. QED  BY <1>0, <1>2, <1>3, ReturnContent

LEMMA CreateIndexReturnsContent ==
    ASSUME StructInv, ContentInv, CreateIndexReturns
    PROVE  ContentInv'
<1> DEFINE new == {call.of.name}
<1>0. /\ UNCHANGED <<catalog, metadata, objects, file, cache, dirty, wal, txn, rows>>
      /\ call.at = "flush" /\ call' = Idle /\ acked' = acked \cup new /\ dirty[Created.object_id] = {}
  BY DEF CreateIndexReturns, Return, catalogvars, storagevars, At
<1>1. /\ ~At("down") /\ At("flush") /\ txn = NoTxn /\ Running /\ call.of.kind = "index" /\ Creating /\ TodoIds = {}
      /\ Filling = NewIds /\ txn.dirtied = {}
  <2>1. ~At("down") /\ At("flush") /\ Running
    BY <1>0 DEF At, Running
  <2>2. call.of.kind = "index" /\ TodoIds = {}
    BY <2>1 DEF StructInv, ControlInv, TodoIds, ToSet
  <2>. QED  BY <1>0, <2>1, <2>2 DEF ContentInv, CacheInv, Filling, Creating, NoTxn
<1>2. /\ Created \in Indexes(Saved) /\ Created.name = call.of.name /\ NewIds = {Created.object_id}
      /\ Created.object_id \in TreeIds(Saved)
  BY <1>1, CreatedFacts
<1>3. \A o \in objects : \A p \in DOMAIN file[o] : p \notin dirty[o]
  <2> TAKE o \in objects
  <2>1. CASE o = Created.object_id
    BY <1>0, <2>1
  <2>2. CASE o # Created.object_id
    BY <1>1, <1>2, <2>2 DEF ContentInv, CacheInv
  <2>. QED  BY <2>1, <2>2
<1>4. Fulfils(new)
  <2> SUFFICES ASSUME NEW i \in Indexes(Saved), i.name \in new \/ (i.is_primary_key /\ i.table_name \in new)
               PROVE  i.object_id \in objects /\ TreeHolds(cache[i.object_id], rows[i.table_name])
    BY DEF Fulfils
  <2>1. i = Created
    <3>1. \E t \in Tables(Saved) : t.name = i.table_name
      BY SavedTables
    <3>2. i.table_name # Created.name
      BY <1>2, <3>1, SavedTables
    <3>. QED  BY <1>2, <3>2, SavedTables
  <2>2. i.object_id \in objects
    BY <1>1, <1>2, <2>1 DEF StructInv, ListedInv
  <2>3. cache[i.object_id] # <<>> /\ cache[i.object_id][1] # Zeroed
    BY <1>1, <1>2, <2>1, <2>2 DEF StructInv, PagesInv
  <2>4. TreeRows(cache[i.object_id]) = rows[i.table_name]
    BY <1>1, <1>2, <2>1 DEF ContentInv, NewInv
  <2>. QED  BY <2>2, <2>3, <2>4 DEF TreeHolds
<1> HIDE DEF new
<1>. QED  BY <1>0, <1>3, <1>4, ReturnContent
-----------------------------------------------------------------------------
\* A step of the backfill of the tree o.
Fills(o) ==
    /\ UNCHANGED <<catalog, metadata, objects, wal, txn, rows, acked>>
    /\ call.at \in {"attach", "flush"} /\ call.of.kind = "index" /\ call.todo = <<>>
    /\ call'.at = "flush" /\ call'.of = call.of
    /\ \A x \in ObjectId \ {o} : file'[x] = file[x] /\ cache'[x] = cache[x] /\ dirty'[x] = dirty[x]
    /\ \A p \in DOMAIN file'[o] : p \notin dirty'[o] => cache'[o][p] = file'[o][p]
    /\ TreeRows(cache'[o]) = rows[Created.table_name]

\* The tree of a CREATE INDEX that has its storage.
LEMMA CreatedTree ==
    ASSUME StructInv, call.at \in {"attach", "flush"}, call.of.kind = "index", call.todo = <<>>
    PROVE  /\ Created \in Indexes(Saved) /\ Created.name = call.of.name /\ ~Created.is_primary_key
           /\ NewIds = {Created.object_id} /\ Created.object_id \in TreeIds(Saved)
           /\ Created.object_id \in ObjectId /\ Created.object_id \in objects
           /\ Running /\ Creating /\ call.of.name \notin acked
<1>1. Running /\ Creating /\ TodoIds = {}
  BY DEF Running, Creating, TodoIds, ToSet
<1>2. /\ Created \in Indexes(Saved) /\ Created.name = call.of.name /\ ~Created.is_primary_key
      /\ NewIds = {Created.object_id} /\ Created.object_id \in TreeIds(Saved) /\ Created.object_id \in ObjectId
  BY <1>1, CreatedFacts
<1>. QED  BY <1>1, <1>2 DEF StructInv, ListedInv

LEMMA FillsContent ==
    ASSUME StructInv, ContentInv, Fills(Created.object_id)
    PROVE  ContentInv'
<1> DEFINE o == Created.object_id
<1>0. Fills(o) /\ call.at \in {"attach", "flush"} /\ call.of.kind = "index" /\ call.todo = <<>>
  BY DEF Fills
<1>1. /\ Created \in Indexes(Saved) /\ Created.name = call.of.name /\ ~Created.is_primary_key
      /\ NewIds = {o} /\ o \in TreeIds(Saved) /\ o \in ObjectId /\ o \in objects
      /\ Running /\ Creating /\ call.of.name \notin acked
  BY <1>0, CreatedTree
<1>2. Created' = Created
  BY <1>0 DEF Fills, Created
<1> HIDE DEF o
<1> USE DEF Fills
<1>3. /\ Saved' = Saved /\ NewIds' = NewIds /\ Creating' /\ At("flush")' /\ ~At("header")' /\ ~At("down")' /\ ~At("down")
      /\ ~At("header")
  BY <1>0, <1>1, SavedSame DEF NewIds, Creating, At
<1>4. txn = NoTxn /\ txn' = NoTxn /\ objects \subseteq ObjectId
  BY <1>0 DEF ContentInv, CacheInv, StructInv, Typed
<1>5. Filling' = {o} /\ Filling \subseteq {o}
  BY <1>1, <1>3 DEF Filling
<1>6. \A x \in objects : x # o => x \in ObjectId /\ cache[x] = file[x] /\ \A p \in DOMAIN file[x] : p \notin dirty[x]
  BY <1>3, <1>4, <1>5, Clean
<1>7. \A p : NoRecord(o, p)
  BY <1>1 DEF ContentInv, NewInv
<1>8. FileInv' /\ RowsInv'
  <2> DEFINE F == {o}
  <2>1. \A t \in Tables(Saved) : t.heap_object_id \notin F
    BY <1>1, SavedTables
  <2>2. \A i \in Indexes(Saved) : AckedIndex(i) => i.object_id \notin F
    <3>1. ~AckedIndex(Created)
      BY <1>1 DEF AckedIndex
    <3>2. \A i \in Indexes(Saved) : i.object_id = o => i = Created
      BY <1>1, SavedTables DEF o
    <3>. QED  BY <3>1, <3>2
  <2>3. /\ \A x \in F : \A p : NoRecord(x, p)
        /\ \A x \in ObjectId : x \notin F => file'[x] = file[x]
        /\ \A x \in objects' : x \notin F => x \in ObjectId /\ cache'[x] = file[x]
    BY <1>0, <1>6, <1>7
  <2>4. UNCHANGED <<wal, rows, acked>>
    BY <1>0
  <2> HIDE DEF F
  <2>. QED  BY <1>3, <1>4, <2>1, <2>2, <2>3, <2>4, QuietContent
<1>9. CacheInv'
  <2>1. \A x \in ObjectId \ objects' : dirty'[x] = {}
    BY <1>0, <1>1, <1>3 DEF ContentInv, CacheInv
  <2>2. \A x \in objects' : \A p \in DOMAIN file'[x] :
          (IF x \in Filling' THEN p \notin dirty'[x] ELSE <<x, p>> \notin txn'.dirtied) => cache'[x][p] = file'[x][p]
    BY <1>0, <1>5, <1>6
  <2>3. \A x \in objects' : \A p \in DOMAIN file'[x] : (p \in dirty'[x] /\ x \notin Filling') => <<x, p>> \in txn'.dirtied
    BY <1>0, <1>5, <1>6
  <2>. QED  BY <1>3, <1>4, <2>1, <2>2, <2>3 DEF CacheInv, NoTxn
<1>10. NewInv'
  <2>1. \A x \in NewIds' : \A p : NoRecord(x, p)'
    BY <1>0, <1>1, <1>3, <1>7 DEF NoRecord
  <2>2. \A i \in Indexes(Saved') : i.name = call'.of.name => TreeRows(cache'[i.object_id]) = rows'[i.table_name]
    <3>1. \A i \in Indexes(Saved) : i.name = call.of.name => i = Created
      BY <1>1, SavedTables
    <3>. QED  BY <1>0, <1>3, <3>1 DEF o
  <2>. QED  BY <1>0, <1>3, <2>1, <2>2 DEF NewInv
<1>. QED  BY <1>8, <1>9, <1>10 DEF ContentInv

LEMMA FlushBackfillContent ==
    ASSUME StructInv, ContentInv, NEW p, FlushBackfill(p)
    PROVE  ContentInv'
<1> DEFINE o == Created.object_id
<1>0. /\ UNCHANGED <<catalog, metadata, objects, cache, wal, txn, call, rows, acked>>
      /\ At("flush") /\ p \in dirty[o]
      /\ file' = [file EXCEPT ![o] = Flushed(o, {p})]
      /\ dirty' = [dirty EXCEPT ![o] = @ \ {p}]
  BY DEF FlushBackfill, catalogvars, bounds
<1>1. call.of.kind = "index" /\ call.todo = <<>> /\ call.at = "flush"
  BY <1>0 DEF StructInv, ControlInv, At
<1>2. Created \in Indexes(Saved) /\ Created.name = call.of.name /\ NewIds = {o} /\ o \in ObjectId /\ o \in objects
  BY <1>1, CreatedTree
<1>3. TreeRows(cache[o]) = rows[Created.table_name]
  BY <1>0, <1>2 DEF ContentInv, NewInv
<1> HIDE DEF o
<1>4. /\ file'[o] = Flushed(o, {p}) /\ dirty'[o] = dirty[o] \ {p}
      /\ \A x \in ObjectId \ {o} : file'[x] = file[x] /\ dirty'[x] = dirty[x]
  BY <1>0, <1>2 DEF StructInv, Typed
<1>5. \A q \in DOMAIN file[o] : q \notin dirty[o] => cache[o][q] = file[o][q]
  BY <1>0, <1>2 DEF ContentInv, CacheInv, Filling
<1>6. \A q \in DOMAIN file'[o] : q \notin dirty'[o] => cache'[o][q] = file'[o][q]
  <2>1. DOMAIN file'[o] = DOMAIN file[o] /\ \A q \in DOMAIN file[o] : file'[o][q] = IF q \in {p} THEN cache[o][q] ELSE file[o][q]
    BY <1>4 DEF Flushed
  <2>. QED  BY <1>0, <1>4, <1>5, <2>1
<1>7. Fills(o)
  BY <1>0, <1>1, <1>3, <1>4, <1>6 DEF Fills
<1>. QED  BY <1>7, FillsContent DEF o

\* A table that has storage is in the metadata file.
LEMMA AttachedTable ==
    ASSUME StructInv, Running, NEW t \in Tables(catalog), t.heap_object_id \in objects
    PROVE  \E u \in Tables(Saved) : u.name = t.name /\ u.heap_object_id = t.heap_object_id
<1>1. t.heap_object_id \in HeapIds(Saved)
  BY Kinds DEF HeapIds
<1>2. PICK u \in Tables(Saved) : u.heap_object_id = t.heap_object_id
  BY <1>1 DEF HeapIds
<1>3. PICK v \in Tables(catalog) : v.name = u.name /\ v.heap_object_id = u.heap_object_id
  BY IncludesFacts DEF StructInv, ListedInv
<1>4. v = t
  BY <1>2, <1>3 DEF StructInv, Typed, CatalogOK
<1>. QED  BY <1>2, <1>3, <1>4

LEMMA PopulateContent ==
    ASSUME StructInv, ContentInv, Populate
    PROVE  ContentInv'
<1> DEFINE o == Created.object_id
           new == RowsIn(cache[Heap(Created.table_name)])
           W == TreeWith(cache[o], new)
<1>0. /\ UNCHANGED <<catalog, metadata, objects, wal, txn, rows, acked>>
      /\ call.at = "attach" /\ call.todo = <<>> /\ call.of.kind = "index"
      /\ Heap(Created.table_name) \in objects
      /\ cache' = [cache EXCEPT ![o] = W.pages] /\ dirty' = [dirty EXCEPT ![o] = W.changed]
      /\ file' = [file EXCEPT ![o] = Grown(@, W.pages)]
      /\ call' = [call EXCEPT !.at = "flush"]
  BY DEF Populate, catalogvars, bounds, At, Backfill
<1>1. /\ Created \in Indexes(Saved) /\ NewIds = {o} /\ o \in TreeIds(Saved) /\ o \in ObjectId /\ o \in objects
      /\ Running /\ Creating
  BY <1>0, CreatedTree
<1>2. txn = NoTxn /\ ~At("flush")
  BY <1>0 DEF ContentInv, CacheInv, At
<1>3. new = rows[Created.table_name]
  <2>1. PICK u \in Tables(Saved) : u.name = Created.table_name
    BY <1>1, SavedTables
  <2>2. PICK v \in Tables(catalog) : v.name = u.name /\ v.heap_object_id = u.heap_object_id
    BY <1>1, IncludesFacts DEF StructInv, ListedInv
  <2>3. FindTable(catalog, Created.table_name) = <<v>>
    BY <2>1, <2>2, Lookups DEF StructInv, Typed
  <2>4. Heap(Created.table_name) = u.heap_object_id
    BY <2>2, <2>3 DEF Heap
  <2>5. RowsIn(cache[u.heap_object_id]) = rows[u.name] \cup Added(u.name)
    BY <1>0, <2>4 DEF ContentInv, RowsInv
  <2>6. Added(u.name) = {}
    BY <1>2 DEF Added, NoTxn
  <2>. QED  BY <2>1, <2>4, <2>5, <2>6
<1>4. cache[o] = file[o] /\ file[o] = <<{NoRoot}>> /\ TreeRows(cache[o]) = {}
  <2>1. cache[o] = file[o] /\ file[o] = <<{NoRoot}>>
    BY <1>1, <1>2 DEF ContentInv, NewInv
  <2>. QED  BY <2>1, EmptyTree DEF TreeHolds
<1>5. /\ cache[o] \in Seq(PageContent) /\ cache[o] # <<>> /\ cache[o][1] \in HeaderSet(Len(cache[o])) /\ cache[o][1] # Zeroed
  <2> HIDE DEF o
  <2>1. cache[o] \in Seq(PageContent) /\ Len(cache[o]) = Len(file[o])
    BY <1>1, DirtiedPages
  <2>. QED  BY <1>1, <2>1 DEF StructInv, PagesInv
<1>6. new \in SUBSET Row
  BY DEF RowsIn
<1>7. Wrote(W, cache[o]) /\ TreeRows(W.pages) = TreeRows(cache[o]) \cup new
  <2> HIDE DEF o, new
  <2>. QED  BY <1>5, <1>6, TreeWithFacts
<1> HIDE DEF W, new, o
<1>8. /\ W.pages \in Seq(PageContent) /\ Len(file[o]) <= Len(W.pages)
      /\ \A p \in 1..Len(W.pages) : p \notin W.changed => p \in 1..Len(file[o]) /\ W.pages[p] = file[o][p]
  BY <1>4, <1>7 DEF Wrote
<1> DEFINE g == Grown(file[o], W.pages)
<1>9. DOMAIN g = 1..Len(W.pages) /\ \A p \in 1..Len(file[o]) : g[p] = file[o][p]
  <2> DEFINE to == W.pages
  <2> HIDE DEF to
  <2>1. /\ Grown(file[o], to) \in Seq(PageContent) /\ Len(Grown(file[o], to)) = Len(to)
        /\ \A p \in 1..Len(file[o]) : Grown(file[o], to)[p] = file[o][p]
    BY <1>4, <1>5, <1>8, GrownFacts DEF to
  <2>2. DOMAIN Grown(file[o], to) = 1..Len(to)
    BY <2>1, LenProperties
  <2>. QED  BY <2>1, <2>2 DEF to
<1> HIDE DEF g
<1>10. /\ \A x \in ObjectId \ {o} : file'[x] = file[x] /\ cache'[x] = cache[x] /\ dirty'[x] = dirty[x]
       /\ file'[o] = g /\ cache'[o] = W.pages /\ dirty'[o] = W.changed
  <2>1. file' = [file EXCEPT ![o] = g]
    BY <1>0 DEF g
  <2>. QED  BY <1>0, <1>1, <2>1 DEF StructInv, Typed
<1>11. call'.at = "flush" /\ call'.of = call.of
  BY <1>0 DEF StructInv, Typed
<1>12. \A p \in DOMAIN file'[o] : p \notin dirty'[o] => cache'[o][p] = file'[o][p]
  BY <1>8, <1>9, <1>10
<1>13. TreeRows(cache'[o]) = rows[Created.table_name]
  BY <1>3, <1>4, <1>7, <1>10
<1>14. Fills(o)
  BY <1>0, <1>10, <1>11, <1>12, <1>13 DEF Fills
<1>. QED  BY <1>14, FillsContent DEF o
-----------------------------------------------------------------------------
\* A CREATE whose Persist threw.
LEMMA NotPersistedContent ==
    ASSUME StructInv, ContentInv, MayRunDdl, UNCHANGED <<storagevars, txn, rows, acked, call>>, PersistThrows
    PROVE  ContentInv'
<1>0. /\ UNCHANGED <<metadata, objects, file, cache, dirty, wal, txn, call, rows, acked>>
      /\ call.at = "idle" /\ txn.state = "none"
  BY DEF storagevars, PersistThrows, MayRunDdl, At
<1>1. txn = NoTxn /\ ~At("down") /\ Filling = {} /\ objects \subseteq ObjectId
  <2>1. ~At("flush") /\ ~At("down")
    BY <1>0 DEF At
  <2>. QED  BY <1>0, <2>1, NotFilling DEF StructInv, ControlInv, Typed
<1>2. txn'.dirtied = {} /\ txn'.added = {} /\ txn'.state = "none"
  BY <1>0, <1>1 DEF NoTxn
<1>3. /\ \A o \in ObjectId : /\ Replays(o) = file[o]
                             /\ \A p \in DOMAIN file[o] : Replayed(o, p) = file[o][p]
      /\ \A o \in objects : cache[o] = Replays(o) /\ \A p \in DOMAIN file[o] : p \notin dirty[o]
  BY <1>1, Clean
<1>4. \A o \in ObjectId : \A p \in DOMAIN file[o] : Replayed(o, p)' = Replayed(o, p)
  BY <1>0, ReplayedSame
<1>5. Settles
  BY <1>0, <1>2, <1>3, <1>4 DEF Settles
<1>. QED  BY <1>5, SettlesContent

LEMMA PersistedContent ==
    ASSUME StructInv, ContentInv, MayRunDdl, NEW of, NEW todo, NEW T, NEW I, Adds(of, todo, T, I),
           UNCHANGED <<storagevars, txn, rows, acked>>,
           Persist, call' = [at |-> "attach", todo |-> todo, of |-> of]
    PROVE  ContentInv'
<1>0. UNCHANGED <<objects, file, cache, dirty, wal, txn, rows, acked>> /\ call.at = "idle"
  BY DEF storagevars, MayRunDdl, At
<1>1. /\ CatalogOK(catalog') /\ txn = NoTxn /\ TodoIds = {} /\ Running /\ ~At("down") /\ ~At("flush") /\ ~At("header")
      /\ Tables(catalog') = Tables(catalog) \cup T /\ Indexes(catalog') = Indexes(catalog) \cup I
      /\ objects \subseteq ObjectId /\ objects \subseteq Ids(Saved)
  <2>1. call.todo = <<>> /\ txn = NoTxn
    BY <1>0 DEF MayRunDdl, StructInv, ControlInv
  <2>2. TodoIds = {} /\ Running /\ ~At("down") /\ ~At("flush") /\ ~At("header")
    BY <1>0, <2>1 DEF TodoIds, ToSet, Running, At
  <2>. QED  BY <2>1, <2>2 DEF Adds, Extends, StructInv, Typed, ListedInv
<1>2. /\ \A o \in IdsOf(T, I) : o \notin Ids(Saved)
      /\ AckedIds' = AckedIds /\ Includes(catalog', Saved)
  BY <1>0, AddsFacts
<1>3. CatalogOK(Saved') /\ Places(Saved') = Places(catalog') /\ Indexes(Saved') = Indexes(catalog')
  BY <1>1, SavedAfterPersist
<1>4. call'.at = "attach" /\ call'.of = of /\ call'.of.kind = of.kind /\ call'.of.name = of.name
  OBVIOUS
<1>5. ~At("header")' /\ ~At("flush")' /\ ~At("down")' /\ NewIds' = IdsOf(T, I)
  BY <1>4, AddedIds DEF At
<1>6. Filling = {} /\ Filling' = {}
  BY <1>1, <1>5, NotFilling
<1>7. /\ \A o \in objects : cache[o] = file[o] /\ cache[o] = Replays(o) /\ \A p \in DOMAIN file[o] : p \notin dirty[o]
      /\ \A o \in ObjectId : Replays(o) = file[o]
  BY <1>1, <1>6, Clean
<1>8. (\A o, p : Replayed(o, p)' = Replayed(o, p)) /\ \A o : Replays(o)' = Replays(o)
  <2>1. \A o, p : Replayed(o, p)' = Replayed(o, p)
    BY <1>0 DEF Replayed, Redo, Committed
  <2>. QED  BY <1>0, <2>1 DEF Replays
<1>9. FileInv'
  BY <1>0, <1>1, <1>8 DEF ContentInv, FileInv
<1>10. CacheInv'
  <2>1. \A o \in ObjectId \ objects : dirty[o] = {}
    BY <1>1 DEF ContentInv, CacheInv
  <2>. QED  BY <1>0, <1>1, <1>5, <1>6, <1>7, <2>1 DEF CacheInv, NoTxn
<1>11. \A v \in Tables(Saved) : \E w \in Tables(catalog') : w.name = v.name /\ w.heap_object_id = v.heap_object_id
  BY <1>2, IncludesFacts
<1>12. NewInv'
  <2>1. \A o \in NewIds' : \A p : NoRecord(o, p)'
    <3>1. \A k \in DOMAIN wal : \A r \in wal[k].updates : r.object \in Ids(Saved)
      BY DEF StructInv, ListedInv
    <3>2. \A o \in NewIds' : \A k \in DOMAIN wal : \A r \in wal[k].updates : r.object # o
      BY <1>2, <1>5, <3>1
    <3>. QED  BY <1>0, <3>2 DEF NoRecord
  <2>2. NewIds' \cap objects' = {}
    BY <1>0, <1>1, <1>2, <1>5
  <2>3. ASSUME of.kind = "table"
        PROVE  rows[of.name] = {}
    <3>1. \A v \in Tables(Saved) : v.name # of.name
      <4>1. \A t \in Tables(catalog) : t.name # of.name
        BY DEF Adds
      <4>2. \A v \in Tables(Saved) : \E w \in Tables(catalog) : w.name = v.name
        BY <1>1, IncludesFacts DEF StructInv, ListedInv
      <4>. QED  BY <4>1, <4>2
    <3>2. of.name \in TableName
      <4>1. \E t \in T : t.name = of.name
        BY <2>3 DEF Adds
      <4>2. Tables(catalog') \subseteq TableInfo
        BY <1>1, CatalogFields DEF CatalogOK
      <4>. QED  BY <1>1, <4>1, <4>2 DEF TableInfo
    <3>. QED  BY <3>1, <3>2 DEF ContentInv, RowsInv
  <2>. QED  BY <1>0, <1>4, <1>5, <2>1, <2>2, <2>3 DEF NewInv
<1>13. \A t \in Tables(Saved') : \E u \in Tables(catalog') : u.name = t.name /\ u.heap_object_id = t.heap_object_id
  BY <1>3, IncludesFacts, SavedAfterPersist, <1>1
<1>14. \A n : Added(n)' = {} /\ Added(n) = {}
  BY <1>0, <1>1 DEF Added, NoTxn
<1>15. ASSUME NEW n \in TableName, \A t \in Tables(Saved') : t.name # n
       PROVE  rows[n] = {}
  <2>1. \A t \in Tables(Saved) : t.name # n
    <3> SUFFICES ASSUME NEW t \in Tables(Saved), t.name = n PROVE FALSE
      OBVIOUS
    <3>1. PICK w \in Tables(catalog') : w.name = n
      BY <1>11
    <3>2. <<w.name, w.heap_object_id>> \in Places(Saved')
      BY <1>3 DEF Places
    <3>3. PICK x \in Tables(Saved') : <<w.name, w.heap_object_id>> = <<x.name, x.heap_object_id>>
      BY <3>2 DEF Places
    <3>. QED  BY <1>15, <3>1, <3>3
  <2>. QED  BY <2>1 DEF ContentInv, RowsInv
<1>16. ASSUME NEW t \in Tables(Saved')
       PROVE  /\ RowsIn(Replays(t.heap_object_id)) = rows[t.name]
              /\ t.heap_object_id \in objects => RowsIn(cache[t.heap_object_id]) = rows[t.name]
  <2>1. PICK u \in Tables(catalog') : u.name = t.name /\ u.heap_object_id = t.heap_object_id
    BY <1>13
  <2>2. CASE t.heap_object_id \in Ids(Saved)
    <3>1. t.heap_object_id \notin TreeIds(Saved)
      <4>1. Indexes(Saved) \subseteq Indexes(catalog')
        BY <1>2 DEF Includes
      <4>. QED  BY <1>1, <2>1, <4>1 DEF CatalogOK, TreeIds
    <3>2. PICK v \in Tables(Saved) : v.heap_object_id = t.heap_object_id
      BY <2>2, <3>1 DEF Ids, HeapIds
    <3>3. v.name = t.name
      <4>1. PICK w \in Tables(catalog') : w.name = v.name /\ w.heap_object_id = v.heap_object_id
        BY <1>11
      <4>2. w = u
        BY <1>1, <2>1, <3>2, <4>1 DEF CatalogOK
      <4>. QED  BY <2>1, <4>1, <4>2
    <3>4. /\ RowsIn(Replays(v.heap_object_id)) = rows[v.name]
          /\ v.heap_object_id \in objects => RowsIn(cache[v.heap_object_id]) = rows[v.name] \cup Added(v.name)
      BY DEF ContentInv, RowsInv
    <3>. QED  BY <1>14, <3>2, <3>3, <3>4
  <2>3. CASE t.heap_object_id \notin Ids(Saved)
    <3>1. t.heap_object_id \in ObjectId /\ t.name \in TableName
      <4>1. Tables(Saved') \subseteq TableInfo
        BY <1>3, CatalogFields DEF CatalogOK
      <4>. QED  BY <4>1 DEF TableInfo
    <3>2. Replays(t.heap_object_id) = <<>>
      BY <1>7, <2>3, <3>1 DEF StructInv, ListedInv
    <3>3. RowsIn(<<>>) = {}
      BY DEF RowsIn, ToSet
    <3>4. \A v \in Tables(Saved) : v.name # t.name
      <4> SUFFICES ASSUME NEW v \in Tables(Saved), v.name = t.name PROVE FALSE
        OBVIOUS
      <4>1. PICK w \in Tables(catalog') : w.name = v.name /\ w.heap_object_id = v.heap_object_id
        BY <1>11
      <4>2. w = u
        BY <1>1, <2>1, <4>1 DEF CatalogOK
      <4>. QED  BY <2>1, <2>3, <4>1, <4>2 DEF Ids, HeapIds
    <3>5. rows[t.name] = {}
      BY <3>1, <3>4 DEF ContentInv, RowsInv
    <3>. QED  BY <1>1, <2>3, <3>2, <3>3, <3>5
  <2>. QED  BY <2>2, <2>3
<1>17. ASSUME NEW i \in Indexes(Saved'), AckedIndex(i)'
       PROVE  i \in Indexes(Saved) /\ AckedIndex(i)
  <2>1. i \in Indexes(catalog') /\ AckedIndex(i)
    BY <1>0, <1>3, <1>17 DEF AckedIndex
  <2>2. i.object_id \in AckedIds'
    BY <1>17, <2>1 DEF AckedIds, AckedIndex
  <2>3. i.object_id \in Ids(Saved)
    BY <1>1, <1>2, <2>2 DEF StructInv, AckedInv
  <2>4. CASE i.object_id \in TreeIds(Saved)
    <3>1. PICK j \in Indexes(Saved) : j.object_id = i.object_id
      BY <2>4 DEF TreeIds
    <3>2. j \in Indexes(catalog')
      BY <1>2 DEF Includes
    <3>. QED  BY <1>1, <2>1, <3>1, <3>2 DEF CatalogOK
  <2>5. CASE i.object_id \in HeapIds(Saved)
    <3>1. PICK v \in Tables(Saved) : v.heap_object_id = i.object_id
      BY <2>5 DEF HeapIds
    <3>2. PICK w \in Tables(catalog') : w.heap_object_id = v.heap_object_id
      BY <1>11
    <3>. QED  BY <1>1, <2>1, <3>1, <3>2 DEF CatalogOK
  <2>. QED  BY <2>3, <2>4, <2>5 DEF Ids
<1>18. RowsInv'
  <2>1. ASSUME NEW t \in Tables(Saved')
        PROVE  /\ RowsIn(Replays(t.heap_object_id)') = rows'[t.name]
               /\ t.heap_object_id \in objects' => RowsIn(cache'[t.heap_object_id]) = rows'[t.name] \cup Added(t.name)'
    BY <1>0, <1>8, <1>14, <1>16
  <2>2. ASSUME NEW i \in Indexes(Saved'), AckedIndex(i)'
        PROVE  /\ TreeHolds(Replays(i.object_id)', rows'[i.table_name])
               /\ i.object_id \in objects' =>
                     TreeHolds(cache'[i.object_id], rows'[i.table_name] \cup Added(i.table_name)')
    <3>1. i \in Indexes(Saved) /\ AckedIndex(i)
      BY <1>17, <2>2
    <3>2. /\ TreeHolds(Replays(i.object_id), rows[i.table_name])
          /\ i.object_id \in objects => TreeHolds(cache[i.object_id], rows[i.table_name] \cup Added(i.table_name))
      BY <3>1 DEF ContentInv, RowsInv
    <3>3. rows'[i.table_name] \cup Added(i.table_name)' = rows[i.table_name] \cup Added(i.table_name)
      BY <1>0, <1>14
    <3>. QED  BY <1>0, <1>8, <3>2, <3>3
  <2>3. \A n \in TableName : (\A t \in Tables(Saved') : t.name # n) => rows'[n] = {}
    BY <1>0, <1>15
  <2>. QED  BY <2>1, <2>2, <2>3 DEF RowsInv
<1>. QED  BY <1>9, <1>10, <1>12, <1>18 DEF ContentInv

LEMMA CreatesContent ==
    ASSUME StructInv, ContentInv, Creates
    PROVE  ContentInv'
<1>1. PICK of, todo, T, I :
        /\ MayRunDdl /\ Adds(of, todo, T, I) /\ PersistThen(of, todo)
        /\ UNCHANGED <<storagevars, txn, txns, crashes, rows, acked>>
  BY DEF Creates
<1>2. CASE Persist /\ call' = [at |-> "attach", todo |-> todo, of |-> of]
  BY <1>1, <1>2, PersistedContent
<1>3. CASE PersistThrows /\ UNCHANGED call
  BY <1>1, <1>3, NotPersistedContent
<1>. QED  BY <1>1, <1>2, <1>3 DEF PersistThen
-----------------------------------------------------------------------------
\* Pages that are allocated at the end of a file bring no rows.
LEMMA GrownRows ==
    ASSUME NEW s \in Seq(PageContent), NEW to \in Seq(PageContent), Len(s) <= Len(to)
    PROVE  /\ RowsIn(Grown(s, to)) = RowsIn(s)
           /\ s # <<>> /\ s[1] \in HeaderSet(Len(s)) =>
                 \A has : TreeHolds(s, has) => TreeHolds(Grown(s, to), has)
<1> DEFINE g == Grown(s, to)
<1>1. /\ g \in Seq(PageContent) /\ Len(g) = Len(to)
      /\ \A p \in 1..Len(s) : g[p] = s[p]
      /\ \A p \in 1..Len(to) : p \notin 1..Len(s) => g[p] = Zeroed
  BY GrownFacts
<1> HIDE DEF g
<1>2. DOMAIN g = 1..Len(to) /\ DOMAIN s = 1..Len(s) /\ Len(s) \in Nat /\ Len(to) \in Nat
  BY <1>1, LenProperties
<1>3. 1..Len(s) \subseteq 1..Len(to)
  BY <1>2
<1>4. RowsIn(g) = RowsIn(s)
  <2>1. \A x : x \in UNION ToSet(s) <=> \E p \in 1..Len(s) : x \in s[p]
    BY <1>2 DEF ToSet
  <2>2. \A x : x \in UNION ToSet(g) <=> \E p \in 1..Len(to) : x \in g[p]
    BY <1>2 DEF ToSet
  <2>3. UNION ToSet(g) = UNION ToSet(s)
    BY <1>1, <1>3, <2>1, <2>2 DEF Zeroed
  <2>. QED  BY <2>3 DEF RowsIn
<1>5. ASSUME s # <<>>, s[1] \in HeaderSet(Len(s)), NEW has, TreeHolds(s, has)
      PROVE  TreeHolds(g, has)
  <2>1. Len(s) > 0 /\ 1 \in 1..Len(s)
    BY <1>2, <1>5, EmptySeq
  <2>2. g[1] = s[1] /\ g # <<>> /\ s[1] # Zeroed /\ TreeRows(s) = has
    <3>1. g # <<>>
      BY <1>2, <1>3, <2>1
    <3>. QED  BY <1>1, <1>5, <2>1, <3>1 DEF TreeHolds
  <2>3. CASE s[1] = {NoRoot}
    <3>1. TreeRows(g) = {} /\ TreeRows(s) = {}
      BY <2>2, <2>3 DEF TreeRows
    <3>. QED  BY <2>2, <3>1 DEF TreeHolds
  <2>4. CASE s[1] # {NoRoot}
    <3>1. PICK k \in 2..Len(s) : s[1] = {k}
      BY <1>5, <2>2, <2>4 DEF HeaderSet
    <3>2. k \in 1..Len(s)
      BY <1>2
    <3>3. (CHOOSE p \in s[1] : TRUE) = k /\ (CHOOSE p \in g[1] : TRUE) = k
      BY <2>2, <3>1
    <3>4. TreeRows(s) = s[k] \cap Row /\ TreeRows(g) = g[k] \cap Row
      BY <1>5, <2>2, <2>4, <3>3 DEF TreeRows
    <3>5. g[k] = s[k]
      BY <1>1, <3>2
    <3>. QED  BY <2>2, <3>4, <3>5 DEF TreeHolds
  <2>. QED  BY <2>3, <2>4
<1>. QED  BY <1>4, <1>5 DEF g

LEMMA InsertContent ==
    ASSUME StructInv, ContentInv, NEW name \in TableName, NEW r \in Row, Insert(name, r)
    PROVE  ContentInv'
<1> DEFINE h == Heap(name)
           I == IndexesOf(name)
<1>0. /\ UNCHANGED <<catalog, metadata, objects, wal, call, rows, acked>>
      /\ FindTable(catalog, name) # <<>> /\ h \in objects
  BY DEF Insert, catalogvars, bounds
<1>1. PICK T \in SUBSET objects : \E W \in Written(T) : Inserted(T, W, Heap(name), IndexesOf(name), name, r)
  BY InsertFacts
<1>2. PICK W \in Written(T) : Inserted(T, W, Heap(name), IndexesOf(name), name, r)
  BY <1>1
<1>3. PICK t \in Tables(catalog) :
        /\ t.name = name /\ h = t.heap_object_id
        /\ I = {i.object_id : i \in {i \in Indexes(catalog) : i.table_name = name}}
  BY <1>0, TableFacts DEF StructInv, Typed
<1> HIDE DEF h, I
<1>4. /\ T = {h} \cup I /\ I \subseteq TreeIds(Saved) /\ W[h] = HeapWith(cache[h], {r}) /\ Running /\ txn.state = "active"
      /\ \A o \in T : Wrote(W[o], cache[o])
      /\ \A o \in I : TreeRows(W[o].pages) = TreeRows(cache[o]) \cup {r} /\ W[o].pages # <<>> /\ W[o].pages[1] # Zeroed
  BY <1>2 DEF Inserted, h, I
<1>5. PICK u \in Tables(Saved) : u.name = name /\ u.heap_object_id = h
  BY <1>0, <1>3, <1>4, AttachedTable
<1>6. /\ call.at = "idle" /\ ~At("down") /\ Filling = {} /\ txn.observed = objects
      /\ \A o \in ObjectId : \A p \in DOMAIN file[o] : Replayed(o, p) = file[o][p]
      /\ \A o \in objects : \A p \in DOMAIN file[o] :
            /\ <<o, p>> \notin txn.dirtied => cache[o][p] = file[o][p]
            /\ p \in dirty[o] => <<o, p>> \in txn.dirtied
  BY <1>4, DuringTransaction
<1>7. Saved' = Saved /\ ~At("header")' /\ ~At("flush")' /\ Filling' = {} /\ ~Creating' /\ call'.of.kind = "none"
      /\ objects \subseteq ObjectId /\ TodoIds = {} /\ ~At("header")
  <2>1. Saved' = Saved /\ call'.of.kind = "none" /\ call.todo = <<>>
    BY <1>0, <1>6, SavedSame DEF StructInv, ControlInv
  <2>2. ~At("header")' /\ ~At("flush")' /\ ~At("header")
    BY <1>0, <1>6 DEF At
  <2>3. TodoIds = {}
    BY <2>1 DEF TodoIds, ToSet
  <2>. QED  BY <2>1, <2>2, <2>3, NotFilling DEF Creating, StructInv, Typed
<1>8. /\ \A o \in ObjectId \ T : file'[o] = file[o] /\ cache'[o] = cache[o] /\ dirty'[o] = dirty[o]
      /\ \A o \in T : /\ file'[o] = Grown(file[o], W[o].pages) /\ cache'[o] = W[o].pages
                      /\ dirty'[o] = dirty[o] \cup W[o].changed
  BY <1>2, <1>7 DEF Inserted
<1> DEFINE new == UNION {{o} \X W[o].changed : o \in T \cap txn.observed}
<1>9. /\ txn'.observed = txn.observed /\ txn'.dirtied = txn.dirtied \cup new /\ txn'.state = "active"
      /\ txn'.added = txn.added \cup {<<name, r>>}
  <2> HIDE DEF new
  <2>1. txn' = [txn EXCEPT !.dirtied = @ \cup new, !.added = @ \cup {<<name, r>>}]
    BY <1>2 DEF Inserted, new
  <2>. QED  BY <1>4, <2>1 DEF StructInv, Typed
<1>10. \A o \in T : \A p \in W[o].changed : <<o, p>> \in txn'.dirtied
  <2> TAKE o \in T
  <2> TAKE p \in W[o].changed
  <2>1. o \in T \cap txn.observed
    BY <1>6
  <2>2. <<o, p>> \in {o} \X W[o].changed
    OBVIOUS
  <2>3. <<o, p>> \in new
    BY <2>1, <2>2
  <2> HIDE DEF new
  <2>. QED  BY <1>9, <2>3
<1> HIDE DEF new
<1>11. ASSUME NEW o \in T
       PROVE  /\ o \in ObjectId /\ file[o] \in Seq(PageContent) /\ W[o].pages \in Seq(PageContent)
              /\ Len(file[o]) <= Len(W[o].pages) /\ cache[o] \in Seq(PageContent)
              /\ DOMAIN file[o] = 1..Len(file[o]) /\ DOMAIN file'[o] = 1..Len(W[o].pages)
              /\ \A p \in DOMAIN file[o] : p \in DOMAIN file'[o] /\ file'[o][p] = file[o][p]
              /\ \A p \in DOMAIN file'[o] : p \notin W[o].changed => p \in DOMAIN file[o] /\ cache'[o][p] = cache[o][p]
  <2>1. /\ o \in ObjectId /\ file[o] \in Seq(PageContent) /\ cache[o] \in Seq(PageContent)
        /\ Len(cache[o]) = Len(file[o]) /\ DOMAIN file[o] = 1..Len(file[o]) /\ Len(file[o]) \in Nat
    BY DirtiedPages
  <2> DEFINE to == W[o].pages
  <2>2. /\ to \in Seq(PageContent) /\ Len(file[o]) <= Len(to)
        /\ \A p \in 1..Len(to) : p \notin W[o].changed => p \in 1..Len(file[o]) /\ to[p] = cache[o][p]
    BY <1>4, <2>1 DEF Wrote
  <2>3. file'[o] = Grown(file[o], to) /\ cache'[o] = to
    BY <1>8
  <2> HIDE DEF to
  <2>4. /\ Grown(file[o], to) \in Seq(PageContent) /\ Len(Grown(file[o], to)) = Len(to)
        /\ \A p \in 1..Len(file[o]) : Grown(file[o], to)[p] = file[o][p]
    BY <2>1, <2>2, GrownFacts
  <2>5. DOMAIN file'[o] = 1..Len(to) /\ Len(to) \in Nat
    BY <2>2, <2>3, <2>4, LenProperties
  <2>6. \A p \in 1..Len(file[o]) : p \in 1..Len(to)
    BY <2>1, <2>2, <2>5
  <2>. QED  BY <2>1, <2>2, <2>3, <2>4, <2>5, <2>6 DEF to
<1>12. ASSUME NEW o \in ObjectId, NEW p \in DOMAIN file'[o]
       PROVE  Replayed(o, p)' = file'[o][p]
  <2>1. CASE p \in DOMAIN file[o]
    <3>1. file'[o][p] = file[o][p]
      BY <1>8, <1>11, <2>1
    <3>2. Replayed(o, p)' = Replayed(o, p)
      BY <1>0, <3>1, ReplayedSame
    <3>. QED  BY <1>6, <2>1, <3>1, <3>2
  <2>2. CASE p \notin DOMAIN file[o]
    <3>1. DOMAIN file[o] = 1..Len(file[o]) /\ Len(file[o]) \in Nat
      BY ObjectPages DEF StructInv
    <3>2. \A k \in DOMAIN wal : \A q \in wal[k].updates : q.page \in Nat \ {0} /\ q.page <= Len(file[q.object])
      BY WalFacts DEF StructInv, PagesInv
    <3>3. NoRecord(o, p)
      BY <2>2, <3>1, <3>2 DEF NoRecord
    <3>4. NoRecord(o, p)'
      BY <1>0, <3>3 DEF NoRecord
    <3>. QED  BY <3>4, ReplayedFree
  <2>. QED  BY <2>1, <2>2
<1>13. FileInv'
  BY <1>9, <1>12 DEF FileInv
<1>14. CacheInv'
  <2>1. \A a \in txn'.added : \E v \in Tables(Saved') : v.name = a[1] /\ v.heap_object_id \in objects'
    <3>1. \A a \in txn.added : \E v \in Tables(Saved) : v.name = a[1] /\ v.heap_object_id \in objects
      BY DEF ContentInv, CacheInv
    <3>2. \A a \in txn'.added : a \in txn.added \/ a[1] = name
      BY <1>9
    <3>. QED  BY <1>0, <1>5, <1>7, <3>1, <3>2
  <2>2. \A o \in ObjectId \ objects' : dirty'[o] = {}
    BY <1>0, <1>7, <1>8 DEF ContentInv, CacheInv
  <2>3. ASSUME NEW o \in objects', NEW p \in DOMAIN file'[o]
        PROVE  /\ <<o, p>> \notin txn'.dirtied => cache'[o][p] = file'[o][p]
               /\ p \in dirty'[o] => <<o, p>> \in txn'.dirtied
    <3>1. CASE o \in T
      <4>1. CASE p \in W[o].changed
        BY <1>10, <3>1, <4>1
      <4>2. CASE p \notin W[o].changed
        BY <1>0, <1>6, <1>8, <1>9, <1>11, <3>1, <4>2
      <4>. QED  BY <4>1, <4>2
    <3>2. CASE o \notin T
      BY <1>0, <1>6, <1>7, <1>8, <1>9, <3>2
    <3>. QED  BY <3>1, <3>2
  <2>4. txn'.observed = objects' /\ call'.at = "idle"
    BY <1>0, <1>6, <1>9
  <2>. QED  BY <1>7, <2>1, <2>2, <2>3, <2>4 DEF CacheInv
<1>15. NewInv'
  BY <1>7 DEF NewInv
<1>16. \A o \in ObjectId : Replays(o)' = file'[o] /\ Replays(o) = file[o]
  <2> TAKE o \in ObjectId
  <2>1. file[o] = [p \in DOMAIN file[o] |-> file[o][p]]
    BY ObjectPages DEF StructInv
  <2>2. Replays(o) = file[o]
    BY <1>6, <2>1 DEF Replays
  <2>3. file'[o] = [p \in DOMAIN file'[o] |-> file'[o][p]]
    <3>1. CASE o \in T
      <4> DEFINE to == W[o].pages
      <4>1. file'[o] = Grown(file[o], to) /\ to \in Seq(PageContent) /\ file[o] \in Seq(PageContent) /\ Len(file[o]) <= Len(to)
        BY <1>8, <1>11, <3>1
      <4> HIDE DEF to
      <4>2. Grown(file[o], to) \in Seq(PageContent)
        BY <4>1, GrownFacts
      <4>3. file'[o] \in Seq(PageContent)
        BY <4>1, <4>2
      <4>. QED  BY <4>3, LenProperties
    <3>2. CASE o \notin T
      BY <1>8, <2>1, <3>2
    <3>. QED  BY <3>1, <3>2
  <2>4. Replays(o)' = [p \in DOMAIN file'[o] |-> Replayed(o, p)']
    BY DEF Replays
  <2>. QED  BY <1>12, <2>2, <2>3, <2>4
<1>17. Added(name)' = Added(name) \cup {r} /\ \A n : n # name => Added(n)' = Added(n)
  BY <1>9 DEF Added
<1>18. ASSUME NEW v \in Tables(Saved)
       PROVE  /\ RowsIn(Replays(v.heap_object_id)') = rows[v.name]
              /\ v.heap_object_id \in objects =>
                    RowsIn(cache'[v.heap_object_id]) = rows[v.name] \cup Added(v.name)'
  <2>1. v.heap_object_id \in ObjectId /\ v.heap_object_id \notin TreeIds(Saved)
    BY SavedTables
  <2>2. /\ RowsIn(file[v.heap_object_id]) = rows[v.name]
        /\ v.heap_object_id \in objects => RowsIn(cache[v.heap_object_id]) = rows[v.name] \cup Added(v.name)
    BY <1>16, <2>1 DEF ContentInv, RowsInv
  <2>3. CASE v = u
    <3>1. v.heap_object_id = h /\ v.name = name /\ h \in T /\ h \in objects
      BY <1>0, <1>4, <1>5, <2>3
    <3> DEFINE to == W[h].pages
    <3>2. /\ file'[h] = Grown(file[h], to) /\ cache'[h] = to /\ cache[h] \in Seq(PageContent)
          /\ file[h] \in Seq(PageContent) /\ to \in Seq(PageContent) /\ Len(file[h]) <= Len(to)
      BY <1>8, <1>11, <3>1
    <3>3. RowsIn(to) = RowsIn(cache[h]) \cup {r}
      BY <1>4, <3>2, HeapWithFacts
    <3> HIDE DEF to
    <3>4. RowsIn(Grown(file[h], to)) = RowsIn(file[h])
      BY <3>2, GrownRows
    <3>. QED  BY <1>16, <1>17, <2>1, <2>2, <3>1, <3>2, <3>3, <3>4
  <2>4. CASE v # u
    <3>1. v.name # name /\ v.heap_object_id # h
      BY <1>5, <2>4, SavedTables
    <3>2. v.heap_object_id \notin T
      BY <1>4, <2>1, <3>1
    <3>. QED  BY <1>8, <1>16, <1>17, <2>1, <2>2, <3>1, <3>2
  <2>. QED  BY <2>3, <2>4
<1>19. ASSUME NEW i \in Indexes(Saved), AckedIndex(i)
       PROVE  /\ TreeHolds(Replays(i.object_id)', rows[i.table_name])
              /\ i.object_id \in objects =>
                    TreeHolds(cache'[i.object_id], rows[i.table_name] \cup Added(i.table_name)')
  <2>1. i.object_id \in ObjectId /\ i.object_id \notin HeapIds(Saved) /\ i.object_id \in TreeIds(Saved)
    BY SavedTables
  <2>2. /\ TreeHolds(file[i.object_id], rows[i.table_name])
        /\ i.object_id \in objects => TreeHolds(cache[i.object_id], rows[i.table_name] \cup Added(i.table_name))
    BY <1>16, <1>19, <2>1 DEF ContentInv, RowsInv
  <2>3. i \in Indexes(catalog)
    BY <1>4 DEF StructInv, ListedInv, Includes
  <2>4. i.object_id \in I <=> i.table_name = name
    BY <1>3, <2>3 DEF StructInv, Typed, CatalogOK
  <2>5. CASE i.object_id \in I
    <3> DEFINE o == i.object_id
               to == W[o].pages
    <3>1. /\ file'[o] = Grown(file[o], to) /\ cache'[o] = to /\ file[o] \in Seq(PageContent)
          /\ to \in Seq(PageContent) /\ Len(file[o]) <= Len(to) /\ o \in objects
      BY <1>4, <1>8, <1>11, <2>5
    <3>2. TreeRows(to) = TreeRows(cache[o]) \cup {r} /\ to # <<>> /\ to[1] # Zeroed
      BY <1>4, <2>5
    <3>3. file[o] # <<>> /\ file[o][1] \in HeaderSet(Len(file[o]))
      BY <2>1, <2>2 DEF TreeHolds, StructInv, PagesInv
    <3> HIDE DEF to, o
    <3>4. TreeHolds(Grown(file[o], to), rows[i.table_name])
      BY <2>2, <3>1, <3>3, GrownRows DEF o
    <3>5. TreeRows(cache[o]) = rows[i.table_name] \cup Added(i.table_name)
      BY <2>2, <3>1 DEF o, TreeHolds
    <3>6. TreeRows(to) = rows[i.table_name] \cup Added(i.table_name)'
      BY <1>17, <2>4, <2>5, <3>2, <3>5
    <3>7. TreeHolds(to, rows[i.table_name] \cup Added(i.table_name)')
      BY <3>2, <3>6 DEF TreeHolds
    <3>. QED  BY <1>16, <2>1, <3>1, <3>4, <3>7 DEF o
  <2>6. CASE i.object_id \notin I
    <3>1. i.object_id \notin T
      BY <1>4, <1>5, <2>1, <2>6 DEF HeapIds
    <3>2. Added(i.table_name)' = Added(i.table_name)
      BY <1>17, <2>4, <2>6
    <3>. QED  BY <1>8, <1>16, <2>1, <2>2, <3>1, <3>2
  <2>. QED  BY <2>5, <2>6
<1>20. RowsInv'
  <2>1. \A n \in TableName : (\A v \in Tables(Saved') : v.name # n) => rows'[n] = {}
    BY <1>0, <1>7 DEF ContentInv, RowsInv
  <2>2. \A v \in Tables(Saved') :
          /\ RowsIn(Replays(v.heap_object_id)') = rows'[v.name]
          /\ v.heap_object_id \in objects' => RowsIn(cache'[v.heap_object_id]) = rows'[v.name] \cup Added(v.name)'
    BY <1>0, <1>7, <1>18
  <2>3. ASSUME NEW i \in Indexes(Saved'), AckedIndex(i)'
        PROVE  /\ TreeHolds(Replays(i.object_id)', rows'[i.table_name])
               /\ i.object_id \in objects' =>
                     TreeHolds(cache'[i.object_id], rows'[i.table_name] \cup Added(i.table_name)')
    <3>1. AckedIndex(i) /\ i \in Indexes(Saved)
      BY <1>0, <1>7, <2>3 DEF AckedIndex
    <3>. QED  BY <1>0, <1>19, <3>1
  <2>. QED  BY <2>1, <2>2, <2>3 DEF RowsInv
<1>. QED  BY <1>13, <1>14, <1>15, <1>20 DEF ContentInv
-----------------------------------------------------------------------------
LEMMA InitContent == Init => ContentInv
<1> SUFFICES ASSUME Init PROVE ContentInv
  OBVIOUS
<1>0. /\ objects = {} /\ wal = <<>> /\ file = [o \in ObjectId |-> <<>>] /\ dirty = [o \in ObjectId |-> {}]
      /\ txn = NoTxn /\ call = Idle /\ rows = [t \in TableName |-> {}] /\ metadata = <<>>
  BY DEF Init, CatalogInit
<1>1. Tables(Saved) = {} /\ Indexes(Saved) = {}
  BY <1>0, EmptyOK DEF CatalogOnOpen, Saved
<1>2. call.at = "idle" /\ call.of.kind = "none"
  BY <1>0 DEF Idle
<1>3. ~At("header") /\ ~At("flush") /\ ~Creating
  BY <1>2 DEF At, Creating
<1>4. FileInv
  <2>1. \A o \in ObjectId : DOMAIN file[o] = {}
    BY <1>0
  <2>. QED  BY <2>1 DEF FileInv
<1>5. CacheInv
  BY <1>0, <1>3 DEF CacheInv, NoTxn
<1>6. NewInv
  BY <1>2, <1>3 DEF NewInv
<1>7. RowsInv
  BY <1>0, <1>1 DEF RowsInv
<1>. QED  BY <1>4, <1>5, <1>6, <1>7 DEF ContentInv

LEMMA StutterContent ==
    ASSUME ContentInv, UNCHANGED vars
    PROVE  ContentInv'
<1>0. UNCHANGED <<catalog, metadata, objects, file, cache, dirty, wal, txn, call, rows, acked>>
  BY DEF vars, catalogvars, storagevars
<1>1. Saved' = Saved
  BY <1>0, SavedSame
<1>2. (\A x : At(x)' = At(x)) /\ NewIds' = NewIds /\ Creating' = Creating
  BY <1>0 DEF At, NewIds, Creating
<1>3. /\ Filling' = Filling /\ \A n : Added(n)' = Added(n)
      /\ \A i : AckedIndex(i)' = AckedIndex(i)
  BY <1>0, <1>2 DEF Filling, Added, AckedIndex
<1>4. \A o, p : Replayed(o, p)' = Replayed(o, p) /\ NoRecord(o, p)' = NoRecord(o, p)
  BY <1>0 DEF Replayed, Redo, Committed, NoRecord
<1>5. \A o : Replays(o)' = Replays(o)
  BY <1>0, <1>4 DEF Replays
<1>6. FileInv'
  BY <1>0, <1>2, <1>4 DEF ContentInv, FileInv
<1>7. CacheInv'
  BY <1>0, <1>1, <1>2, <1>3 DEF ContentInv, CacheInv
<1>8. NewInv'
  <2>1. (At("header") => \A p : NoRecord(call.todo[1].id, p))'
    BY <1>0, <1>2 DEF ContentInv, NewInv, NoRecord
  <2>2. Creating' => \A o \in NewIds' : \A p : NoRecord(o, p)'
    BY <1>2, <1>4 DEF ContentInv, NewInv
  <2>. QED  BY <1>0, <1>1, <1>2, <2>1, <2>2 DEF ContentInv, NewInv
<1>9. RowsInv'
  BY <1>0, <1>1, <1>3, <1>5 DEF ContentInv, RowsInv
<1>. QED  BY <1>6, <1>7, <1>8, <1>9 DEF ContentInv

\* A step that writes no record and no page a running commit has logged.
LEMMA LogKept ==
    ASSUME LogInv, wal' = wal,
           next_txn_id' = next_txn_id \/ (next_txn_id' = 1 /\ txn'.state = "none"),
           \/ txn'.state = "none"
           \/ UNCHANGED <<txn, cache>>
           \/ txn.state = "active" /\ txn'.state = "active"
    PROVE  LogInv'
<1>1. LastEntry' = LastEntry
  BY DEF LastEntry
<1>2. next_txn_id' > 1 => next_txn_id' = next_txn_id
  OBVIOUS
<1>. QED  BY <1>1, <1>2 DEF LogInv

\* The new transaction has a TxnId that is not in the log: either this process
\* has handed out the others, or the log is empty.
LEMMA BeginLog ==
    ASSUME StructInv, IdsInv, LogInv, OneSessionPerLog, Begin
    PROVE  LogInv'
<1> DEFINE e == Entry(next_txn_id)
<1>1. e \in EntrySet /\ e.updates = {} /\ e.commit = FALSE /\ e.txn = next_txn_id
  BY DEF Entry, EntrySet, IdsInv
<1>2. wal \in Seq(EntrySet) /\ wal' = Append(wal, e) /\ Len(wal) \in Nat /\ DOMAIN wal = 1..Len(wal)
  BY WalFacts DEF StructInv, Begin
<1>3. /\ next_txn_id \in Nat \ {0} /\ next_txn_id' = next_txn_id + 1 /\ txn'.state = "active"
      /\ next_txn_id = 1 => wal = <<>>
  BY DEF Begin, IdsInv, IdsAreFresh, NoTxn
<1> HIDE DEF e
<1>4. Appended(wal, wal', e)
  BY <1>1, <1>2, AppendEntry
<1>5. \A n \in DOMAIN wal : wal[n].txn < next_txn_id /\ wal[n].txn \in Nat
  <2>1. CASE next_txn_id = 1
    BY <1>3, <2>1
  <2>2. CASE next_txn_id > 1
    BY <2>2, WalFacts DEF LogInv, StructInv
  <2>. QED  BY <1>3, <2>1, <2>2
<1> DEFINE m == Len(wal) + 1
<1>6. /\ Len(wal') = m /\ DOMAIN wal' = DOMAIN wal \cup {m} /\ m \notin DOMAIN wal
      /\ wal'[m] = e /\ \A n \in DOMAIN wal : wal'[n] = wal[n]
  BY <1>2, <1>4 DEF Appended
<1> HIDE DEF m
<1>7. \A n, k \in DOMAIN wal' : wal'[n].txn = wal'[k].txn => n = k
  <2>1. \A n \in DOMAIN wal : wal'[n].txn # wal'[m].txn
    BY <1>1, <1>3, <1>5, <1>6
  <2>2. \A n, k \in DOMAIN wal : wal'[n].txn = wal'[k].txn => n = k
    BY <1>6 DEF LogInv
  <2>. QED  BY <1>6, <2>1, <2>2
<1>8. next_txn_id' > 1 /\ \A n \in DOMAIN wal' : wal'[n].txn < next_txn_id'
  BY <1>1, <1>3, <1>5, <1>6
<1>9. LastEntry' = e /\ Len(wal') \in DOMAIN wal'
  BY <1>6 DEF LastEntry
<1>. QED  BY <1>1, <1>3, <1>7, <1>8, <1>9 DEF LogInv

LEMMA LogUpdateLog ==
    ASSUME StructInv, LogInv, NEW o, NEW p, LogUpdate(o, p)
    PROVE  LogInv'
<1> DEFINE r == Image(o, p)
           e == WithUpdate(LastEntry, r)
<1>1. Rewritten(wal, wal', e) /\ r \in Update
  BY LogUpdateFacts
<1>2. /\ txn.state \in {"active", "committing"} /\ <<o, p>> \in txn.dirtied /\ UNCHANGED <<cache, next_txn_id>>
      /\ txn'.state = "committing" /\ txn'.dirtied = txn.dirtied
  BY DEF LogUpdate, Unlogged, StructInv, Typed
<1>3. e.txn = LastEntry.txn /\ e.updates = LastEntry.updates \cup {r}
  <2>1. LastEntry \in EntrySet
    BY <1>2, WalFacts DEF StructInv, LogInv, LastEntry
  <2>. QED  BY <1>1, <2>1, EntryFields
<1>4. r.object = o /\ r.page = p /\ r.image = cache[o][p]
  BY DEF Image
<1> HIDE DEF e, r
<1>5. /\ Len(wal) \in DOMAIN wal /\ DOMAIN wal' = DOMAIN wal /\ Len(wal') = Len(wal) /\ wal'[Len(wal)] = e
      /\ \A k \in DOMAIN wal : wal'[k].txn = wal[k].txn
      /\ ~LastEntry.commit
  BY <1>1, <1>2, <1>3, RewriteFacts
<1>6. LastEntry' = e
  BY <1>5 DEF LastEntry
<1>7. e.commit = LastEntry.commit
  <2>1. LastEntry \in EntrySet
    BY <1>2, WalFacts DEF StructInv, LogInv, LastEntry
  <2>. QED  BY <1>1, <2>1, EntryFields DEF e
<1>8. \A q \in LastEntry.updates : <<q.object, q.page>> \in txn.dirtied /\ q.image = cache[q.object][q.page]
  BY <1>2 DEF LogInv
<1>9. \A q \in e.updates : <<q.object, q.page>> \in txn.dirtied /\ q.image = cache[q.object][q.page]
  BY <1>2, <1>3, <1>4, <1>8
<1>10. /\ \A n, k \in DOMAIN wal' : wal'[n].txn = wal'[k].txn => n = k
       /\ next_txn_id' > 1 => \A n \in DOMAIN wal' : wal'[n].txn < next_txn_id'
       /\ Len(wal') \in DOMAIN wal' /\ next_txn_id' > 1
  BY <1>2, <1>5 DEF LogInv
<1>. QED  BY <1>2, <1>5, <1>6, <1>7, <1>9, <1>10 DEF LogInv

LEMMA LogCommitLog ==
    ASSUME StructInv, LogInv, LogCommit
    PROVE  LogInv'
<1> DEFINE e == WithCommit(LastEntry)
<1>1. Rewritten(wal, wal', e)
  BY LogCommitFacts
<1>2. txn.state \in {"active", "committing"} /\ next_txn_id' = next_txn_id /\ txn'.state = "logged"
  BY DEF LogCommit, StructInv, Typed
<1>3. e.txn = LastEntry.txn
  <2>1. \A x \in EntrySet : WithCommit(x).txn = x.txn
    BY DEF WithCommit, EntrySet
  <2>. QED  BY <1>2, <2>1, WalFacts DEF StructInv, LogInv, LastEntry
<1> HIDE DEF e
<1>4. /\ Len(wal) \in DOMAIN wal /\ DOMAIN wal' = DOMAIN wal /\ Len(wal') = Len(wal)
      /\ \A k \in DOMAIN wal : wal'[k].txn = wal[k].txn
  BY <1>1, <1>2, <1>3, RewriteFacts
<1>5. /\ \A n, k \in DOMAIN wal' : wal'[n].txn = wal'[k].txn => n = k
      /\ next_txn_id' > 1 => \A n \in DOMAIN wal' : wal'[n].txn < next_txn_id'
      /\ Len(wal') \in DOMAIN wal' /\ next_txn_id' > 1
  BY <1>2, <1>4 DEF LogInv
<1>. QED  BY <1>2, <1>5 DEF LogInv

LEMMA NextLog == OneSessionPerLog /\ StructInv /\ IdsInv /\ ContentInv /\ LogInv /\ [Next]_vars => LogInv'
<1> SUFFICES ASSUME OneSessionPerLog, StructInv, IdsInv, ContentInv, LogInv, [Next]_vars PROVE LogInv'
  OBVIOUS
<1>1. CASE Begin
  BY <1>1, BeginLog
<1>2. ASSUME NEW t \in TableName, NEW r \in Row, Insert(t, r) PROVE LogInv'
  <2>1. wal' = wal /\ next_txn_id' = next_txn_id /\ txn.state = "active" /\ txn'.state = "active"
    BY <1>2 DEF Insert, StructInv, Typed
  <2>. QED  BY <2>1, LogKept
<1>3. ASSUME NEW d \in txn.dirtied, LogUpdate(d[1], d[2]) PROVE LogInv'
  BY <1>3, LogUpdateLog
<1>4. CASE LogCommit
  BY <1>4, LogCommitLog
<1>5. CASE ForcePages \/ Abort \/ Crash
  <2>1. wal' = wal /\ txn' = NoTxn /\ next_txn_id' \in {next_txn_id, 1}
    BY <1>5 DEF ForcePages, Abort, Crash
  <2>2. txn'.state = "none"
    BY <2>1 DEF NoTxn
  <2>. QED  BY <2>1, <2>2, LogKept
<1>6. CASE Checkpoint
  <2>1. wal' = <<>> /\ txn'.state = "none"
    BY <1>6 DEF Checkpoint
  <2>. QED  BY <2>1 DEF LogInv
<1>7. ASSUME NEW s \in TableStatement, CreateTable(s) PROVE LogInv'
  BY <1>7, LogKept DEF CreateTable, storagevars
<1>8. ASSUME NEW s \in IndexStatement, CreateIndex(s) PROVE LogInv'
  BY <1>8, LogKept DEF CreateIndex, storagevars
<1>9. CASE Storage \/ Open
  <2>1. call.at # "idle" /\ UNCHANGED <<wal, next_txn_id, txn>>
    BY <1>9 DEF Storage, AttachStorage, NewHeader, FlushHeader, AttachDone, Populate, PopulateThrows, FlushBackfill,
                CreateIndexReturns, Open, At, storagevars
  <2>2. txn'.state = "none"
    BY <2>1 DEF ContentInv, CacheInv, NoTxn
  <2>. QED  BY <2>1, <2>2, LogKept
<1>10. CASE Quiescent \/ UNCHANGED vars
  <2>1. UNCHANGED <<wal, next_txn_id, txn, cache>>
    BY <1>10 DEF Quiescent, vars, storagevars
  <2>. QED  BY <2>1, LogKept
<1>. QED  BY <1>1, <1>2, <1>3, <1>4, <1>5, <1>6, <1>7, <1>8, <1>9, <1>10 DEF Next, Statement

LEMMA NextContent ==
    ExclusiveDdl /\ StructInv /\ StructInv' /\ IdsInv /\ LogInv /\ ContentInv /\ [Next]_vars => ContentInv'
<1> SUFFICES ASSUME ExclusiveDdl, StructInv, StructInv', IdsInv, LogInv, ContentInv, [Next]_vars PROVE ContentInv'
  OBVIOUS
<1>1. CASE Begin
  BY <1>1, BeginContent
<1>2. ASSUME NEW t \in TableName, NEW r \in Row, Insert(t, r) PROVE ContentInv'
  BY <1>2, InsertContent
<1>3. CASE LogCommit
  BY <1>3, LogCommitContent
<1>4. CASE ForcePages
  BY <1>4, ForcePagesContent
<1>5. CASE Abort
  BY <1>5, AbortContent
<1>6. CASE Checkpoint
  BY <1>6, CheckpointContent
<1>7. ASSUME NEW s \in TableStatement, CreateTable(s) PROVE ContentInv'
  BY <1>7, CreateTableAdds, CreatesContent
<1>8. ASSUME NEW s \in IndexStatement, CreateIndex(s) PROVE ContentInv'
  BY <1>8, CreateIndexAdds, CreatesContent
<1>9. CASE AttachStorage
  BY <1>9, AttachStorageContent
<1>10. CASE NewHeader
  BY <1>10, NewHeaderContent
<1>11. CASE FlushHeader
  BY <1>11, FlushHeaderContent
<1>12. CASE AttachDone
  BY <1>12, AttachDoneContent
<1>13. CASE Populate
  BY <1>13, PopulateContent
<1>14. CASE PopulateThrows
  BY <1>14, PopulateThrowsContent
<1>15. ASSUME NEW p, FlushBackfill(p) PROVE ContentInv'
  BY <1>15, FlushBackfillContent
<1>16. CASE CreateIndexReturns
  BY <1>16, CreateIndexReturnsContent
<1>17. CASE Crash
  BY <1>17, CrashContent
<1>18. CASE Open
  BY <1>18, OpenContent
<1>19. CASE Quiescent \/ UNCHANGED vars
  BY <1>19, StutterContent DEF Quiescent
<1>20. ASSUME NEW d \in txn.dirtied, LogUpdate(d[1], d[2]) PROVE ContentInv'
  BY <1>20, LogUpdateContent
<1>. QED  BY <1>1, <1>2, <1>3, <1>4, <1>5, <1>6, <1>7, <1>8, <1>9, <1>10, <1>11, <1>12, <1>13, <1>14, <1>15,
             <1>16, <1>17, <1>18, <1>19, <1>20 DEF Next, Statement, Storage

\* What tables, indexes, pools, files and the log hold is an invariant under
\* two conditions that the code leaves to the client.  No transaction begins
\* while a CREATE runs: RequireNoActiveTransaction looks only once, before the
\* catalog is changed.  No transaction begins over the log of an earlier
\* process: TxnIds start at 1 again, and recovery replays every Update record
\* whose TxnId has a Commit record, whichever process wrote it.
THEOREM DdlContent ==
    ASSUME ExclusiveDdl, OneSessionPerLog
    PROVE  Spec => [](ContentInv /\ LogInv)
<1>1. Init => ContentInv /\ LogInv
  <2>1. Init => LogInv
    BY DEF Init, LogInv, NoTxn
  <2>. QED  BY <2>1, InitContent
<1>2. StructInv /\ StructInv' /\ IdsInv /\ ContentInv /\ LogInv /\ [Next]_vars => ContentInv' /\ LogInv'
  BY NextContent, NextLog
<1>3. Init => IdsInv
  BY DEF Init, IdsInv
<1>4. IdsInv /\ [Next]_vars => IdsInv'
  BY NextIds
<1>. QED  BY <1>1, <1>2, <1>3, <1>4, DdlInvariant, PTL DEF Spec

\* Committed rows, and no others, are in the table's heap file between
\* statements, through rollbacks, checkpoints, Open and deaths of the process
\* at any step of a commit or of a CREATE, when the client keeps CREATEs apart
\* from transactions and runs Checkpoint on a log that it finds.
THEOREM RowsSurvive ==
    ASSUME ExclusiveDdl, OneSessionPerLog
    PROVE  Spec => []CommittedRowsSurvive
<1>1. StructInv /\ ContentInv => CommittedRowsSurvive
  <2> SUFFICES ASSUME StructInv, ContentInv, Settled, NEW k \in DOMAIN catalog.tables,
                      catalog.tables[k].heap_object_id \in objects
               PROVE  RowsIn(cache[catalog.tables[k].heap_object_id]) = rows[catalog.tables[k].name]
    BY DEF CommittedRowsSurvive
  <2> DEFINE t == catalog.tables[k]
  <2>1. t \in Tables(catalog) /\ Running /\ txn = NoTxn
    BY DEF Settled, Tables, ToSet, Running, At, StructInv, ControlInv
  <2> HIDE DEF t
  <2>2. PICK u \in Tables(Saved) : u.name = t.name /\ u.heap_object_id = t.heap_object_id
    BY <2>1, AttachedTable DEF t
  <2>3. RowsIn(cache[u.heap_object_id]) = rows[u.name] \cup Added(u.name)
    BY <2>2 DEF ContentInv, RowsInv, t
  <2>4. Added(u.name) = {}
    BY <2>1 DEF Added, NoTxn
  <2>. QED  BY <2>2, <2>3, <2>4 DEF t
<1>. QED  BY <1>1, DdlInvariant, DdlContent, PTL

\* An index whose CREATE returned is attached, readable and holds exactly the
\* committed rows of its table between statements, under the same conditions,
\* although its backfill is in no transaction and in no log.
THEOREM AckedIndexesAreComplete ==
    ASSUME ExclusiveDdl, OneSessionPerLog
    PROVE  Spec => []AckedIndexComplete
<1>1. StructInv /\ ContentInv => AckedIndexComplete
  <2> SUFFICES ASSUME StructInv, ContentInv, Settled, NEW i \in Indexes(catalog), AckedIndex(i)
               PROVE  Complete(i)
    BY DEF AckedIndexComplete, AckedIndex, Indexes
  <2>1. Running /\ txn = NoTxn /\ TodoIds = {}
    BY DEF Settled, Running, At, StructInv, ControlInv, TodoIds, ToSet
  <2>2. i.object_id \in objects
    <3>1. i.object_id \in AckedIds
      BY DEF AckedIds, AckedIndex
    <3>. QED  BY <2>1, <3>1 DEF StructInv, AckedInv
  <2>3. PICK j \in Indexes(Saved) : j.object_id = i.object_id
    <3>1. i.object_id \in TreeIds(Saved)
      BY <2>1, <2>2, Kinds DEF TreeIds
    <3>. QED  BY <3>1 DEF TreeIds
  <2>4. j = i
    <3>1. j \in Indexes(catalog)
      BY <2>1 DEF StructInv, ListedInv, Includes
    <3>. QED  BY <2>3, <3>1 DEF StructInv, Typed, CatalogOK
  <2>5. TreeHolds(cache[i.object_id], rows[i.table_name] \cup Added(i.table_name))
    BY <2>2, <2>3, <2>4 DEF ContentInv, RowsInv
  <2>6. rows[i.table_name] \cup Added(i.table_name) = rows[i.table_name]
    BY <2>1 DEF Added, NoTxn
  <2>. QED  BY <2>2, <2>5, <2>6 DEF Complete, Readable, Header, TreeHolds
<1>. QED  BY <1>1, DdlInvariant, DdlContent, PTL
=============================================================================
