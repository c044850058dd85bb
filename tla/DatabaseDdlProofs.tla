------------------------- MODULE DatabaseDdlProofs -------------------------
(***************************************************************************)
(* Proofs about CREATE TABLE and CREATE INDEX, for every set of statements *)
(* and rows, any number of objects, transactions, deaths of the process    *)
(* and failures of Persist.                                                *)
(***************************************************************************)
EXTENDS DatabaseDdl, SequenceLemmas

PageContent == SUBSET (Row \cup {Formatted, NoRoot} \cup Nat)

\* The values the statements can put into a catalog.
TableInfo ==
    [name : TableName, columns : {s.columns : s \in TableStatement},
     primary_key_column : {s.primary_key_column : s \in TableStatement} \cup {NoColumn},
     heap_object_id : ObjectId]
ColumnName == {s.column_name : s \in IndexStatement} \cup {s.primary_key_column : s \in TableStatement}
IndexName ==
    {s.name : s \in IndexStatement} \cup
    {PkIndexName(s.name, s.primary_key_column) : s \in TableStatement}
IndexSet ==
    [name : IndexName, table_name : TableName, column_name : ColumnName, object_id : ObjectId,
     is_primary_key : BOOLEAN]
CatalogSet == [tables : Seq(TableInfo), indexes : Seq(IndexSet), next_object_id : Nat]

Tables(c) == ToSet(c.tables)
Indexes(c) == ToSet(c.indexes)
HeapIds(c) == {t.heap_object_id : t \in Tables(c)}
TreeIds(c) == {i.object_id : i \in Indexes(c)}
Ids(c) == HeapIds(c) \cup TreeIds(c)

\* Names and ObjectIds are given out once, and an index is of a table that
\* exists.
CatalogOK(c) ==
    /\ c \in CatalogSet /\ c.next_object_id <= MaxObjects
    /\ \A j, k \in DOMAIN c.tables : c.tables[j].name = c.tables[k].name => j = k
    /\ \A s, t \in Tables(c) : s.name = t.name \/ s.heap_object_id = t.heap_object_id => s = t
    /\ \A i, j \in Indexes(c) : i.name = j.name \/ i.object_id = j.object_id => i = j
    /\ \A i, j \in Indexes(c) :
          i.is_primary_key /\ j.is_primary_key /\ i.table_name = j.table_name => i = j
    /\ \A t \in Tables(c), i \in Indexes(c) : t.name # i.name /\ t.heap_object_id # i.object_id
    /\ \A o \in Ids(c) : o < c.next_object_id
    /\ \A i \in Indexes(c) : \E t \in Tables(c) : t.name = i.table_name
    /\ \A i \in Indexes(c) : i.is_primary_key =>
          \E s \in TableStatement : /\ s.name = i.table_name
                                    /\ i.name = PkIndexName(s.name, s.primary_key_column)
    /\ \A i \in Indexes(c) : ~i.is_primary_key => \E s \in IndexStatement : s.name = i.name

Places(c) == {<<t.name, t.heap_object_id>> : t \in Tables(c)}

\* b has everything that a has.
Includes(b, a) ==
    /\ Places(a) \subseteq Places(b) /\ Indexes(a) \subseteq Indexes(b)
    /\ a.next_object_id <= b.next_object_id

Saved == CatalogOnOpen
-----------------------------------------------------------------------------
Todo == [id : ObjectId, kind : {"heap", "index"}]
TodoIds == {x.id : x \in ToSet(call.todo)}
Update == [object : ObjectId, page : Nat \ {0}, image : PageContent]
EntrySet == [txn : Nat, updates : SUBSET Update, commit : BOOLEAN]
AnyName == TableName \cup IndexName

Typed ==
    /\ CatalogOK(catalog)
    /\ metadata = <<>> \/ \E c \in CatalogSet : CatalogOK(c) /\ metadata = <<Serialize(c)>>
    /\ objects \subseteq ObjectId
    /\ file \in [ObjectId -> Seq(PageContent)] /\ cache \in [ObjectId -> Seq(PageContent)]
    /\ dirty \in [ObjectId -> SUBSET Nat]
    /\ wal \in Seq(EntrySet)
    /\ txn \in [state : {"none", "active", "committing", "logged"}, observed : SUBSET ObjectId,
                dirtied : SUBSET (ObjectId \X Nat), added : SUBSET (TableName \X Row)]
    /\ call \in [at : {"idle", "attach", "header", "flush", "down"}, todo : Seq(Todo),
                 of : [kind : {"none", "table", "index", "open"}, name : AnyName \cup {NoColumn}]]
    /\ rows \in [TableName -> SUBSET Row] /\ acked \subseteq AnyName
    /\ failures \in Nat

\* Where the calls are.
ControlInv ==
    /\ txn.state = "none" => txn = NoTxn
    /\ call.at \in {"idle", "down"} => call.todo = <<>> /\ call.of.kind = "none"
    /\ call.at \in {"attach", "header", "flush"} => call.of.kind # "none"
    /\ At("header") => call.todo # <<>> /\ call.todo[1].kind = "index"
    /\ At("flush") => call.of.kind = "index" /\ call.todo = <<>>
    /\ call.of.kind = "open" \/ At("down") => txn = NoTxn
    /\ At("down") => objects = {}

\* The ids a running CREATE has given out.
NewIds ==
    IF call.of.kind = "table"
    THEN {t.heap_object_id : t \in {t \in Tables(catalog) : t.name = call.of.name}} \cup
         {i.object_id : i \in {i \in Indexes(catalog) : i.table_name = call.of.name /\ i.is_primary_key}}
    ELSE {i.object_id : i \in {i \in Indexes(catalog) : i.name = call.of.name}}

Creating == call.of.kind \in {"table", "index"}

\* Whatever has storage, a page or a record is in the metadata file.
ListedInv ==
    /\ Running => Includes(catalog, Saved)
    /\ objects \cup TodoIds \subseteq Ids(Saved)
    /\ \A x \in ToSet(call.todo) : x.kind = "index" <=> x.id \in TreeIds(Saved)
    /\ \A o \in ObjectId : file[o] # <<>> => o \in Ids(Saved)
    /\ txn.observed \subseteq objects
    /\ \A d \in txn.dirtied : d[1] \in objects
    /\ \A n \in DOMAIN wal : \A r \in wal[n].updates : r.object \in Ids(Saved)
    /\ Creating => /\ call.of.kind = "table" => \E t \in Tables(Saved) : t.name = call.of.name
                   /\ call.of.kind = "index" =>
                         \E i \in Indexes(Saved) : i.name = call.of.name /\ ~i.is_primary_key
                   /\ call.of.name \notin acked
    /\ Creating => TodoIds \subseteq NewIds /\ NewIds \subseteq objects \cup TodoIds
    /\ Creating => /\ TodoIds \cap objects = {}
                   /\ \A i, j \in DOMAIN call.todo : call.todo[i].id = call.todo[j].id => i = j
                   /\ \A n \in DOMAIN wal : \A r \in wal[n].updates : r.object \notin TodoIds
                   /\ \A i \in DOMAIN call.todo : ~(At("header") /\ i = 1) => file[call.todo[i].id] = <<>>

\* What the first page of a tree of n pages may be.
HeaderSet(n) == {Zeroed, {NoRoot}} \cup {{k} : k \in 2..n}

\* A page of the pool is a page of the file, and a root a page behind the header.
PagesInv ==
    /\ \A o \in objects : Len(cache[o]) = Len(file[o])
    /\ At("header") => LET o == call.todo[1].id
                       IN  file[o] = <<Zeroed>> /\ cache[o] = <<{NoRoot}>>
    /\ \A d \in txn.dirtied : d[2] \in 1..Len(file[d[1]])
    /\ \A n \in DOMAIN wal : \A r \in wal[n].updates : r.page <= Len(file[r.object])
    /\ Creating => \A o \in NewIds \cap objects \cap TreeIds(Saved) : cache[o][1] # Zeroed /\ file[o][1] # Zeroed
    /\ \A o \in TreeIds(Saved) :
          /\ file[o] # <<>> => file[o][1] \in HeaderSet(Len(file[o]))
          /\ o \in objects => cache[o] # <<>> /\ cache[o][1] \in HeaderSet(Len(file[o]))
          /\ \A n \in DOMAIN wal : \A r \in wal[n].updates :
                r.object = o /\ r.page = 1 => r.image \in HeaderSet(Len(file[o]))

\* The metadata file has the catalog of the last successful Persist.
SavedInv ==
    (Running /\ (failures = 0 \/ call.at # "idle")) =>
        \/ catalog = Saved
        \/ metadata = <<Serialize(catalog)>>

\* What CREATE statements that returned have made.
AckedIds ==
    {t.heap_object_id : t \in {t \in Tables(catalog) : t.name \in acked}} \cup
    {i.object_id : i \in {i \in Indexes(catalog) :
                             i.name \in acked \/ (i.is_primary_key /\ i.table_name \in acked)}}

AckedInv ==
    /\ \A n \in acked : \E x \in Tables(Saved) \cup Indexes(Saved) : x.name = n
    /\ Running => AckedIds \subseteq objects \cup TodoIds

StructInv == Typed /\ ControlInv /\ ListedInv /\ PagesInv /\ SavedInv /\ AckedInv
-----------------------------------------------------------------------------
\* The elements of a sequence behind an Append.
LEMMA AppendToSet ==
    ASSUME NEW R, NEW s \in Seq(R), NEW x \in R
    PROVE  Append(s, x) \in Seq(R) /\ ToSet(Append(s, x)) = ToSet(s) \cup {x}
<1>1. \A q : ToSet(q) = Elements(q)
  BY DEF ToSet, Elements
<1>. QED  BY <1>1, ElementsAppended

\* The elements of a concatenation.
LEMMA ConcatToSet ==
    ASSUME NEW R, NEW s \in Seq(R), NEW t \in Seq(R)
    PROVE  s \o t \in Seq(R) /\ ToSet(s \o t) = ToSet(s) \cup ToSet(t)
<1>1. \A q : ToSet(q) = Elements(q)
  BY DEF ToSet, Elements
<1>. QED  BY <1>1, ElementsConcatenated

\* The loop of IndexesOnTable.
LEMMA TableLoop ==
    ASSUME NEW c, c.indexes \in Seq(IndexSet), NEW n
    PROVE  \E f \in [0..Len(c.indexes) -> Seq(IndexSet)] :
               /\ f[0] = <<>> /\ IndexesOnTable(c, n) = f[Len(c.indexes)]
               /\ \A k \in 1..Len(c.indexes) :
                     f[k] = IF c.indexes[k].table_name # n THEN f[k - 1]
                            ELSE Append(f[k - 1], c.indexes[k])
<1> DEFINE m == Len(c.indexes)
           V == Seq(IndexSet)
           B(k, x) == IF c.indexes[k].table_name # n THEN x ELSE Append(x, c.indexes[k])
           step == [a \in (1..m) \X V |-> B(a[1], a[2])]
           P(f) == f = [k \in 0..m |-> IF k = 0 THEN <<>> ELSE
                                       IF c.indexes[k].table_name # n THEN f[k - 1]
                                       ELSE Append(f[k - 1], c.indexes[k])]
<1>1. m \in Nat /\ \A k \in 1..m : c.indexes[k] \in IndexSet
  BY LenProperties, ElementOfSeq
<1>2. \A k \in 1..m, x \in V : B(k, x) \in V
  BY <1>1, AppendProperties
<1>3. step \in Steps(m, V)
  <2> HIDE DEF B
  <2>. QED  BY <1>2 DEF Steps
<1>4. <<>> \in V
  OBVIOUS
<1>5. \A k \in 1..m, x \in V : step[<<k, x>>] = B(k, x)
  OBVIOUS
<1>6. PICK f \in [0..m -> V] : f[0] = <<>> /\ \A k \in 1..m : f[k] = step[<<k, f[k - 1]>>]
  <2> DEFINE e == <<>>
  <2>1. e \in V
    BY <1>4
  <2> HIDE DEF m, V, step, e
  <2>2. \E f \in [0..m -> V] : Iterates(f, e, m, step)
    BY <1>1, <1>3, <2>1, RecursionExists
  <2>. QED  BY <2>2 DEF e, Iterates
<1>7. P(f)
  <2> HIDE DEF B, m, V, step
  <2>1. \A k \in 1..m : f[k - 1] \in V
    BY <1>1, <1>6
  <2>2. \A k \in 1..m : f[k] = B(k, f[k - 1])
    BY <1>5, <1>6, <2>1
  <2>3. f = [k \in 0..m |-> IF k = 0 THEN <<>> ELSE B(k, f[k - 1])]
    <3>1. \A k \in 0..m : k # 0 => k \in 1..m
      BY <1>1
    <3>. QED  BY <1>6, <2>2, <3>1
  <2>. QED  BY <2>3 DEF B
<1> DEFINE g == CHOOSE g : P(g)
<1>8. P(g)
  <2> HIDE DEF P
  <2>. QED  BY <1>7
<1>9. IndexesOnTable(c, n) = g[m]
  BY DEF IndexesOnTable
<1> HIDE DEF g
<1>10. g[0] = <<>> /\ \A k \in 1..m : g[k] = B(k, g[k - 1])
  <2>1. g = [k \in 0..m |-> IF k = 0 THEN <<>> ELSE B(k, g[k - 1])]
    BY <1>8
  <2>2. 0 \in 0..m /\ \A k \in 1..m : k \in 0..m /\ k # 0
    <3> HIDE DEF m
    <3>. QED  BY <1>1
  <2> HIDE DEF B, m
  <2>. QED  BY <2>1, <2>2
<1>11. \A k \in 0..m : g[k] \in V
  <2> DEFINE G == {k \in 0..m : g[k] \in V}
  <2>1. 0 \in G
    <3> HIDE DEF B, V, m
    <3>. QED  BY <1>1, <1>4, <1>10
  <2>2. \A k \in 1..m : k - 1 \in G => k \in G
    <3> HIDE DEF B, V
    <3>. QED  BY <1>1, <1>2, <1>10
  <2> HIDE DEF G
  <2>3. \A k \in 0..m : k \in G
    BY <1>1, <2>1, <2>2, IntervalInduction
  <2>. QED  BY <2>3 DEF G
<1>12. g \in [0..m -> V]
  <2>1. g = [k \in 0..m |-> g[k]]
    BY <1>8
  <2> HIDE DEF V
  <2>. QED  BY <1>11, <2>1
<1>. QED  BY <1>9, <1>10, <1>12

\* IndexesOnTable returns the indexes of the table.
LEMMA IndexesOnTableFacts ==
    ASSUME NEW c, c.indexes \in Seq(IndexSet), NEW n
    PROVE  /\ IndexesOnTable(c, n) \in Seq(IndexSet)
           /\ ToSet(IndexesOnTable(c, n)) = {i \in Indexes(c) : i.table_name = n}
<1> DEFINE m == Len(c.indexes)
           V == Seq(IndexSet)
           s == c.indexes
           E(f, k) == ToSet(f[k]) = {s[j] : j \in {j \in 1..k : s[j].table_name = n}}
<1>1. PICK f \in [0..m -> V] :
          /\ f[0] = <<>> /\ IndexesOnTable(c, n) = f[m]
          /\ \A k \in 1..m : f[k] = IF s[k].table_name # n THEN f[k - 1] ELSE Append(f[k - 1], s[k])
  BY TableLoop
<1>2. /\ m \in Nat /\ DOMAIN s = 1..m /\ \A k \in 1..m : s[k] \in IndexSet
  BY LenProperties, ElementOfSeq
<1> HIDE DEF m, s
<1>3. \A k \in 0..m : E(f, k)
  <2> DEFINE G == {k \in 0..m : E(f, k)}
  <2>1. 0 \in G
    <3>1. ToSet(f[0]) = {}
      BY <1>1 DEF ToSet
    <3>2. {s[j] : j \in {j \in 1..0 : s[j].table_name = n}} = {}
      OBVIOUS
    <3>. QED  BY <1>2, <3>1, <3>2
  <2>2. ASSUME NEW k \in 1..m, k - 1 \in G
        PROVE  k \in G
    <3>1. k \in 0..m /\ f[k - 1] \in V /\ s[k] \in IndexSet
      BY <1>1, <1>2
    <3>2. ToSet(f[k - 1]) = {s[j] : j \in {j \in 1..k - 1 : s[j].table_name = n}}
      BY <2>2
    <3>3. CASE s[k].table_name # n
      <4>1. f[k] = f[k - 1]
        BY <1>1, <3>3
      <4>2. {j \in 1..k : s[j].table_name = n} = {j \in 1..k - 1 : s[j].table_name = n}
        BY <1>2, <3>3
      <4>. QED  BY <3>1, <3>2, <4>1, <4>2
    <3>4. CASE s[k].table_name = n
      <4>1. f[k] = Append(f[k - 1], s[k])
        BY <1>1, <3>4
      <4>2. ToSet(f[k]) = ToSet(f[k - 1]) \cup {s[k]}
        BY <3>1, <4>1, AppendToSet
      <4>3. {j \in 1..k : s[j].table_name = n} = {j \in 1..k - 1 : s[j].table_name = n} \cup {k}
        BY <1>2, <3>4
      <4>4. {s[j] : j \in {j \in 1..k : s[j].table_name = n}}
               = {s[j] : j \in {j \in 1..k - 1 : s[j].table_name = n}} \cup {s[k]}
        BY <4>3
      <4>. QED  BY <3>1, <3>2, <4>2, <4>4
    <3>. QED  BY <3>3, <3>4
  <2> HIDE DEF G
  <2>3. \A k \in 0..m : k \in G
    BY <1>2, <2>1, <2>2, IntervalInduction
  <2>. QED  BY <2>3 DEF G
<1>4. E(f, m) /\ f[m] \in V
  <2>1. m \in 0..m
    BY <1>2
  <2> HIDE DEF E
  <2>. QED  BY <1>1, <1>3, <2>1
<1>5. {s[j] : j \in {j \in 1..m : s[j].table_name = n}} = {i \in ToSet(s) : i.table_name = n}
  BY <1>2 DEF ToSet
<1>. QED  BY <1>1, <1>4, <1>5 DEF Indexes, s

\* The fields of the records of a catalog.
LEMMA CatalogFields ==
    ASSUME NEW c \in CatalogSet
    PROVE  /\ c.tables \in Seq(TableInfo) /\ c.indexes \in Seq(IndexSet) /\ c.next_object_id \in Nat
           /\ Tables(c) \subseteq TableInfo /\ Indexes(c) \subseteq IndexSet
           /\ DOMAIN c.tables = 1..Len(c.tables) /\ Len(c.tables) \in Nat
           /\ DOMAIN c.indexes = 1..Len(c.indexes) /\ Len(c.indexes) \in Nat
           /\ \A k \in 1..Len(c.tables) : c.tables[k] \in Tables(c)
           /\ \A k \in 1..Len(c.indexes) : c.indexes[k] \in Indexes(c)
<1>1. c.tables \in Seq(TableInfo) /\ c.indexes \in Seq(IndexSet) /\ c.next_object_id \in Nat
  BY DEF CatalogSet
<1>2. /\ DOMAIN c.tables = 1..Len(c.tables) /\ Len(c.tables) \in Nat
      /\ DOMAIN c.indexes = 1..Len(c.indexes) /\ Len(c.indexes) \in Nat
  BY <1>1, LenProperties
<1>3. /\ \A k \in 1..Len(c.tables) : c.tables[k] \in TableInfo
      /\ \A k \in 1..Len(c.indexes) : c.indexes[k] \in IndexSet
  BY <1>1, ElementOfSeq
<1>. QED  BY <1>1, <1>2, <1>3 DEF Tables, Indexes, ToSet

\* An entry of the file read back gives the indexes that were written.
LEMMA LoadedEntry ==
    ASSUME NEW c \in CatalogSet, NEW k \in 1..Len(c.tables)
    PROVE  LET entry == Serialize(c).tables[k]
           IN  [j \in DOMAIN entry.indexes |-> LoadedIndex(entry, entry.indexes[j])]
                   = IndexesOnTable(c, c.tables[k].name)
<1> DEFINE n == c.tables[k].name
           on == IndexesOnTable(c, n)
           written == [j \in DOMAIN on |-> [name |-> on[j].name, column_name |-> on[j].column_name,
                          object_id |-> on[j].object_id,
                          kind |-> IF on[j].is_primary_key THEN "PK" ELSE "SEC"]]
           entry == Serialize(c).tables[k]
<1>1. entry.name = n /\ entry.indexes = written
  BY CatalogFields DEF Serialize
<1>2. on \in Seq(IndexSet) /\ ToSet(on) = {i \in Indexes(c) : i.table_name = n}
  BY CatalogFields, IndexesOnTableFacts
<1>3. DOMAIN written = DOMAIN on /\ on = [j \in DOMAIN on |-> on[j]]
  BY <1>2
<1>4. ASSUME NEW j \in DOMAIN on
      PROVE  LoadedIndex(entry, written[j]) = on[j]
  <2>1. on[j] \in IndexSet /\ on[j].table_name = n
    <3>1. on[j] \in ToSet(on)
      BY <1>4 DEF ToSet
    <3> HIDE DEF on, n
    <3>. QED  BY <1>2, <3>1, CatalogFields
  <2>2. PICK a \in IndexName, b \in TableName, d \in ColumnName, o \in ObjectId, p \in BOOLEAN :
            on[j] = [name |-> a, table_name |-> b, column_name |-> d, object_id |-> o,
                     is_primary_key |-> p]
    <3> HIDE DEF on, n
    <3>. QED  BY <2>1 DEF IndexSet
  <2>3. /\ written[j].name = a /\ written[j].column_name = d /\ written[j].object_id = o
        /\ (written[j].kind = "PK") = p
    <3> HIDE DEF on, n
    <3>. QED  BY <1>4, <2>2
  <2>4. b = n
    <3> HIDE DEF on, n
    <3>. QED  BY <2>1, <2>2
  <2> HIDE DEF on, n, written, entry
  <2>. QED  BY <1>1, <2>2, <2>3, <2>4 DEF LoadedIndex, IndexInfo
<1>5. [j \in DOMAIN entry.indexes |-> LoadedIndex(entry, entry.indexes[j])] = on
  <2> HIDE DEF on, n, written, entry
  <2>1. [j \in DOMAIN entry.indexes |-> LoadedIndex(entry, entry.indexes[j])]
            = [j \in DOMAIN on |-> on[j]]
    BY <1>1, <1>3, <1>4
  <2>. QED  BY <1>3, <2>1
<1>. QED  BY <1>5

\* The loop of Load over the tables.
LEMMA LoadLoop ==
    ASSUME NEW c \in CatalogSet
    PROVE  \E f \in [0..Len(c.tables) -> Seq(IndexSet)] :
               /\ f[0] = <<>> /\ Load(Serialize(c)).indexes = f[Len(c.tables)]
               /\ \A k \in 1..Len(c.tables) :
                     f[k] = f[k - 1] \o IndexesOnTable(c, c.tables[k].name)
<1> DEFINE m == Len(c.tables)
           V == Seq(IndexSet)
           e == <<>>
           B(k, x) == x \o IndexesOnTable(c, c.tables[k].name)
           step == [a \in (1..m) \X V |-> B(a[1], a[2])]
           C == Serialize(c)
           D(k, x) == LET entry == C.tables[k]
                      IN  x \o [j \in DOMAIN entry.indexes |-> LoadedIndex(entry, entry.indexes[j])]
           P(f) == f = [k \in 0..m |-> IF k = 0 THEN e ELSE D(k, f[k - 1])]
<1>1. m \in Nat /\ DOMAIN C.tables = 1..m /\ Len(C.tables) = m
  BY CatalogFields DEF Serialize
<1>2. \A k \in 1..m : IndexesOnTable(c, c.tables[k].name) \in V
  BY CatalogFields, IndexesOnTableFacts
<1>3. \A k \in 1..m, x \in V : B(k, x) \in V
  BY <1>2, ConcatProperties
<1>4. \A k \in 1..m : \A x : D(k, x) = B(k, x)
  BY LoadedEntry
<1>5. step \in Steps(m, V)
  <2> HIDE DEF B
  <2>. QED  BY <1>3 DEF Steps
<1>6. e \in V
  OBVIOUS
<1>7. \A k \in 1..m, x \in V : step[<<k, x>>] = B(k, x)
  OBVIOUS
<1>8. PICK f \in [0..m -> V] : Iterates(f, e, m, step)
  <2> HIDE DEF m, V, step, e
  <2>. QED  BY <1>1, <1>5, <1>6, RecursionExists
<1>9. P(f)
  <2> HIDE DEF B, D, m, V, step, e
  <2>1. \A k \in 1..m : f[k - 1] \in V
    BY <1>1, <1>8
  <2>2. f[0] = e /\ \A k \in 1..m : f[k] = D(k, f[k - 1])
    BY <1>4, <1>7, <1>8, <2>1 DEF Iterates
  <2>3. \A k \in 0..m : k # 0 => k \in 1..m
    BY <1>1
  <2>. QED  BY <1>8, <2>2, <2>3
<1> DEFINE g == CHOOSE g : P(g)
<1>10. P(g)
  <2> HIDE DEF P
  <2>. QED  BY <1>9
<1>11. Load(C).indexes = g[m]
  BY <1>1 DEF Load
<1> HIDE DEF g
<1>12. g[0] = e /\ \A k \in 1..m : g[k] = B(k, g[k - 1])
  <2>1. 0 \in 0..m /\ \A k \in 1..m : k \in 0..m /\ k # 0
    <3> HIDE DEF m
    <3>. QED  BY <1>1
  <2> HIDE DEF B, D, m, e
  <2>. QED  BY <1>4, <1>10, <2>1
<1>13. \A k \in 0..m : g[k] \in V
  <2> DEFINE G == {k \in 0..m : g[k] \in V}
  <2>1. 0 \in G
    <3> HIDE DEF B, V, m, e
    <3>. QED  BY <1>1, <1>6, <1>12
  <2>2. \A k \in 1..m : k - 1 \in G => k \in G
    <3> HIDE DEF B, V, m
    <3>. QED  BY <1>1, <1>3, <1>12
  <2> HIDE DEF G, m
  <2>3. \A k \in 0..m : k \in G
    BY <1>1, <2>1, <2>2, IntervalInduction
  <2>. QED  BY <2>3 DEF G
<1>14. g \in [0..m -> V]
  <2>1. g = [k \in 0..m |-> g[k]]
    <3> HIDE DEF m, D, e
    <3>. QED  BY <1>10
  <2> HIDE DEF V, m
  <2>. QED  BY <1>13, <2>1
<1>. QED  BY <1>11, <1>12, <1>14

\* The first element that a loop finds.
LEMMA FirstFacts ==
    ASSUME NEW R, NEW s \in Seq(R), NEW hits \in SUBSET (DOMAIN s)
    PROVE  /\ hits = {} => First(s, hits) = <<>>
           /\ hits # {} => \E i \in hits : First(s, hits) = <<s[i]>>
<1>1. CASE hits = {}
  BY <1>1 DEF First
<1>2. CASE hits # {}
  <2>1. hits \in SUBSET Nat
    BY LenProperties
  <2>2. \E i \in hits : \A j \in hits : i <= j
    BY <1>2, <2>1, LeastNatural
  <2>3. (CHOOSE i \in hits : \A j \in hits : i <= j) \in hits
    BY <2>2
  <2>. QED  BY <1>2, <2>3 DEF First
<1>. QED  BY <1>1, <1>2

\* The lookups by name.
LEMMA Lookups ==
    ASSUME NEW c, CatalogOK(c), NEW n
    PROVE  /\ \A t \in Tables(c) : t.name = n => FindTable(c, n) = <<t>>
           /\ (\A t \in Tables(c) : t.name # n) => FindTable(c, n) = <<>>
           /\ \A i \in Indexes(c) : i.name = n => FindIndex(c, n) = <<i>>
           /\ (\A i \in Indexes(c) : i.name # n) => FindIndex(c, n) = <<>>
           /\ \A i \in Indexes(c) : i.table_name = n /\ i.is_primary_key => PrimaryKeyIndex(c, n) = <<i>>
           /\ (\A i \in Indexes(c) : ~(i.table_name = n /\ i.is_primary_key)) => PrimaryKeyIndex(c, n) = <<>>
<1>0. c \in CatalogSet
  BY DEF CatalogOK
<1>1. /\ c.tables \in Seq(TableInfo) /\ c.indexes \in Seq(IndexSet)
      /\ Tables(c) = {c.tables[k] : k \in DOMAIN c.tables}
      /\ Indexes(c) = {c.indexes[k] : k \in DOMAIN c.indexes}
  BY <1>0, CatalogFields DEF Tables, Indexes, ToSet
<1>2. /\ \A t \in Tables(c) : t.name = n => FindTable(c, n) = <<t>>
      /\ (\A t \in Tables(c) : t.name # n) => FindTable(c, n) = <<>>
  <2> DEFINE hits == {i \in DOMAIN c.tables : c.tables[i].name = n}
  <2>1. FindTable(c, n) = First(c.tables, hits)
    BY DEF FindTable
  <2>2. /\ hits = {} => FindTable(c, n) = <<>>
        /\ hits # {} => \E i \in hits : FindTable(c, n) = <<c.tables[i]>>
    <3>1. hits \in SUBSET (DOMAIN c.tables)
      OBVIOUS
    <3> HIDE DEF hits
    <3>. QED  BY <1>1, <2>1, <3>1, FirstFacts
  <2>3. \A t \in Tables(c) : t.name = n => hits # {}
    BY <1>1
  <2>4. \A i \in hits : c.tables[i] \in Tables(c) /\ c.tables[i].name = n
    BY <1>1
  <2>5. \A s, t \in Tables(c) : s.name = n /\ t.name = n => s = t
    BY DEF CatalogOK
  <2> HIDE DEF hits
  <2>. QED  BY <2>2, <2>3, <2>4, <2>5
<1>3. /\ \A i \in Indexes(c) : i.name = n => FindIndex(c, n) = <<i>>
      /\ (\A i \in Indexes(c) : i.name # n) => FindIndex(c, n) = <<>>
  <2> DEFINE hits == {i \in DOMAIN c.indexes : c.indexes[i].name = n}
  <2>1. FindIndex(c, n) = First(c.indexes, hits)
    BY DEF FindIndex
  <2>2. /\ hits = {} => FindIndex(c, n) = <<>>
        /\ hits # {} => \E i \in hits : FindIndex(c, n) = <<c.indexes[i]>>
    <3>1. hits \in SUBSET (DOMAIN c.indexes)
      OBVIOUS
    <3> HIDE DEF hits
    <3>. QED  BY <1>1, <2>1, <3>1, FirstFacts
  <2>3. \A t \in Indexes(c) : t.name = n => hits # {}
    BY <1>1
  <2>4. \A i \in hits : c.indexes[i] \in Indexes(c) /\ c.indexes[i].name = n
    BY <1>1
  <2>5. \A s, t \in Indexes(c) : s.name = n /\ t.name = n => s = t
    BY DEF CatalogOK
  <2> HIDE DEF hits
  <2>. QED  BY <2>2, <2>3, <2>4, <2>5
<1>4. /\ \A i \in Indexes(c) : i.table_name = n /\ i.is_primary_key => PrimaryKeyIndex(c, n) = <<i>>
      /\ (\A i \in Indexes(c) : ~(i.table_name = n /\ i.is_primary_key)) => PrimaryKeyIndex(c, n) = <<>>
  <2> DEFINE hits == {i \in DOMAIN c.indexes : c.indexes[i].table_name = n /\ c.indexes[i].is_primary_key}
  <2>1. PrimaryKeyIndex(c, n) = First(c.indexes, hits)
    BY DEF PrimaryKeyIndex
  <2>2. /\ hits = {} => PrimaryKeyIndex(c, n) = <<>>
        /\ hits # {} => \E i \in hits : PrimaryKeyIndex(c, n) = <<c.indexes[i]>>
    <3>1. hits \in SUBSET (DOMAIN c.indexes)
      OBVIOUS
    <3> HIDE DEF hits
    <3>. QED  BY <1>1, <2>1, <3>1, FirstFacts
  <2>3. \A t \in Indexes(c) : t.table_name = n /\ t.is_primary_key => hits # {}
    BY <1>1
  <2>4. \A i \in hits : c.indexes[i] \in Indexes(c) /\ c.indexes[i].table_name = n /\ c.indexes[i].is_primary_key
    BY <1>1
  <2>5. \A s, t \in Indexes(c) :
            s.table_name = n /\ t.table_name = n /\ s.is_primary_key /\ t.is_primary_key => s = t
    BY DEF CatalogOK
  <2> HIDE DEF hits
  <2>. QED  BY <2>2, <2>3, <2>4, <2>5
<1>. QED  BY <1>2, <1>3, <1>4

\* A table as it is read back.
ReadBack(t) ==
    [name |-> t.name, columns |-> t.columns, heap_object_id |-> t.heap_object_id,
     primary_key_column |-> IF t.primary_key_column = NoColumn THEN NoColumn
                            ELSE IF t.primary_key_column = NONE THEN NoColumn
                            ELSE t.primary_key_column]

\* What Load makes of the tables that Persist wrote.
LEMMA LoadedTables ==
    ASSUME NEW c \in CatalogSet
    PROVE  /\ Load(Serialize(c)).tables = [k \in DOMAIN c.tables |-> ReadBack(c.tables[k])]
           /\ Load(Serialize(c)).tables \in Seq(TableInfo)
           /\ Tables(Load(Serialize(c))) = {ReadBack(t) : t \in Tables(c)}
           /\ \A t \in Tables(c) : ReadBack(t) \in TableInfo
<1> DEFINE l == Load(Serialize(c))
<1>1. l.tables = [k \in DOMAIN c.tables |-> ReadBack(c.tables[k])]
  <2>1. ASSUME NEW k \in DOMAIN c.tables
        PROVE  LET entry == Serialize(c).tables[k]
               IN  /\ entry.name = c.tables[k].name /\ entry.columns = c.tables[k].columns
                   /\ entry.heap_object_id = c.tables[k].heap_object_id
                   /\ entry.primary_key = IF c.tables[k].primary_key_column = NoColumn THEN NONE
                                          ELSE c.tables[k].primary_key_column
    BY DEF Serialize
  <2>2. DOMAIN Serialize(c).tables = DOMAIN c.tables
    BY DEF Serialize
  <2>3. l.tables = [k \in DOMAIN c.tables |->
                       LET entry == Serialize(c).tables[k]
                       IN  [name |-> entry.name, columns |-> entry.columns,
                            heap_object_id |-> entry.heap_object_id,
                            primary_key_column |-> IF entry.primary_key = NONE THEN NoColumn
                                                   ELSE entry.primary_key]]
    BY <2>2 DEF Load
  <2>4. ASSUME NEW k \in DOMAIN c.tables
        PROVE  LET entry == Serialize(c).tables[k]
               IN  ReadBack(c.tables[k]) =
                       [name |-> entry.name, columns |-> entry.columns,
                        heap_object_id |-> entry.heap_object_id,
                        primary_key_column |-> IF entry.primary_key = NONE THEN NoColumn
                                               ELSE entry.primary_key]
    BY <2>1 DEF ReadBack
  <2>. QED  BY <2>3, <2>4
<1>2. \A t \in TableInfo : ReadBack(t) \in TableInfo
  BY DEF TableInfo, ReadBack
<1>3. /\ DOMAIN c.tables = 1..Len(c.tables) /\ Len(c.tables) \in Nat /\ Tables(c) \subseteq TableInfo
      /\ \A k \in DOMAIN c.tables : c.tables[k] \in Tables(c)
  BY CatalogFields
<1>4. l.tables \in Seq(TableInfo)
  <2>1. l.tables \in [1..Len(c.tables) -> TableInfo]
    BY <1>1, <1>2, <1>3
  <2>. QED  BY <1>3, <2>1, SeqDef
<1>5. Tables(l) = {ReadBack(t) : t \in Tables(c)}
  <2>1. DOMAIN l.tables = DOMAIN c.tables
    BY <1>1
  <2>2. \A k \in DOMAIN c.tables : l.tables[k] = ReadBack(c.tables[k])
    BY <1>1
  <2> HIDE DEF l
  <2>. QED  BY <2>1, <2>2 DEF Tables, ToSet
<1>. QED  BY <1>1, <1>2, <1>3, <1>4, <1>5

\* What Load makes of the indexes that Persist wrote.
LEMMA LoadedIndexes ==
    ASSUME NEW c, CatalogOK(c)
    PROVE  /\ Load(Serialize(c)).indexes \in Seq(IndexSet)
           /\ Indexes(Load(Serialize(c))) = Indexes(c)
<1>0. c \in CatalogSet
  BY DEF CatalogOK
<1> DEFINE m == Len(c.tables)
           V == Seq(IndexSet)
           On(k) == IndexesOnTable(c, c.tables[k].name)
           E(f, k) == ToSet(f[k]) = UNION {ToSet(On(j)) : j \in 1..k}
<1>1. PICK f \in [0..m -> V] : /\ f[0] = <<>> /\ Load(Serialize(c)).indexes = f[m]
                               /\ \A k \in 1..m : f[k] = f[k - 1] \o On(k)
  BY <1>0, LoadLoop
<1>2. /\ m \in Nat /\ \A k \in 1..m : c.tables[k] \in Tables(c)
      /\ DOMAIN c.tables = 1..m
  BY <1>0, CatalogFields
<1>3. \A k \in 1..m : On(k) \in V /\ ToSet(On(k)) = {i \in Indexes(c) : i.table_name = c.tables[k].name}
  BY <1>0, CatalogFields, IndexesOnTableFacts
<1> HIDE DEF m, On
<1>4. \A k \in 0..m : E(f, k)
  <2> DEFINE G == {k \in 0..m : E(f, k)}
  <2>1. 0 \in G
    <3>1. ToSet(f[0]) = {}
      BY <1>1 DEF ToSet
    <3>2. UNION {ToSet(On(j)) : j \in 1..0} = {}
      OBVIOUS
    <3>. QED  BY <1>2, <3>1, <3>2
  <2>2. ASSUME NEW k \in 1..m, k - 1 \in G
        PROVE  k \in G
    <3>1. k \in 0..m /\ f[k - 1] \in V /\ On(k) \in V
      BY <1>1, <1>2, <1>3
    <3>2. ToSet(f[k]) = ToSet(f[k - 1]) \cup ToSet(On(k))
      <4>1. ToSet(f[k - 1] \o On(k)) = ToSet(f[k - 1]) \cup ToSet(On(k))
        BY <3>1, ConcatToSet
      <4>. QED  BY <1>1, <4>1
    <3>3. 1..k = (1..k - 1) \cup {k}
      BY <1>2
    <3>4. UNION {ToSet(On(j)) : j \in 1..k} = (UNION {ToSet(On(j)) : j \in 1..k - 1}) \cup ToSet(On(k))
      BY <3>3
    <3>. QED  BY <2>2, <3>1, <3>2, <3>4
  <2> HIDE DEF G
  <2>3. \A k \in 0..m : k \in G
    BY <1>2, <2>1, <2>2, IntervalInduction
  <2>. QED  BY <2>3 DEF G
<1>5. ToSet(f[m]) = UNION {ToSet(On(j)) : j \in 1..m} /\ f[m] \in V
  <2>1. m \in 0..m
    BY <1>2
  <2>. QED  BY <1>1, <1>4, <2>1
<1>6. \A i \in Indexes(c) : \E k \in 1..m : c.tables[k].name = i.table_name
  <2>1. Tables(c) = {c.tables[k] : k \in 1..m}
    BY <1>2 DEF Tables, ToSet
  <2>2. \A i \in Indexes(c) : \E t \in Tables(c) : t.name = i.table_name
    BY DEF CatalogOK
  <2>. QED  BY <2>1, <2>2
<1>7. UNION {ToSet(On(j)) : j \in 1..m} = Indexes(c)
  BY <1>3, <1>6
<1>. QED  BY <1>1, <1>5, <1>7 DEF Indexes

\* The catalog that is read back is the one that was written, except for what
\* it says of a primary key column called NONE.
LEMMA Reloaded ==
    ASSUME NEW c, CatalogOK(c)
    PROVE  LET l == Load(Serialize(c))
           IN  /\ CatalogOK(l) /\ Places(l) = Places(c) /\ Indexes(l) = Indexes(c)
               /\ l.next_object_id = c.next_object_id
<1> DEFINE l == Load(Serialize(c))
<1>0. c \in CatalogSet
  BY DEF CatalogOK
<1>1. /\ l.tables \in Seq(TableInfo) /\ Tables(l) = {ReadBack(t) : t \in Tables(c)}
      /\ l.indexes \in Seq(IndexSet) /\ Indexes(l) = Indexes(c)
  BY <1>0, LoadedTables, LoadedIndexes
<1>2. l.next_object_id = c.next_object_id /\ c.next_object_id \in Nat
  BY <1>0, CatalogFields DEF Load, Serialize
<1>3. l \in CatalogSet
  <2>1. \E a, b, d : l = [next_object_id |-> a, tables |-> b, indexes |-> d]
    BY DEF Load
  <2> HIDE DEF l
  <2>. QED  BY <1>1, <1>2, <2>1 DEF CatalogSet
<1>4. \A t \in Tables(c) : ReadBack(t).name = t.name /\ ReadBack(t).heap_object_id = t.heap_object_id
  BY DEF ReadBack
<1> HIDE DEF l
<1>5. Places(l) = Places(c)
  BY <1>1, <1>4 DEF Places
<1>6. Ids(l) = Ids(c)
  BY <1>1, <1>4 DEF Ids, HeapIds, TreeIds
<1>7. CatalogOK(l)
  <2>1. \A s, t \in Tables(l) : s.name = t.name \/ s.heap_object_id = t.heap_object_id => s = t
    BY <1>1, <1>4 DEF CatalogOK
  <2>2. \A t \in Tables(l), i \in Indexes(l) : t.name # i.name /\ t.heap_object_id # i.object_id
    BY <1>1, <1>4 DEF CatalogOK
  <2>3. \A i \in Indexes(l) : \E t \in Tables(l) : t.name = i.table_name
    BY <1>1, <1>4 DEF CatalogOK
  <2>4. \A j, k \in DOMAIN l.tables : l.tables[j].name = l.tables[k].name => j = k
    <3>1. l.tables = [k \in DOMAIN c.tables |-> ReadBack(c.tables[k])]
      BY <1>0, LoadedTables DEF l
    <3>2. \A k \in DOMAIN l.tables : k \in DOMAIN c.tables /\ l.tables[k].name = c.tables[k].name
      BY <3>1 DEF ReadBack
    <3>. QED  BY <3>2 DEF CatalogOK
  <2>. QED  BY <1>1, <1>2, <1>3, <1>6, <2>1, <2>2, <2>3, <2>4 DEF CatalogOK
<1>. QED  BY <1>2, <1>1, <1>5, <1>7 DEF l

-----------------------------------------------------------------------------
\* The indexes of table n in a list.
Filter(s, n) == IndexesOnTable([indexes |-> s], n)

LEMMA FilterLoop ==
    ASSUME NEW s \in Seq(IndexSet), NEW n
    PROVE  \E f \in [0..Len(s) -> Seq(IndexSet)] :
               /\ f[0] = <<>> /\ Filter(s, n) = f[Len(s)]
               /\ \A k \in 1..Len(s) : f[k] = IF s[k].table_name # n THEN f[k - 1] ELSE Append(f[k - 1], s[k])
<1> DEFINE c == [indexes |-> s]
<1>1. c.indexes = s
  OBVIOUS
<1>2. Filter(s, n) = IndexesOnTable(c, n)
  BY DEF Filter
<1> HIDE DEF c
<1>. QED  BY <1>1, <1>2, TableLoop

LEMMA FilterOfCatalog ==
    ASSUME NEW c, NEW n
    PROVE  IndexesOnTable(c, n) = Filter(c.indexes, n)
BY DEF Filter, IndexesOnTable

LEMMA FilterEmpty ==
    ASSUME NEW n
    PROVE  Filter(<<>>, n) = <<>>
<1> DEFINE e == <<>>
<1>1. e \in Seq(IndexSet) /\ Len(e) = 0
  OBVIOUS
<1> HIDE DEF e
<1>2. \E f \in [0..Len(e) -> Seq(IndexSet)] : f[0] = <<>> /\ Filter(e, n) = f[Len(e)]
  BY <1>1, FilterLoop
<1>. QED  BY <1>1, <1>2 DEF e

LEMMA FilterAppend ==
    ASSUME NEW s \in Seq(IndexSet), NEW x \in IndexSet, NEW n
    PROVE  /\ Filter(s, n) \in Seq(IndexSet)
           /\ Filter(Append(s, x), n) = IF x.table_name # n THEN Filter(s, n) ELSE Append(Filter(s, n), x)
<1> DEFINE m == Len(s)
           a == Append(s, x)
<1>1. /\ a \in Seq(IndexSet) /\ Len(a) = m + 1 /\ m \in Nat
      /\ \A i \in 1..m : a[i] = s[i]
      /\ a[m + 1] = x
  BY AppendProperties, LenProperties
<1>2. PICK f \in [0..m -> Seq(IndexSet)] :
               /\ f[0] = <<>> /\ Filter(s, n) = f[m]
               /\ \A k \in 1..m : f[k] = IF s[k].table_name # n THEN f[k - 1] ELSE Append(f[k - 1], s[k])
  BY FilterLoop
<1> HIDE DEF a
<1>3. PICK g \in [0..Len(a) -> Seq(IndexSet)] :
               /\ g[0] = <<>> /\ Filter(a, n) = g[Len(a)]
               /\ \A k \in 1..Len(a) : g[k] = IF a[k].table_name # n THEN g[k - 1] ELSE Append(g[k - 1], a[k])
  BY <1>1, FilterLoop
<1> HIDE DEF m
<1>4. \A k \in 0..m : g[k] = f[k]
  <2> DEFINE G == {k \in 0..m : g[k] = f[k]}
  <2>1. 0 \in G
    BY <1>1, <1>2, <1>3
  <2>2. ASSUME NEW k \in 1..m, k - 1 \in G
        PROVE  k \in G
    <3>1. k \in 0..m /\ k \in 1..Len(a) /\ a[k] = s[k] /\ g[k - 1] = f[k - 1]
      BY <1>1, <2>2
    <3>2. /\ g[k] = IF a[k].table_name # n THEN g[k - 1] ELSE Append(g[k - 1], a[k])
          /\ f[k] = IF s[k].table_name # n THEN f[k - 1] ELSE Append(f[k - 1], s[k])
      BY <1>2, <1>3, <3>1
    <3>. QED  BY <3>1, <3>2
  <2> HIDE DEF G
  <2>3. \A k \in 0..m : k \in G
    BY <1>1, <2>1, <2>2, IntervalInduction
  <2>. QED  BY <2>3 DEF G
<1>5. m \in 0..m /\ m + 1 \in 1..Len(a) /\ (m + 1) - 1 = m
  BY <1>1
<1>6. g[m + 1] = IF x.table_name # n THEN g[m] ELSE Append(g[m], x)
  BY <1>1, <1>3, <1>5
<1>. QED  BY <1>1, <1>2, <1>3, <1>4, <1>5, <1>6 DEF a

\* A list and another one behind it.
LEMMA FilterConcat ==
    ASSUME NEW s \in Seq(IndexSet), NEW t \in Seq(IndexSet), NEW n
    PROVE  Filter(s \o t, n) = Filter(s, n) \o Filter(t, n)
<1> DEFINE m == Len(t)
           p(k) == SubSeq(t, 1, k)
           G == {k \in 0..m : Filter(s \o p(k), n) = Filter(s, n) \o Filter(p(k), n)}
<1>1. m \in Nat /\ \A k \in 0..m : p(k) \in Seq(IndexSet)
  BY LenProperties, PrefixOfSeq
<1>2. p(0) = <<>> /\ p(m) = t
  <2>1. p(0) \in Seq(IndexSet) /\ Len(p(0)) = 0
    BY <1>1, PrefixOfSeq
  <2>2. /\ p(m) \in Seq(IndexSet) /\ Len(p(m)) = m
        /\ \A i \in 1..m : p(m)[i] = t[i]
    BY <1>1, PrefixOfSeq
  <2> HIDE DEF p
  <2>3. p(0) = <<>>
    BY <2>1, EmptySeq
  <2>. QED  BY <2>2, <2>3, SeqEqual
<1>3. \A r \in Seq(IndexSet) : Filter(r, n) \in Seq(IndexSet)
  <2>1. IndexSet # {} => \A r \in Seq(IndexSet) : Filter(r, n) \in Seq(IndexSet)
    BY FilterAppend
  <2>2. ASSUME IndexSet = {}, NEW r \in Seq(IndexSet)
        PROVE  Filter(r, n) \in Seq(IndexSet)
    <3>1. r = <<>>
      BY <2>2, LenProperties, ElementOfSeq, EmptySeq
    <3>. QED  BY <3>1, FilterEmpty
  <2>. QED  BY <2>1, <2>2
<1>4. 0 \in G
  <2>1. s \o <<>> = s /\ Filter(s, n) \o <<>> = Filter(s, n)
    BY <1>3, ConcatEmptySeq
  <2>2. Filter(<<>>, n) = <<>>
    BY FilterEmpty
  <2>3. Filter(s \o p(0), n) = Filter(s, n) \o Filter(p(0), n)
    <3> HIDE DEF p
    <3>. QED  BY <1>2, <2>1, <2>2
  <2> HIDE DEF p, m
  <2>. QED  BY <1>1, <2>3
<1>5. ASSUME NEW k \in 1..m, k - 1 \in G
      PROVE  k \in G
  <2> DEFINE q == p(k - 1)
             x == t[k]
  <2>1. p(k) = Append(q, x)
    BY PrefixAppend
  <2>2. k \in 0..m /\ q \in Seq(IndexSet) /\ x \in IndexSet /\ Filter(s \o q, n) = Filter(s, n) \o Filter(q, n)
    BY <1>1, <1>5, ElementOfSeq
  <2> HIDE DEF p, q, x, m
  <2>3. s \o p(k) = Append(s \o q, x) /\ s \o q \in Seq(IndexSet)
    BY <2>1, <2>2, ConcatAppend, ConcatProperties
  <2> DEFINE sq == s \o q
  <2>4. Filter(s \o p(k), n) = IF x.table_name # n THEN Filter(s \o q, n) ELSE Append(Filter(s \o q, n), x)
    <3>1. sq \in Seq(IndexSet) /\ s \o p(k) = Append(sq, x)
      BY <2>3
    <3> HIDE DEF sq
    <3>2. Filter(Append(sq, x), n) = IF x.table_name # n THEN Filter(sq, n) ELSE Append(Filter(sq, n), x)
      BY <2>2, <3>1, FilterAppend
    <3>3. Filter(s \o p(k), n) = IF x.table_name # n THEN Filter(sq, n) ELSE Append(Filter(sq, n), x)
      BY <3>1, <3>2
    <3>. QED  BY <3>3 DEF sq
  <2> HIDE DEF sq
  <2>5. Filter(p(k), n) = IF x.table_name # n THEN Filter(q, n) ELSE Append(Filter(q, n), x)
    BY <2>1, <2>2, FilterAppend
  <2>6. Filter(s, n) \o Append(Filter(q, n), x) = Append(Filter(s, n) \o Filter(q, n), x)
    BY <1>3, <2>2, ConcatAppend
  <2>. QED  BY <2>2, <2>4, <2>5, <2>6
<1>6. m \in G
  <2> HIDE DEF G, p, m
  <2>1. \A k \in 0..m : k \in G
    BY <1>1, <1>4, <1>5, IntervalInduction
  <2>. QED  BY <1>1, <2>1
<1> HIDE DEF p
<1>. QED  BY <1>2, <1>6

LEMMA FilterTyped ==
    ASSUME NEW s \in Seq(IndexSet), NEW n
    PROVE  Filter(s, n) \in Seq(IndexSet)
<1>1. Len(s) \in Nat /\ Len(s) \in 0..Len(s)
  BY LenProperties
<1>. QED  BY <1>1, FilterLoop

\* The indexes of one table: all of them are of it, and none of another.
LEMMA FilterFilter ==
    ASSUME NEW s \in Seq(IndexSet), NEW a, NEW n
    PROVE  Filter(Filter(s, a), n) = IF a = n THEN Filter(s, n) ELSE <<>>
<1> DEFINE m == Len(s)
<1>1. PICK f \in [0..m -> Seq(IndexSet)] :
               /\ f[0] = <<>> /\ Filter(s, a) = f[m]
               /\ \A k \in 1..m : f[k] = IF s[k].table_name # a THEN f[k - 1] ELSE Append(f[k - 1], s[k])
  BY FilterLoop
<1>2. m \in Nat /\ \A k \in 1..m : s[k] \in IndexSet
  BY LenProperties, ElementOfSeq
<1> DEFINE G == {k \in 0..m : Filter(f[k], n) = IF a = n THEN f[k] ELSE <<>>}
<1> HIDE DEF m
<1>3. 0 \in G
  <2>1. Filter(<<>>, n) = <<>>
    BY FilterEmpty
  <2>2. Filter(f[0], n) = IF a = n THEN f[0] ELSE <<>>
    BY <1>1, <2>1
  <2>. QED  BY <1>2, <2>2
<1>4. ASSUME NEW k \in 1..m, k - 1 \in G
      PROVE  k \in G
  <2>1. k \in 0..m /\ f[k - 1] \in Seq(IndexSet) /\ s[k] \in IndexSet
    BY <1>1, <1>2
  <2>2. Filter(f[k - 1], n) = IF a = n THEN f[k - 1] ELSE <<>>
    BY <1>4
  <2>3. CASE s[k].table_name # a
    BY <1>1, <2>1, <2>2, <2>3
  <2>4. CASE s[k].table_name = a
    <3> DEFINE q == f[k - 1]
    <3>1. f[k] = Append(q, s[k])
      BY <1>1, <2>4
    <3>2. q \in Seq(IndexSet)
      BY <2>1
    <3>3. Filter(q, n) = IF a = n THEN q ELSE <<>>
      BY <2>2
    <3> HIDE DEF q
    <3>4. Filter(Append(q, s[k]), n) = IF s[k].table_name # n THEN Filter(q, n) ELSE Append(Filter(q, n), s[k])
      BY <2>1, <3>2, FilterAppend
    <3>5. Filter(f[k], n) = IF a = n THEN f[k] ELSE <<>>
      BY <2>4, <3>1, <3>3, <3>4
    <3>. QED  BY <2>1, <3>5
  <2>. QED  BY <2>3, <2>4
<1>5. m \in G
  <2> HIDE DEF G
  <2>1. \A k \in 0..m : k \in G
    BY <1>2, <1>3, <1>4, IntervalInduction
  <2>. QED  BY <1>2, <2>1
<1>. QED  BY <1>1, <1>5

\* A table has the same indexes in the same order when the file is read back.
LEMMA SameIndexesOnTable ==
    ASSUME NEW c, CatalogOK(c), NEW t \in Tables(c)
    PROVE  IndexesOnTable(Load(Serialize(c)), t.name) = IndexesOnTable(c, t.name)
<1>0. c \in CatalogSet /\ c.indexes \in Seq(IndexSet)
  BY CatalogFields DEF CatalogOK
<1> DEFINE m == Len(c.tables)
           V == Seq(IndexSet)
           n == t.name
           N(k) == c.tables[k].name
           On(k) == IndexesOnTable(c, N(k))
           all == Filter(c.indexes, n)
           Seen(k) == \E j \in 1..k : N(j) = n
<1>1. PICK f \in [0..m -> V] : /\ f[0] = <<>> /\ Load(Serialize(c)).indexes = f[m]
                               /\ \A k \in 1..m : f[k] = f[k - 1] \o On(k)
  BY <1>0, LoadLoop
<1>2. m \in Nat /\ DOMAIN c.tables = 1..m
  BY <1>0, CatalogFields
<1>3. \A k \in 1..m : /\ On(k) \in V
                      /\ Filter(On(k), n) = IF N(k) = n THEN all ELSE <<>>
  <2>1. ASSUME NEW k \in 1..m
        PROVE  On(k) \in V /\ Filter(On(k), n) = IF N(k) = n THEN all ELSE <<>>
    <3>1. On(k) = Filter(c.indexes, N(k))
      BY FilterOfCatalog
    <3>2. Filter(c.indexes, N(k)) \in V
      BY <1>0, FilterTyped
    <3>3. Filter(Filter(c.indexes, N(k)), n) = IF N(k) = n THEN Filter(c.indexes, n) ELSE <<>>
      BY <1>0, FilterFilter
    <3>. QED  BY <3>1, <3>2, <3>3
  <2>. QED  BY <2>1
<1>4. \A j, k \in 1..m : N(j) = N(k) => j = k
  BY <1>2 DEF CatalogOK
<1>5. all \in V /\ all \o <<>> = all /\ <<>> \o all = all /\ <<>> \o <<>> = <<>>
  <2>1. all \in V /\ <<>> \in V
    BY <1>0, FilterTyped
  <2> HIDE DEF all
  <2>. QED  BY <2>1, ConcatEmptySeq
<1>6. Seen(m)
  <2>1. Tables(c) = {c.tables[k] : k \in 1..m}
    BY <1>2 DEF Tables, ToSet
  <2>. QED  BY <2>1
<1> HIDE DEF m, n, N, On, all
<1> DEFINE G == {k \in 0..m : Filter(f[k], n) = IF Seen(k) THEN all ELSE <<>>}
<1>7. 0 \in G
  <2>1. Filter(<<>>, n) = <<>>
    BY FilterEmpty
  <2>2. ~Seen(0)
    OBVIOUS
  <2>3. Filter(f[0], n) = IF Seen(0) THEN all ELSE <<>>
    BY <1>1, <2>1, <2>2
  <2>. QED  BY <1>2, <2>3
<1>8. ASSUME NEW k \in 1..m, k - 1 \in G
      PROVE  k \in G
  <2> DEFINE q == f[k - 1]
  <2>1. k \in 0..m /\ q \in V /\ On(k) \in V
    BY <1>1, <1>2, <1>3
  <2>2. Filter(q, n) = IF Seen(k - 1) THEN all ELSE <<>>
    BY <1>8
  <2>3. f[k] = q \o On(k)
    BY <1>1
  <2> HIDE DEF q
  <2>4. Filter(q \o On(k), n) = Filter(q, n) \o Filter(On(k), n)
    BY <2>1, FilterConcat
  <2>5. Seen(k) <=> (Seen(k - 1) \/ N(k) = n)
    BY <1>2
  <2>6. ~(Seen(k - 1) /\ N(k) = n)
    BY <1>2, <1>4
  <2> HIDE DEF Seen
  <2>7. Filter(f[k], n) = IF Seen(k) THEN all ELSE <<>>
    BY <1>3, <1>5, <2>2, <2>3, <2>4, <2>5, <2>6
  <2>. QED  BY <2>1, <2>7
<1>9. m \in G
  <2> HIDE DEF G
  <2>1. \A k \in 0..m : k \in G
    BY <1>2, <1>7, <1>8, IntervalInduction
  <2>. QED  BY <1>2, <2>1
<1>10. Filter(f[m], n) = all
  BY <1>6, <1>9
<1>. QED  BY <1>1, <1>10, FilterOfCatalog DEF n, all

-----------------------------------------------------------------------------
\* A catalog that was read back, or the one of a new database.
LEMMA EmptyOK == CatalogOK(Empty) /\ Ids(Empty) = {} /\ Tables(Empty) = {} /\ Indexes(Empty) = {}
<1>1. /\ Empty.tables = <<>> /\ Empty.indexes = <<>> /\ Empty.next_object_id = 0
      /\ Empty \in CatalogSet
  BY DEF Empty, CatalogSet
<1>2. Tables(Empty) = {} /\ Indexes(Empty) = {} /\ DOMAIN Empty.tables = {}
  BY <1>1 DEF Tables, Indexes, ToSet
<1>3. MaxObjects \in Nat
  BY DdlAssumption
<1>. QED  BY <1>1, <1>2, <1>3 DEF CatalogOK, Ids, HeapIds, TreeIds

LEMMA SavedOK ==
    ASSUME Typed
    PROVE  CatalogOK(Saved)
BY EmptyOK, Reloaded DEF Typed, Saved, CatalogOnOpen

LEMMA SavedSame ==
    ASSUME UNCHANGED metadata
    PROVE  Saved' = Saved
BY DEF Saved, CatalogOnOpen

\* The entries of the log and what recovery replays of them.
LEMMA WalFacts ==
    ASSUME Typed
    PROVE  /\ wal \in Seq(EntrySet) /\ Len(wal) \in Nat /\ DOMAIN wal = 1..Len(wal)
           /\ \A n \in DOMAIN wal : /\ wal[n] \in EntrySet /\ wal[n].updates \subseteq Update
                                    /\ wal[n].txn \in Nat /\ wal[n].commit \in BOOLEAN
                                    /\ Redo(n) \subseteq wal[n].updates
                                    /\ \A r \in wal[n].updates : r \in Update /\ r.object \in ObjectId /\ r.page \in Nat \ {0}
<1>1. wal \in Seq(EntrySet)
  BY DEF Typed
<1>2. Len(wal) \in Nat /\ DOMAIN wal = 1..Len(wal)
  BY <1>1, LenProperties
<1>3. \A n \in DOMAIN wal : wal[n] \in EntrySet
  BY <1>1, <1>2, ElementOfSeq
<1>4. \A e \in EntrySet : e.updates \subseteq Update /\ e.txn \in Nat /\ e.commit \in BOOLEAN
  BY DEF EntrySet
<1>5. \A n \in DOMAIN wal : Redo(n) \subseteq wal[n].updates
  BY DEF Redo
<1>6. \A r \in Update : r.object \in ObjectId /\ r.page \in Nat \ {0}
  BY DEF Update
<1>. QED  BY <1>1, <1>2, <1>3, <1>4, <1>5, <1>6

\* An entry that has been appended to the log, or put in the place of its last.
Appended(w, v, e) ==
    /\ v \in Seq(EntrySet) /\ Len(v) = Len(w) + 1 /\ DOMAIN v = 1..Len(w) + 1
    /\ v[Len(w) + 1] = e /\ \A n \in DOMAIN w : v[n] = w[n]

LEMMA AppendEntry ==
    ASSUME NEW w \in Seq(EntrySet), NEW e \in EntrySet, NEW v, v = Append(w, e)
    PROVE  Appended(w, v, e)
<1>1. Len(w) \in Nat /\ DOMAIN w = 1..Len(w)
  BY LenProperties
<1>2. /\ Append(w, e) \in Seq(EntrySet) /\ Len(Append(w, e)) = Len(w) + 1
      /\ \A n \in 1..Len(w) : Append(w, e)[n] = w[n]
      /\ Append(w, e)[Len(w) + 1] = e
  BY AppendProperties
<1>3. DOMAIN v = 1..Len(v)
  BY <1>2, LenProperties
<1>. QED  BY <1>1, <1>2, <1>3 DEF Appended

Rewritten(w, v, e) ==
    /\ v \in Seq(EntrySet) /\ Len(v) = Len(w) /\ DOMAIN v = DOMAIN w
    /\ \A n \in DOMAIN w : v[n] = IF n = Len(w) THEN e ELSE w[n]

LEMMA RewriteEntry ==
    ASSUME NEW w \in Seq(EntrySet), NEW e, NEW v, v = [w EXCEPT ![Len(w)] = e],
           Len(w) \in DOMAIN w => e \in EntrySet
    PROVE  Rewritten(w, v, e)
<1>1. Len(w) \in Nat /\ DOMAIN w = 1..Len(w) /\ \A n \in 1..Len(w) : w[n] \in EntrySet
  BY LenProperties, ElementOfSeq
<1>2. /\ DOMAIN v = DOMAIN w /\ \A n \in DOMAIN w : v[n] = IF n = Len(w) THEN e ELSE w[n]
      /\ v = [n \in DOMAIN w |-> v[n]]
  OBVIOUS
<1>3. \A n \in 1..Len(w) : v[n] \in EntrySet
  BY <1>1, <1>2
<1>4. v \in [1..Len(w) -> EntrySet]
  BY <1>1, <1>2, <1>3
<1>5. v \in Seq(EntrySet)
  BY <1>1, <1>4, SeqDef
<1>6. Len(v) = Len(w)
  <2>1. DOMAIN v = 1..Len(v) /\ Len(v) \in Nat
    BY <1>5, LenProperties
  <2>2. 1..Len(v) = 1..Len(w)
    BY <1>1, <1>2, <2>1
  <2>. QED  BY <1>1, <2>1, <2>2
<1>. QED  BY <1>2, <1>5, <1>6 DEF Rewritten

LEMMA BeginStruct ==
    ASSUME StructInv, next_txn_id \in Nat, Begin
    PROVE  StructInv'
<1> USE DEF StructInv
<1>0. /\ UNCHANGED <<catalog, metadata, objects, file, cache, dirty, call, failures, rows, acked>>
      /\ wal' = Append(wal, Entry(next_txn_id))
  BY DEF Begin, catalogvars
<1>1. Saved' = Saved
  BY <1>0, SavedSame
<1>2. txn' = [state |-> "active", observed |-> objects, dirtied |-> {}, added |-> {}]
  BY DEF Begin, NoTxn, Observed
<1> DEFINE e == Entry(next_txn_id)
<1>8. e \in EntrySet /\ e.updates = {}
  BY DEF Entry, EntrySet
<1>9. Appended(wal, wal', e)
  <2>1. wal \in Seq(EntrySet)
    BY DEF Typed
  <2> HIDE DEF e
  <2>. QED  BY <1>0, <1>8, <2>1, AppendEntry DEF e
<1> HIDE DEF e
<1>10. /\ wal' \in Seq(EntrySet)
       /\ \A n \in DOMAIN wal' : wal'[n].updates = {} \/ (n \in DOMAIN wal /\ wal'[n] = wal[n])
  BY <1>8, <1>9, WalFacts DEF Appended
<1>3. Typed'
  BY <1>0, <1>2, <1>10 DEF Typed
<1>4. ControlInv'
  BY <1>0, <1>2 DEF ControlInv, At, Begin, Running
<1>5. ListedInv'
  <2>1. \A n \in DOMAIN wal' : \A r \in wal'[n].updates : r.object \in Ids(Saved)
    BY <1>10 DEF ListedInv
  <2>2. Creating => \A n \in DOMAIN wal' : \A r \in wal'[n].updates : r.object \notin TodoIds
    BY <1>10 DEF ListedInv
  <2>3. TodoIds' = TodoIds /\ NewIds' = NewIds /\ Creating' = Creating /\ Running' = Running /\ At("header")' = At("header")
    BY <1>0 DEF TodoIds, NewIds, Creating, Running, At
  <2>4. txn'.observed = objects /\ txn'.dirtied = {}
    BY <1>2
  <2>. QED  BY <1>0, <1>1, <2>1, <2>2, <2>3, <2>4 DEF ListedInv
<1>6. PagesInv'
  <2>1. \A n \in DOMAIN wal' : \A r \in wal'[n].updates : r.page <= Len(file[r.object])
    BY <1>10 DEF PagesInv
  <2>2. \A o \in TreeIds(Saved) : \A n \in DOMAIN wal' : \A r \in wal'[n].updates :
                r.object = o /\ r.page = 1 => r.image \in HeaderSet(Len(file[o]))
    BY <1>10 DEF PagesInv
  <2>. QED  BY <1>0, <1>1, <1>2, <2>1, <2>2 DEF PagesInv, TodoIds, Creating, NewIds, At
<1>7. SavedInv' /\ AckedInv'
  BY <1>0, <1>1, <1>2 DEF SavedInv, AckedInv, AckedIds, Running, TodoIds
<1>. QED  BY <1>3, <1>4, <1>5, <1>6, <1>7

\* The pages of attached objects and the dirtied pages.
LEMMA DirtiedPages ==
    ASSUME StructInv
    PROVE  /\ \A o \in objects : /\ o \in ObjectId /\ file[o] \in Seq(PageContent) /\ cache[o] \in Seq(PageContent)
                                 /\ DOMAIN cache[o] = DOMAIN file[o] /\ DOMAIN file[o] = 1..Len(file[o])
                                 /\ Len(file[o]) \in Nat /\ Len(cache[o]) = Len(file[o])
                                 /\ \A p \in 1..Len(file[o]) : file[o][p] \in PageContent /\ cache[o][p] \in PageContent
           /\ \A d \in txn.dirtied : /\ d = <<d[1], d[2]>> /\ d[1] \in objects /\ d[2] \in 1..Len(file[d[1]])
                                     /\ d[2] \in Nat
<1>1. \A o \in objects : /\ o \in ObjectId /\ file[o] \in Seq(PageContent) /\ cache[o] \in Seq(PageContent)
                         /\ Len(cache[o]) = Len(file[o])
  BY DEF StructInv, Typed, PagesInv
<1>2. txn.dirtied \subseteq ObjectId \X Nat
  BY DEF StructInv, Typed
<1>3. \A d \in txn.dirtied : d = <<d[1], d[2]>> /\ d[2] \in Nat
  BY <1>2
<1>4. \A d \in txn.dirtied : d[1] \in objects /\ d[2] \in 1..Len(file[d[1]])
  BY DEF StructInv, ListedInv, PagesInv
<1>5. \A s \in Seq(PageContent) : /\ DOMAIN s = 1..Len(s) /\ Len(s) \in Nat
                                  /\ \A p \in 1..Len(s) : s[p] \in PageContent
  BY LenProperties, ElementOfSeq
<1>. QED  BY <1>1, <1>3, <1>4, <1>5

\* A step of Commit on the last entry of the log: the new record, if there
\* is one, is of a dirtied page.
LogStep(new) ==
    /\ UNCHANGED <<catalog, metadata, objects, file, cache, dirty, call, failures, acked>>
    /\ rows' \in [TableName -> SUBSET Row] /\ txn.state # "none"
    /\ txn'.state \in {"committing", "logged"} /\ txn' = [txn EXCEPT !.state = txn'.state]
    /\ wal' \in Seq(EntrySet) /\ DOMAIN wal' = DOMAIN wal
    /\ \A n \in DOMAIN wal : wal'[n].updates \subseteq wal[n].updates \cup new
    /\ \A r \in new : /\ r.object \in objects /\ r.page \in 1..Len(file[r.object])
                      /\ r.image = cache[r.object][r.page]

LEMMA LogStepStruct ==
    ASSUME StructInv, NEW new, LogStep(new)
    PROVE  StructInv'
<1>0. UNCHANGED <<catalog, metadata, objects, file, cache, dirty, call, failures, acked>>
  BY DEF LogStep
<1>1. Saved' = Saved
  BY <1>0, SavedSame
<1>3. \A r \in new : /\ r.object \in objects /\ r.page \in 1..Len(file[r.object])
                     /\ r.image = cache[r.object][r.page] /\ Len(file[r.object]) \in Nat
  BY DirtiedPages DEF LogStep
<1>6. \A n \in DOMAIN wal' : \A r \in wal'[n].updates : r \in new \/ (n \in DOMAIN wal /\ r \in wal[n].updates)
  BY DEF LogStep
<1>7. txn' = [txn EXCEPT !.state = txn'.state] /\ txn.state # "none" /\ txn'.state \in {"committing", "logged"}
  BY DEF LogStep
<1>8. txn'.observed = txn.observed /\ txn'.dirtied = txn.dirtied /\ txn'.added = txn.added
  BY <1>7 DEF StructInv, Typed
<1>9. Typed'
  <2>1. rows' \in [TableName -> SUBSET Row] /\ wal' \in Seq(EntrySet)
    BY DEF LogStep
  <2>2. txn' \in [state : {"none", "active", "committing", "logged"}, observed : SUBSET ObjectId,
                dirtied : SUBSET (ObjectId \X Nat), added : SUBSET (TableName \X Row)]
    BY <1>7 DEF StructInv, Typed
  <2>. QED  BY <1>0, <2>1, <2>2 DEF StructInv, Typed
<1>10. ControlInv'
  <2>1. call.of.kind # "open" /\ ~At("down")
    BY <1>7 DEF StructInv, ControlInv, NoTxn
  <2>. QED  BY <1>0, <1>7, <2>1 DEF StructInv, ControlInv, At
<1>11. ListedInv'
  <2>1. \A n \in DOMAIN wal' : \A r \in wal'[n].updates : r.object \in Ids(Saved)
    BY <1>3, <1>6 DEF StructInv, ListedInv
  <2>2. Creating => \A n \in DOMAIN wal' : \A r \in wal'[n].updates : r.object \notin TodoIds
    BY <1>3, <1>6 DEF StructInv, ListedInv
  <2>. QED  BY <1>0, <1>1, <1>8, <2>1, <2>2 DEF StructInv, ListedInv, Running, TodoIds, Creating, NewIds, At
<1>12. PagesInv'
  <2>1. \A n \in DOMAIN wal' : \A r \in wal'[n].updates : r.page <= Len(file[r.object])
    BY <1>3, <1>6 DEF StructInv, PagesInv
  <2>2. \A o \in TreeIds(Saved) : \A n \in DOMAIN wal' : \A r \in wal'[n].updates :
                r.object = o /\ r.page = 1 => r.image \in HeaderSet(Len(file[o]))
    BY <1>3, <1>6 DEF StructInv, PagesInv
  <2>. QED  BY <1>0, <1>1, <1>8, <2>1, <2>2 DEF StructInv, PagesInv, TodoIds, Creating, NewIds, At
<1>13. SavedInv' /\ AckedInv'
  BY <1>0, <1>1 DEF StructInv, SavedInv, AckedInv, AckedIds, Running, TodoIds
<1>. QED  BY <1>9, <1>10, <1>11, <1>12, <1>13 DEF StructInv

\* The last entry with one more Update, or with its Commit record.
WithUpdate(e, r) == [e EXCEPT !.updates = @ \cup {r}]
WithCommit(e) == [e EXCEPT !.commit = TRUE]

LEMMA EntryFields ==
    ASSUME NEW e \in EntrySet, NEW r \in Update
    PROVE  /\ WithUpdate(e, r) \in EntrySet /\ WithUpdate(e, r).txn = e.txn /\ WithUpdate(e, r).commit = e.commit
           /\ WithUpdate(e, r).updates = e.updates \cup {r}
           /\ WithCommit(e) \in EntrySet /\ WithCommit(e).txn = e.txn /\ WithCommit(e).commit = TRUE
           /\ WithCommit(e).updates = e.updates
BY DEF WithUpdate, WithCommit, EntrySet

\* What LogUpdate writes.
LEMMA LogUpdateFacts ==
    ASSUME StructInv, NEW o, NEW p, LogUpdate(o, p)
    PROVE  /\ Image(o, p) \in Update /\ o \in objects /\ o \in ObjectId /\ p \in 1..Len(file[o]) /\ <<o, p>> \in txn.dirtied
           /\ Rewritten(wal, wal', WithUpdate(LastEntry, Image(o, p)))
<1>1. <<o, p>> \in txn.dirtied /\ wal' = [wal EXCEPT ![Len(wal)] = WithUpdate(LastEntry, Image(o, p))]
  BY DEF LogUpdate, Unlogged, WithUpdate
<1>2. o \in objects /\ o \in ObjectId /\ p \in 1..Len(file[o]) /\ p \in Nat \ {0} /\ cache[o][p] \in PageContent
  <2>1. \A d \in txn.dirtied : /\ d[1] \in objects /\ d[1] \in ObjectId /\ d[2] \in 1..Len(file[d[1]]) /\ d[2] \in Nat \ {0}
                                /\ cache[d[1]][d[2]] \in PageContent
    BY DirtiedPages
  <2>2. <<o, p>>[1] = o /\ <<o, p>>[2] = p
    OBVIOUS
  <2>. QED  BY <1>1, <2>1, <2>2
<1>3. Image(o, p) \in Update
  BY <1>2 DEF Image, Update
<1>4. wal \in Seq(EntrySet) /\ (Len(wal) \in DOMAIN wal => LastEntry \in EntrySet)
  BY WalFacts DEF StructInv, LastEntry
<1>5. Len(wal) \in DOMAIN wal => WithUpdate(LastEntry, Image(o, p)) \in EntrySet
  BY <1>3, <1>4, EntryFields
<1>6. Rewritten(wal, wal', WithUpdate(LastEntry, Image(o, p)))
  BY <1>1, <1>4, <1>5, RewriteEntry
<1>. QED  BY <1>1, <1>2, <1>3, <1>6

LEMMA LogUpdateStruct ==
    ASSUME StructInv, NEW o, NEW p, LogUpdate(o, p)
    PROVE  StructInv'
<1> DEFINE r == Image(o, p)
           w == WithUpdate(LastEntry, r)
<1>1. r \in Update /\ o \in objects /\ p \in 1..Len(file[o]) /\ Rewritten(wal, wal', w)
  BY LogUpdateFacts
<1>2. r.object = o /\ r.page = p /\ r.image = cache[o][p]
  BY DEF Image
<1>3. /\ UNCHANGED <<catalog, metadata, objects, file, cache, dirty, call, failures, acked, rows>>
      /\ txn' = [txn EXCEPT !.state = "committing"] /\ txn.state # "none"
  BY DEF LogUpdate, catalogvars, bounds
<1>4. txn'.state = "committing" /\ rows \in [TableName -> SUBSET Row]
  BY <1>3 DEF StructInv, Typed
<1>5. \A n \in DOMAIN wal : n = Len(wal) => w.updates = wal[n].updates \cup {r}
  <2>1. \A e \in EntrySet : WithUpdate(e, r).updates = e.updates \cup {r}
    BY <1>1, EntryFields
  <2>. QED  BY <2>1, WalFacts DEF StructInv, LastEntry
<1> HIDE DEF r, w
<1>6. /\ wal' \in Seq(EntrySet) /\ DOMAIN wal' = DOMAIN wal
      /\ \A n \in DOMAIN wal : (wal'[n] = w /\ n = Len(wal)) \/ wal'[n] = wal[n]
  BY <1>1 DEF Rewritten
<1>7. LogStep({r})
  BY <1>1, <1>2, <1>3, <1>4, <1>5, <1>6 DEF LogStep
<1>. QED  BY <1>7, LogStepStruct

LEMMA LogCommitFacts ==
    ASSUME StructInv, LogCommit
    PROVE  Rewritten(wal, wal', WithCommit(LastEntry))
<1>1. wal' = [wal EXCEPT ![Len(wal)] = WithCommit(LastEntry)]
  BY DEF LogCommit, WithCommit
<1>2. wal \in Seq(EntrySet) /\ (Len(wal) \in DOMAIN wal => LastEntry \in EntrySet)
  BY WalFacts DEF StructInv, LastEntry
<1>3. \A e \in EntrySet : WithCommit(e) \in EntrySet
  BY DEF WithCommit, EntrySet
<1>. QED  BY <1>1, <1>2, <1>3, RewriteEntry

LEMMA LogCommitStruct ==
    ASSUME StructInv, LogCommit
    PROVE  StructInv'
<1> DEFINE w == WithCommit(LastEntry)
<1>1. Rewritten(wal, wal', w)
  BY LogCommitFacts
<1>2. /\ UNCHANGED <<catalog, metadata, objects, file, cache, dirty, call, failures, acked>>
      /\ txn' = [txn EXCEPT !.state = "logged"] /\ txn.state # "none"
  BY DEF LogCommit, catalogvars, bounds
<1>3. txn'.state = "logged" /\ rows' \in [TableName -> SUBSET Row]
  BY <1>2 DEF StructInv, Typed, LogCommit
<1>4. \A e \in EntrySet : WithCommit(e).updates = e.updates
  BY DEF WithCommit, EntrySet
<1>5. \A n \in DOMAIN wal : n = Len(wal) => w.updates = wal[n].updates
  BY <1>4, WalFacts DEF StructInv, LastEntry
<1> HIDE DEF w
<1>6. /\ wal' \in Seq(EntrySet) /\ DOMAIN wal' = DOMAIN wal
      /\ \A n \in DOMAIN wal : (wal'[n] = w /\ n = Len(wal)) \/ wal'[n] = wal[n]
  BY <1>1 DEF Rewritten
<1>7. LogStep({})
  BY <1>2, <1>3, <1>5, <1>6 DEF LogStep
<1>. QED  BY <1>7, LogStepStruct

\* The objects that are still to be attached.
LEMMA TodoFacts ==
    ASSUME Typed
    PROVE  /\ call.todo \in Seq(Todo) /\ DOMAIN call.todo = 1..Len(call.todo) /\ Len(call.todo) \in Nat
           /\ \A i \in DOMAIN call.todo : /\ call.todo[i] \in Todo /\ call.todo[i].id \in ObjectId
                                          /\ call.todo[i] \in ToSet(call.todo) /\ call.todo[i].id \in TodoIds
           /\ \A x \in ToSet(call.todo) : \E i \in DOMAIN call.todo : x = call.todo[i]
<1>1. call.todo \in Seq(Todo)
  BY DEF Typed
<1>2. DOMAIN call.todo = 1..Len(call.todo) /\ Len(call.todo) \in Nat
  BY <1>1, LenProperties
<1>3. \A i \in DOMAIN call.todo : call.todo[i] \in Todo
  BY <1>1, <1>2, ElementOfSeq
<1>4. \A x \in Todo : x.id \in ObjectId
  BY DEF Todo
<1>. QED  BY <1>1, <1>2, <1>3, <1>4 DEF ToSet, TodoIds

\* A sequence of pages with some of them replaced.
SameShape(t, s) ==
    /\ DOMAIN t = DOMAIN s /\ t = [p \in DOMAIN s |-> t[p]]
    /\ \A p \in DOMAIN s : t[p] \in PageContent

LEMMA Overwritten ==
    ASSUME NEW s \in Seq(PageContent), NEW t, SameShape(t, s)
    PROVE  t \in Seq(PageContent) /\ Len(t) = Len(s)
<1> USE DEF SameShape
<1>1. DOMAIN s = 1..Len(s) /\ Len(s) \in Nat
  BY LenProperties
<1>2. t \in [1..Len(s) -> PageContent]
  BY <1>1
<1>. QED  BY <1>1, <1>2, SeqDef, LenProperties

\* Every page is as it was, or as the pool or the file has it.
Mixed(new, o) ==
    /\ DOMAIN new = DOMAIN file[o] /\ new = [p \in DOMAIN file[o] |-> new[p]]
    /\ \A p \in DOMAIN file[o] : new[p] \in {file[o][p], cache[o][p]}

\* A step that copies pages between the pools and the files.
LEMMA CopyStruct ==
    ASSUME StructInv, UNCHANGED <<catalog, metadata, objects, call, acked, failures, rows>>,
           txn' \in {txn, NoTxn}, wal' \in {wal, <<>>}, dirty' \in [ObjectId -> SUBSET Nat],
           file' = [o \in ObjectId |-> file'[o]], cache' = [o \in ObjectId |-> cache'[o]],
           \A o \in objects : Mixed(file'[o], o) /\ Mixed(cache'[o], o),
           \A o \in ObjectId \ objects : file'[o] = file[o] /\ cache'[o] = cache[o],
           At("header") => file'[call.todo[1].id] = file[call.todo[1].id] /\ cache'[call.todo[1].id] = cache[call.todo[1].id]
    PROVE  StructInv'
<1>1. Saved' = Saved
  BY SavedSame
<1>2. ASSUME NEW o \in objects
      PROVE  /\ o \in ObjectId
             /\ file'[o] \in Seq(PageContent) /\ Len(file'[o]) = Len(file[o])
             /\ cache'[o] \in Seq(PageContent) /\ Len(cache'[o]) = Len(file[o])
  <2>1. /\ o \in ObjectId /\ file[o] \in Seq(PageContent)
        /\ \A p \in DOMAIN file[o] : file[o][p] \in PageContent /\ cache[o][p] \in PageContent
    BY DirtiedPages
  <2>2. ASSUME NEW new, Mixed(new, o)
        PROVE  new \in Seq(PageContent) /\ Len(new) = Len(file[o])
    <3>1. SameShape(new, file[o])
      BY <2>1, <2>2 DEF Mixed, SameShape
    <3>. QED  BY <2>1, <3>1, Overwritten
  <2>. QED  BY <2>1, <2>2
<1>3. /\ \A o \in ObjectId : file'[o] \in Seq(PageContent) /\ cache'[o] \in Seq(PageContent) /\ Len(file'[o]) = Len(file[o])
      /\ \A o \in objects : Len(cache'[o]) = Len(file'[o])
  BY <1>2 DEF StructInv, Typed
<1>4. file' \in [ObjectId -> Seq(PageContent)] /\ cache' \in [ObjectId -> Seq(PageContent)]
  BY <1>3
<1>5. <<>> \in Seq(EntrySet) /\ DOMAIN <<>> = {}
  OBVIOUS
<1>6. \A n \in DOMAIN wal' : n \in DOMAIN wal /\ wal'[n] = wal[n]
  BY <1>5
<1>7. NoTxn.state = "none" /\ NoTxn.observed = {} /\ NoTxn.dirtied = {} /\ NoTxn.added = {}
  BY DEF NoTxn
<1>8. Typed'
  <2>1. NoTxn \in [state : {"none", "active", "committing", "logged"}, observed : SUBSET ObjectId,
                dirtied : SUBSET (ObjectId \X Nat), added : SUBSET (TableName \X Row)]
    BY DEF NoTxn
  <2>. QED  BY <1>4, <1>5, <2>1 DEF StructInv, Typed
<1>9. ControlInv'
  BY <1>7 DEF StructInv, ControlInv, At
<1>10. \A o \in ObjectId : file'[o] = <<>> <=> file[o] = <<>>
  BY <1>3, EmptySeq DEF StructInv, Typed
<1>11. ListedInv'
  <2>1. txn'.observed \subseteq objects /\ \A d \in txn'.dirtied : d[1] \in objects
    BY <1>7 DEF StructInv, ListedInv
  <2>2. Creating => \A i \in DOMAIN call.todo : ~(At("header") /\ i = 1) => file'[call.todo[i].id] = <<>>
    <3>1. \A i \in DOMAIN call.todo : call.todo[i].id \in ObjectId
      BY TodoFacts DEF StructInv
    <3>. QED  BY <1>10, <3>1 DEF StructInv, ListedInv
  <2>3. \A o \in ObjectId : file'[o] # <<>> => o \in Ids(Saved)
    BY <1>10 DEF StructInv, ListedInv
  <2>4. /\ \A n \in DOMAIN wal' : \A r \in wal'[n].updates : r.object \in Ids(Saved)
        /\ Creating => \A n \in DOMAIN wal' : \A r \in wal'[n].updates : r.object \notin TodoIds
    BY <1>6 DEF StructInv, ListedInv
  <2>5. TodoIds' = TodoIds /\ NewIds' = NewIds /\ Creating' = Creating /\ Running' = Running /\ At("header")' = At("header")
    BY DEF TodoIds, NewIds, Creating, Running, At
  <2>. QED  BY <1>1, <2>1, <2>2, <2>3, <2>4, <2>5 DEF StructInv, ListedInv
<1>12. PagesInv'
  <2>0. \A o \in TreeIds(Saved) : o \in ObjectId
    BY SavedOK, CatalogFields DEF StructInv, TreeIds, IndexSet, CatalogOK
  <2>1. \A d \in txn'.dirtied : d[2] \in 1..Len(file'[d[1]])
    BY <1>3, <1>7, DirtiedPages
  <2>2. \A n \in DOMAIN wal' : \A r \in wal'[n].updates : r.page <= Len(file'[r.object])
    <3>1. \A n \in DOMAIN wal : \A r \in wal[n].updates : r.object \in ObjectId
      BY WalFacts DEF StructInv
    <3>. QED  BY <1>3, <1>6, <3>1 DEF StructInv, PagesInv
  <2>3. ASSUME NEW o \in TreeIds(Saved), o \in objects
        PROVE  /\ 1 \in DOMAIN file[o]
               /\ file'[o][1] \in {file[o][1], cache[o][1]} /\ cache'[o][1] \in {file[o][1], cache[o][1]}
               /\ file[o][1] \in HeaderSet(Len(file'[o])) /\ cache[o][1] \in HeaderSet(Len(file'[o]))
    <3>1. cache[o] # <<>> /\ Len(cache[o]) = Len(file[o]) /\ cache[o] \in Seq(PageContent) /\ file[o] \in Seq(PageContent)
      BY <2>3, DirtiedPages DEF StructInv, PagesInv
    <3>2. file[o] # <<>> /\ 1 \in DOMAIN file[o]
      BY <3>1, EmptySeq, LenProperties
    <3>. QED  BY <1>3, <2>0, <2>3, <3>2 DEF Mixed, StructInv, PagesInv
  <2>4. ASSUME NEW o \in TreeIds(Saved)
        PROVE  /\ file'[o] # <<>> => file'[o][1] \in HeaderSet(Len(file'[o]))
               /\ o \in objects => cache'[o] # <<>> /\ cache'[o][1] \in HeaderSet(Len(file'[o]))
               /\ \A n \in DOMAIN wal' : \A r \in wal'[n].updates :
                     r.object = o /\ r.page = 1 => r.image \in HeaderSet(Len(file'[o]))
    <3>1. Len(file'[o]) = Len(file[o]) /\ o \in ObjectId
      BY <1>3, <2>0
    <3>2. \A n \in DOMAIN wal' : \A r \in wal'[n].updates :
                     r.object = o /\ r.page = 1 => r.image \in HeaderSet(Len(file'[o]))
      BY <1>6, <3>1 DEF StructInv, PagesInv
    <3>3. CASE o \in objects
      <4>1. cache'[o] # <<>>
        BY <1>3, <2>3, <3>3, EmptySeq, DirtiedPages
      <4>. QED  BY <2>3, <3>2, <3>3, <4>1
    <3>4. CASE o \notin objects
      BY <3>1, <3>2, <3>4 DEF StructInv, PagesInv
    <3>. QED  BY <3>3, <3>4
  <2>5. Creating => \A o \in NewIds \cap objects \cap TreeIds(Saved) : cache'[o][1] # Zeroed /\ file'[o][1] # Zeroed
    BY <2>3 DEF StructInv, PagesInv
  <2>6. At("header") => LET o == call.todo[1].id IN  file'[o] = <<Zeroed>> /\ cache'[o] = <<{NoRoot}>>
    BY DEF StructInv, PagesInv
  <2>. QED  BY <1>1, <1>3, <2>1, <2>2, <2>4, <2>5, <2>6 DEF PagesInv, TodoIds, Creating, NewIds, At
<1>13. SavedInv' /\ AckedInv'
  BY <1>1 DEF StructInv, SavedInv, AckedInv, AckedIds, Running, TodoIds
<1>. QED  BY <1>8, <1>9, <1>11, <1>12, <1>13 DEF StructInv

\* No transaction has a page of the object whose header is being written.
LEMMA HeaderIsApart ==
    ASSUME StructInv, At("header")
    PROVE  LET o == call.todo[1].id
           IN  o \in ObjectId /\ 1 \in DOMAIN call.todo /\ \A p : <<o, p>> \notin txn.dirtied
<1>1. call.todo # <<>> /\ (call.of.kind = "open" => txn = NoTxn) /\ call.of.kind # "none"
  BY DEF StructInv, ControlInv, At
<1>2. 1 \in DOMAIN call.todo
  BY <1>1, TodoFacts, EmptySeq DEF StructInv
<1>3. call.todo[1].id \in ObjectId /\ call.todo[1].id \in TodoIds
  BY <1>2, TodoFacts DEF StructInv
<1>4. CASE call.of.kind = "open"
  BY <1>1, <1>2, <1>3, <1>4 DEF NoTxn
<1>5. CASE Creating
  <2>1. call.todo[1].id \notin objects
    BY <1>3, <1>5 DEF StructInv, ListedInv
  <2>2. \A d \in txn.dirtied : d[1] \in objects
    BY DirtiedPages
  <2>. QED  BY <1>2, <1>3, <2>1, <2>2
<1>6. Creating \/ call.of.kind = "open"
  BY <1>1 DEF StructInv, Typed, Creating
<1>. QED  BY <1>4, <1>5, <1>6

\* Facts about the state that every step uses.
LEMMA ObjectPages ==
    ASSUME Typed, NEW o \in ObjectId
    PROVE  /\ file[o] \in Seq(PageContent) /\ DOMAIN file[o] = 1..Len(file[o]) /\ Len(file[o]) \in Nat
           /\ cache[o] \in Seq(PageContent) /\ DOMAIN cache[o] = 1..Len(cache[o]) /\ Len(cache[o]) \in Nat
           /\ file[o] = [p \in DOMAIN file[o] |-> file[o][p]]
           /\ cache[o] = [p \in DOMAIN cache[o] |-> cache[o][p]]
           /\ \A p \in DOMAIN file[o] : file[o][p] \in PageContent
           /\ \A p \in DOMAIN cache[o] : cache[o][p] \in PageContent
<1>1. file[o] \in Seq(PageContent) /\ cache[o] \in Seq(PageContent)
  BY DEF Typed
<1>2. \A s \in Seq(PageContent) :
          /\ DOMAIN s = 1..Len(s) /\ Len(s) \in Nat /\ s \in [1..Len(s) -> PageContent]
          /\ s = [p \in DOMAIN s |-> s[p]]
          /\ \A p \in DOMAIN s : s[p] \in PageContent
  <2>1. ASSUME NEW s \in Seq(PageContent)
        PROVE  DOMAIN s = 1..Len(s) /\ Len(s) \in Nat /\ s \in [1..Len(s) -> PageContent]
    BY LenProperties
  <2>. QED  BY <2>1
<1>. QED  BY <1>1, <1>2

LEMMA ForcePagesStruct ==
    ASSUME StructInv, ForcePages
    PROVE  StructInv'
<1>0. UNCHANGED <<catalog, metadata, objects, cache, wal, call, failures, rows, acked>> /\ txn' = NoTxn
  BY DEF ForcePages, catalogvars, bounds
<1> DEFINE F(o) == Flushed(o, {p \in DOMAIN file[o] : <<o, p>> \in txn.dirtied})
<1>1. file' = [o \in ObjectId |-> F(o)]
  BY DEF ForcePages
<1>2. dirty' \in [ObjectId -> SUBSET Nat]
  BY DEF ForcePages, StructInv, Typed
<1>3. \A o \in ObjectId : F(o) = [p \in DOMAIN file[o] |-> IF <<o, p>> \in txn.dirtied THEN cache[o][p] ELSE file[o][p]]
  BY DEF Flushed
<1> HIDE DEF F
<1>4. \A o \in ObjectId : (\A p : <<o, p>> \notin txn.dirtied) => F(o) = file[o]
  BY <1>3, ObjectPages DEF StructInv
<1>5. \A o \in ObjectId \ objects : file'[o] = file[o] /\ cache'[o] = cache[o]
  <2>1. \A o \in ObjectId \ objects : \A p : <<o, p>> \notin txn.dirtied
    BY DirtiedPages
  <2>. QED  BY <1>0, <1>1, <1>4, <2>1
<1>6. \A o \in objects : Mixed(file'[o], o) /\ Mixed(cache'[o], o)
  <2>1. ASSUME NEW o \in objects
        PROVE  Mixed(F(o), o) /\ Mixed(cache[o], o) /\ o \in ObjectId
    <3>1. o \in ObjectId /\ DOMAIN cache[o] = DOMAIN file[o] /\ cache[o] = [p \in DOMAIN cache[o] |-> cache[o][p]]
      BY DirtiedPages, ObjectPages DEF StructInv
    <3>. QED  BY <1>3, <3>1 DEF Mixed
  <2>. QED  BY <1>0, <1>1, <2>1
<1>7. file' = [o \in ObjectId |-> file'[o]] /\ cache' = [o \in ObjectId |-> cache'[o]]
  BY <1>0, <1>1 DEF StructInv, Typed
<1>8. At("header") => file'[call.todo[1].id] = file[call.todo[1].id] /\ cache'[call.todo[1].id] = cache[call.todo[1].id]
  BY <1>0, <1>1, <1>4, HeaderIsApart
<1>. QED  BY <1>0, <1>2, <1>5, <1>6, <1>7, <1>8, CopyStruct

LEMMA AbortStruct ==
    ASSUME StructInv, Abort
    PROVE  StructInv'
<1>0. UNCHANGED <<catalog, metadata, objects, file, wal, call, failures, rows, acked>> /\ txn' = NoTxn
  BY DEF Abort, catalogvars, bounds
<1> DEFINE F(o) == [p \in DOMAIN cache[o] |-> IF <<o, p>> \in txn.dirtied THEN file[o][p] ELSE cache[o][p]]
<1>1. cache' = [o \in ObjectId |-> F(o)]
  BY DEF Abort
<1>2. dirty' \in [ObjectId -> SUBSET Nat]
  BY DEF Abort, StructInv, Typed
<1>4. \A o \in ObjectId : (\A p : <<o, p>> \notin txn.dirtied) => F(o) = cache[o]
  BY ObjectPages DEF StructInv
<1>5. \A o \in ObjectId \ objects : file'[o] = file[o] /\ cache'[o] = cache[o]
  <2>1. \A o \in ObjectId \ objects : \A p : <<o, p>> \notin txn.dirtied
    BY DirtiedPages
  <2> HIDE DEF F
  <2>. QED  BY <1>0, <1>1, <1>4, <2>1
<1>6. \A o \in objects : Mixed(file'[o], o) /\ Mixed(cache'[o], o)
  <2>1. ASSUME NEW o \in objects
        PROVE  Mixed(F(o), o) /\ Mixed(file[o], o) /\ o \in ObjectId
    <3>1. o \in ObjectId /\ DOMAIN cache[o] = DOMAIN file[o] /\ file[o] = [p \in DOMAIN file[o] |-> file[o][p]]
      BY DirtiedPages, ObjectPages DEF StructInv
    <3>. QED  BY <3>1 DEF Mixed
  <2> HIDE DEF F
  <2>. QED  BY <1>0, <1>1, <2>1
<1> HIDE DEF F
<1>7. file' = [o \in ObjectId |-> file'[o]] /\ cache' = [o \in ObjectId |-> cache'[o]]
  BY <1>0, <1>1 DEF StructInv, Typed
<1>8. At("header") => file'[call.todo[1].id] = file[call.todo[1].id] /\ cache'[call.todo[1].id] = cache[call.todo[1].id]
  BY <1>0, <1>1, <1>4, HeaderIsApart
<1>. QED  BY <1>0, <1>2, <1>5, <1>6, <1>7, <1>8, CopyStruct

\* A step that flushes pages of attached objects outside of a transaction.
LEMMA FlushStruct ==
    ASSUME StructInv, UNCHANGED <<catalog, metadata, objects, cache, txn, call, failures, rows, acked>>,
           wal' \in {wal, <<>>}, dirty' \in [ObjectId -> SUBSET Nat], ~At("header"),
           NEW D \in [ObjectId -> SUBSET Nat],
           file' = [o \in ObjectId |-> IF o \in objects THEN Flushed(o, D[o]) ELSE file[o]]
    PROVE  StructInv'
<1>1. \A o \in objects : Mixed(file'[o], o) /\ Mixed(cache'[o], o)
  <2>1. ASSUME NEW o \in objects
        PROVE  Mixed(Flushed(o, D[o]), o) /\ Mixed(cache[o], o) /\ o \in ObjectId
    <3>1. o \in ObjectId /\ DOMAIN cache[o] = DOMAIN file[o] /\ cache[o] = [p \in DOMAIN cache[o] |-> cache[o][p]]
      BY DirtiedPages, ObjectPages DEF StructInv
    <3>. QED  BY <3>1 DEF Mixed, Flushed
  <2>. QED  BY <2>1
<1>2. \A o \in ObjectId \ objects : file'[o] = file[o] /\ cache'[o] = cache[o]
  OBVIOUS
<1>3. file' = [o \in ObjectId |-> file'[o]] /\ cache' = [o \in ObjectId |-> cache'[o]]
  BY DEF StructInv, Typed
<1>. QED  BY <1>1, <1>2, <1>3, CopyStruct

LEMMA CheckpointStruct ==
    ASSUME StructInv, Checkpoint
    PROVE  StructInv'
<1>0. /\ UNCHANGED <<catalog, metadata, objects, cache, txn, call, failures, rows, acked>>
      /\ wal' = <<>> /\ ~At("header")
      /\ file' = [o \in ObjectId |-> IF o \in objects THEN Flushed(o, dirty[o]) ELSE file[o]]
  BY DEF Checkpoint, catalogvars, bounds, At
<1>1. dirty' \in [ObjectId -> SUBSET Nat] /\ dirty \in [ObjectId -> SUBSET Nat]
  BY DEF Checkpoint, StructInv, Typed
<1>. QED  BY <1>0, <1>1, FlushStruct

\* A catalog that has everything of another one.
LEMMA IncludesFacts ==
    ASSUME NEW a, NEW b, Includes(b, a)
    PROVE  /\ \A t \in Tables(a) : \E u \in Tables(b) : u.name = t.name /\ u.heap_object_id = t.heap_object_id
           /\ HeapIds(a) \subseteq HeapIds(b) /\ TreeIds(a) \subseteq TreeIds(b) /\ Ids(a) \subseteq Ids(b)
<1>1. \A t \in Tables(a) : \E u \in Tables(b) : u.name = t.name /\ u.heap_object_id = t.heap_object_id
  <2> TAKE t \in Tables(a)
  <2>1. <<t.name, t.heap_object_id>> \in Places(b)
    BY DEF Includes, Places
  <2>2. PICK u \in Tables(b) : <<t.name, t.heap_object_id>> = <<u.name, u.heap_object_id>>
    BY <2>1 DEF Places
  <2>. QED  BY <2>2
<1>2. HeapIds(a) \subseteq HeapIds(b)
  BY <1>1 DEF HeapIds
<1>3. TreeIds(a) \subseteq TreeIds(b)
  BY DEF TreeIds, Includes
<1>. QED  BY <1>1, <1>2, <1>3 DEF Ids

\* The index that CREATE INDEX is making.
LEMMA CreatedFacts ==
    ASSUME StructInv, Running, call.of.kind = "index"
    PROVE  /\ Created \in Indexes(Saved) /\ Created \in Indexes(catalog)
           /\ Created.name = call.of.name /\ ~Created.is_primary_key
           /\ NewIds = {Created.object_id} /\ Created.object_id \in TreeIds(Saved)
           /\ Created.object_id \in ObjectId /\ Created.table_name \in TableName
<1>1. PICK i \in Indexes(Saved) : i.name = call.of.name /\ ~i.is_primary_key
  BY DEF StructInv, ListedInv, Creating
<1>2. i \in Indexes(catalog) /\ CatalogOK(catalog)
  BY <1>1 DEF StructInv, ListedInv, Includes, Typed
<1>3. FindIndex(catalog, call.of.name) = <<i>>
  BY <1>1, <1>2, Lookups
<1>4. Created = i
  BY <1>3 DEF Created
<1>5. \A j \in Indexes(catalog) : j.name = i.name => j = i
  BY <1>2 DEF CatalogOK
<1>6. NewIds = {i.object_id}
  BY <1>1, <1>2, <1>5 DEF NewIds
<1>7. i \in IndexSet
  BY <1>1, <1>2, CatalogFields DEF CatalogOK
<1>. QED  BY <1>1, <1>2, <1>4, <1>6, <1>7 DEF TreeIds, IndexSet

LEMMA FlushBackfillStruct ==
    ASSUME StructInv, NEW p, FlushBackfill(p)
    PROVE  StructInv'
<1> DEFINE c == Created.object_id
           D == [o \in ObjectId |-> IF o = c THEN {p} ELSE {}]
<1>0. /\ UNCHANGED <<catalog, metadata, objects, cache, wal, txn, call, failures, rows, acked>>
      /\ At("flush") /\ p \in dirty[c]
      /\ file' = [file EXCEPT ![c] = Flushed(c, {p})]
      /\ dirty' = [dirty EXCEPT ![c] = @ \ {p}]
  BY DEF FlushBackfill, catalogvars, bounds
<1>1. call.of.kind = "index" /\ call.todo = <<>> /\ Running
  BY <1>0 DEF StructInv, ControlInv, At, Running
<1>2. c \in ObjectId /\ c \in objects
  <2>1. NewIds = {c} /\ c \in ObjectId
    BY <1>1, CreatedFacts
  <2>2. NewIds \subseteq objects \cup TodoIds
    BY <1>1 DEF StructInv, ListedInv, Creating
  <2>3. TodoIds = {}
    BY <1>1 DEF TodoIds, ToSet
  <2>. QED  BY <2>1, <2>2, <2>3
<1> HIDE DEF c
<1>3. dirty' \in [ObjectId -> SUBSET Nat] /\ p \in Nat
  BY <1>0, <1>2 DEF StructInv, Typed
<1>4. D \in [ObjectId -> SUBSET Nat]
  BY <1>3
<1>5. \A o \in objects : o # c => Flushed(o, D[o]) = file[o]
  <2>1. \A o \in objects : o \in ObjectId /\ file[o] = [q \in DOMAIN file[o] |-> file[o][q]]
    BY ObjectPages DEF StructInv, Typed
  <2>. QED  BY <2>1 DEF Flushed
<1>6. file' = [o \in ObjectId |-> IF o \in objects THEN Flushed(o, D[o]) ELSE file[o]]
  <2>1. D[c] = {p}
    BY <1>2
  <2>2. file \in [ObjectId -> Seq(PageContent)]
    BY DEF StructInv, Typed
  <2>3. file' = [o \in ObjectId |-> IF o = c THEN Flushed(c, {p}) ELSE file[o]]
    BY <1>0, <2>2
  <2> HIDE DEF D
  <2>. QED  BY <1>2, <1>5, <2>1, <2>3
<1>7. ~At("header")
  BY <1>0 DEF At
<1> HIDE DEF D
<1>. QED  BY <1>0, <1>3, <1>4, <1>6, <1>7, FlushStruct

\* A statement that returns, with the name of what it has created or without.
LEMMA ReturnStruct ==
    ASSUME StructInv, UNCHANGED <<catalog, metadata, objects, file, cache, dirty, wal, txn, failures, rows>>,
           Running, call.at # "idle", call.todo = <<>>, NEW new, call' = Idle, acked' = acked \cup new,
           new = {} \/ (Creating /\ new = {call.of.name})
    PROVE  StructInv'
<1>1. Saved' = Saved
  BY SavedSame
<1>2. call'.at = "idle" /\ call'.todo = <<>> /\ call'.of.kind = "none"
  BY DEF Idle
<1>3. TodoIds' = {} /\ TodoIds = {} /\ ~Creating' /\ ToSet(call'.todo) = {} /\ Running'
  BY <1>2 DEF TodoIds, ToSet, Creating, Running
<1>4. new \subseteq AnyName
  <2>1. Creating => call.of.name \in AnyName
    <3>1. ASSUME call.of.kind = "table"
          PROVE  call.of.name \in AnyName
      <4>1. PICK t \in Tables(Saved) : t.name = call.of.name
        BY <3>1 DEF StructInv, ListedInv, Creating
      <4>2. t \in TableInfo
        BY SavedOK, CatalogFields DEF CatalogOK, StructInv
      <4>. QED  BY <4>1, <4>2 DEF TableInfo, AnyName
    <3>2. ASSUME call.of.kind = "index"
          PROVE  call.of.name \in AnyName
      <4>1. PICK t \in Indexes(Saved) : t.name = call.of.name
        BY <3>2 DEF StructInv, ListedInv, Creating
      <4>2. t \in IndexSet
        BY SavedOK, CatalogFields DEF CatalogOK, StructInv
      <4>. QED  BY <4>1, <4>2 DEF IndexSet, AnyName
    <3>. QED  BY <3>1, <3>2 DEF Creating
  <2>. QED  BY <2>1
<1>5. Typed'
  <2>1. call' \in [at : {"idle", "attach", "header", "flush", "down"}, todo : Seq(Todo),
                 of : [kind : {"none", "table", "index", "open"}, name : AnyName \cup {NoColumn}]]
    BY DEF Idle
  <2>. QED  BY <1>4, <2>1 DEF StructInv, Typed
<1>6. ControlInv'
  BY <1>2 DEF StructInv, ControlInv, At
<1>7. ListedInv'
  BY <1>1, <1>3 DEF StructInv, ListedInv
<1>8. PagesInv'
  BY <1>1, <1>2, <1>3 DEF StructInv, PagesInv, At
<1>9. SavedInv'
  BY <1>1, <1>2 DEF StructInv, SavedInv, Running
<1>10. AckedInv'
  <2>1. \A n \in new : \E x \in Tables(Saved) \cup Indexes(Saved) : x.name = n
    BY DEF StructInv, ListedInv, Creating
  <2>2. AckedIds' \subseteq AckedIds \cup (IF new = {} THEN {} ELSE NewIds)
    <3>1. CASE new = {}
      BY <3>1 DEF AckedIds
    <3>2. CASE new # {}
      <4>0. Creating /\ new = {call.of.name} /\ CatalogOK(catalog) /\ Includes(catalog, Saved)
        BY <3>2 DEF StructInv, Typed, ListedInv
      <4>1. CASE call.of.kind = "table"
        <5>1. PICK t \in Tables(Saved) : t.name = call.of.name
          BY <4>0, <4>1 DEF StructInv, ListedInv
        <5>2. \E u \in Tables(catalog) : u.name = call.of.name
          BY <4>0, <5>1, IncludesFacts
        <5>3. \A i \in Indexes(catalog) : i.name # call.of.name
          BY <4>0, <5>2 DEF CatalogOK
        <5>. QED  BY <3>2, <4>0, <4>1, <5>3 DEF AckedIds, NewIds
      <4>2. CASE call.of.kind = "index"
        <5>1. PICK i \in Indexes(Saved) : i.name = call.of.name
          BY <4>0, <4>2 DEF StructInv, ListedInv
        <5>2. i \in Indexes(catalog)
          BY <4>0, <5>1 DEF Includes
        <5>3. \A t \in Tables(catalog) : t.name # call.of.name
          BY <4>0, <5>1, <5>2 DEF CatalogOK
        <5>4. \A j \in Indexes(catalog) : j.table_name # call.of.name
          BY <4>0, <5>3 DEF CatalogOK
        <5>. QED  BY <3>2, <4>0, <4>2, <5>3, <5>4 DEF AckedIds, NewIds
      <4>. QED  BY <4>0, <4>1, <4>2 DEF Creating
    <3>. QED  BY <3>1, <3>2
  <2>3. AckedIds \subseteq objects
    BY <1>3 DEF StructInv, AckedInv
  <2>4. new # {} => NewIds \subseteq objects
    BY <1>3 DEF StructInv, ListedInv
  <2>5. AckedIds' \subseteq objects
    BY <2>2, <2>3, <2>4
  <2>. QED  BY <1>1, <1>3, <2>1, <2>5 DEF StructInv, AckedInv
<1>. QED  BY <1>5, <1>6, <1>7, <1>8, <1>9, <1>10 DEF StructInv

LEMMA AttachDoneStruct ==
    ASSUME StructInv, AttachDone
    PROVE  StructInv'
<1> DEFINE new == IF call.of.kind = "table" THEN {call.of.name} ELSE {}
<1>0. /\ UNCHANGED <<catalog, metadata, objects, file, cache, dirty, wal, txn, failures, rows>>
      /\ Running /\ call.at # "idle" /\ call.todo = <<>> /\ call' = Idle /\ acked' = acked \cup new
  BY DEF AttachDone, Return, catalogvars, storagevars, bounds, At, Running
<1>1. new = {} \/ (Creating /\ new = {call.of.name})
  BY DEF Creating
<1> HIDE DEF new
<1>. QED  BY <1>0, <1>1, ReturnStruct

LEMMA PopulateThrowsStruct ==
    ASSUME StructInv, PopulateThrows
    PROVE  StructInv'
<1> DEFINE new == {}
<1>0. /\ UNCHANGED <<catalog, metadata, objects, file, cache, dirty, wal, txn, failures, rows>>
      /\ Running /\ call.at # "idle" /\ call.todo = <<>> /\ call' = Idle /\ acked' = acked \cup new
  BY DEF PopulateThrows, Return, catalogvars, storagevars, bounds, At, Running
<1>. QED  BY <1>0, ReturnStruct

LEMMA CreateIndexReturnsStruct ==
    ASSUME StructInv, CreateIndexReturns
    PROVE  StructInv'
<1> DEFINE new == {call.of.name}
<1>0. /\ UNCHANGED <<catalog, metadata, objects, file, cache, dirty, wal, txn, failures, rows>>
      /\ Running /\ call.at # "idle" /\ call' = Idle /\ acked' = acked \cup new
  BY DEF CreateIndexReturns, Return, catalogvars, storagevars, bounds, At, Running
<1>1. Creating /\ call.todo = <<>>
  BY DEF CreateIndexReturns, StructInv, ControlInv, Creating
<1> HIDE DEF new
<1>. QED  BY <1>0, <1>1, ReturnStruct DEF new

LEMMA CrashStruct ==
    ASSUME StructInv, Crash
    PROVE  StructInv'
<1>0. /\ UNCHANGED <<metadata, file, wal, failures, rows, acked>> /\ catalog' = Empty /\ objects' = {}
      /\ txn' = NoTxn /\ cache' = [o \in ObjectId |-> <<>>] /\ dirty' = [o \in ObjectId |-> {}]
      /\ call' = [Idle EXCEPT !.at = "down"]
  BY DEF Crash
<1>1. Saved' = Saved
  BY <1>0, SavedSame
<1>2. call'.at = "down" /\ call'.todo = <<>> /\ call'.of.kind = "none"
  BY <1>0 DEF Idle
<1>3. TodoIds' = {} /\ ~Creating' /\ ToSet(call'.todo) = {} /\ ~Running'
  BY <1>2 DEF TodoIds, ToSet, Creating, Running
<1>4. Typed'
  <2>1. call' \in [at : {"idle", "attach", "header", "flush", "down"}, todo : Seq(Todo),
                 of : [kind : {"none", "table", "index", "open"}, name : AnyName \cup {NoColumn}]]
    <3>1. call' = [at |-> "down", todo |-> <<>>, of |-> [kind |-> "none", name |-> NoColumn]]
      BY <1>0 DEF Idle
    <3>. QED  BY <3>1
  <2>2. txn' \in [state : {"none", "active", "committing", "logged"}, observed : SUBSET ObjectId,
                dirtied : SUBSET (ObjectId \X Nat), added : SUBSET (TableName \X Row)]
    BY <1>0 DEF NoTxn
  <2>3. cache' \in [ObjectId -> Seq(PageContent)] /\ dirty' \in [ObjectId -> SUBSET Nat]
    BY <1>0
  <2>. QED  BY <1>0, <2>1, <2>2, <2>3, EmptyOK DEF StructInv, Typed
<1>5. ControlInv'
  BY <1>0, <1>2 DEF ControlInv, At
<1>6. txn'.observed = {} /\ txn'.dirtied = {}
  BY <1>0 DEF NoTxn
<1>7. ListedInv'
  BY <1>0, <1>1, <1>3, <1>6 DEF StructInv, ListedInv
<1>8. PagesInv'
  BY <1>0, <1>1, <1>2, <1>3, <1>6 DEF StructInv, PagesInv, At
<1>9. SavedInv' /\ AckedInv'
  BY <1>0, <1>1, <1>3 DEF StructInv, SavedInv, AckedInv
<1>. QED  BY <1>4, <1>5, <1>7, <1>8, <1>9 DEF StructInv

\* The list of objects without its first one.
LEMMA TailTodo ==
    ASSUME Typed, call.todo # <<>>
    PROVE  LET rest == Tail(call.todo)
           IN  /\ rest \in Seq(Todo) /\ 1 \in DOMAIN call.todo /\ Next1 = call.todo[1] /\ Next1 \in Todo
               /\ \A i \in DOMAIN rest : i + 1 \in DOMAIN call.todo /\ rest[i] = call.todo[i + 1] /\ i \in Nat \ {0}
               /\ ToSet(call.todo) = {Next1} \cup ToSet(rest)
<1>1. call.todo \in Seq(Todo) /\ Len(call.todo) \in Nat \ {0} /\ DOMAIN call.todo = 1..Len(call.todo)
  BY TodoFacts, EmptySeq
<1> DEFINE s == call.todo
           rest == Tail(s)
<1>2. /\ Head(s) = s[1] /\ rest \in Seq(Todo) /\ Len(rest) = Len(s) - 1
      /\ \A i \in 1..Len(rest) : rest[i] = s[i + 1]
  BY <1>1, HeadTailProperties
<1>3. DOMAIN rest = 1..Len(rest)
  BY <1>2, LenProperties
<1> HIDE DEF s, rest
<1>4. \A i \in DOMAIN rest : i + 1 \in DOMAIN s /\ rest[i] = s[i + 1] /\ i \in Nat \ {0}
  BY <1>1, <1>2, <1>3 DEF s
<1>5. ToSet(s) = {s[1]} \cup ToSet(rest)
  <2>1. \A k \in DOMAIN s : k = 1 \/ (k - 1 \in DOMAIN rest /\ (k - 1) + 1 = k)
    BY <1>1, <1>2, <1>3 DEF s
  <2>2. 1 \in DOMAIN s
    BY <1>1 DEF s
  <2>. QED  BY <1>4, <2>1, <2>2 DEF ToSet
<1>6. s[1] \in Todo
  BY <1>1, TodoFacts DEF s
<1>. QED  BY <1>1, <1>2, <1>4, <1>5, <1>6 DEF s, rest, Next1

\* A pool is registered.
LEMMA AttachedControl ==
    ASSUME StructInv, call.todo # <<>>, call.at \in {"attach", "header"}, Attached(Next1.id),
           UNCHANGED <<catalog, metadata, wal, txn, failures, rows, acked>>,
           file' \in [ObjectId -> Seq(PageContent)], cache' \in [ObjectId -> Seq(PageContent)],
           dirty' \in [ObjectId -> SUBSET Nat],
           \A o \in ObjectId : o # Next1.id => file'[o] = file[o],
           file'[Next1.id] # <<>> => file[Next1.id] # <<>>
    PROVE  /\ Typed' /\ ControlInv' /\ ListedInv' /\ SavedInv' /\ AckedInv'
           /\ Saved' = Saved /\ objects' = objects \cup {Next1.id} /\ ~At("header")'
           /\ Creating' = Creating /\ NewIds' = NewIds
           /\ Next1.id \in ObjectId /\ Next1.id \in Ids(Saved)
           /\ Next1.id \in TreeIds(Saved) <=> Next1.kind = "index"
           /\ Creating => Next1.id \notin objects
<1> DEFINE n == Next1.id
           rest == Tail(call.todo)
<1>1. Saved' = Saved
  BY SavedSame
<1>2. /\ objects' = objects \cup {n} /\ call'.at = "attach" /\ call'.todo = rest /\ call'.of = call.of
      /\ call' = [at |-> "attach", todo |-> rest, of |-> call.of]
  BY DEF Attached, StructInv, Typed
<1>3. /\ rest \in Seq(Todo) /\ 1 \in DOMAIN call.todo /\ Next1 = call.todo[1] /\ Next1 \in Todo
      /\ \A i \in DOMAIN rest : i + 1 \in DOMAIN call.todo /\ rest[i] = call.todo[i + 1] /\ i \in Nat \ {0}
      /\ ToSet(call.todo) = {Next1} \cup ToSet(rest)
  BY TailTodo DEF StructInv
<1>4. n \in ObjectId /\ TodoIds' = {x.id : x \in ToSet(rest)} /\ TodoIds = {n} \cup {x.id : x \in ToSet(rest)}
  BY <1>2, <1>3 DEF Todo, TodoIds
<1>5. Creating' = Creating /\ NewIds' = NewIds /\ Running /\ Running' /\ ~At("header")' /\ ~At("flush")' /\ ~At("down")'
  BY <1>2 DEF Creating, NewIds, Running, At
<1> HIDE DEF n, rest
<1>6. Typed'
  <2>1. call' \in [at : {"idle", "attach", "header", "flush", "down"}, todo : Seq(Todo),
                 of : [kind : {"none", "table", "index", "open"}, name : AnyName \cup {NoColumn}]]
    BY <1>2, <1>3 DEF StructInv, Typed
  <2>2. objects' \subseteq ObjectId
    BY <1>2, <1>4 DEF StructInv, Typed
  <2>. QED  BY <2>1, <2>2 DEF StructInv, Typed
<1>7. ControlInv'
  BY <1>2, <1>5 DEF StructInv, ControlInv, At
<1>8. n \in Ids(Saved) /\ (n \in TreeIds(Saved) <=> Next1.kind = "index")
  BY <1>3, <1>4 DEF StructInv, ListedInv, n
<1>9. Creating => /\ n \notin objects
                  /\ \A i \in DOMAIN rest : rest[i].id # n
                  /\ TodoIds' \cap objects' = {}
  <2> SUFFICES ASSUME Creating
               PROVE  /\ n \notin objects
                      /\ \A i \in DOMAIN rest : rest[i].id # n
                      /\ TodoIds' \cap objects' = {}
    OBVIOUS
  <2>1. TodoIds \cap objects = {} /\ \A i, j \in DOMAIN call.todo : call.todo[i].id = call.todo[j].id => i = j
    BY DEF StructInv, ListedInv
  <2>2. ASSUME NEW i \in DOMAIN rest
        PROVE  rest[i].id # n
    <3>1. i + 1 \in DOMAIN call.todo /\ rest[i] = call.todo[i + 1] /\ i + 1 # 1
      BY <1>3
    <3>2. call.todo[i + 1].id # call.todo[1].id
      BY <1>3, <2>1, <3>1
    <3>. QED  BY <1>3, <3>1, <3>2 DEF n
  <2>3. n \notin {x.id : x \in ToSet(rest)}
    BY <2>2 DEF ToSet
  <2>. QED  BY <1>2, <1>4, <2>1, <2>2, <2>3
<1>10. ListedInv'
  <2>1. objects' \cup TodoIds' \subseteq Ids(Saved)
    BY <1>2, <1>4, <1>8 DEF StructInv, ListedInv
  <2>2. \A x \in ToSet(rest) : x.kind = "index" <=> x.id \in TreeIds(Saved)
    BY <1>3 DEF StructInv, ListedInv
  <2>3. \A o \in ObjectId : file'[o] # <<>> => o \in Ids(Saved)
    BY <1>8 DEF StructInv, ListedInv, n
  <2>4. Creating => TodoIds' \subseteq NewIds /\ NewIds \subseteq objects' \cup TodoIds'
    BY <1>2, <1>4 DEF StructInv, ListedInv
  <2>5. Creating => /\ \A i, j \in DOMAIN rest : rest[i].id = rest[j].id => i = j
                    /\ \A k \in DOMAIN wal : \A r \in wal[k].updates : r.object \notin TodoIds'
                    /\ \A i \in DOMAIN rest : file'[rest[i].id] = <<>>
    <3> SUFFICES ASSUME Creating
                 PROVE  /\ \A i, j \in DOMAIN rest : rest[i].id = rest[j].id => i = j
                        /\ \A k \in DOMAIN wal : \A r \in wal[k].updates : r.object \notin TodoIds'
                        /\ \A i \in DOMAIN rest : file'[rest[i].id] = <<>>
      OBVIOUS
    <3>1. \A i, j \in DOMAIN rest : rest[i].id = rest[j].id => i = j
      <4> TAKE i \in DOMAIN rest, j \in DOMAIN rest
      <4> HAVE rest[i].id = rest[j].id
      <4>1. i + 1 = j + 1
        BY <1>3 DEF StructInv, ListedInv
      <4>. QED  BY <1>3, <4>1
    <3>2. \A k \in DOMAIN wal : \A r \in wal[k].updates : r.object \notin TodoIds'
      BY <1>4 DEF StructInv, ListedInv
    <3>3. ASSUME NEW i \in DOMAIN rest
          PROVE  file'[rest[i].id] = <<>>
      <4>1. i + 1 \in DOMAIN call.todo /\ rest[i] = call.todo[i + 1] /\ i + 1 # 1
        BY <1>3
      <4>2. file[rest[i].id] = <<>>
        BY <4>1 DEF StructInv, ListedInv
      <4>3. rest[i].id \in ObjectId /\ rest[i].id # n
        BY <1>9, <4>1, TodoFacts DEF StructInv
      <4>. QED  BY <4>2, <4>3 DEF n
    <3>. QED  BY <3>1, <3>2, <3>3
  <2>6. txn.observed \subseteq objects' /\ \A d \in txn.dirtied : d[1] \in objects'
    BY <1>2 DEF StructInv, ListedInv
  <2>. QED  BY <1>1, <1>2, <1>5, <1>9, <2>1, <2>2, <2>3, <2>4, <2>5, <2>6 DEF StructInv, ListedInv
<1>11. SavedInv'
  BY <1>1, <1>5 DEF StructInv, SavedInv, Running
<1>12. AckedInv'
  <2>1. AckedIds' = AckedIds
    BY DEF AckedIds
  <2>2. AckedIds \subseteq objects' \cup TodoIds'
    BY <1>2, <1>4, <1>5 DEF StructInv, AckedInv
  <2>. QED  BY <1>1, <2>1, <2>2 DEF StructInv, AckedInv
<1>. QED  BY <1>1, <1>2, <1>4, <1>5, <1>6, <1>7, <1>8, <1>9, <1>10, <1>11, <1>12 DEF n

LEMMA AttachStorageStruct ==
    ASSUME StructInv, AttachStorage
    PROVE  StructInv'
<1> DEFINE n == Next1.id
<1>0. /\ UNCHANGED <<catalog, metadata, file, dirty, wal, txn, failures, rows, acked>>
      /\ call.todo # <<>> /\ call.at = "attach" /\ Attached(n)
      /\ cache' = [cache EXCEPT ![n] = file[n]] /\ (Next1.kind = "heap" \/ file[n] # <<>>)
  BY DEF AttachStorage, catalogvars, bounds, At
<1>1. file' \in [ObjectId -> Seq(PageContent)] /\ cache' \in [ObjectId -> Seq(PageContent)] /\ dirty' \in [ObjectId -> SUBSET Nat]
  <2>1. n \in ObjectId
    BY <1>0, TailTodo DEF StructInv, Todo
  <2>. QED  BY <1>0, <2>1 DEF StructInv, Typed
<1>2. /\ Typed' /\ ControlInv' /\ ListedInv' /\ SavedInv' /\ AckedInv'
      /\ Saved' = Saved /\ objects' = objects \cup {n} /\ ~At("header")'
      /\ Creating' = Creating /\ NewIds' = NewIds
      /\ n \in ObjectId /\ n \in Ids(Saved)
      /\ n \in TreeIds(Saved) <=> Next1.kind = "index"
      /\ Creating => n \notin objects
  BY <1>0, <1>1, AttachedControl
<1>3. cache'[n] = file[n] /\ \A o \in ObjectId : o # n => cache'[o] = cache[o]
  BY <1>0, <1>2 DEF StructInv, Typed
<1>4. n \in TreeIds(Saved) => file[n] # <<>>
  BY <1>0, <1>2
<1>5. Creating => (n \notin TreeIds(Saved))
  <2>1. 1 \in DOMAIN call.todo /\ n = call.todo[1].id
    BY <1>0, TailTodo DEF StructInv
  <2>2. ~At("header")
    BY <1>0 DEF At
  <2>3. Creating => file[n] = <<>>
    BY <2>1, <2>2 DEF StructInv, ListedInv
  <2>. QED  BY <1>4, <2>3
<1> HIDE DEF n
<1>6. PagesInv'
  <2>0. \A o \in TreeIds(Saved) : o \in ObjectId
    BY SavedOK, CatalogFields DEF StructInv, TreeIds, IndexSet, CatalogOK
  <2>1. \A o \in objects' : Len(cache'[o]) = Len(file[o])
    BY <1>2, <1>3, DirtiedPages DEF StructInv, PagesInv
  <2>2. Creating => \A o \in NewIds \cap objects' \cap TreeIds(Saved) : cache'[o][1] # Zeroed /\ file[o][1] # Zeroed
    BY <1>2, <1>3, <1>5, <2>0 DEF StructInv, PagesInv
  <2>3. ASSUME NEW o \in TreeIds(Saved), o \in objects'
        PROVE  cache'[o] # <<>> /\ cache'[o][1] \in HeaderSet(Len(file[o]))
    BY <1>2, <1>3, <1>4, <2>0, <2>3 DEF StructInv, PagesInv
  <2>. QED  BY <1>0, <1>2, <2>1, <2>2, <2>3 DEF StructInv, PagesInv
<1>. QED  BY <1>2, <1>6 DEF StructInv

\* A file of one page.
LEMMA OnePage ==
    ASSUME NEW x \in PageContent
    PROVE  <<x>> \in Seq(PageContent) /\ Len(<<x>>) = 1 /\ <<x>>[1] = x /\ <<x>> # <<>>
OBVIOUS

LEMMA HeaderPages ==
    /\ Zeroed \in PageContent /\ {NoRoot} \in PageContent /\ {NoRoot} # Zeroed
    /\ \A m : Zeroed \in HeaderSet(m) /\ {NoRoot} \in HeaderSet(m)
BY DEF Zeroed, PageContent, HeaderSet

LEMMA NewHeaderStruct ==
    ASSUME StructInv, NewHeader
    PROVE  StructInv'
<1> DEFINE n == Next1.id
<1>0. /\ UNCHANGED <<catalog, metadata, objects, wal, txn, failures, rows, acked>>
      /\ call.todo # <<>> /\ call.at = "attach" /\ Next1.kind = "index" /\ file[n] = <<>>
      /\ file' = [file EXCEPT ![n] = Zeros(1)] /\ cache' = [cache EXCEPT ![n] = <<{NoRoot}>>]
      /\ dirty' = [dirty EXCEPT ![n] = {1}] /\ call' = [call EXCEPT !.at = "header"]
  BY DEF NewHeader, catalogvars, bounds, At
<1>1. Saved' = Saved
  BY <1>0, SavedSame
<1>2. /\ 1 \in DOMAIN call.todo /\ Next1 = call.todo[1] /\ n \in ObjectId /\ n \in Ids(Saved) /\ n \in TreeIds(Saved)
      /\ n \in TodoIds
  <2>1. 1 \in DOMAIN call.todo /\ Next1 = call.todo[1] /\ Next1 \in Todo /\ Next1 \in ToSet(call.todo)
    BY <1>0, TailTodo DEF StructInv
  <2>. QED  BY <1>0, <2>1 DEF StructInv, ListedInv, Todo, TodoIds
<1>3. /\ call'.at = "header" /\ call'.todo = call.todo /\ call'.of = call.of
      /\ call' = [at |-> "header", todo |-> call.todo, of |-> call.of]
  BY <1>0 DEF StructInv, Typed
<1>4. /\ TodoIds' = TodoIds /\ NewIds' = NewIds /\ Creating' = Creating /\ Running /\ Running'
      /\ ~At("idle") /\ ~At("idle")' /\ At("header")' /\ ~At("header") /\ ~At("down")' /\ ~At("flush")'
  BY <1>0, <1>3 DEF TodoIds, NewIds, Creating, Running, At
<1>5. Zeros(1) = <<Zeroed>> /\ Zeros(1) \in Seq(PageContent) /\ <<{NoRoot}>> \in Seq(PageContent) /\ Len(<<{NoRoot}>>) = 1
      /\ Len(Zeros(1)) = 1 /\ Zeros(1)[1] = Zeroed
  <2>1. 1..1 = {1}
    OBVIOUS
  <2>2. Zeroed \in PageContent /\ {NoRoot} \in PageContent
    BY HeaderPages
  <2>3. Zeros(1) = <<Zeroed>>
    BY <2>1 DEF Zeros
  <2>4. <<Zeroed>> \in Seq(PageContent) /\ Len(<<Zeroed>>) = 1 /\ <<Zeroed>>[1] = Zeroed
    BY <2>2, OnePage
  <2>5. <<{NoRoot}>> \in Seq(PageContent) /\ Len(<<{NoRoot}>>) = 1
    BY <2>2, OnePage
  <2>. QED  BY <2>3, <2>4, <2>5
<1>6. /\ file'[n] = <<Zeroed>> /\ cache'[n] = <<{NoRoot}>>
      /\ \A o \in ObjectId : o # n => file'[o] = file[o] /\ cache'[o] = cache[o]
      /\ file' \in [ObjectId -> Seq(PageContent)] /\ cache' \in [ObjectId -> Seq(PageContent)]
      /\ dirty' \in [ObjectId -> SUBSET Nat]
  BY <1>0, <1>2, <1>5 DEF StructInv, Typed
<1> HIDE DEF n
<1>7. n \notin objects
  <2>1. SUFFICES ASSUME n \in objects PROVE FALSE
    OBVIOUS
  <2>2. cache[n] # <<>> /\ Len(cache[n]) = Len(file[n]) /\ cache[n] \in Seq(PageContent)
    BY <1>2, <2>1, DirtiedPages DEF StructInv, PagesInv
  <2>3. Len(file[n]) = 0
    BY <1>0 DEF n
  <2>. QED  BY <2>2, <2>3, EmptySeq
<1>8. \A k \in DOMAIN wal : \A r \in wal[k].updates : r.object # n
  <2>1. \A k \in DOMAIN wal : \A r \in wal[k].updates : r.page \in Nat \ {0} /\ r.page <= Len(file[r.object])
    BY WalFacts DEF StructInv, PagesInv
  <2>2. Len(file[n]) = 0
    BY <1>0 DEF n
  <2>. QED  BY <2>1, <2>2
<1>9. Typed'
  <2>1. call' \in [at : {"idle", "attach", "header", "flush", "down"}, todo : Seq(Todo),
                 of : [kind : {"none", "table", "index", "open"}, name : AnyName \cup {NoColumn}]]
    BY <1>3 DEF StructInv, Typed
  <2>. QED  BY <1>0, <1>6, <2>1 DEF StructInv, Typed
<1>10. ControlInv'
  <2>1. call.todo[1].kind = "index" /\ call.of.kind # "none"
    BY <1>0, <1>2 DEF StructInv, ControlInv
  <2>. QED  BY <1>0, <1>3, <1>4, <2>1 DEF StructInv, ControlInv
<1>11. ListedInv'
  <2>1. \A o \in ObjectId : file'[o] # <<>> => o \in Ids(Saved)
    BY <1>2, <1>6 DEF StructInv, ListedInv
  <2>2. Creating => \A i \in DOMAIN call.todo : ~(i = 1) => file'[call.todo[i].id] = <<>>
    <3> SUFFICES ASSUME Creating, NEW i \in DOMAIN call.todo, i # 1
                 PROVE  file'[call.todo[i].id] = <<>>
      OBVIOUS
    <3>1. file[call.todo[i].id] = <<>> /\ call.todo[i].id # n
      BY <1>2 DEF StructInv, ListedInv, n
    <3>2. call.todo[i].id \in ObjectId
      BY TodoFacts DEF StructInv
    <3>. QED  BY <1>6, <3>1, <3>2
  <2>. QED  BY <1>0, <1>1, <1>3, <1>4, <2>1, <2>2 DEF StructInv, ListedInv
<1>12. PagesInv'
  <2>0. \A o \in TreeIds(Saved) : o \in ObjectId
    BY SavedOK, CatalogFields DEF StructInv, TreeIds, IndexSet, CatalogOK
  <2>1. \A o \in objects : file'[o] = file[o] /\ cache'[o] = cache[o]
    BY <1>6, <1>7, DirtiedPages
  <2>2. \A d \in txn.dirtied : d[2] \in 1..Len(file'[d[1]])
    BY <2>1, DirtiedPages
  <2>3. \A k \in DOMAIN wal : \A r \in wal[k].updates : r.object \in ObjectId /\ file'[r.object] = file[r.object]
    BY <1>6, <1>8, WalFacts DEF StructInv
  <2>4. ASSUME NEW o \in TreeIds(Saved)
        PROVE  /\ file'[o] # <<>> => file'[o][1] \in HeaderSet(Len(file'[o]))
               /\ o \in objects => cache'[o] # <<>> /\ cache'[o][1] \in HeaderSet(Len(file'[o]))
               /\ \A k \in DOMAIN wal : \A r \in wal[k].updates :
                     r.object = o /\ r.page = 1 => r.image \in HeaderSet(Len(file'[o]))
    <3>1. CASE o = n
      BY <1>6, <1>7, <1>8, <3>1 DEF HeaderSet
    <3>2. CASE o # n
      BY <1>6, <2>0, <3>2 DEF StructInv, PagesInv
    <3>. QED  BY <3>1, <3>2
  <2>5. \A k \in DOMAIN wal : \A r \in wal[k].updates : r.page <= Len(file'[r.object])
    BY <2>3 DEF StructInv, PagesInv
  <2>6. call.todo[1].id = n
    BY <1>2 DEF n
  <2>. QED  BY <1>0, <1>1, <1>3, <1>4, <1>6, <2>1, <2>2, <2>4, <2>5, <2>6 DEF StructInv, PagesInv
<1>13. SavedInv'
  BY <1>0, <1>1, <1>3, <1>4 DEF StructInv, SavedInv, Running
<1>14. AckedInv'
  <2>1. AckedIds' = AckedIds
    BY <1>0 DEF AckedIds
  <2>. QED  BY <1>0, <1>1, <1>4, <2>1 DEF StructInv, AckedInv
<1>. QED  BY <1>9, <1>10, <1>11, <1>12, <1>13, <1>14 DEF StructInv

LEMMA FlushHeaderStruct ==
    ASSUME StructInv, FlushHeader
    PROVE  StructInv'
<1> DEFINE n == Next1.id
<1>0. /\ UNCHANGED <<catalog, metadata, cache, wal, txn, failures, rows, acked>>
      /\ call.at = "header" /\ Attached(n)
      /\ file' = [file EXCEPT ![n] = Flushed(n, {1})] /\ dirty' = [dirty EXCEPT ![n] = {}]
  BY DEF FlushHeader, catalogvars, bounds, At
<1>1. /\ call.todo # <<>> /\ Next1 = call.todo[1] /\ n \in ObjectId /\ Next1.kind = "index"
      /\ file[n] = <<Zeroed>> /\ cache[n] = <<{NoRoot}>>
  <2>1. call.todo # <<>> /\ call.todo[1].kind = "index" /\ At("header")
    BY <1>0 DEF StructInv, ControlInv, At
  <2>2. Next1 = call.todo[1] /\ Next1 \in Todo
    BY <2>1, TailTodo DEF StructInv
  <2>. QED  BY <2>1, <2>2 DEF StructInv, PagesInv, Todo
<1>2. Flushed(n, {1}) = <<{NoRoot}>>
  <2>1. DOMAIN file[n] = {1} /\ cache[n][1] = {NoRoot}
    BY <1>1
  <2>2. Flushed(n, {1}) = [p \in {1} |-> {NoRoot}]
    BY <2>1 DEF Flushed
  <2>. QED  BY <2>2
<1>3. <<{NoRoot}>> \in Seq(PageContent) /\ Len(<<{NoRoot}>>) = 1 /\ <<{NoRoot}>>[1] = {NoRoot}
  <2>1. {NoRoot} \in PageContent
    BY DEF PageContent
  <2>. QED  BY <2>1
<1>4. /\ file' \in [ObjectId -> Seq(PageContent)] /\ cache' \in [ObjectId -> Seq(PageContent)]
      /\ dirty' \in [ObjectId -> SUBSET Nat]
      /\ file'[n] = <<{NoRoot}>> /\ \A o \in ObjectId : o # n => file'[o] = file[o]
  BY <1>0, <1>1, <1>2, <1>3 DEF StructInv, Typed
<1>5. file[n] # <<>>
  BY <1>1
<1>6. /\ Typed' /\ ControlInv' /\ ListedInv' /\ SavedInv' /\ AckedInv'
      /\ Saved' = Saved /\ objects' = objects \cup {n} /\ ~At("header")'
      /\ Creating' = Creating /\ NewIds' = NewIds
      /\ n \in ObjectId /\ n \in Ids(Saved)
      /\ n \in TreeIds(Saved) <=> Next1.kind = "index"
      /\ Creating => n \notin objects
  BY <1>0, <1>1, <1>4, <1>5, AttachedControl
<1>7. \A o \in ObjectId : Len(file'[o]) = Len(file[o])
  <2>1. Len(<<Zeroed>>) = 1
    BY HeaderPages, OnePage
  <2>2. Len(file'[n]) = Len(file[n])
    BY <1>1, <1>3, <1>4, <2>1
  <2>. QED  BY <1>4, <2>2
<1> HIDE DEF n
<1>8. PagesInv'
  <2>0. \A o \in TreeIds(Saved) : o \in ObjectId
    BY SavedOK, CatalogFields DEF StructInv, TreeIds, IndexSet, CatalogOK
  <2>1. \A o \in objects' : Len(cache[o]) = Len(file'[o])
    BY <1>1, <1>3, <1>4, <1>6, DirtiedPages
  <2>2. \A d \in txn.dirtied : d[2] \in 1..Len(file'[d[1]])
    BY <1>7, DirtiedPages
  <2>3. \A k \in DOMAIN wal : \A r \in wal[k].updates : r.page <= Len(file'[r.object])
    <3>1. \A k \in DOMAIN wal : \A r \in wal[k].updates : r.object \in ObjectId
      BY WalFacts DEF StructInv
    <3>. QED  BY <1>7, <3>1 DEF StructInv, PagesInv
  <2>4. {NoRoot} # Zeroed
    BY DEF Zeroed
  <2>5. Creating => \A o \in NewIds \cap objects' \cap TreeIds(Saved) : cache[o][1] # Zeroed /\ file'[o][1] # Zeroed
    BY <1>1, <1>3, <1>4, <1>6, <2>0, <2>4 DEF StructInv, PagesInv
  <2>6. ASSUME NEW o \in TreeIds(Saved)
        PROVE  /\ file'[o] # <<>> => file'[o][1] \in HeaderSet(Len(file'[o]))
               /\ o \in objects' => cache[o] # <<>> /\ cache[o][1] \in HeaderSet(Len(file'[o]))
               /\ \A k \in DOMAIN wal : \A r \in wal[k].updates :
                     r.object = o /\ r.page = 1 => r.image \in HeaderSet(Len(file'[o]))
    <3>0. \A k \in DOMAIN wal : \A r \in wal[k].updates :
                     r.object = o /\ r.page = 1 => r.image \in HeaderSet(Len(file'[o]))
      BY <1>7, <2>0 DEF StructInv, PagesInv
    <3>1. CASE o = n
      <4>1. file'[o][1] = {NoRoot} /\ cache[o][1] = {NoRoot} /\ cache[o] # <<>>
        <5> DEFINE q == <<{NoRoot}>>
        <5>1. q[1] = {NoRoot} /\ q # <<>>
          BY HeaderPages, OnePage
        <5>2. file'[o] = q /\ cache[o] = q
          BY <1>1, <1>4, <3>1
        <5> HIDE DEF q
        <5>. QED  BY <5>1, <5>2
      <4>. QED  BY <3>0, <4>1, HeaderPages
    <3>2. CASE o # n
      BY <1>4, <1>6, <2>0, <3>0, <3>2 DEF StructInv, PagesInv
    <3>. QED  BY <3>1, <3>2
  <2>. QED  BY <1>0, <1>6, <2>1, <2>2, <2>3, <2>5, <2>6 DEF StructInv, PagesInv
<1>. QED  BY <1>6, <1>8 DEF StructInv

-----------------------------------------------------------------------------
\* w is what a write made of pages: the pages it has not changed are as before.
Wrote(w, pages) ==
    /\ w.pages \in Seq(PageContent) /\ Len(pages) <= Len(w.pages) /\ w.changed \subseteq 1..Len(w.pages)
    /\ \A p \in 1..Len(w.pages) : p \notin w.changed => p \in 1..Len(pages) /\ w.pages[p] = pages[p]

LEMMA RowContent ==
    ASSUME NEW new \in SUBSET Row
    PROVE  /\ {Formatted} \cup new \in PageContent
           /\ \A x \in PageContent : x \cup new \in PageContent
           /\ ({Formatted} \cup new) \cap Row = new
BY DdlAssumption DEF PageContent

\* The rows of a heap file: those it had and the new ones.
LEMMA HeapWithFacts ==
    ASSUME NEW pages \in Seq(PageContent), NEW new \in SUBSET Row
    PROVE  LET w == HeapWith(pages, new)
           IN  /\ Wrote(w, pages) /\ RowsIn(w.pages) = RowsIn(pages) \cup new
               /\ (\A p \in DOMAIN pages : pages[p] \subseteq Row \cup {Formatted}) =>
                     \A p \in DOMAIN w.pages : w.pages[p] \subseteq Row \cup {Formatted}
<1> DEFINE n == Len(pages)
           w == HeapWith(pages, new)
<1>1. n \in Nat /\ DOMAIN pages = 1..n /\ \A p \in 1..n : pages[p] \in PageContent
  BY LenProperties, ElementOfSeq
<1>2. CASE pages # <<>> /\ Formatted \in pages[n]
  <2> DEFINE x == pages[n] \cup new
             e == [pages EXCEPT ![n] = x]
  <2>1. n \in 1..n
    BY <1>1, <1>2, EmptySeq
  <2>2. x \in PageContent
    BY <1>1, <2>1, RowContent
  <2>3. w = [pages |-> e, changed |-> {n}]
    BY <1>2 DEF HeapWith
  <2>4. w.pages = e /\ w.changed = {n}
    BY <2>3
  <2>5. e \in Seq(PageContent) /\ Len(e) = n /\ \A p \in 1..n : e[p] = IF p = n THEN x ELSE pages[p]
    <3> HIDE DEF x
    <3>. QED  BY <2>1, <2>2, ExceptSeq
  <2>6. DOMAIN e = 1..n
    BY <1>1, <2>5
  <2> HIDE DEF e, w
  <2>7. Wrote(w, pages)
    <3>1. \A p \in 1..n : p # n => e[p] = pages[p]
      BY <2>5
    <3>2. n <= n /\ {n} \subseteq 1..n
      BY <1>1, <2>1
    <3>. QED  BY <2>4, <2>5, <3>1, <3>2 DEF Wrote
  <2>8. RowsIn(w.pages) = RowsIn(pages) \cup new
    <3>1. UNION ToSet(e) = (UNION ToSet(pages)) \cup new
      <4>1. ToSet(e) = {e[p] : p \in 1..n} /\ ToSet(pages) = {pages[p] : p \in 1..n}
        BY <1>1, <2>6 DEF ToSet
      <4>2. \A p \in 1..n : pages[p] \subseteq e[p] /\ e[p] \subseteq pages[p] \cup new
        BY <2>5
      <4>3. new \subseteq e[n]
        BY <2>1, <2>5
      <4>. QED  BY <2>1, <4>1, <4>2, <4>3
    <3>. QED  BY <2>4, <3>1 DEF RowsIn
  <2>9. (\A p \in DOMAIN pages : pages[p] \subseteq Row \cup {Formatted}) =>
            \A p \in DOMAIN w.pages : w.pages[p] \subseteq Row \cup {Formatted}
    BY <1>1, <2>1, <2>4, <2>5, <2>6
  <2>. QED  BY <2>7, <2>8, <2>9 DEF w
<1>3. CASE ~(pages # <<>> /\ Formatted \in pages[n])
  <2> DEFINE x == {Formatted} \cup new
             e == Append(pages, x)
  <2>1. n + 1 \in 1..n + 1 /\ \A p \in 1..n + 1 : p # n + 1 => p \in 1..n
    BY <1>1
  <2>2. x \in PageContent /\ x \cap Row = new /\ x \subseteq Row \cup {Formatted}
    BY RowContent
  <2>3. w = [pages |-> e, changed |-> {n + 1}]
    BY <1>3 DEF HeapWith
  <2>4. w.pages = e /\ w.changed = {n + 1}
    BY <2>3
  <2> HIDE DEF x
  <2>5. /\ e \in Seq(PageContent) /\ Len(e) = n + 1 /\ (\A p \in 1..n : e[p] = pages[p]) /\ e[n + 1] = x
        /\ ToSet(e) = ToSet(pages) \cup {x}
    BY <2>2, AppendProperties, AppendToSet
  <2>6. DOMAIN e = 1..n + 1
    BY <2>5, LenProperties
  <2> HIDE DEF e, w
  <2>7. Wrote(w, pages)
    BY <1>1, <2>1, <2>4, <2>5 DEF Wrote
  <2>8. RowsIn(w.pages) = RowsIn(pages) \cup new
    <3>1. UNION ToSet(e) = (UNION ToSet(pages)) \cup x
      BY <2>5
    <3>. QED  BY <2>2, <2>4, <3>1 DEF RowsIn
  <2>9. (\A p \in DOMAIN pages : pages[p] \subseteq Row \cup {Formatted}) =>
            \A p \in DOMAIN w.pages : w.pages[p] \subseteq Row \cup {Formatted}
    BY <1>1, <2>1, <2>2, <2>4, <2>5, <2>6
  <2>. QED  BY <2>7, <2>8, <2>9 DEF w
<1>. QED  BY <1>2, <1>3

\* The rows of a tree: those it had and the new ones.
LEMMA TreeWithFacts ==
    ASSUME NEW pages \in Seq(PageContent), NEW new \in SUBSET Row,
           pages # <<>>, pages[1] \in HeaderSet(Len(pages)), pages[1] # Zeroed
    PROVE  LET w == TreeWith(pages, new)
           IN  /\ Wrote(w, pages) /\ TreeRows(w.pages) = TreeRows(pages) \cup new
               /\ w.pages # <<>> /\ w.pages[1] \in HeaderSet(Len(w.pages)) /\ w.pages[1] # Zeroed
<1> DEFINE n == Len(pages)
           w == TreeWith(pages, new)
<1>1. n \in Nat /\ n # 0 /\ 1 \in 1..n /\ DOMAIN pages = 1..n /\ \A p \in 1..n : pages[p] \in PageContent
  BY LenProperties, ElementOfSeq, EmptySeq
<1>2. pages[1] = {NoRoot} \/ \E k \in 2..n : pages[1] = {k}
  BY DEF HeaderSet
<1>3. CASE new = {}
  <2>1. w.pages = pages /\ w.changed = {}
    BY <1>3 DEF TreeWith
  <2> HIDE DEF w
  <2>. QED  BY <1>1, <1>3, <2>1 DEF Wrote, w
<1>4. CASE new # {} /\ pages[1] = {NoRoot}
  <2> DEFINE x == {Formatted} \cup new
             h == [pages EXCEPT ![1] = {n + 1}]
             e == Append(h, x)
  <2>1. x \in PageContent /\ x \cap Row = new /\ {n + 1} \in PageContent
    BY <1>1, RowContent DEF PageContent
  <2>2. w = [pages |-> e, changed |-> {1, n + 1}]
    BY <1>4 DEF TreeWith
  <2>3. w.pages = e /\ w.changed = {1, n + 1}
    BY <2>2
  <2>4. h \in Seq(PageContent) /\ Len(h) = n /\ \A p \in 1..n : h[p] = IF p = 1 THEN {n + 1} ELSE pages[p]
    BY <1>1, <2>1, ExceptSeq
  <2> HIDE DEF x, h
  <2>5. e \in Seq(PageContent) /\ Len(e) = n + 1 /\ (\A p \in 1..n : e[p] = h[p]) /\ e[n + 1] = x
    BY <2>1, <2>4, AppendProperties
  <2> HIDE DEF e, w
  <2>6. Wrote(w, pages)
    BY <1>1, <2>3, <2>4, <2>5 DEF Wrote
  <2>7. e[1] = {n + 1} /\ e # <<>>
    BY <1>1, <2>4, <2>5, EmptySeq
  <2>8. n + 1 # NoRoot
    BY <1>1, DdlAssumption
  <2>9. e[1] \in HeaderSet(Len(e)) /\ e[1] # Zeroed
    BY <1>1, <2>5, <2>7 DEF HeaderSet, Zeroed
  <2>10. TreeRows(e) = new
    <3>1. e[1] \notin {Zeroed, {NoRoot}}
      BY <2>7, <2>8 DEF Zeroed
    <3>2. (CHOOSE p \in {n + 1} : TRUE) = n + 1
      OBVIOUS
    <3>3. TreeRows(e) = e[n + 1] \cap Row
      BY <2>7, <3>1, <3>2 DEF TreeRows
    <3>. QED  BY <2>1, <2>5, <3>3
  <2>11. TreeRows(pages) = {}
    BY <1>4 DEF TreeRows
  <2>. QED  BY <2>3, <2>6, <2>7, <2>9, <2>10, <2>11 DEF w
<1>5. CASE new # {} /\ pages[1] # {NoRoot}
  <2>1. PICK k \in 2..n : pages[1] = {k}
    BY <1>2, <1>5
  <2>2. (CHOOSE p \in {k} : TRUE) = k
    OBVIOUS
  <2> DEFINE x == pages[k] \cup new
             e == [pages EXCEPT ![k] = x]
  <2>3. k \in 1..n /\ k # 1 /\ x \in PageContent
    <3>1. k \in 1..n /\ k # 1
      BY <1>1
    <3>2. pages[k] \in PageContent
      BY <1>1, <3>1
    <3>. QED  BY <3>1, <3>2, RowContent
  <2>4. w.pages = e /\ w.changed = {k}
    <3>1. w = [pages |-> e, changed |-> {k}]
      BY <1>5, <2>1, <2>2 DEF TreeWith
    <3>. QED  BY <3>1
  <2>5. e \in Seq(PageContent) /\ Len(e) = n /\ \A p \in 1..n : e[p] = IF p = k THEN x ELSE pages[p]
    <3> HIDE DEF x
    <3>. QED  BY <2>3, ExceptSeq
  <2> HIDE DEF e, w
  <2>6. Wrote(w, pages)
    BY <1>1, <2>3, <2>4, <2>5 DEF Wrote
  <2>7. e[1] = {k} /\ e # <<>> /\ e[k] = x
    BY <1>1, <2>1, <2>3, <2>5, EmptySeq
  <2>8. k # NoRoot
    BY <1>1, DdlAssumption
  <2>9. e[1] \in HeaderSet(Len(e)) /\ e[1] # Zeroed
    BY <2>5, <2>7 DEF HeaderSet, Zeroed
  <2>10. {k} \notin {Zeroed, {NoRoot}}
    BY <2>8 DEF Zeroed
  <2>11. TreeRows(e) = e[k] \cap Row /\ TreeRows(pages) = pages[k] \cap Row
    BY <2>1, <2>2, <2>7, <2>10 DEF TreeRows
  <2>. QED  BY <2>4, <2>6, <2>7, <2>9, <2>11 DEF w
<1>. QED  BY <1>3, <1>4, <1>5

LEMMA GrownFacts ==
    ASSUME NEW s \in Seq(PageContent), NEW to \in Seq(PageContent), Len(s) <= Len(to)
    PROVE  LET g == Grown(s, to)
           IN  /\ g \in Seq(PageContent) /\ Len(g) = Len(to)
               /\ \A p \in 1..Len(s) : g[p] = s[p]
               /\ \A p \in 1..Len(to) : p \notin 1..Len(s) => g[p] = Zeroed
<1> DEFINE k == Len(to) - Len(s)
           z == Zeros(k)
<1>1. Len(s) \in Nat /\ Len(to) \in Nat /\ k \in Nat
  BY LenProperties
<1>2. z \in [1..k -> PageContent] /\ \A i \in 1..k : z[i] = Zeroed
  BY HeaderPages DEF Zeros
<1>3. z \in Seq(PageContent) /\ Len(z) = k
  <2> HIDE DEF z, k
  <2>. QED  BY <1>1, <1>2, SeqDef, LenProperties
<1>4. Grown(s, to) = s \o z
  BY DEF Grown
<1>5. /\ s \o z \in Seq(PageContent) /\ Len(s \o z) = Len(s) + k
      /\ \A i \in 1..Len(s) + k : (s \o z)[i] = IF i <= Len(s) THEN s[i] ELSE z[i - Len(s)]
  <2> HIDE DEF z, k
  <2>. QED  BY <1>3, ConcatProperties
<1>6. Len(s) + k = Len(to)
  BY <1>1
<1> DEFINE g == s \o z
<1>7. g \in Seq(PageContent) /\ Len(g) = Len(to) /\ \A i \in 1..Len(to) : g[i] = IF i <= Len(s) THEN s[i] ELSE z[i - Len(s)]
  BY <1>5, <1>6
<1>8. \A i \in 1..Len(to) : ~(i <= Len(s)) => i - Len(s) \in 1..k
  BY <1>1
<1>9. \A i \in 1..Len(s) : i \in 1..Len(to) /\ i <= Len(s)
  BY <1>1
<1>10. \A i \in 1..Len(to) : i \notin 1..Len(s) => ~(i <= Len(s))
  BY <1>1
<1> HIDE DEF g, z, k
<1>11. \A p \in 1..Len(s) : g[p] = s[p]
  BY <1>7, <1>9
<1>12. \A p \in 1..Len(to) : p \notin 1..Len(s) => g[p] = Zeroed
  BY <1>2, <1>7, <1>8, <1>10
<1>. QED  BY <1>4, <1>7, <1>11, <1>12 DEF g

\* A step that writes to pages of the attached objects T and may extend their
\* files.
WritesTo(T) ==
    /\ T \subseteq objects
    /\ At("header") => call.todo[1].id \notin T
    /\ \A d \in txn'.dirtied : d \in txn.dirtied \/ (d[1] \in T /\ d[2] \in 1..Len(file'[d[1]]))
    /\ \A o \in ObjectId \ T : file'[o] = file[o] /\ cache'[o] = cache[o]
    /\ \A o \in T : /\ Len(file'[o]) = Len(cache'[o]) /\ Len(file[o]) <= Len(file'[o])
                    /\ \A p \in 1..Len(file[o]) : file'[o][p] = file[o][p]
    /\ \A o \in T \cap TreeIds(Saved) :
          cache'[o] # <<>> /\ cache'[o][1] \in HeaderSet(Len(cache'[o])) /\ cache'[o][1] # Zeroed

LEMMA WriteStruct ==
    ASSUME StructInv, UNCHANGED <<catalog, metadata, objects, wal, failures, rows, acked>>, Running, Running',
           Typed', ControlInv', call'.todo = call.todo, call'.of = call.of,
           call'.at # "idle" => call.at # "idle", At("header")' = At("header"),
           txn'.observed = txn.observed, NEW T, WritesTo(T)
    PROVE  StructInv'
<1> USE DEF WritesTo
<1>1. Saved' = Saved
  BY SavedSame
<1>2. TodoIds' = TodoIds /\ NewIds' = NewIds /\ Creating' = Creating /\ At("header")' = At("header")
  BY DEF TodoIds, NewIds, Creating
<1>3. \A o \in ObjectId : /\ Len(file[o]) <= Len(file'[o])
                          /\ Len(file[o]) \in Nat /\ Len(file'[o]) \in Nat
  <2>1. \A o \in ObjectId : Len(file[o]) \in Nat
    BY ObjectPages DEF StructInv
  <2>2. \A o \in ObjectId : Len(file'[o]) \in Nat
    BY LenProperties DEF Typed
  <2>. QED  BY <2>1, <2>2
<1>4. \A o \in objects : o \in ObjectId
  BY DEF StructInv, Typed
<1>5. \A m, n \in Nat : m <= n => HeaderSet(m) \subseteq HeaderSet(n)
  BY DEF HeaderSet
<1>6. T \cap TodoIds = {} \/ ~Creating
  BY DEF StructInv, ListedInv
<1>7. ListedInv'
  <2>1. \A o \in ObjectId : file'[o] # <<>> => o \in Ids(Saved)
    BY DEF StructInv, ListedInv
  <2>2. \A d \in txn'.dirtied : d[1] \in objects
    BY DEF StructInv, ListedInv
  <2>3. Creating => \A i \in DOMAIN call.todo : ~(At("header") /\ i = 1) => file'[call.todo[i].id] = <<>>
    <3>1. \A i \in DOMAIN call.todo : call.todo[i].id \in ObjectId /\ call.todo[i].id \in TodoIds
      BY TodoFacts DEF StructInv
    <3>. QED  BY <1>6, <3>1 DEF StructInv, ListedInv
  <2>. QED  BY <1>1, <1>2, <2>1, <2>2, <2>3 DEF StructInv, ListedInv
<1>8. PagesInv'
  <2>0. \A o \in TreeIds(Saved) : o \in ObjectId
    BY SavedOK, CatalogFields DEF StructInv, TreeIds, IndexSet, CatalogOK
  <2>1. \A o \in objects : Len(cache'[o]) = Len(file'[o])
    BY <1>4, DirtiedPages
  <2>2. \A d \in txn'.dirtied : d[2] \in 1..Len(file'[d[1]])
    <3>1. ASSUME NEW d \in txn.dirtied PROVE d[2] \in 1..Len(file'[d[1]])
      <4>1. d[1] \in ObjectId /\ d[2] \in 1..Len(file[d[1]])
        BY <1>4, DirtiedPages
      <4>. QED  BY <1>3, <4>1
    <3>. QED  BY <3>1
  <2>3. \A k \in DOMAIN wal : \A r \in wal[k].updates : r.page <= Len(file'[r.object])
    <3>1. \A k \in DOMAIN wal : \A r \in wal[k].updates : r.object \in ObjectId /\ r.page \in Nat
      BY WalFacts DEF StructInv
    <3>2. ASSUME NEW k \in DOMAIN wal, NEW r \in wal[k].updates PROVE r.page <= Len(file'[r.object])
      <4>1. r.page <= Len(file[r.object]) /\ r.object \in ObjectId /\ r.page \in Nat
        BY <3>1 DEF StructInv, PagesInv
      <4>. QED  BY <1>3, <4>1
    <3>. QED  BY <3>2
  <2>4. ASSUME NEW o \in T, o \in TreeIds(Saved)
        PROVE  file'[o][1] = file[o][1] /\ file[o] # <<>>
    <3>1. cache[o] # <<>> /\ Len(cache[o]) = Len(file[o]) /\ file[o] \in Seq(PageContent) /\ cache[o] \in Seq(PageContent)
      BY <1>4, <2>4, ObjectPages DEF StructInv, PagesInv
    <3>2. Len(file[o]) \in Nat \ {0}
      BY <3>1, EmptySeq
    <3>3. 1 \in 1..Len(file[o]) /\ file[o] # <<>>
      BY <3>2
    <3>. QED  BY <3>3
  <2>5. Creating => \A o \in NewIds \cap objects \cap TreeIds(Saved) : cache'[o][1] # Zeroed /\ file'[o][1] # Zeroed
    <3> SUFFICES ASSUME Creating, NEW o \in NewIds \cap objects \cap TreeIds(Saved)
                 PROVE  cache'[o][1] # Zeroed /\ file'[o][1] # Zeroed
      OBVIOUS
    <3>1. cache[o][1] # Zeroed /\ file[o][1] # Zeroed /\ o \in ObjectId
      BY <1>4 DEF StructInv, PagesInv
    <3>. QED  BY <2>4, <3>1
  <2>6. ASSUME NEW o \in TreeIds(Saved)
        PROVE  /\ file'[o] # <<>> => file'[o][1] \in HeaderSet(Len(file'[o]))
               /\ o \in objects => cache'[o] # <<>> /\ cache'[o][1] \in HeaderSet(Len(file'[o]))
               /\ \A k \in DOMAIN wal : \A r \in wal[k].updates :
                     r.object = o /\ r.page = 1 => r.image \in HeaderSet(Len(file'[o]))
    <3>1. HeaderSet(Len(file[o])) \subseteq HeaderSet(Len(file'[o]))
      BY <1>3, <1>5, <2>0
    <3>2. \A k \in DOMAIN wal : \A r \in wal[k].updates :
                     r.object = o /\ r.page = 1 => r.image \in HeaderSet(Len(file'[o]))
      BY <3>1 DEF StructInv, PagesInv
    <3>3. CASE o \in T
      <4>1. file[o][1] \in HeaderSet(Len(file[o]))
        BY <2>4, <3>3 DEF StructInv, PagesInv
      <4>2. cache'[o] # <<>> /\ cache'[o][1] \in HeaderSet(Len(cache'[o])) /\ Len(file'[o]) = Len(cache'[o])
        BY <3>3
      <4>. QED  BY <2>4, <3>1, <3>2, <3>3, <4>1, <4>2
    <3>4. CASE o \notin T
      BY <2>0, <3>2, <3>4 DEF StructInv, PagesInv
    <3>. QED  BY <3>3, <3>4
  <2>7. At("header") => LET o == call.todo[1].id IN  file'[o] = <<Zeroed>> /\ cache'[o] = <<{NoRoot}>>
    BY HeaderIsApart DEF StructInv, PagesInv
  <2>. QED  BY <1>1, <1>2, <2>1, <2>2, <2>3, <2>5, <2>6, <2>7 DEF PagesInv
<1>9. SavedInv'
  BY <1>1 DEF StructInv, SavedInv
<1>10. AckedInv'
  <2>1. AckedIds' = AckedIds
    BY DEF AckedIds
  <2>. QED  BY <1>1, <1>2, <2>1 DEF StructInv, AckedInv
<1>. QED  BY <1>7, <1>8, <1>9, <1>10 DEF StructInv

\* What an attached object of the catalog is.
LEMMA Kinds ==
    ASSUME StructInv, Running
    PROVE  /\ \A o \in objects : o \in TreeIds(catalog) => o \in TreeIds(Saved)
           /\ \A o \in objects : o \in HeapIds(catalog) => o \in HeapIds(Saved)
           /\ HeapIds(catalog) \cap TreeIds(catalog) = {} /\ HeapIds(Saved) \cap TreeIds(Saved) = {}
           /\ Ids(Saved) \subseteq Ids(catalog)
<1>1. Includes(catalog, Saved) /\ CatalogOK(catalog) /\ CatalogOK(Saved) /\ objects \subseteq Ids(Saved)
  BY SavedOK DEF StructInv, ListedInv, Typed
<1>2. \A c : CatalogOK(c) => HeapIds(c) \cap TreeIds(c) = {}
  BY DEF CatalogOK, HeapIds, TreeIds
<1>3. HeapIds(Saved) \subseteq HeapIds(catalog) /\ TreeIds(Saved) \subseteq TreeIds(catalog) /\ Ids(Saved) \subseteq Ids(catalog)
  BY <1>1, IncludesFacts
<1>4. Ids(Saved) = HeapIds(Saved) \cup TreeIds(Saved)
  BY DEF Ids
<1>. QED  BY <1>1, <1>2, <1>3, <1>4

\* The table that is found by name, its heap file and its indexes.
LEMMA TableFacts ==
    ASSUME CatalogOK(catalog), NEW name, FindTable(catalog, name) # <<>>
    PROVE  \E t \in Tables(catalog) :
               /\ t.name = name /\ Heap(name) = t.heap_object_id /\ Heap(name) \in HeapIds(catalog)
               /\ IndexesOf(name) = {i.object_id : i \in {i \in Indexes(catalog) : i.table_name = name}}
               /\ IndexesOf(name) \subseteq TreeIds(catalog)
<1>1. PICK t \in Tables(catalog) : t.name = name
  BY Lookups
<1>2. FindTable(catalog, name) = <<t>>
  BY <1>1, Lookups
<1>3. Heap(name) = t.heap_object_id
  BY <1>2 DEF Heap
<1>4. ToSet(IndexesOnTable(catalog, name)) = {i \in Indexes(catalog) : i.table_name = name}
  BY CatalogFields, IndexesOnTableFacts DEF CatalogOK
<1>5. IndexesOf(name) = {i.object_id : i \in {i \in Indexes(catalog) : i.table_name = name}}
  BY <1>4 DEF IndexesOf
<1>. QED  BY <1>1, <1>3, <1>5 DEF HeapIds, TreeIds

\* What an INSERT does to the objects of its table.
Written(T) == [T -> [pages : Seq(PageContent), changed : SUBSET Nat]]
Inserted(T, W, h, I, name, r) ==
    /\ T = {h} \cup I /\ h \in HeapIds(Saved) /\ I \subseteq TreeIds(Saved)
    /\ W[h] = HeapWith(cache[h], {r})
    /\ \A o \in I : W[o] = TreeWith(cache[o], {r}) /\ cache[o][1] # Zeroed
    /\ \A o \in T : Wrote(W[o], cache[o])
    /\ \A o \in I :
          /\ TreeRows(W[o].pages) = TreeRows(cache[o]) \cup {r}
          /\ W[o].pages # <<>> /\ W[o].pages[1] \in HeaderSet(Len(W[o].pages)) /\ W[o].pages[1] # Zeroed
    /\ cache' = [o \in ObjectId |-> IF o \in T THEN W[o].pages ELSE cache[o]]
    /\ dirty' = [o \in ObjectId |-> IF o \in T THEN dirty[o] \cup W[o].changed ELSE dirty[o]]
    /\ file' = [o \in ObjectId |-> IF o \in T THEN Grown(file[o], W[o].pages) ELSE file[o]]
    /\ txn' = [txn EXCEPT !.dirtied = @ \cup UNION {{o} \X W[o].changed : o \in T \cap txn.observed},
                          !.added = @ \cup {<<name, r>>}]
    /\ Running /\ txn.state = "active"

LEMMA InsertFacts ==
    ASSUME StructInv, NEW name \in TableName, NEW r \in Row, Insert(name, r)
    PROVE  \E T \in SUBSET objects : \E W \in Written(T) :
               Inserted(T, W, Heap(name), IndexesOf(name), name, r)
<1> DEFINE h == Heap(name)
           I == IndexesOf(name)
           T == {h} \cup I
           A(o) == IF o = h THEN HeapWith(cache[o], {r}) ELSE TreeWith(cache[o], {r})
           W == [o \in T |-> A(o)]
<1>1. /\ txn.state = "active" /\ FindTable(catalog, name) # <<>> /\ h \in objects
      /\ \A o \in I : o \in objects /\ Readable(o)
      /\ cache' = [o \in ObjectId |-> IF o \in T THEN A(o).pages ELSE cache[o]]
      /\ dirty' = [o \in ObjectId |-> IF o \in T THEN dirty[o] \cup A(o).changed ELSE dirty[o]]
      /\ file' = [o \in ObjectId |-> IF o \in T THEN Grown(file[o], A(o).pages) ELSE file[o]]
      /\ txn' = [txn EXCEPT !.dirtied = @ \cup UNION {{o} \X A(o).changed : o \in T \cap txn.observed},
                            !.added = @ \cup {<<name, r>>}]
  BY DEF Insert
<1>2. Running
  BY <1>1 DEF StructInv, ControlInv, Typed, Running, NoTxn, At
<1>3. h \in HeapIds(catalog) /\ I \subseteq TreeIds(catalog)
  BY <1>1, TableFacts DEF StructInv, Typed
<1>4. h \in HeapIds(Saved) /\ I \subseteq TreeIds(Saved) /\ h \notin I
  BY <1>1, <1>2, <1>3, Kinds
<1>5. {r} \in SUBSET Row
  OBVIOUS
<1>6. T \in SUBSET objects /\ \A o \in T : o \in ObjectId /\ cache[o] \in Seq(PageContent)
  <2>1. T \in SUBSET objects
    BY <1>1
  <2>. QED  BY <2>1, DirtiedPages
<1> DEFINE R == [pages : Seq(PageContent), changed : SUBSET Nat]
<1>7. \A o \in ObjectId : HeapWith(cache[o], {r}) = [pages |-> HeapWith(cache[o], {r}).pages, changed |-> HeapWith(cache[o], {r}).changed]
  BY DEF HeapWith
<1>8. \A o \in ObjectId : TreeWith(cache[o], {r}) = [pages |-> TreeWith(cache[o], {r}).pages, changed |-> TreeWith(cache[o], {r}).changed]
  BY DEF TreeWith
<1>9. \A w, s : Wrote(w, s) => w.pages \in Seq(PageContent) /\ w.changed \in SUBSET Nat
  <2>1. \A n : 1..n \subseteq Nat
    OBVIOUS
  <2>. QED  BY <2>1 DEF Wrote
<1>10. A(h) = HeapWith(cache[h], {r}) /\ Wrote(A(h), cache[h]) /\ A(h) \in R
  <2> DEFINE w == HeapWith(cache[h], {r})
  <2>1. Wrote(w, cache[h])
    BY <1>5, <1>6, HeapWithFacts
  <2>2. w = [pages |-> w.pages, changed |-> w.changed]
    BY <1>6, <1>7
  <2>3. A(h) = w
    OBVIOUS
  <2> HIDE DEF w, A
  <2>4. w.pages \in Seq(PageContent) /\ w.changed \in SUBSET Nat
    BY <1>9, <2>1
  <2>5. w \in R
    BY <2>2, <2>4
  <2>. QED  BY <2>1, <2>3, <2>5 DEF w
<1>11. ASSUME NEW o \in I
       PROVE  /\ A(o) = TreeWith(cache[o], {r}) /\ cache[o][1] # Zeroed /\ A(o) \in R /\ Wrote(A(o), cache[o])
              /\ TreeRows(A(o).pages) = TreeRows(cache[o]) \cup {r}
              /\ A(o).pages # <<>> /\ A(o).pages[1] \in HeaderSet(Len(A(o).pages)) /\ A(o).pages[1] # Zeroed
  <2> DEFINE w == TreeWith(cache[o], {r})
  <2>1. /\ o \in ObjectId /\ cache[o] \in Seq(PageContent) /\ cache[o][1] # Zeroed
        /\ cache[o] # <<>> /\ cache[o][1] \in HeaderSet(Len(cache[o]))
    <3>1. o \in objects /\ o \in TreeIds(Saved) /\ cache[o][1] # Zeroed
      BY <1>1, <1>4 DEF Readable, Header
    <3>2. Len(cache[o]) = Len(file[o]) /\ o \in ObjectId /\ cache[o] \in Seq(PageContent)
      BY <3>1, DirtiedPages
    <3>. QED  BY <3>1, <3>2 DEF StructInv, PagesInv
  <2>2. /\ Wrote(w, cache[o]) /\ TreeRows(w.pages) = TreeRows(cache[o]) \cup {r}
        /\ w.pages # <<>> /\ w.pages[1] \in HeaderSet(Len(w.pages)) /\ w.pages[1] # Zeroed
    BY <1>5, <2>1, TreeWithFacts
  <2>3. A(o) = w
    BY <1>4
  <2>4. w = [pages |-> w.pages, changed |-> w.changed]
    BY <1>8, <2>1
  <2> HIDE DEF w, A
  <2>5. w.pages \in Seq(PageContent) /\ w.changed \in SUBSET Nat
    BY <1>9, <2>2
  <2>6. w \in R
    BY <2>4, <2>5
  <2>. QED  BY <2>1, <2>2, <2>3, <2>6 DEF w
<1> HIDE DEF A, h, I, R
<1>12. W \in [T -> R] /\ \A o \in T : W[o] = A(o)
  BY <1>10, <1>11
<1> HIDE DEF W, T
<1>13. /\ cache' = [o \in ObjectId |-> IF o \in T THEN W[o].pages ELSE cache[o]]
       /\ dirty' = [o \in ObjectId |-> IF o \in T THEN dirty[o] \cup W[o].changed ELSE dirty[o]]
       /\ file' = [o \in ObjectId |-> IF o \in T THEN Grown(file[o], W[o].pages) ELSE file[o]]
  BY <1>1, <1>12
<1>14. txn' = [txn EXCEPT !.dirtied = @ \cup UNION {{o} \X W[o].changed : o \in T \cap txn.observed},
                            !.added = @ \cup {<<name, r>>}]
  <2>1. {{o} \X A(o).changed : o \in T \cap txn.observed} = {{o} \X W[o].changed : o \in T \cap txn.observed}
    BY <1>12
  <2>. QED  BY <1>1, <2>1
<1>15. h \in T /\ I \subseteq T
  BY DEF T
<1>16. /\ W[h] = HeapWith(cache[h], {r})
       /\ \A o \in I : W[o] = TreeWith(cache[o], {r}) /\ cache[o][1] # Zeroed
       /\ \A o \in T : Wrote(W[o], cache[o])
       /\ \A o \in I : /\ TreeRows(W[o].pages) = TreeRows(cache[o]) \cup {r}
                       /\ W[o].pages # <<>> /\ W[o].pages[1] \in HeaderSet(Len(W[o].pages)) /\ W[o].pages[1] # Zeroed
  <2>1. \A o \in T : o = h \/ o \in I
    BY DEF T
  <2>. QED  BY <1>10, <1>11, <1>12, <1>15, <2>1
<1>17. T \in SUBSET objects /\ T = {h} \cup I /\ W \in Written(T)
  BY <1>6, <1>12 DEF T, Written, R
<1>18. Inserted(T, W, h, I, name, r)
  BY <1>1, <1>2, <1>4, <1>13, <1>14, <1>16, <1>17 DEF Inserted
<1>. QED  BY <1>17, <1>18 DEF h, I

LEMMA InsertStruct ==
    ASSUME StructInv, NEW name \in TableName, NEW r \in Row, Insert(name, r)
    PROVE  StructInv'
<1>0. UNCHANGED <<catalog, metadata, objects, wal, call, failures, rows, acked>>
  BY DEF Insert, catalogvars, bounds
<1>1. PICK T \in SUBSET objects : \E W \in Written(T) : Inserted(T, W, Heap(name), IndexesOf(name), name, r)
  BY InsertFacts
<1>2. PICK W \in Written(T) : Inserted(T, W, Heap(name), IndexesOf(name), name, r)
  BY <1>1
<1> USE DEF Inserted, Written
<1>3. ASSUME NEW o \in T
      PROVE  /\ o \in ObjectId /\ W[o].pages \in Seq(PageContent) /\ W[o].changed \in SUBSET Nat
             /\ W[o].changed \subseteq 1..Len(W[o].pages) /\ Len(file[o]) <= Len(W[o].pages)
             /\ Grown(file[o], W[o].pages) \in Seq(PageContent) /\ Len(Grown(file[o], W[o].pages)) = Len(W[o].pages)
             /\ \A p \in 1..Len(file[o]) : Grown(file[o], W[o].pages)[p] = file[o][p]
  <2>1. o \in ObjectId /\ file[o] \in Seq(PageContent) /\ Len(cache[o]) = Len(file[o])
    BY DirtiedPages
  <2>2. Wrote(W[o], cache[o])
    BY <1>2
  <2>3. W[o].pages \in Seq(PageContent) /\ Len(file[o]) <= Len(W[o].pages) /\ W[o].changed \subseteq 1..Len(W[o].pages)
    BY <2>1, <2>2 DEF Wrote
  <2> DEFINE to == W[o].pages
  <2> HIDE DEF to
  <2>4. Grown(file[o], to) \in Seq(PageContent) /\ Len(Grown(file[o], to)) = Len(to)
        /\ \A p \in 1..Len(file[o]) : Grown(file[o], to)[p] = file[o][p]
    BY <2>1, <2>3, GrownFacts DEF to
  <2>5. W[o].changed \in SUBSET Nat
    BY <1>2
  <2>. QED  BY <2>1, <2>3, <2>4, <2>5 DEF to
<1> DEFINE new == UNION {{o} \X W[o].changed : o \in T \cap txn.observed}
<1>4. /\ txn'.observed = txn.observed /\ txn'.dirtied = txn.dirtied \cup new /\ txn'.state = "active"
      /\ txn' = [state |-> "active", observed |-> txn.observed, dirtied |-> txn.dirtied \cup new,
                 added |-> txn.added \cup {<<name, r>>}]
  <2> HIDE DEF new
  <2>1. txn' = [txn EXCEPT !.dirtied = @ \cup new, !.added = @ \cup {<<name, r>>}] /\ txn.state = "active"
    BY <1>2 DEF new
  <2>. QED  BY <2>1 DEF StructInv, Typed
<1>5. \A d \in new : d[1] \in T /\ d[2] \in W[d[1]].changed /\ d \in ObjectId \X Nat
  BY <1>3
<1> HIDE DEF new
<1>6. /\ \A o \in ObjectId \ T : file'[o] = file[o] /\ cache'[o] = cache[o]
      /\ \A o \in T : file'[o] = Grown(file[o], W[o].pages) /\ cache'[o] = W[o].pages
  BY <1>2, <1>3
<1>7. /\ file' \in [ObjectId -> Seq(PageContent)] /\ cache' \in [ObjectId -> Seq(PageContent)]
      /\ dirty' \in [ObjectId -> SUBSET Nat]
  <2>1. \A o \in ObjectId : file[o] \in Seq(PageContent) /\ cache[o] \in Seq(PageContent) /\ dirty[o] \in SUBSET Nat
    BY DEF StructInv, Typed
  <2>. QED  BY <1>2, <1>3, <2>1
<1>8. Typed'
  <2>1. txn' \in [state : {"none", "active", "committing", "logged"}, observed : SUBSET ObjectId,
                dirtied : SUBSET (ObjectId \X Nat), added : SUBSET (TableName \X Row)]
    <3>1. txn.observed \in SUBSET ObjectId /\ txn.dirtied \in SUBSET (ObjectId \X Nat) /\ txn.added \in SUBSET (TableName \X Row)
      BY DEF StructInv, Typed
    <3>2. txn.dirtied \cup new \in SUBSET (ObjectId \X Nat) /\ txn.added \cup {<<name, r>>} \in SUBSET (TableName \X Row)
      BY <1>5, <3>1
    <3>. QED  BY <1>4, <3>1, <3>2
  <2>. QED  BY <1>0, <1>7, <2>1 DEF StructInv, Typed
<1>9. call.of.kind # "open" /\ ~At("down")
  BY <1>2 DEF StructInv, ControlInv, NoTxn
<1>10. ControlInv'
  BY <1>0, <1>4, <1>9 DEF StructInv, ControlInv, At
<1>11. At("header") => call.todo[1].id \notin T
  <2> SUFFICES ASSUME At("header") PROVE call.todo[1].id \notin objects
    OBVIOUS
  <2>1. Creating
    BY <1>9 DEF StructInv, ControlInv, Typed, Creating, At
  <2>2. 1 \in DOMAIN call.todo
    BY HeaderIsApart
  <2>3. call.todo[1].id \in TodoIds
    BY <2>2, TodoFacts DEF StructInv
  <2>. QED  BY <2>1, <2>3 DEF StructInv, ListedInv
<1>12. \A d \in txn'.dirtied : d \in txn.dirtied \/ (d[1] \in T /\ d[2] \in 1..Len(file'[d[1]]))
  <2>1. \A d \in new : d[1] \in T /\ d[2] \in 1..Len(file'[d[1]])
    BY <1>3, <1>5, <1>6
  <2>. QED  BY <1>4, <2>1
<1>13. \A o \in T : /\ Len(file'[o]) = Len(cache'[o]) /\ Len(file[o]) <= Len(file'[o])
                    /\ \A p \in 1..Len(file[o]) : file'[o][p] = file[o][p]
  BY <1>3, <1>6
<1>14. \A o \in T \cap TreeIds(Saved) :
              cache'[o] # <<>> /\ cache'[o][1] \in HeaderSet(Len(cache'[o])) /\ cache'[o][1] # Zeroed
  <2>1. \A o \in T \cap TreeIds(Saved) : o \in IndexesOf(name)
    BY <1>2, Kinds
  <2>2. \A o \in IndexesOf(name) : o \in T /\ cache'[o] = W[o].pages
    BY <1>2, <1>6
  <2>. QED  BY <1>2, <2>1, <2>2
<1>15. Running /\ Running' /\ call'.todo = call.todo /\ call'.of = call.of /\ call' = call /\ At("header")' = At("header")
  BY <1>0, <1>2 DEF Running, At
<1>16. WritesTo(T)
  BY <1>6, <1>11, <1>12, <1>13, <1>14 DEF WritesTo
<1>. QED  BY <1>0, <1>4, <1>8, <1>10, <1>15, <1>16, WriteStruct

LEMMA PopulateStruct ==
    ASSUME StructInv, Populate
    PROVE  StructInv'
<1> DEFINE o == Created.object_id
           new == RowsIn(cache[Heap(Created.table_name)])
           W == TreeWith(cache[o], new)
<1>0. /\ UNCHANGED <<catalog, metadata, objects, wal, txn, failures, rows, acked>>
      /\ call.at = "attach" /\ call.todo = <<>> /\ call.of.kind = "index"
      /\ cache' = [cache EXCEPT ![o] = W.pages] /\ dirty' = [dirty EXCEPT ![o] = W.changed]
      /\ file' = [file EXCEPT ![o] = Grown(@, W.pages)]
      /\ call' = [call EXCEPT !.at = "flush"]
  BY DEF Populate, catalogvars, bounds, At, Backfill
<1>1. Running /\ Creating /\ TodoIds = {} /\ ~At("header")
  BY <1>0 DEF Running, Creating, TodoIds, ToSet, At
<1>2. o \in ObjectId /\ o \in objects /\ o \in TreeIds(Saved) /\ o \in NewIds
  <2>1. NewIds = {o} /\ o \in ObjectId /\ o \in TreeIds(Saved)
    BY <1>0, <1>1, CreatedFacts
  <2>. QED  BY <1>1, <2>1 DEF StructInv, ListedInv
<1>3. /\ cache[o] \in Seq(PageContent) /\ file[o] \in Seq(PageContent) /\ Len(cache[o]) = Len(file[o])
      /\ cache[o] # <<>> /\ cache[o][1] \in HeaderSet(Len(cache[o])) /\ cache[o][1] # Zeroed
  <2> HIDE DEF o
  <2>1. cache[o] \in Seq(PageContent) /\ file[o] \in Seq(PageContent) /\ Len(cache[o]) = Len(file[o])
    BY <1>2, DirtiedPages
  <2>. QED  BY <1>1, <1>2, <2>1 DEF StructInv, PagesInv
<1>4. new \in SUBSET Row
  BY DEF RowsIn
<1>5. /\ Wrote(W, cache[o]) /\ W.pages # <<>> /\ W.pages[1] \in HeaderSet(Len(W.pages)) /\ W.pages[1] # Zeroed
  <2> HIDE DEF o, new
  <2>. QED  BY <1>3, <1>4, TreeWithFacts
<1> HIDE DEF W, new, o
<1>6. W.pages \in Seq(PageContent) /\ W.changed \subseteq 1..Len(W.pages) /\ Len(file[o]) <= Len(W.pages) /\ W.changed \in SUBSET Nat
  <2>1. W.pages \in Seq(PageContent) /\ W.changed \subseteq 1..Len(W.pages) /\ Len(file[o]) <= Len(W.pages)
    BY <1>3, <1>5 DEF Wrote
  <2>. QED  BY <2>1
<1> DEFINE g == Grown(file[o], W.pages)
<1>7. g \in Seq(PageContent) /\ Len(g) = Len(W.pages) /\ \A p \in 1..Len(file[o]) : g[p] = file[o][p]
  <2> DEFINE to == W.pages
  <2> HIDE DEF to
  <2>1. Grown(file[o], to) \in Seq(PageContent) /\ Len(Grown(file[o], to)) = Len(to)
        /\ \A p \in 1..Len(file[o]) : Grown(file[o], to)[p] = file[o][p]
    BY <1>3, <1>6, GrownFacts DEF to
  <2>. QED  BY <2>1 DEF to
<1>8. /\ file' \in [ObjectId -> Seq(PageContent)] /\ cache' \in [ObjectId -> Seq(PageContent)]
      /\ dirty' \in [ObjectId -> SUBSET Nat]
      /\ \A x \in ObjectId \ {o} : file'[x] = file[x] /\ cache'[x] = cache[x]
      /\ file'[o] = g /\ cache'[o] = W.pages
  <2> HIDE DEF g
  <2>1. file' = [file EXCEPT ![o] = g]
    BY <1>0 DEF g
  <2>. QED  BY <1>0, <1>2, <1>6, <1>7, <2>1 DEF StructInv, Typed
<1> HIDE DEF g
<1>9. /\ call' = [at |-> "flush", todo |-> call.todo, of |-> call.of] /\ call'.at = "flush"
      /\ call'.todo = call.todo /\ call'.of = call.of
  BY <1>0 DEF StructInv, Typed
<1>10. Typed'
  <2>1. call' \in [at : {"idle", "attach", "header", "flush", "down"}, todo : Seq(Todo),
                 of : [kind : {"none", "table", "index", "open"}, name : AnyName \cup {NoColumn}]]
    BY <1>9 DEF StructInv, Typed
  <2>. QED  BY <1>0, <1>8, <2>1 DEF StructInv, Typed
<1>11. ControlInv' /\ Running' /\ ~At("header")'
  BY <1>0, <1>9 DEF StructInv, ControlInv, At, Running
<1>12. \A x \in {o} : /\ Len(file'[x]) = Len(cache'[x]) /\ Len(file[x]) <= Len(file'[x])
                        /\ \A p \in 1..Len(file[x]) : file'[x][p] = file[x][p]
  BY <1>6, <1>7, <1>8
<1>13. \A x \in {o} \cap TreeIds(Saved) :
              cache'[x] # <<>> /\ cache'[x][1] \in HeaderSet(Len(cache'[x])) /\ cache'[x][1] # Zeroed
  BY <1>5, <1>8
<1>14. {o} \subseteq objects /\ (call'.at # "idle" => call.at # "idle")
  BY <1>0, <1>2
<1> DEFINE T == {o}
<1>15. WritesTo(T)
  BY <1>0, <1>1, <1>8, <1>12, <1>13, <1>14 DEF WritesTo
<1> HIDE DEF T
<1>16. At("header")' = At("header")
  BY <1>0, <1>9 DEF At
<1>. QED  BY <1>0, <1>1, <1>9, <1>10, <1>11, <1>14, <1>15, <1>16, WriteStruct

-----------------------------------------------------------------------------
\* The image that recovery writes last is the one of the last record of the
\* page.
LEMMA ReplayedFacts ==
    ASSUME Typed, NEW o, NEW p
    PROVE  \/ /\ \A n \in DOMAIN wal : \A r \in Redo(n) : ~(r.object = o /\ r.page = p)
              /\ Replayed(o, p) = file[o][p]
           \/ \E n \in DOMAIN wal : \E r \in Redo(n) :
                 /\ r.object = o /\ r.page = p /\ Replayed(o, p) = r.image
                 /\ \A k \in DOMAIN wal : k > n => \A q \in Redo(k) : ~(q.object = o /\ q.page = p)
<1> DEFINE Rec(i) == {r \in Redo(i) : r.object = o /\ r.page = p}
           hits == {i \in DOMAIN wal : Rec(i) # {}}
<1>1. Replayed(o, p) = IF hits = {} THEN file[o][p] ELSE (CHOOSE r \in Rec(Max(hits)) : TRUE).image
  BY DEF Replayed
<1>2. CASE hits = {}
  BY <1>1, <1>2
<1>3. CASE hits # {}
  <2>1. Len(wal) \in Nat /\ DOMAIN wal = 1..Len(wal)
    BY LenProperties DEF Typed
  <2>2. hits \in SUBSET (0..Len(wal)) /\ hits \subseteq DOMAIN wal
    BY <2>1
  <2>3. \A k \in DOMAIN wal : k \notin hits => \A q \in Redo(k) : ~(q.object = o /\ q.page = p)
    OBVIOUS
  <2>4. \A i \in hits : Rec(i) # {}
    OBVIOUS
  <2> HIDE DEF hits, Rec
  <2>5. \E n \in hits : \A m \in hits : m <= n
    BY <1>3, <2>1, <2>2, GreatestNatural
  <2>6. \E n \in hits : \A m \in hits : n >= m
    BY <2>1, <2>2, <2>5
  <2>7. Max(hits) \in hits /\ \A m \in hits : Max(hits) >= m
    BY <2>6 DEF Max
  <2> DEFINE n == Max(hits)
             r == CHOOSE r \in Rec(n) : TRUE
  <2>8. r \in Rec(n) /\ Replayed(o, p) = r.image
    BY <1>1, <1>3, <2>4, <2>7
  <2>9. \A k \in DOMAIN wal : k > n => k \notin hits
    <3> HIDE DEF n
    <3>1. n \in hits /\ \A m \in hits : n >= m
      BY <2>7 DEF n
    <3>. QED  BY <2>1, <2>2, <3>1
  <2>10. n \in DOMAIN wal
    BY <2>2, <2>7
  <2> HIDE DEF n, r
  <2>11. r \in Redo(n) /\ r.object = o /\ r.page = p
    BY <2>8 DEF Rec
  <2>. QED  BY <2>3, <2>8, <2>9, <2>10, <2>11
<1>. QED  BY <1>2, <1>3

\* The objects of a catalog and what kind each of them is.
LEMMA ObjectsToOpenFacts ==
    ASSUME NEW c, CatalogOK(c)
    PROVE  LET known == ObjectsToOpen(c)
           IN  /\ known \in Seq(Todo) /\ {x.id : x \in ToSet(known)} = Ids(c)
               /\ \A x \in ToSet(known) : x.kind = "index" <=> x.id \in TreeIds(c)
<1>0. c \in CatalogSet
  BY DEF CatalogOK
<1>1. /\ DOMAIN c.tables = 1..Len(c.tables) /\ Len(c.tables) \in Nat /\ Tables(c) \subseteq TableInfo
      /\ DOMAIN c.indexes = 1..Len(c.indexes) /\ Len(c.indexes) \in Nat /\ Indexes(c) \subseteq IndexSet
      /\ Tables(c) = {c.tables[i] : i \in DOMAIN c.tables} /\ Indexes(c) = {c.indexes[i] : i \in DOMAIN c.indexes}
  BY <1>0, CatalogFields DEF Tables, Indexes, ToSet
<1> DEFINE H == [i \in DOMAIN c.tables |-> Object(c.tables[i].heap_object_id, "heap")]
           T == [i \in DOMAIN c.indexes |-> Object(c.indexes[i].object_id, "index")]
<1>2. \A i \in DOMAIN c.tables : H[i] \in Todo /\ H[i].id = c.tables[i].heap_object_id /\ H[i].kind = "heap"
  BY <1>1 DEF Object, Todo, TableInfo
<1>3. \A i \in DOMAIN c.indexes : T[i] \in Todo /\ T[i].id = c.indexes[i].object_id /\ T[i].kind = "index"
  BY <1>1 DEF Object, Todo, IndexSet
<1>4. H \in Seq(Todo) /\ DOMAIN H = DOMAIN c.tables
  <2>1. H \in [1..Len(c.tables) -> Todo]
    BY <1>1, <1>2
  <2>. QED  BY <1>1, <2>1, SeqDef
<1>5. T \in Seq(Todo) /\ DOMAIN T = DOMAIN c.indexes
  <2>1. T \in [1..Len(c.indexes) -> Todo]
    BY <1>1, <1>3
  <2>. QED  BY <1>1, <2>1, SeqDef
<1>6. ObjectsToOpen(c) = H \o T
  BY DEF ObjectsToOpen
<1> HIDE DEF H, T
<1>7. H \o T \in Seq(Todo) /\ ToSet(H \o T) = ToSet(H) \cup ToSet(T)
  BY <1>4, <1>5, ConcatToSet
<1>8. /\ \A x \in ToSet(H) : x.kind = "heap" /\ x.id \in HeapIds(c)
      /\ \A o \in HeapIds(c) : \E x \in ToSet(H) : x.id = o
  BY <1>1, <1>2, <1>4 DEF ToSet, HeapIds
<1>9. /\ \A x \in ToSet(T) : x.kind = "index" /\ x.id \in TreeIds(c)
      /\ \A o \in TreeIds(c) : \E x \in ToSet(T) : x.id = o
  BY <1>1, <1>3, <1>5 DEF ToSet, TreeIds
<1>10. HeapIds(c) \cap TreeIds(c) = {}
  BY DEF CatalogOK, HeapIds, TreeIds
<1>11. {x.id : x \in ToSet(H) \cup ToSet(T)} = Ids(c)
  BY <1>8, <1>9 DEF Ids
<1>. QED  BY <1>6, <1>7, <1>8, <1>9, <1>10, <1>11

LEMMA OpenStruct ==
    ASSUME StructInv, Open
    PROVE  StructInv'
<1> DEFINE known == ObjectsToOpen(Saved)
           R(o) == [p \in DOMAIN file[o] |-> Replayed(o, p)]
<1>0. /\ UNCHANGED <<metadata, objects, cache, dirty, wal, txn, failures, rows, acked>> /\ At("down") /\ catalog' = Saved
  BY DEF Open, bounds, Saved
<1>1. Saved' = Saved
  BY <1>0, SavedSame
<1>2. CatalogOK(Saved)
  BY SavedOK DEF StructInv
<1>3. /\ known \in Seq(Todo) /\ {x.id : x \in ToSet(known)} = Ids(Saved)
      /\ \A x \in ToSet(known) : x.kind = "index" <=> x.id \in TreeIds(Saved)
  BY <1>2, ObjectsToOpenFacts
<1> HIDE DEF known
<1>4. \A n \in DOMAIN wal : \A r \in Redo(n) : Replayable(r, known)
  <2> TAKE n \in DOMAIN wal
  <2> TAKE r \in Redo(n)
  <2>1. r \in wal[n].updates
    BY WalFacts DEF StructInv
  <2>2. r.object \in Ids(Saved) /\ r.page <= Len(file[r.object])
    BY <2>1 DEF StructInv, ListedInv, PagesInv
  <2>3. \E i \in DOMAIN known : known[i].id = r.object
    BY <1>3, <2>2 DEF ToSet
  <2>. QED  BY <2>2, <2>3 DEF Replayable
<1>5. /\ file' = [o \in ObjectId |-> R(o)]
      /\ call' = [at |-> "attach", todo |-> known, of |-> [kind |-> "open", name |-> NoColumn]]
  <2>1. ObjectsToOpen(catalog') = known
    BY <1>0 DEF known
  <2>. QED  BY <1>4, <2>1 DEF Open
<1>6. call'.at = "attach" /\ call'.todo = known /\ call'.of.kind = "open"
  BY <1>5
<1>7. TodoIds' = Ids(Saved) /\ ~Creating' /\ Running' /\ ~At("header")' /\ ~At("flush")' /\ ~At("down")' /\ ~At("idle")'
  BY <1>3, <1>6 DEF TodoIds, Creating, Running, At
<1>8. objects = {} /\ txn = NoTxn /\ txn.observed = {} /\ txn.dirtied = {}
  BY <1>0 DEF StructInv, ControlInv, NoTxn
<1>9. \A n \in DOMAIN wal : Redo(n) \subseteq wal[n].updates /\ \A r \in wal[n].updates : r \in Update
  BY WalFacts DEF StructInv
<1>10. ASSUME NEW o \in ObjectId
       PROVE  file'[o] \in Seq(PageContent) /\ Len(file'[o]) = Len(file[o])
  <2>1. file[o] \in Seq(PageContent) /\ \A p \in DOMAIN file[o] : file[o][p] \in PageContent
    BY ObjectPages DEF StructInv
  <2>2. \A p \in DOMAIN file[o] : Replayed(o, p) \in PageContent
    <3> TAKE p \in DOMAIN file[o]
    <3>1. Replayed(o, p) = file[o][p] \/ \E n \in DOMAIN wal : \E r \in wal[n].updates : Replayed(o, p) = r.image
      BY <1>9, ReplayedFacts DEF StructInv
    <3>. QED  BY <1>9, <2>1, <3>1 DEF Update
  <2>3. SameShape(R(o), file[o])
    BY <2>2 DEF SameShape
  <2>4. file'[o] = R(o)
    BY <1>5
  <2> HIDE DEF R
  <2>. QED  BY <2>1, <2>3, <2>4, Overwritten
<1>11. file' \in [ObjectId -> Seq(PageContent)]
  <2>1. file' = [o \in ObjectId |-> file'[o]]
    BY <1>5
  <2>. QED  BY <1>10, <2>1
<1>12. Typed'
  <2>1. call' \in [at : {"idle", "attach", "header", "flush", "down"}, todo : Seq(Todo),
                 of : [kind : {"none", "table", "index", "open"}, name : AnyName \cup {NoColumn}]]
    BY <1>3, <1>5
  <2>. QED  BY <1>0, <1>2, <1>11, <2>1 DEF StructInv, Typed
<1>13. ControlInv'
  BY <1>0, <1>6, <1>7, <1>8 DEF ControlInv, NoTxn
<1>14. \A o \in ObjectId : file'[o] = <<>> <=> file[o] = <<>>
  BY <1>10, EmptySeq DEF StructInv, Typed
<1>15. ListedInv'
  <2>1. Includes(Saved, Saved)
    BY <1>2, CatalogFields DEF Includes, CatalogOK
  <2>2. \A o \in ObjectId : file'[o] # <<>> => o \in Ids(Saved)
    BY <1>14 DEF StructInv, ListedInv
  <2>. QED  BY <1>0, <1>1, <1>3, <1>6, <1>7, <1>8, <2>1, <2>2 DEF StructInv, ListedInv
<1>16. PagesInv'
  <2>0. \A o \in TreeIds(Saved) : o \in ObjectId
    BY <1>2, CatalogFields DEF TreeIds, IndexSet, CatalogOK
  <2>1. \A n \in DOMAIN wal : \A r \in wal[n].updates : r.page <= Len(file'[r.object])
    BY <1>9, <1>10 DEF StructInv, PagesInv, Update
  <2>2. ASSUME NEW o \in TreeIds(Saved)
        PROVE  /\ file'[o] # <<>> => file'[o][1] \in HeaderSet(Len(file'[o]))
               /\ \A n \in DOMAIN wal : \A r \in wal[n].updates :
                     r.object = o /\ r.page = 1 => r.image \in HeaderSet(Len(file'[o]))
    <3>1. Len(file'[o]) = Len(file[o]) /\ o \in ObjectId
      BY <1>10, <2>0
    <3>2. \A n \in DOMAIN wal : \A r \in wal[n].updates :
                     r.object = o /\ r.page = 1 => r.image \in HeaderSet(Len(file'[o]))
      BY <3>1 DEF StructInv, PagesInv
    <3>3. ASSUME file'[o] # <<>>
          PROVE  file'[o][1] \in HeaderSet(Len(file'[o]))
      <4>1. file[o] # <<>> /\ file[o][1] \in HeaderSet(Len(file'[o]))
        BY <1>14, <3>1, <3>3 DEF StructInv, PagesInv
      <4>2. 1 \in DOMAIN file[o]
        BY <3>1, <4>1, EmptySeq, ObjectPages DEF StructInv
      <4>3. file'[o][1] = Replayed(o, 1)
        BY <1>5, <3>1, <4>2
      <4>4. \/ Replayed(o, 1) = file[o][1]
            \/ \E n \in DOMAIN wal : \E r \in wal[n].updates : r.object = o /\ r.page = 1 /\ Replayed(o, 1) = r.image
        BY <1>9, ReplayedFacts DEF StructInv
      <4>. QED  BY <3>2, <4>1, <4>3, <4>4
    <3>. QED  BY <3>2, <3>3
  <2>. QED  BY <1>0, <1>1, <1>7, <1>8, <2>1, <2>2 DEF StructInv, PagesInv
<1>17. SavedInv'
  BY <1>0, <1>1 DEF SavedInv
<1>18. AckedInv'
  <2>1. AckedIds' \subseteq Ids(Saved)
    BY <1>0 DEF AckedIds, Ids, HeapIds, TreeIds
  <2>. QED  BY <1>0, <1>1, <1>7, <2>1 DEF StructInv, AckedInv
<1>. QED  BY <1>12, <1>13, <1>15, <1>16, <1>17, <1>18 DEF StructInv

-----------------------------------------------------------------------------
\* The new table, and the index of its primary key.
NewTable(c, s) ==
    [name |-> s.name, columns |-> s.columns, primary_key_column |-> s.primary_key_column,
     heap_object_id |-> c.next_object_id]
NewKey(c, s) ==
    IndexInfo(PkIndexName(s.name, s.primary_key_column), s.name, s.primary_key_column,
              c.next_object_id + 1, TRUE)
NewIndex(c, s) == IndexInfo(s.name, s.table_name, s.column_name, c.next_object_id, FALSE)

\* d is c with one more table, with one more index, or with both.
Extends(d, c, T, I) ==
    /\ CatalogOK(d) /\ Includes(d, c)
    /\ Tables(d) = Tables(c) \cup T /\ Indexes(d) = Indexes(c) \cup I

LEMMA NotInUse ==
    ASSUME NEW c, CatalogOK(c), NEW n, ~NameInUse(c, n)
    PROVE  (\A t \in Tables(c) : t.name # n) /\ (\A i \in Indexes(c) : i.name # n)
           /\ (\A i \in Indexes(c) : i.table_name # n)
<1>1. FindTable(c, n) = <<>> /\ FindIndex(c, n) = <<>>
  BY DEF NameInUse
<1>2. (\A t \in Tables(c) : t.name # n) /\ (\A i \in Indexes(c) : i.name # n)
  BY <1>1, Lookups
<1>. QED  BY <1>2 DEF CatalogOK

\* CREATE TABLE keeps names and ObjectIds unique.
LEMMA WithTableFacts ==
    ASSUME NEW c, CatalogOK(c), NEW s \in TableStatement, c.next_object_id + 2 <= MaxObjects,
           ~TableRejected(c, s.name, s.columns, s.primary_key_column)
    PROVE  LET d == WithTable(c, s.name, s.columns, s.primary_key_column)
           IN  /\ Extends(d, c, {NewTable(c, s)},
                          IF s.primary_key_column = NoColumn THEN {} ELSE {NewKey(c, s)})
               /\ \A i \in Indexes(c) : i.name # NewKey(c, s).name
               /\ \A t \in Tables(c) : t.name # NewKey(c, s).name
<1> DEFINE d == WithTable(c, s.name, s.columns, s.primary_key_column)
           n == c.next_object_id
           t == NewTable(c, s)
           k == NewKey(c, s)
           keyed == s.primary_key_column # NoColumn
           I == IF s.primary_key_column = NoColumn THEN {} ELSE {k}
<1>0. c \in CatalogSet /\ n \in Nat /\ MaxObjects \in Nat /\ \A o \in Ids(c) : o < n
  BY CatalogFields, DdlAssumption DEF CatalogOK
<1>1. /\ c.tables \in Seq(TableInfo) /\ c.indexes \in Seq(IndexSet)
      /\ Tables(c) \subseteq TableInfo /\ Indexes(c) \subseteq IndexSet
      /\ DOMAIN c.tables = 1..Len(c.tables) /\ Len(c.tables) \in Nat
  BY <1>0, CatalogFields
<1>2. n \in ObjectId /\ n + 1 \in ObjectId
  BY <1>0 DEF ObjectId
<1>3. t \in TableInfo /\ t.name = s.name /\ t.heap_object_id = n
  BY <1>2 DEF NewTable, TableInfo, TableName
<1>4. /\ k \in IndexSet /\ k.name = PkIndexName(s.name, s.primary_key_column) /\ k.table_name = s.name
      /\ k.object_id = n + 1 /\ k.is_primary_key = TRUE
  BY <1>2 DEF NewKey, IndexInfo, IndexSet, TableName, IndexName, ColumnName
<1>5. /\ (\A u \in Tables(c) : u.name # s.name) /\ (\A i \in Indexes(c) : i.name # s.name)
      /\ (\A i \in Indexes(c) : i.table_name # s.name)
  BY NotInUse DEF TableRejected
<1>6. \A i \in Indexes(c) : i.name # k.name
  <2> SUFFICES ASSUME NEW i \in Indexes(c), i.name = k.name PROVE FALSE
    OBVIOUS
  <2>1. CASE i.is_primary_key
    <3>1. PICK u \in TableStatement : u.name = i.table_name /\ i.name = PkIndexName(u.name, u.primary_key_column)
      BY <2>1 DEF CatalogOK
    <3>2. PkIndexName(u.name, u.primary_key_column) = PkIndexName(s.name, s.primary_key_column)
      BY <1>4, <3>1
    <3>3. u.name = s.name
      BY <3>2 DEF PkIndexName
    <3>. QED  BY <1>5, <3>1, <3>3
  <2>2. CASE ~i.is_primary_key
    <3>1. PICK u \in IndexStatement : u.name = i.name
      BY <2>2 DEF CatalogOK
    <3>2. PkIndexName(s.name, s.primary_key_column) # u.name
      BY DdlAssumption
    <3>. QED  BY <1>4, <3>1, <3>2
  <2>. QED  BY <2>1, <2>2
<1>7. (\A u \in Tables(c) : u.name # k.name) /\ t.name # k.name
  <2>1. \A u \in Tables(c) : u.name \in TableName
    BY <1>1 DEF TableInfo
  <2>2. \A v \in TableName : v # k.name
    BY <1>4, DdlAssumption DEF TableName
  <2>3. t.name \in TableName
    BY <1>3 DEF TableName
  <2>. QED  BY <2>1, <2>2, <2>3
<1>8. /\ d.tables = Append(c.tables, t) /\ d.indexes = IF keyed THEN Append(c.indexes, k) ELSE c.indexes
      /\ d.next_object_id = IF keyed THEN n + 2 ELSE n + 1
      /\ d = [tables |-> d.tables, indexes |-> d.indexes, next_object_id |-> d.next_object_id]
  BY DEF WithTable, NewTable, NewKey
<1> HIDE DEF t, k, d
<1>9. d.tables \in Seq(TableInfo) /\ Tables(d) = Tables(c) \cup {t}
  BY <1>1, <1>3, <1>8, AppendToSet DEF Tables
<1>10. d.indexes \in Seq(IndexSet) /\ Indexes(d) = Indexes(c) \cup I
  <2>1. Append(c.indexes, k) \in Seq(IndexSet) /\ ToSet(Append(c.indexes, k)) = ToSet(c.indexes) \cup {k}
    BY <1>1, <1>4, AppendToSet
  <2>. QED  BY <1>1, <1>8, <2>1 DEF Indexes
<1>11. d \in CatalogSet /\ d.next_object_id <= MaxObjects /\ n <= d.next_object_id /\ n < d.next_object_id
       /\ (keyed => n + 1 < d.next_object_id) /\ d.next_object_id \in Nat
  <2>1. d.next_object_id \in Nat /\ d.next_object_id <= MaxObjects /\ n <= d.next_object_id /\ n < d.next_object_id
        /\ (keyed => n + 1 < d.next_object_id)
    BY <1>0, <1>8
  <2>. QED  BY <1>8, <1>9, <1>10, <2>1 DEF CatalogSet
<1>12. /\ \A u \in Tables(c) : u.heap_object_id \in Nat /\ u.heap_object_id < n
       /\ \A i \in Indexes(c) : i.object_id \in Nat /\ i.object_id < n
  <2>1. /\ \A u \in Tables(c) : u.heap_object_id \in ObjectId /\ u.heap_object_id \in Ids(c)
        /\ \A i \in Indexes(c) : i.object_id \in ObjectId /\ i.object_id \in Ids(c)
    BY <1>1 DEF TableInfo, IndexSet, Ids, HeapIds, TreeIds
  <2>. QED  BY <1>0, <2>1 DEF ObjectId
<1>13. /\ \A u \in Tables(c) : u.heap_object_id # n /\ u.heap_object_id # n + 1
       /\ \A i \in Indexes(c) : i.object_id # n /\ i.object_id # n + 1
       /\ n # n + 1
  BY <1>0, <1>12
<1> HIDE DEF n
<1>14. \A x, y \in DOMAIN d.tables : d.tables[x].name = d.tables[y].name => x = y
  <2> DEFINE m == Len(c.tables)
  <2>1. /\ DOMAIN d.tables = 1..m + 1 /\ m \in Nat /\ (\A x \in 1..m : d.tables[x] = c.tables[x]) /\ d.tables[m + 1] = t
    BY <1>1, <1>3, <1>8, AppendProperties, LenProperties
  <2>2. \A x \in 1..m : c.tables[x] \in Tables(c)
    BY <1>0, CatalogFields
  <2>3. \A x, y \in 1..m : c.tables[x].name = c.tables[y].name => x = y
    BY <1>1 DEF CatalogOK
  <2> HIDE DEF m
  <2>4. \A x \in 1..m + 1 : x \in 1..m \/ x = m + 1
    BY <2>1
  <2>. QED  BY <1>3, <1>5, <2>1, <2>2, <2>3, <2>4
<1>15. \A u, v \in Tables(d) : u.name = v.name \/ u.heap_object_id = v.heap_object_id => u = v
  BY <1>3, <1>5, <1>9, <1>13 DEF CatalogOK
<1>16. \A i, j \in Indexes(d) : i.name = j.name \/ i.object_id = j.object_id => i = j
  BY <1>4, <1>6, <1>10, <1>13 DEF CatalogOK
<1>17. \A i, j \in Indexes(d) : i.is_primary_key /\ j.is_primary_key /\ i.table_name = j.table_name => i = j
  BY <1>4, <1>5, <1>10 DEF CatalogOK
<1>18. \A u \in Tables(d), i \in Indexes(d) : u.name # i.name /\ u.heap_object_id # i.object_id
  BY <1>3, <1>4, <1>5, <1>7, <1>9, <1>10, <1>13 DEF CatalogOK
<1>19. \A o \in Ids(d) : o < d.next_object_id
  <2>1. \A u \in Tables(d) : u.heap_object_id < d.next_object_id
    <3>1. \A u \in Tables(c) : u.heap_object_id < d.next_object_id
      BY <1>0, <1>11, <1>12
    <3>. QED  BY <1>3, <1>9, <1>11, <3>1
  <2>2. \A i \in Indexes(d) : i.object_id < d.next_object_id
    <3>1. \A i \in Indexes(c) : i.object_id < d.next_object_id
      BY <1>0, <1>11, <1>12
    <3>. QED  BY <1>4, <1>10, <1>11, <3>1
  <2>. QED  BY <2>1, <2>2 DEF Ids, HeapIds, TreeIds
<1>20. \A i \in Indexes(d) : \E u \in Tables(d) : u.name = i.table_name
  BY <1>3, <1>4, <1>9, <1>10 DEF CatalogOK
<1>21. \A i \in Indexes(d) : i.is_primary_key =>
           \E u \in TableStatement : u.name = i.table_name /\ i.name = PkIndexName(u.name, u.primary_key_column)
  BY <1>4, <1>10 DEF CatalogOK
<1>22. \A i \in Indexes(d) : ~i.is_primary_key => \E u \in IndexStatement : u.name = i.name
  BY <1>4, <1>10 DEF CatalogOK
<1>23. CatalogOK(d)
  BY <1>11, <1>14, <1>15, <1>16, <1>17, <1>18, <1>19, <1>20, <1>21, <1>22 DEF CatalogOK
<1>24. Includes(d, c)
  BY <1>9, <1>10, <1>11 DEF Includes, Places, n
<1>. QED  BY <1>6, <1>7, <1>9, <1>10, <1>23, <1>24 DEF Extends, t, k, d

\* CREATE INDEX keeps names and ObjectIds unique.
LEMMA WithIndexFacts ==
    ASSUME NEW c, CatalogOK(c), NEW s \in IndexStatement, c.next_object_id + 1 <= MaxObjects,
           ~IndexRejected(c, s.name, s.table_name, s.column_name)
    PROVE  Extends(WithIndex(c, s.name, s.table_name, s.column_name), c, {}, {NewIndex(c, s)})
<1> DEFINE d == WithIndex(c, s.name, s.table_name, s.column_name)
           n == c.next_object_id
           k == NewIndex(c, s)
<1>0. c \in CatalogSet /\ n \in Nat /\ MaxObjects \in Nat /\ \A o \in Ids(c) : o < n
  BY CatalogFields, DdlAssumption DEF CatalogOK
<1>1. /\ c.tables \in Seq(TableInfo) /\ c.indexes \in Seq(IndexSet)
      /\ Tables(c) \subseteq TableInfo /\ Indexes(c) \subseteq IndexSet
  BY <1>0, CatalogFields
<1>2. n \in ObjectId
  BY <1>0 DEF ObjectId
<1>3. PICK t \in Tables(c) : t.name = s.table_name
  BY Lookups DEF IndexRejected
<1>4. /\ k \in IndexSet /\ k.name = s.name /\ k.table_name = s.table_name
      /\ k.object_id = n /\ k.is_primary_key = FALSE
  <2>1. s.table_name \in TableName
    BY <1>1, <1>3 DEF TableInfo
  <2>. QED  BY <1>2, <2>1 DEF NewIndex, IndexInfo, IndexSet, IndexName, ColumnName
<1>5. (\A u \in Tables(c) : u.name # s.name) /\ (\A i \in Indexes(c) : i.name # s.name)
  BY NotInUse DEF IndexRejected
<1>6. /\ d.tables = c.tables /\ d.indexes = Append(c.indexes, k) /\ d.next_object_id = n + 1
      /\ d = [tables |-> d.tables, indexes |-> d.indexes, next_object_id |-> d.next_object_id]
  <2>1. PICK a \in Seq(TableInfo), b \in Seq(IndexSet), m \in Nat :
            c = [tables |-> a, indexes |-> b, next_object_id |-> m]
    BY <1>0 DEF CatalogSet
  <2>2. d = [c EXCEPT !.indexes = Append(@, k), !.next_object_id = @ + 1]
    BY DEF WithIndex, NewIndex
  <2> HIDE DEF k, d
  <2>3. d = [tables |-> a, indexes |-> Append(b, k), next_object_id |-> m + 1]
    BY <2>1, <2>2
  <2>4. n = m
    BY <2>1
  <2>. QED  BY <2>1, <2>3, <2>4
<1> HIDE DEF k, d
<1>7. Tables(d) = Tables(c)
  BY <1>6 DEF Tables
<1>8. d.indexes \in Seq(IndexSet) /\ Indexes(d) = Indexes(c) \cup {k}
  BY <1>1, <1>4, <1>6, AppendToSet DEF Indexes
<1>9. d.next_object_id \in Nat /\ d.next_object_id <= MaxObjects /\ n <= d.next_object_id /\ n < d.next_object_id
  BY <1>0, <1>6
<1>10. d \in CatalogSet
  BY <1>1, <1>6, <1>8, <1>9 DEF CatalogSet
<1>11. /\ \A u \in Tables(c) : u.heap_object_id \in Nat /\ u.heap_object_id < n
       /\ \A i \in Indexes(c) : i.object_id \in Nat /\ i.object_id < n
  <2>1. /\ \A u \in Tables(c) : u.heap_object_id \in ObjectId /\ u.heap_object_id \in Ids(c)
        /\ \A i \in Indexes(c) : i.object_id \in ObjectId /\ i.object_id \in Ids(c)
    BY <1>1 DEF TableInfo, IndexSet, Ids, HeapIds, TreeIds
  <2>. QED  BY <1>0, <2>1 DEF ObjectId
<1>12. /\ \A u \in Tables(c) : u.heap_object_id # n
       /\ \A i \in Indexes(c) : i.object_id # n
  BY <1>0, <1>11
<1> HIDE DEF n
<1>13. \A x, y \in DOMAIN d.tables : d.tables[x].name = d.tables[y].name => x = y
  BY <1>6 DEF CatalogOK
<1>14. \A u, v \in Tables(d) : u.name = v.name \/ u.heap_object_id = v.heap_object_id => u = v
  BY <1>7 DEF CatalogOK
<1>15. \A i, j \in Indexes(d) : i.name = j.name \/ i.object_id = j.object_id => i = j
  BY <1>4, <1>5, <1>8, <1>12 DEF CatalogOK
<1>16. \A i, j \in Indexes(d) : i.is_primary_key /\ j.is_primary_key /\ i.table_name = j.table_name => i = j
  BY <1>4, <1>8 DEF CatalogOK
<1>17. \A u \in Tables(d), i \in Indexes(d) : u.name # i.name /\ u.heap_object_id # i.object_id
  BY <1>4, <1>5, <1>7, <1>8, <1>12 DEF CatalogOK
<1>18. \A o \in Ids(d) : o < d.next_object_id
  <2>1. \A u \in Tables(d) : u.heap_object_id < d.next_object_id
    BY <1>0, <1>7, <1>9, <1>11
  <2>2. \A i \in Indexes(d) : i.object_id < d.next_object_id
    <3>1. \A i \in Indexes(c) : i.object_id < d.next_object_id
      BY <1>0, <1>9, <1>11
    <3>. QED  BY <1>4, <1>8, <1>9, <3>1
  <2>. QED  BY <2>1, <2>2 DEF Ids, HeapIds, TreeIds
<1>19. \A i \in Indexes(d) : \E u \in Tables(d) : u.name = i.table_name
  BY <1>3, <1>4, <1>7, <1>8 DEF CatalogOK
<1>20. \A i \in Indexes(d) : i.is_primary_key =>
           \E u \in TableStatement : u.name = i.table_name /\ i.name = PkIndexName(u.name, u.primary_key_column)
  BY <1>4, <1>8 DEF CatalogOK
<1>21. \A i \in Indexes(d) : ~i.is_primary_key => \E u \in IndexStatement : u.name = i.name
  BY <1>4, <1>8 DEF CatalogOK
<1>22. CatalogOK(d)
  BY <1>9, <1>10, <1>13, <1>14, <1>15, <1>16, <1>17, <1>18, <1>19, <1>20, <1>21 DEF CatalogOK
<1>23. Includes(d, c)
  BY <1>7, <1>8, <1>9 DEF Includes, Places, n
<1>. QED  BY <1>7, <1>8, <1>22, <1>23 DEF Extends, k, d

\* The ids of some tables and indexes.
IdsOf(T, I) == {t.heap_object_id : t \in T} \cup {i.object_id : i \in I}

\* A CREATE has added the tables T and the indexes I to the catalog in memory.
Adds(of, todo, T, I) ==
    /\ Extends(catalog', catalog, T, I)
    /\ \A o \in IdsOf(T, I) : o \notin Ids(catalog)
    /\ todo \in Seq(Todo) /\ {x.id : x \in ToSet(todo)} = IdsOf(T, I)
    /\ \A x \in ToSet(todo) : x.kind = "index" <=> x.id \in {i.object_id : i \in I}
    /\ \A j, k \in DOMAIN todo : todo[j].id = todo[k].id => j = k
    /\ of \in [kind : {"table", "index"}, name : AnyName]
    /\ \A t \in Tables(catalog) : t.name # of.name
    /\ \A i \in Indexes(catalog) : i.name # of.name /\ (of.kind = "table" => i.table_name # of.name)
    /\ \/ /\ of.kind = "table" /\ T # {} /\ (\A t \in T : t.name = of.name)
          /\ \A i \in I : i.is_primary_key /\ i.table_name = of.name
       \/ /\ of.kind = "index" /\ T = {} /\ I # {}
          /\ \A i \in I : i.name = of.name /\ ~i.is_primary_key

\* Ids, apart from the order of the tables.
LEMMA SameIds ==
    ASSUME NEW a, NEW b, Places(a) = Places(b), Indexes(a) = Indexes(b)
    PROVE  HeapIds(a) = HeapIds(b) /\ TreeIds(a) = TreeIds(b) /\ Ids(a) = Ids(b)
<1>1. \A c, d : Places(c) = Places(d) => HeapIds(c) \subseteq HeapIds(d)
  <2> SUFFICES ASSUME NEW c, NEW d, Places(c) = Places(d), NEW t \in Tables(c)
               PROVE  t.heap_object_id \in HeapIds(d)
    BY DEF HeapIds
  <2>1. <<t.name, t.heap_object_id>> \in Places(d)
    BY DEF Places
  <2>2. PICK u \in Tables(d) : <<t.name, t.heap_object_id>> = <<u.name, u.heap_object_id>>
    BY <2>1 DEF Places
  <2>. QED  BY <2>2 DEF HeapIds
<1>2. HeapIds(a) = HeapIds(b)
  BY <1>1
<1>. QED  BY <1>2 DEF TreeIds, Ids

\* A new object has no page and no storage, and nothing that was
\* acknowledged is new.
LEMMA AddsFacts ==
    ASSUME StructInv, MayRunDdl, NEW of, NEW todo, NEW T, NEW I, Adds(of, todo, T, I), UNCHANGED acked
    PROVE  /\ \A o \in IdsOf(T, I) : o \notin Ids(Saved)
           /\ Ids(catalog') = Ids(catalog) \cup IdsOf(T, I)
           /\ TreeIds(catalog') = TreeIds(catalog) \cup {i.object_id : i \in I}
           /\ HeapIds(catalog') = HeapIds(catalog) \cup {t.heap_object_id : t \in T}
           /\ AckedIds' = AckedIds /\ of.name \notin acked
           /\ \A o \in TreeIds(catalog') : o \in TreeIds(Saved) \/ o \notin Ids(Saved)
           /\ Includes(catalog', Saved) /\ Ids(Saved) \subseteq Ids(catalog')
<1>1. Running
  BY DEF MayRunDdl, Running, At
<1>2. /\ Includes(catalog, Saved) /\ CatalogOK(Saved) /\ CatalogOK(catalog) /\ CatalogOK(catalog')
      /\ Includes(catalog', catalog)
      /\ Tables(catalog') = Tables(catalog) \cup T /\ Indexes(catalog') = Indexes(catalog) \cup I
  BY <1>1, SavedOK DEF StructInv, ListedInv, Typed, Adds, Extends
<1>3. Ids(Saved) \subseteq Ids(catalog) /\ HeapIds(Saved) \subseteq HeapIds(catalog)
  BY <1>2, IncludesFacts
<1>4. /\ TreeIds(catalog') = TreeIds(catalog) \cup {i.object_id : i \in I}
      /\ HeapIds(catalog') = HeapIds(catalog) \cup {t.heap_object_id : t \in T}
  BY <1>2 DEF TreeIds, HeapIds
<1>5. Ids(catalog') = Ids(catalog) \cup IdsOf(T, I)
  BY <1>4 DEF Ids, IdsOf
<1>6. \A o \in IdsOf(T, I) : o \notin Ids(Saved)
  BY <1>3 DEF Adds
<1>7. \A n \in acked : \E x \in Tables(catalog) \cup Indexes(catalog) : x.name = n
  <2>1. \A t \in Tables(Saved) : \E u \in Tables(catalog) : u.name = t.name
    BY <1>2, IncludesFacts
  <2>2. Indexes(Saved) \subseteq Indexes(catalog)
    BY <1>2 DEF Includes
  <2>. QED  BY <2>1, <2>2 DEF StructInv, AckedInv
<1>8. of.name \notin acked
  BY <1>7 DEF Adds
<1>9. /\ \A t \in T : t \notin Tables(catalog) /\ t.heap_object_id \in IdsOf(T, I)
      /\ \A i \in I : i \notin Indexes(catalog) /\ i.object_id \in IdsOf(T, I)
  BY DEF Adds, IdsOf, Ids, HeapIds, TreeIds
<1>10. /\ \A t \in T : t.name \notin acked
       /\ \A i \in I : i.name \notin acked /\ ~(i.is_primary_key /\ i.table_name \in acked)
  <2>1. \A t \in T : t.name \notin acked
    BY <1>8 DEF Adds
  <2>2. \A i \in I : ~(i.is_primary_key /\ i.table_name \in acked)
    BY <1>8 DEF Adds
  <2>3. \A i \in I : \A x \in Tables(catalog) \cup Indexes(catalog) : x.name # i.name
    <3>1. \A i \in I : \A x \in Tables(catalog) : x.name # i.name
      BY <1>2 DEF CatalogOK
    <3>2. \A i \in I : \A x \in Indexes(catalog) : x.name # i.name
      BY <1>2, <1>9 DEF CatalogOK
    <3>. QED  BY <3>1, <3>2
  <2>. QED  BY <1>7, <2>1, <2>2, <2>3
<1>11. AckedIds' = AckedIds
  <2>1. {t \in Tables(catalog') : t.name \in acked} = {t \in Tables(catalog) : t.name \in acked}
    BY <1>2, <1>10
  <2>2. {i \in Indexes(catalog') : i.name \in acked \/ (i.is_primary_key /\ i.table_name \in acked)}
          = {i \in Indexes(catalog) : i.name \in acked \/ (i.is_primary_key /\ i.table_name \in acked)}
    BY <1>2, <1>10
  <2>. QED  BY <2>1, <2>2 DEF AckedIds
<1>12. \A o \in TreeIds(catalog') : o \in TreeIds(Saved) \/ o \notin Ids(Saved)
  <2>1. \A o \in TreeIds(catalog') : o \notin HeapIds(catalog')
    BY <1>2 DEF TreeIds, HeapIds, CatalogOK
  <2>. QED  BY <1>3, <1>4, <2>1 DEF Ids
<1>13. Includes(catalog', Saved)
  <2>1. /\ Saved.next_object_id \in Nat /\ catalog.next_object_id \in Nat /\ catalog'.next_object_id \in Nat
    BY <1>2, CatalogFields DEF CatalogOK
  <2>2. Saved.next_object_id <= catalog'.next_object_id
    BY <1>2, <2>1 DEF Includes
  <2>. QED  BY <1>2, <2>2 DEF Includes
<1>. QED  BY <1>3, <1>4, <1>5, <1>6, <1>8, <1>11, <1>12, <1>13

\* The metadata file after a Persist that returned.
LEMMA SavedAfterPersist ==
    ASSUME Persist, CatalogOK(catalog')
    PROVE  /\ CatalogOK(Saved') /\ Places(Saved') = Places(catalog') /\ Indexes(Saved') = Indexes(catalog')
           /\ Saved'.next_object_id = catalog'.next_object_id
           /\ HeapIds(Saved') = HeapIds(catalog') /\ TreeIds(Saved') = TreeIds(catalog')
           /\ Ids(Saved') = Ids(catalog') /\ Includes(catalog', Saved')
<1>1. Saved' = Load(Serialize(catalog'))
  <2> DEFINE x == Serialize(catalog')
  <2>1. metadata' = <<x>>
    BY DEF Persist
  <2> HIDE DEF x
  <2>2. metadata' # <<>> /\ metadata'[1] = x
    BY <2>1
  <2>. QED  BY <2>2 DEF Saved, CatalogOnOpen, x
<1> DEFINE l == Saved'
           c == catalog'
<1>2. CatalogOK(l) /\ Places(l) = Places(c) /\ Indexes(l) = Indexes(c) /\ l.next_object_id = c.next_object_id
  BY <1>1, Reloaded
<1>3. HeapIds(l) = HeapIds(c) /\ TreeIds(l) = TreeIds(c) /\ Ids(l) = Ids(c)
  <2> HIDE DEF l, c
  <2>. QED  BY <1>2, SameIds
<1>4. c.next_object_id \in Nat
  BY CatalogFields DEF CatalogOK
<1>5. Includes(c, l)
  <2> HIDE DEF l, c
  <2>. QED  BY <1>2, <1>4 DEF Includes
<1>. QED  BY <1>2, <1>3, <1>5

\* A CREATE whose Persist returned.
\* The ids that a CREATE has given out are those of what it adds.
LEMMA AddedIds ==
    ASSUME NEW of, NEW todo, NEW T, NEW I, Adds(of, todo, T, I), call'.of = of
    PROVE  NewIds' = IdsOf(T, I)
<1>1. Tables(catalog') = Tables(catalog) \cup T /\ Indexes(catalog') = Indexes(catalog) \cup I
  BY DEF Adds, Extends
<1>2. call'.of.name = of.name /\ call'.of.kind = of.kind
  OBVIOUS
<1>3. CASE of.kind = "table"
  <2>1. {t \in Tables(catalog') : t.name = of.name} = T
    BY <1>1, <1>3 DEF Adds
  <2>2. {i \in Indexes(catalog') : i.table_name = of.name /\ i.is_primary_key} = I
    BY <1>1, <1>3 DEF Adds
  <2>. QED  BY <1>2, <1>3, <2>1, <2>2 DEF NewIds, IdsOf
<1>4. CASE of.kind = "index"
  <2>1. {i \in Indexes(catalog') : i.name = of.name} = I
    BY <1>1, <1>4 DEF Adds
  <2>2. IdsOf(T, I) = {i.object_id : i \in I}
    BY <1>4 DEF Adds, IdsOf
  <2>. QED  BY <1>2, <1>4, <2>1, <2>2 DEF NewIds
<1>. QED  BY <1>3, <1>4 DEF Adds

LEMMA PersistedStruct ==
    ASSUME StructInv, MayRunDdl, NEW of, NEW todo, NEW T, NEW I, Adds(of, todo, T, I),
           UNCHANGED <<storagevars, txn, rows, acked, failures>>,
           Persist, call' = [at |-> "attach", todo |-> todo, of |-> of]
    PROVE  StructInv'
<1>0. UNCHANGED <<objects, file, cache, dirty, wal, txn, rows, acked, failures>>
  BY DEF storagevars
<1>1. /\ CatalogOK(catalog') /\ Running /\ At("idle") /\ txn = NoTxn /\ TodoIds = {} /\ call.todo = <<>>
      /\ Tables(catalog') = Tables(catalog) \cup T /\ Indexes(catalog') = Indexes(catalog) \cup I
  <2>1. At("idle") /\ call.todo = <<>> /\ txn = NoTxn /\ Running
    BY DEF MayRunDdl, StructInv, ControlInv, Running, At
  <2>2. TodoIds = {}
    BY <2>1 DEF TodoIds, ToSet
  <2>. QED  BY <2>1, <2>2 DEF Adds, Extends
<1>2. /\ \A o \in IdsOf(T, I) : o \notin Ids(Saved)
      /\ Ids(catalog') = Ids(catalog) \cup IdsOf(T, I)
      /\ TreeIds(catalog') = TreeIds(catalog) \cup {i.object_id : i \in I}
      /\ AckedIds' = AckedIds /\ of.name \notin acked
      /\ \A o \in TreeIds(catalog') : o \in TreeIds(Saved) \/ o \notin Ids(Saved)
      /\ Includes(catalog', Saved) /\ Ids(Saved) \subseteq Ids(catalog')
  BY <1>0, AddsFacts
<1>3. /\ CatalogOK(Saved') /\ Places(Saved') = Places(catalog') /\ Indexes(Saved') = Indexes(catalog')
      /\ TreeIds(Saved') = TreeIds(catalog')
      /\ Ids(Saved') = Ids(catalog') /\ Includes(catalog', Saved')
  BY <1>1, SavedAfterPersist
<1>4. /\ call'.at = "attach" /\ call'.todo = todo /\ call'.of = of /\ call'.of.kind \in {"table", "index"}
      /\ call'.of.name = of.name /\ call'.of.kind = of.kind /\ todo \in Seq(Todo)
      /\ TodoIds' = IdsOf(T, I)
  BY DEF Adds, TodoIds
<1>5. At("attach")' /\ ~At("header")' /\ ~At("flush")' /\ ~At("down")' /\ Creating' /\ Running' /\ ~At("idle")'
  BY <1>4 DEF At, Creating, Running
<1>6. NewIds' = IdsOf(T, I)
  BY <1>4, AddedIds
<1>7. Typed'
  <2>1. \E c \in CatalogSet : CatalogOK(c) /\ metadata' = <<Serialize(c)>>
    BY <1>1 DEF Persist, CatalogOK
  <2>2. call' \in [at : {"idle", "attach", "header", "flush", "down"}, todo : Seq(Todo),
                   of : [kind : {"none", "table", "index", "open"}, name : AnyName \cup {NoColumn}]]
    BY <1>4 DEF Adds
  <2>. QED  BY <1>0, <1>1, <2>1, <2>2 DEF StructInv, Typed
<1>8. ControlInv'
  BY <1>0, <1>1, <1>4, <1>5 DEF ControlInv
<1>9. \A o \in IdsOf(T, I) : o \in ObjectId /\ o \notin objects /\ file[o] = <<>>
  <2>1. IdsOf(T, I) \subseteq ObjectId
    <3>1. \A j \in DOMAIN todo : todo[j] \in Todo
      BY <1>4, ElementOfSeq, LenProperties
    <3>2. \A x \in ToSet(todo) : x.id \in ObjectId
      BY <3>1 DEF Todo, ToSet
    <3>. QED  BY <3>2 DEF Adds
  <2>. QED  BY <1>2, <2>1 DEF StructInv, ListedInv
<1>10. \A n \in DOMAIN wal : \A r \in wal[n].updates : r.object \in Ids(Saved) /\ r.object \notin IdsOf(T, I)
  BY <1>2 DEF StructInv, ListedInv
<1>11. ListedInv'
  <2>1. Includes(catalog', Saved') /\ objects' \cup TodoIds' \subseteq Ids(Saved')
    <3>1. objects \subseteq Ids(Saved)
      BY DEF StructInv, ListedInv
    <3>. QED  BY <1>0, <1>2, <1>3, <1>4, <3>1
  <2>2. \A x \in ToSet(todo) : x.kind = "index" <=> x.id \in TreeIds(Saved')
    <3>1. \A x \in ToSet(todo) : x.id \in IdsOf(T, I) /\ (x.kind = "index" <=> x.id \in {i.object_id : i \in I})
      BY DEF Adds
    <3>2. \A o \in IdsOf(T, I) : o \notin TreeIds(catalog)
      BY DEF Adds, Ids
    <3>. QED  BY <1>2, <1>3, <3>1, <3>2
  <2>3. \A o \in ObjectId : file[o] # <<>> => o \in Ids(Saved')
    BY <1>2, <1>3 DEF StructInv, ListedInv
  <2>4. (txn.observed \subseteq objects) /\ \A d \in txn.dirtied : d[1] \in objects
    BY DEF StructInv, ListedInv
  <2>5. \A n \in DOMAIN wal : \A r \in wal[n].updates : r.object \in Ids(Saved')
    BY <1>2, <1>3, <1>10
  <2>6. of.kind = "table" => \E t \in Tables(Saved') : t.name = of.name
    <3> SUFFICES ASSUME of.kind = "table" PROVE \E t \in Tables(Saved') : t.name = of.name
      OBVIOUS
    <3>1. PICK t \in Tables(catalog') : t.name = of.name
      BY <1>1 DEF Adds
    <3>2. Includes(Saved', catalog')
      <4>1. catalog'.next_object_id \in Nat
        BY <1>1, CatalogFields DEF CatalogOK
      <4>. QED  BY <1>1, <1>3, <4>1, SavedAfterPersist DEF Includes
    <3>. QED  BY <3>1, <3>2, IncludesFacts
  <2>7. of.kind = "index" => \E i \in Indexes(Saved') : i.name = of.name /\ ~i.is_primary_key
    BY <1>1, <1>3 DEF Adds
  <2>8. \A j, k \in DOMAIN todo : todo[j].id = todo[k].id => j = k
    BY DEF Adds
  <2>9. \A j \in DOMAIN todo : todo[j].id \in IdsOf(T, I)
    BY <1>4 DEF Adds, ToSet
  <2>10. \A j \in DOMAIN todo : file[todo[j].id] = <<>>
    BY <1>9, <2>9
  <2>11. IdsOf(T, I) \cap objects = {}
    BY <1>9
  <2>. QED  BY <1>0, <1>2, <1>4, <1>5, <1>6, <1>10, <2>1, <2>2, <2>3, <2>4, <2>5, <2>6, <2>7, <2>8, <2>10, <2>11
            DEF ListedInv
<1>12. PagesInv'
  <2>1. NewIds' \cap objects' = {}
    BY <1>0, <1>6, <1>9
  <2>2. ASSUME NEW o \in TreeIds(Saved')
        PROVE  /\ file[o] # <<>> => file[o][1] \in HeaderSet(Len(file[o]))
               /\ o \in objects => cache[o] # <<>> /\ cache[o][1] \in HeaderSet(Len(file[o]))
               /\ \A n \in DOMAIN wal : \A r \in wal[n].updates :
                     r.object = o /\ r.page = 1 => r.image \in HeaderSet(Len(file[o]))
    <3>1. CASE o \in TreeIds(Saved)
      BY <3>1 DEF StructInv, PagesInv
    <3>2. CASE o \notin Ids(Saved)
      <4>1. o \in ObjectId
        <5>1. PICK i \in Indexes(Saved') : o = i.object_id
          BY DEF TreeIds
        <5>2. i \in IndexSet
          BY <1>3, CatalogFields DEF CatalogOK
        <5>. QED  BY <5>1, <5>2 DEF IndexSet
      <4>2. file[o] = <<>> /\ o \notin objects /\ \A n \in DOMAIN wal : \A r \in wal[n].updates : r.object # o
        BY <1>10, <3>2, <4>1 DEF StructInv, ListedInv
      <4>. QED  BY <4>2
    <3>. QED  BY <1>2, <1>3, <3>1, <3>2
  <2>. QED  BY <1>0, <1>5, <2>1, <2>2 DEF StructInv, PagesInv
<1>13. SavedInv'
  BY DEF SavedInv, Persist
<1>14. AckedInv'
  <2>1. \A n \in acked : \E x \in Tables(Saved') \cup Indexes(Saved') : x.name = n
    <3>1. Includes(Saved', Saved)
      BY <1>1, <1>2, <1>3, SavedAfterPersist DEF Includes
    <3>2. \A t \in Tables(Saved) : \E u \in Tables(Saved') : u.name = t.name
      BY <3>1, IncludesFacts
    <3>3. Indexes(Saved) \subseteq Indexes(Saved')
      BY <3>1 DEF Includes
    <3>. QED  BY <3>2, <3>3 DEF StructInv, AckedInv
  <2>2. AckedIds' \subseteq objects
    BY <1>1, <1>2 DEF StructInv, AckedInv
  <2>. QED  BY <1>0, <2>1, <2>2 DEF AckedInv
<1>. QED  BY <1>7, <1>8, <1>11, <1>12, <1>13, <1>14 DEF StructInv

\* A CREATE whose Persist threw.
LEMMA NotPersistedStruct ==
    ASSUME StructInv, MayRunDdl, NEW of, NEW todo, NEW T, NEW I, Adds(of, todo, T, I),
           UNCHANGED <<storagevars, txn, rows, acked, call>>, PersistThrows, failures' = failures + 1
    PROVE  StructInv'
<1>0. UNCHANGED <<metadata, objects, file, cache, dirty, wal, txn, rows, acked, call>>
  BY DEF storagevars, PersistThrows
<1>1. CatalogOK(catalog') /\ Running /\ call.at = "idle" /\ ~Creating /\ ~Creating' /\ Running' /\ call'.at = "idle"
  <2>1. call.at = "idle"
    BY DEF MayRunDdl, At
  <2>2. call.of.kind = "none"
    BY <2>1 DEF StructInv, ControlInv
  <2>. QED  BY <1>0, <2>1, <2>2 DEF Adds, Extends, Running, At, Creating
<1>2. Saved' = Saved
  BY <1>0, SavedSame
<1>3. AckedIds' = AckedIds /\ Includes(catalog', Saved)
  BY <1>0, AddsFacts
<1>4. failures' \in Nat /\ failures' # 0
  BY DEF StructInv, Typed
<1>5. Typed'
  BY <1>0, <1>1, <1>4 DEF StructInv, Typed
<1>6. ControlInv'
  BY <1>0 DEF StructInv, ControlInv, At
<1>7. At("header")' = At("header") /\ TodoIds' = TodoIds
  BY <1>0 DEF At, TodoIds
<1>8. ListedInv'
  BY <1>0, <1>1, <1>2, <1>3, <1>7 DEF StructInv, ListedInv
<1>9. PagesInv'
  BY <1>0, <1>1, <1>2, <1>7 DEF StructInv, PagesInv
<1>10. SavedInv'
  BY <1>1, <1>4 DEF SavedInv
<1>11. AckedInv'
  BY <1>0, <1>1, <1>2, <1>3, <1>7 DEF StructInv, AckedInv
<1>. QED  BY <1>5, <1>6, <1>8, <1>9, <1>10, <1>11 DEF StructInv

\* Whether Persist returns or throws.
LEMMA PersistThenStruct ==
    ASSUME StructInv, MayRunDdl, NEW of, NEW todo, NEW T, NEW I, Adds(of, todo, T, I),
           UNCHANGED <<storagevars, txn, txns, crashes, rows, acked>>, PersistThen(of, todo)
    PROVE  StructInv'
<1>0. /\ UNCHANGED <<storagevars, txn, rows, acked>>
  OBVIOUS
<1>1. CASE Persist /\ call' = [at |-> "attach", todo |-> todo, of |-> of] /\ UNCHANGED failures
  BY <1>0, <1>1, PersistedStruct
<1>2. CASE PersistThrows /\ failures' = failures + 1 /\ UNCHANGED call
  BY <1>0, <1>2, NotPersistedStruct
<1>. QED  BY <1>1, <1>2 DEF PersistThen

\* The counter is above every id it has given out.
LEMMA IdsBelow ==
    ASSUME NEW c, CatalogOK(c)
    PROVE  c.next_object_id \in Nat /\ \A o \in Ids(c) : o \in Nat /\ o < c.next_object_id
<1>1. c \in CatalogSet /\ \A o \in Ids(c) : o < c.next_object_id
  BY DEF CatalogOK
<1>2. c.next_object_id \in Nat /\ Tables(c) \subseteq TableInfo /\ Indexes(c) \subseteq IndexSet
  BY <1>1, CatalogFields
<1>3. (\A t \in Tables(c) : t.heap_object_id \in ObjectId) /\ (\A i \in Indexes(c) : i.object_id \in ObjectId)
  BY <1>2 DEF TableInfo, IndexSet
<1>4. \A o \in Ids(c) : o \in ObjectId
  BY <1>3 DEF Ids, HeapIds, TreeIds
<1>. QED  BY <1>1, <1>2, <1>4 DEF ObjectId

\* A CREATE adds tables and indexes to the catalog and persists it.
Creates ==
    \E of, todo, T, I :
        /\ MayRunDdl /\ Adds(of, todo, T, I) /\ PersistThen(of, todo)
        /\ UNCHANGED <<storagevars, txn, txns, crashes, rows, acked>>

LEMMA CreatesStruct ==
    ASSUME StructInv, Creates
    PROVE  StructInv'
<1>1. PICK of, todo, T, I :
        /\ MayRunDdl /\ Adds(of, todo, T, I) /\ PersistThen(of, todo)
        /\ UNCHANGED <<storagevars, txn, txns, crashes, rows, acked>>
  BY DEF Creates
<1>. QED  BY <1>1, PersistThenStruct

LEMMA CreateIndexAdds ==
    ASSUME StructInv, NEW s \in IndexStatement, CreateIndex(s)
    PROVE  Creates
<1> DEFINE n == catalog.next_object_id
           k == NewIndex(catalog, s)
           of == [kind |-> "index", name |-> s.name]
           todo == <<Object(n, "index")>>
           I == {k}
<1>0. /\ MayRunDdl /\ n + 1 <= MaxObjects /\ PersistThen(of, todo)
      /\ UNCHANGED <<storagevars, txn, txns, crashes, rows, acked>>
      /\ ~IndexRejected(catalog, s.name, s.table_name, s.column_name)
      /\ catalog' = WithIndex(catalog, s.name, s.table_name, s.column_name)
  BY DEF CreateIndex, CreateIndexInCatalog
<1>1. CatalogOK(catalog) /\ n \in Nat /\ \A o \in Ids(catalog) : o < n /\ o \in Nat
  BY IdsBelow DEF StructInv, Typed
<1>2. Extends(catalog', catalog, {}, I)
  BY <1>0, <1>1, WithIndexFacts
<1>3. k.object_id = n /\ k.name = s.name /\ ~k.is_primary_key
  BY DEF NewIndex, IndexInfo
<1>4. IdsOf({}, I) = {n} /\ {i.object_id : i \in I} = {n}
  BY <1>3 DEF IdsOf
<1>5. n \notin Ids(catalog) /\ n \in ObjectId
  <2> HIDE DEF n
  <2>. QED  BY <1>0, <1>1, DdlAssumption DEF ObjectId
<1>6. /\ todo \in Seq(Todo) /\ ToSet(todo) = {Object(n, "index")} /\ DOMAIN todo = {1}
  <2> DEFINE x == Object(n, "index")
  <2>1. x \in Todo
    BY <1>5 DEF Object, Todo
  <2> HIDE DEF x
  <2>2. <<x>> \in Seq(Todo) /\ DOMAIN <<x>> = {1} /\ <<x>>[1] = x
    BY <2>1
  <2>3. ToSet(<<x>>) = {x}
    BY <2>2 DEF ToSet
  <2>. QED  BY <2>2, <2>3 DEF x
<1>7. Object(n, "index").id = n /\ Object(n, "index").kind = "index"
  BY DEF Object
<1>8. of \in [kind : {"table", "index"}, name : AnyName]
  BY DEF AnyName, IndexName
<1>9. (\A t \in Tables(catalog) : t.name # s.name) /\ (\A i \in Indexes(catalog) : i.name # s.name)
  BY <1>0, <1>1, NotInUse DEF IndexRejected
<1>10. Adds(of, todo, {}, I)
  <2>1. of.kind = "index" /\ of.name = s.name
    OBVIOUS
  <2>2. {x.id : x \in ToSet(todo)} = IdsOf({}, I)
    BY <1>4, <1>6, <1>7
  <2>3. \A x \in ToSet(todo) : x.kind = "index" <=> x.id \in {i.object_id : i \in I}
    BY <1>4, <1>6, <1>7
  <2>4. I # {} /\ \A i \in I : i.name = of.name /\ ~i.is_primary_key
    BY <1>3
  <2>5. \A x, y \in DOMAIN todo : todo[x].id = todo[y].id => x = y
    BY <1>6
  <2>6. \A o \in IdsOf({}, I) : o \notin Ids(catalog)
    BY <1>4, <1>5
  <2> HIDE DEF of, todo, I
  <2>. QED  BY <1>2, <1>6, <1>8, <1>9, <2>1, <2>2, <2>3, <2>4, <2>5, <2>6 DEF Adds
<1> DEFINE T == {}
<1>11. Adds(of, todo, T, I)
  BY <1>10
<1> HIDE DEF of, todo, T, I
<1>. QED  BY <1>0, <1>11 DEF Creates

LEMMA CreateTableAdds ==
    ASSUME StructInv, NEW s \in TableStatement, CreateTable(s)
    PROVE  Creates
<1> DEFINE n == catalog.next_object_id
           t == NewTable(catalog, s)
           k == NewKey(catalog, s)
           keyed == s.primary_key_column # NoColumn
           pk == PrimaryKeyIndex(catalog', s.name)
           of == [kind |-> "table", name |-> s.name]
           heap == Object(n, "heap")
           todo == <<heap>> \o [i \in DOMAIN pk |-> Object(pk[i].object_id, "index")]
           T == {t}
           I == IF s.primary_key_column = NoColumn THEN {} ELSE {k}
<1>0. /\ MayRunDdl /\ n + 2 <= MaxObjects /\ PersistThen(of, todo)
      /\ UNCHANGED <<storagevars, txn, txns, crashes, rows, acked>>
      /\ ~TableRejected(catalog, s.name, s.columns, s.primary_key_column)
      /\ catalog' = WithTable(catalog, s.name, s.columns, s.primary_key_column)
  BY DEF CreateTable, CreateTableInCatalog
<1>1. CatalogOK(catalog) /\ n \in Nat /\ \A o \in Ids(catalog) : o < n /\ o \in Nat
  BY IdsBelow DEF StructInv, Typed
<1>2. Extends(catalog', catalog, T, I)
  BY <1>0, <1>1, WithTableFacts
<1>3. /\ k.object_id = n + 1 /\ k.is_primary_key /\ k.table_name = s.name
      /\ t.heap_object_id = n /\ t.name = s.name
  BY DEF NewKey, NewTable, IndexInfo
<1>4. n \notin Ids(catalog) /\ n \in ObjectId /\ n + 1 \notin Ids(catalog) /\ n + 1 \in ObjectId /\ n # n + 1
  <2> HIDE DEF n
  <2>. QED  BY <1>0, <1>1, DdlAssumption DEF ObjectId
<1>5. of \in [kind : {"table", "index"}, name : AnyName] /\ of.kind = "table" /\ of.name = s.name
  BY DEF AnyName, TableName
<1>6. /\ \A u \in Tables(catalog) : u.name # s.name
      /\ \A i \in Indexes(catalog) : i.name # s.name /\ i.table_name # s.name
  BY <1>0, <1>1, NotInUse DEF TableRejected
<1>7. heap \in Todo /\ heap.id = n /\ heap.kind = "heap"
  BY <1>4 DEF Object, Todo
<1>8. CatalogOK(catalog') /\ Indexes(catalog') = Indexes(catalog) \cup I
  BY <1>2 DEF Extends
<1>9. T # {} /\ (\A u \in T : u.name = of.name) /\ \A i \in I : i.is_primary_key /\ i.table_name = of.name
  BY <1>3, <1>5
<1>10. CASE ~keyed
  <2>1. I = {} /\ IdsOf(T, I) = {n}
    BY <1>3, <1>10 DEF IdsOf
  <2>2. pk = <<>>
    BY <1>6, <1>8, <2>1, Lookups
  <2>3. todo = <<heap>>
    <3> HIDE DEF heap
    <3>. QED  BY <1>7, <2>2
  <2>4. todo \in Seq(Todo) /\ DOMAIN todo = {1} /\ ToSet(todo) = {heap}
    <3> HIDE DEF heap, todo
    <3>1. <<heap>> \in Seq(Todo) /\ DOMAIN <<heap>> = {1} /\ <<heap>>[1] = heap
      BY <1>7
    <3>. QED  BY <2>3, <3>1 DEF ToSet
  <2> HIDE DEF of, todo, heap, T, I, pk, n
  <2>5. {x.id : x \in ToSet(todo)} = IdsOf(T, I)
    BY <1>7, <2>1, <2>4
  <2>6. \A x \in ToSet(todo) : x.kind = "index" <=> x.id \in {i.object_id : i \in I}
    BY <1>7, <2>1, <2>4
  <2>7. \A x, y \in DOMAIN todo : todo[x].id = todo[y].id => x = y
    BY <2>4
  <2>8. \A o \in IdsOf(T, I) : o \notin Ids(catalog)
    BY <1>4, <2>1
  <2>9. Adds(of, todo, T, I)
    BY <1>2, <1>5, <1>6, <1>9, <2>4, <2>5, <2>6, <2>7, <2>8 DEF Adds
  <2>. QED  BY <1>0, <2>9 DEF Creates
<1>11. CASE keyed
  <2> DEFINE tree == Object(n + 1, "index")
  <2>1. I = {k} /\ IdsOf(T, I) = {n, n + 1} /\ {i.object_id : i \in I} = {n + 1}
    BY <1>3, <1>11 DEF IdsOf
  <2>2. pk = <<k>>
    <3>1. k \in Indexes(catalog')
      BY <1>8, <2>1
    <3> HIDE DEF k
    <3>. QED  BY <1>3, <1>8, <3>1, Lookups
  <2>3. tree \in Todo /\ tree.id = n + 1 /\ tree.kind = "index"
    BY <1>4 DEF Object, Todo
  <2>4. [i \in DOMAIN pk |-> Object(pk[i].object_id, "index")] = <<tree>>
    <3> HIDE DEF pk, k, tree
    <3>1. DOMAIN pk = {1} /\ pk[1] = k
      BY <2>2
    <3>2. Object(pk[1].object_id, "index") = tree
      BY <1>3, <3>1 DEF tree
    <3>. QED  BY <3>1, <3>2
  <2> DEFINE q == [i \in DOMAIN pk |-> Object(pk[i].object_id, "index")]
  <2>5. todo = <<heap>> \o q
    OBVIOUS
  <2> HIDE DEF of, todo, heap, tree, T, I, pk, n, q
  <2> DEFINE h == <<heap>>
             b == <<tree>>
  <2>6. todo = h \o b /\ h \in Seq(Todo) /\ b \in Seq(Todo) /\ Len(h) = 1 /\ Len(b) = 1 /\ h[1] = heap /\ b[1] = tree
    <3>1. q = <<tree>>
      BY <2>4 DEF q
    <3>. QED  BY <1>7, <2>3, <2>5, <3>1
  <2> HIDE DEF h, b
  <2>7. todo \in Seq(Todo) /\ DOMAIN todo = {1, 2} /\ todo[1] = heap /\ todo[2] = tree
    <3>0. /\ h \o b \in Seq(Todo) /\ Len(h \o b) = Len(h) + Len(b)
          /\ \A x \in 1..Len(h) + Len(b) : (h \o b)[x] = IF x <= Len(h) THEN h[x] ELSE b[x - Len(h)]
      BY <2>6, ConcatProperties
    <3>1. todo \in Seq(Todo) /\ Len(todo) = 2 /\ todo[1] = h[1] /\ todo[2] = b[1]
      BY <2>6, <3>0
    <3>2. DOMAIN todo = 1..2
      BY <2>6, <3>1, LenProperties
    <3>. QED  BY <2>6, <3>1, <3>2
  <2>8. ToSet(todo) = {heap, tree}
    BY <2>7 DEF ToSet
  <2>9. {x.id : x \in ToSet(todo)} = IdsOf(T, I)
    BY <1>7, <2>1, <2>3, <2>8
  <2>10. \A x \in ToSet(todo) : x.kind = "index" <=> x.id \in {i.object_id : i \in I}
    BY <1>4, <1>7, <2>1, <2>3, <2>8
  <2>11. \A x, y \in DOMAIN todo : todo[x].id = todo[y].id => x = y
    BY <1>4, <1>7, <2>3, <2>7
  <2>12. \A o \in IdsOf(T, I) : o \notin Ids(catalog)
    BY <1>4, <2>1
  <2>13. Adds(of, todo, T, I)
    BY <1>2, <1>5, <1>6, <1>9, <2>7, <2>9, <2>10, <2>11, <2>12 DEF Adds
  <2>. QED  BY <1>0, <2>13 DEF Creates
<1>. QED  BY <1>10, <1>11
-----------------------------------------------------------------------------
LEMMA InitStruct == Init => StructInv
<1> SUFFICES ASSUME Init PROVE StructInv
  OBVIOUS
<1>1. /\ catalog = Empty /\ metadata = <<>> /\ objects = {} /\ wal = <<>>
      /\ file = [o \in ObjectId |-> <<>>] /\ cache = [o \in ObjectId |-> <<>>] /\ dirty = [o \in ObjectId |-> {}]
      /\ txn = NoTxn /\ call = Idle /\ failures = 0 /\ rows = [t \in TableName |-> {}] /\ acked = {}
  BY DEF Init, CatalogInit
<1>2. Saved = Empty
  BY <1>1 DEF Saved, CatalogOnOpen
<1>3. call.at = "idle" /\ call.todo = <<>> /\ call.of.kind = "none" /\ ~Creating /\ TodoIds = {}
  BY <1>1 DEF Idle, Creating, TodoIds, ToSet
<1>4. CatalogOK(Empty) /\ TreeIds(Empty) = {} /\ Includes(Empty, Empty)
  <2>1. Empty.next_object_id \in Nat
    BY EmptyOK, CatalogFields DEF CatalogOK
  <2>. QED  BY <2>1, EmptyOK DEF Ids, Includes
<1>5. Typed
  <2>1. call \in [at : {"idle", "attach", "header", "flush", "down"}, todo : Seq(Todo),
                  of : [kind : {"none", "table", "index", "open"}, name : AnyName \cup {NoColumn}]]
    BY <1>1 DEF Idle
  <2>2. txn \in [state : {"none", "active", "committing", "logged"}, observed : SUBSET ObjectId,
                 dirtied : SUBSET (ObjectId \X Nat), added : SUBSET (TableName \X Row)]
    BY <1>1 DEF NoTxn
  <2>3. /\ file \in [ObjectId -> Seq(PageContent)] /\ cache \in [ObjectId -> Seq(PageContent)]
        /\ dirty \in [ObjectId -> SUBSET Nat] /\ rows \in [TableName -> SUBSET Row] /\ wal \in Seq(EntrySet)
    BY <1>1
  <2>. QED  BY <1>1, <1>4, <2>1, <2>2, <2>3 DEF Typed
<1>6. ControlInv
  BY <1>1, <1>3 DEF ControlInv, At
<1>7. ListedInv
  BY <1>1, <1>2, <1>3, <1>4 DEF ListedInv, NoTxn, ToSet
<1>8. PagesInv
  BY <1>1, <1>2, <1>3, <1>4 DEF PagesInv, NoTxn, At
<1>9. SavedInv
  BY <1>1, <1>2 DEF SavedInv
<1>10. AckedInv
  <2>1. AckedIds = {}
    BY <1>1, EmptyOK DEF AckedIds
  <2>. QED  BY <1>1, <2>1 DEF AckedInv
<1>. QED  BY <1>5, <1>6, <1>7, <1>8, <1>9, <1>10 DEF StructInv

\* TxnIds start at 1.
IdsInv == next_txn_id \in Nat \ {0}

LEMMA NextIds == IdsInv /\ [Next]_vars => IdsInv'
<1> SUFFICES ASSUME IdsInv, [Next]_vars PROVE next_txn_id' \in {next_txn_id, next_txn_id + 1, 1}
  BY DEF IdsInv
<1>1. CASE Begin \/ Crash
  BY <1>1 DEF Begin, Crash
<1>2. CASE Statement
  BY <1>1, <1>2 DEF Statement, Insert, LogUpdate, LogCommit, ForcePages, Abort, Checkpoint, CreateTable, CreateIndex
<1>3. CASE Storage \/ Open
  BY <1>3 DEF Storage, AttachStorage, NewHeader, FlushHeader, AttachDone, Populate, PopulateThrows, FlushBackfill,
              CreateIndexReturns, Open
<1>4. CASE Quiescent \/ UNCHANGED vars
  BY <1>4 DEF Quiescent, vars
<1>. QED  BY <1>1, <1>2, <1>3, <1>4 DEF Next

LEMMA StutterStruct ==
    ASSUME StructInv, UNCHANGED vars
    PROVE  StructInv'
<1>0. UNCHANGED <<catalog, metadata, objects, file, cache, dirty, wal, txn, call, failures, rows, acked>>
  BY DEF vars, catalogvars, storagevars, bounds
<1>1. Saved' = Saved
  BY <1>0, SavedSame
<1>2. (\A x : At(x)' = At(x)) /\ TodoIds' = TodoIds /\ NewIds' = NewIds /\ Creating' = Creating
      /\ Running' = Running /\ AckedIds' = AckedIds
  BY <1>0 DEF At, TodoIds, NewIds, Creating, Running, AckedIds
<1>3. Typed'
  BY <1>0 DEF StructInv, Typed
<1>4. ControlInv'
  BY <1>0, <1>2 DEF StructInv, ControlInv
<1>5. ListedInv'
  BY <1>0, <1>1, <1>2 DEF StructInv, ListedInv
<1>6. PagesInv'
  BY <1>0, <1>1, <1>2 DEF StructInv, PagesInv
<1>7. SavedInv' /\ AckedInv'
  BY <1>0, <1>1, <1>2 DEF StructInv, SavedInv, AckedInv
<1>. QED  BY <1>3, <1>4, <1>5, <1>6, <1>7 DEF StructInv

LEMMA NextStruct == StructInv /\ IdsInv /\ [Next]_vars => StructInv'
<1> SUFFICES ASSUME StructInv, IdsInv, [Next]_vars PROVE StructInv'
  OBVIOUS
<1>1. CASE Begin
  BY <1>1, BeginStruct DEF IdsInv
<1>2. ASSUME NEW t \in TableName, NEW r \in Row, Insert(t, r) PROVE StructInv'
  BY <1>2, InsertStruct
<1>3. CASE LogCommit
  BY <1>3, LogCommitStruct
<1>20. ASSUME NEW d \in txn.dirtied, LogUpdate(d[1], d[2]) PROVE StructInv'
  BY <1>20, LogUpdateStruct
<1>4. CASE ForcePages
  BY <1>4, ForcePagesStruct
<1>5. CASE Abort
  BY <1>5, AbortStruct
<1>6. CASE Checkpoint
  BY <1>6, CheckpointStruct
<1>7. ASSUME NEW s \in TableStatement, CreateTable(s) PROVE StructInv'
  BY <1>7, CreateTableAdds, CreatesStruct
<1>8. ASSUME NEW s \in IndexStatement, CreateIndex(s) PROVE StructInv'
  BY <1>8, CreateIndexAdds, CreatesStruct
<1>9. CASE AttachStorage
  BY <1>9, AttachStorageStruct
<1>10. CASE NewHeader
  BY <1>10, NewHeaderStruct
<1>11. CASE FlushHeader
  BY <1>11, FlushHeaderStruct
<1>12. CASE AttachDone
  BY <1>12, AttachDoneStruct
<1>13. CASE Populate
  BY <1>13, PopulateStruct
<1>14. CASE PopulateThrows
  BY <1>14, PopulateThrowsStruct
<1>15. ASSUME NEW p, FlushBackfill(p) PROVE StructInv'
  BY <1>15, FlushBackfillStruct
<1>16. CASE CreateIndexReturns
  BY <1>16, CreateIndexReturnsStruct
<1>17. CASE Crash
  BY <1>17, CrashStruct
<1>18. CASE Open
  BY <1>18, OpenStruct
<1>19. CASE Quiescent \/ UNCHANGED vars
  BY <1>19, StutterStruct DEF Quiescent
<1>. QED  BY <1>1, <1>2, <1>3, <1>4, <1>5, <1>6, <1>7, <1>8, <1>9, <1>10, <1>11, <1>12, <1>13, <1>14, <1>15,
             <1>16, <1>17, <1>18, <1>19, <1>20 DEF Next, Statement, Storage

\* The structure of the database is an invariant, with any number of
\* transactions between the steps of a CREATE.
THEOREM DdlInvariant == Spec => []StructInv
<1>1. Init => StructInv
  BY InitStruct
<1>2. StructInv /\ IdsInv /\ [Next]_vars => StructInv'
  BY NextStruct
<1>3. Init => IdsInv
  BY DEF Init, IdsInv
<1>4. IdsInv /\ [Next]_vars => IdsInv'
  BY NextIds
<1>. QED  BY <1>1, <1>2, <1>3, <1>4, PTL DEF Spec

\* OpenNeverFails (Database::Database, Recovery::Run): whatever step of a
\* CREATE or a commit the process died in, recovery finds the object and the
\* page of every record of the log.
THEOREM OpeningSucceeds == Spec => []OpenNeverFails
<1>1. StructInv => OpenNeverFails
  BY DEF StructInv, Typed, OpenNeverFails, At
<1>. QED  BY <1>1, DdlInvariant, PTL

\* FreshObject (database.h, AttachHeapStorage and AttachIndexStorage): an
\* object that is being created has no record, no page and no storage.
THEOREM NewObjectsAreFresh == Spec => []FreshObject
<1>1. StructInv => FreshObject
  <2> SUFFICES ASSUME StructInv, call.at \in {"attach", "header"}, call.of.kind \in {"table", "index"},
                      NEW i \in DOMAIN call.todo
               PROVE  /\ call.todo[i].id \notin objects
                      /\ \A n \in DOMAIN wal : \A r \in wal[n].updates : r.object # call.todo[i].id
                      /\ ~(At("header") /\ i = 1) => file[call.todo[i].id] = <<>>
    BY DEF FreshObject
  <2>1. Creating
    BY DEF Creating
  <2>2. call.todo[i].id \in TodoIds
    BY TodoFacts DEF StructInv
  <2>. QED  BY <2>1, <2>2 DEF StructInv, ListedInv
<1>. QED  BY <1>1, DdlInvariant, PTL

\* AckedDdlSurvives (Database::CreateTable, Database::CreateIndex): a CREATE
\* that returned is in the metadata file ever after, and its storage is
\* attached whenever the database is open.
THEOREM AcknowledgedDdlSurvives == Spec => []AckedDdlSurvives
<1>1. StructInv => AckedDdlSurvives
  <2> SUFFICES ASSUME StructInv, NEW n \in acked
               PROVE  /\ NameInUse(CatalogOnOpen, n)
                      /\ At("idle") => {t.heap_object_id : t \in ToSet(FindTable(catalog, n))} \cup
                             {i.object_id : i \in ToSet(PrimaryKeyIndex(catalog, n) \o FindIndex(catalog, n))}
                                 \subseteq objects
    BY DEF AckedDdlSurvives
  <2>1. CatalogOK(catalog) /\ CatalogOK(Saved)
    BY SavedOK DEF StructInv, Typed
  <2>2. NameInUse(CatalogOnOpen, n)
    <3>1. PICK x \in Tables(Saved) \cup Indexes(Saved) : x.name = n
      BY DEF StructInv, AckedInv
    <3>2. FindTable(Saved, n) = <<x>> \/ FindIndex(Saved, n) = <<x>>
      BY <2>1, <3>1, Lookups
    <3>. QED  BY <3>2 DEF NameInUse, Saved
  <2>3. ASSUME At("idle")
        PROVE  /\ \A t \in ToSet(FindTable(catalog, n)) : t.heap_object_id \in objects
               /\ \A i \in ToSet(PrimaryKeyIndex(catalog, n) \o FindIndex(catalog, n)) : i.object_id \in objects
    <3>1. AckedIds \subseteq objects
      <4>1. Running /\ call.todo = <<>>
        BY <2>3 DEF StructInv, ControlInv, Running, At
      <4>2. TodoIds = {}
        BY <4>1 DEF TodoIds, ToSet
      <4>. QED  BY <4>1, <4>2 DEF StructInv, AckedInv
    <3>2. ToSet(<<>>) = {} /\ \A x : ToSet(<<x>>) = {x}
      <4>1. \A x : DOMAIN <<x>> = {1} /\ <<x>>[1] = x
        OBVIOUS
      <4>. QED  BY <4>1 DEF ToSet
    <3>3. \A t \in ToSet(FindTable(catalog, n)) : t \in Tables(catalog) /\ t.name = n
      BY <2>1, <3>2, Lookups
    <3>4. \A i \in ToSet(FindIndex(catalog, n)) : i \in Indexes(catalog) /\ i.name = n
      BY <2>1, <3>2, Lookups
    <3>5. \A i \in ToSet(PrimaryKeyIndex(catalog, n)) :
              i \in Indexes(catalog) /\ i.table_name = n /\ i.is_primary_key
      BY <2>1, <3>2, Lookups
    <3>6. /\ PrimaryKeyIndex(catalog, n) \in Seq(IndexSet) /\ FindIndex(catalog, n) \in Seq(IndexSet)
      <4>1. \A i \in Indexes(catalog) : <<i>> \in Seq(IndexSet)
        <5>1. Indexes(catalog) \subseteq IndexSet
          BY <2>1, CatalogFields DEF CatalogOK
        <5>. QED  BY <5>1
      <4>2. PrimaryKeyIndex(catalog, n) = <<>> \/ \E i \in Indexes(catalog) : PrimaryKeyIndex(catalog, n) = <<i>>
        BY <2>1, Lookups
      <4>3. FindIndex(catalog, n) = <<>> \/ \E i \in Indexes(catalog) : FindIndex(catalog, n) = <<i>>
        BY <2>1, Lookups
      <4>4. <<>> \in Seq(IndexSet)
        OBVIOUS
      <4>. QED  BY <4>1, <4>2, <4>3, <4>4
    <3>7. ToSet(PrimaryKeyIndex(catalog, n) \o FindIndex(catalog, n))
            = ToSet(PrimaryKeyIndex(catalog, n)) \cup ToSet(FindIndex(catalog, n))
      BY <3>6, ConcatToSet
    <3>. QED  BY <3>1, <3>3, <3>4, <3>5, <3>7 DEF AckedIds
  <2>. QED  BY <2>2, <2>3
<1>. QED  BY <1>1, DdlInvariant, PTL

\* The catalog read back answers every lookup as the catalog that was written.
LEMMA ReloadedLookups ==
    ASSUME NEW c, CatalogOK(c)
    PROVE  SameLookups(c, c) /\ SameLookups(c, Load(Serialize(c)))
<1> DEFINE l == Load(Serialize(c))
<1>1. CatalogOK(l) /\ Places(l) = Places(c) /\ Indexes(l) = Indexes(c) /\ l.next_object_id = c.next_object_id
  BY Reloaded
<1>2. c \in CatalogSet
  BY DEF CatalogOK
<1>3. \A t \in Tables(c) : IndexesOnTable(l, t.name) = IndexesOnTable(c, t.name)
  BY SameIndexesOnTable
<1>4. Tables(l) = {ReadBack(t) : t \in Tables(c)}
  BY <1>2, LoadedTables
<1>5. \A t : /\ ReadBack(t).name = t.name /\ ReadBack(t).columns = t.columns
             /\ ReadBack(t).heap_object_id = t.heap_object_id
  BY DEF ReadBack
<1> HIDE DEF l
<1>6. \A d : {d.tables[i].name : i \in DOMAIN d.tables} = {t.name : t \in Tables(d)}
  BY DEF Tables, ToSet
<1>7. {t.name : t \in Tables(l)} = {t.name : t \in Tables(c)}
  BY <1>4, <1>5
<1>8. ASSUME NEW t \in Tables(c)
      PROVE  /\ FindTable(c, t.name) = <<t>> /\ FindTable(l, t.name) = <<ReadBack(t)>>
             /\ PrimaryKeyIndex(l, t.name) = PrimaryKeyIndex(c, t.name)
  <2>1. FindTable(c, t.name) = <<t>>
    BY Lookups
  <2>2. ReadBack(t) \in Tables(l) /\ ReadBack(t).name = t.name
    BY <1>4, <1>5
  <2>3. FindTable(l, t.name) = <<ReadBack(t)>>
    BY <1>1, <2>2, Lookups
  <2>4. PrimaryKeyIndex(l, t.name) = PrimaryKeyIndex(c, t.name)
    <3>1. CASE \E i \in Indexes(c) : i.table_name = t.name /\ i.is_primary_key
      <4>1. PICK i \in Indexes(c) : i.table_name = t.name /\ i.is_primary_key
        BY <3>1
      <4>2. PrimaryKeyIndex(c, t.name) = <<i>>
        BY <4>1, Lookups
      <4>3. PrimaryKeyIndex(l, t.name) = <<i>>
        BY <1>1, <4>1, Lookups
      <4>. QED  BY <4>2, <4>3
    <3>2. CASE \A i \in Indexes(c) : ~(i.table_name = t.name /\ i.is_primary_key)
      <4>1. PrimaryKeyIndex(c, t.name) = <<>>
        BY <3>2, Lookups
      <4>2. PrimaryKeyIndex(l, t.name) = <<>>
        BY <1>1, <3>2, Lookups
      <4>. QED  BY <4>1, <4>2
    <3>. QED  BY <3>1, <3>2
  <2>. QED  BY <2>1, <2>3, <2>4
<1>9. \A x : Len(<<x>>) = 1 /\ <<x>>[1] = x
  OBVIOUS
<1>10. \A d : {d.tables[i].name : i \in DOMAIN d.tables} = {t.name : t \in Tables(c)} =>
           (\A n \in {c.tables[i].name : i \in DOMAIN c.tables} \cup {d.tables[i].name : i \in DOMAIN d.tables} :
               \E t \in Tables(c) : n = t.name)
  BY <1>6
<1>11. ToSet(c.indexes) = Indexes(c) /\ ToSet(l.indexes) = Indexes(l)
  BY DEF Indexes
<1>12. SameLookups(c, c)
  <2>1. \A n \in {c.tables[i].name : i \in DOMAIN c.tables} \cup {c.tables[i].name : i \in DOMAIN c.tables} :
            Len(FindTable(c, n)) = 1
    <3> SUFFICES ASSUME NEW n \in {t.name : t \in Tables(c)} PROVE Len(FindTable(c, n)) = 1
      BY <1>6
    <3>1. PICK t \in Tables(c) : n = t.name
      OBVIOUS
    <3>2. FindTable(c, n) = <<t>>
      BY <1>8, <3>1
    <3>. QED  BY <1>9, <3>2
  <2>. QED  BY <2>1 DEF SameLookups
<1>13. SameLookups(c, l)
  <2>1. ASSUME NEW n \in {c.tables[i].name : i \in DOMAIN c.tables} \cup {l.tables[i].name : i \in DOMAIN l.tables}
        PROVE  /\ IndexesOnTable(c, n) = IndexesOnTable(l, n)
               /\ PrimaryKeyIndex(c, n) = PrimaryKeyIndex(l, n)
               /\ Len(FindTable(c, n)) = 1 /\ Len(FindTable(l, n)) = 1
               /\ FindTable(c, n)[1].columns = FindTable(l, n)[1].columns
               /\ FindTable(c, n)[1].heap_object_id = FindTable(l, n)[1].heap_object_id
    <3>1. PICK t \in Tables(c) : n = t.name
      BY <1>6, <1>7, <1>10
    <3>2. FindTable(c, n) = <<t>> /\ FindTable(l, n) = <<ReadBack(t)>>
      BY <1>8, <3>1
    <3>3. FindTable(c, n)[1] = t /\ FindTable(l, n)[1] = ReadBack(t) /\ Len(FindTable(c, n)) = 1 /\ Len(FindTable(l, n)) = 1
      BY <1>9, <3>2
    <3>. QED  BY <1>3, <1>5, <1>8, <3>1, <3>3
  <2>. QED  BY <1>1, <1>11, <2>1 DEF SameLookups
<1>. QED  BY <1>12, <1>13 DEF l

\* LookupsSurviveReload (Catalog::Persist, Catalog::Load): the metadata file
\* gives the planner and the executor the answers of the catalog in memory.
THEOREM ReloadKeepsLookups == Spec => []LookupsSurviveReload
<1>1. StructInv => LookupsSurviveReload
  <2> SUFFICES ASSUME StructInv, Running, failures = 0 \/ At("attach")
               PROVE  SameLookups(catalog, CatalogOnOpen)
    BY DEF LookupsSurviveReload
  <2>1. CatalogOK(catalog)
    BY DEF StructInv, Typed
  <2>2. catalog = Saved \/ metadata = <<Serialize(catalog)>>
    BY DEF StructInv, SavedInv, At
  <2>3. CASE catalog = Saved
    BY <2>1, <2>3, ReloadedLookups DEF Saved
  <2>4. CASE metadata = <<Serialize(catalog)>>
    <3> DEFINE x == Serialize(catalog)
    <3>1. metadata = <<x>>
      BY <2>4
    <3> HIDE DEF x
    <3>2. metadata # <<>> /\ metadata[1] = x
      BY <3>1
    <3>3. CatalogOnOpen = Load(Serialize(catalog))
      BY <3>2 DEF CatalogOnOpen, x
    <3>. QED  BY <2>1, <3>3, ReloadedLookups
  <2>. QED  BY <2>2, <2>3, <2>4
<1>. QED  BY <1>1, DdlInvariant, PTL
=============================================================================
