------------------------------ MODULE Catalog ------------------------------
(***************************************************************************)
(* The schema of a database (src/src/catalog/catalog.{h,cpp}): tables and  *)
(* indexes in memory, the counter ObjectIds come from, and the metadata    *)
(* file they are written to and read back from.                            *)
(*                                                                         *)
(* A change is made in memory first and then written to a new file that    *)
(* replaces the old one with one rename, so the file has the old content   *)
(* or the new one.  The words of the file are kept where they decide what  *)
(* is read back: the kind of an index and the word for "no primary key".   *)
(***************************************************************************)
EXTENDS Schema, SequencesExt

CONSTANTS NoColumn,  \* no primary_key_column
          NONE       \* the word the file has for it; also a legal column name

ASSUME CatalogAssumption == NoColumn # NONE

VARIABLES catalog,   \* tables_, indexes_ and next_object_id_
          metadata   \* catalog.meta: <<>> while there is no such file

catalogvars == <<catalog, metadata>>

Empty == [tables |-> <<>>, indexes |-> <<>>, next_object_id |-> 0]
-----------------------------------------------------------------------------
NameInUse(cat, name) == FindTable(cat, name) # <<>> \/ FindIndex(cat, name) # <<>>

\* An index can only be built on an INTEGER column.
Indexable(columns, column) ==
    \E i \in DOMAIN columns : columns[i] = [name |-> column, type |-> kInteger]

\* CreateTable throws, before it has changed anything.
TableRejected(cat, name, columns, primary_key_column) ==
    \/ NameInUse(cat, name)
    \/ columns = <<>>
    \/ \E i, j \in DOMAIN columns : i < j /\ columns[i].name = columns[j].name
    \/ primary_key_column # NoColumn /\ ~Indexable(columns, primary_key_column)

IndexRejected(cat, name, table_name, column_name) ==
    \/ NameInUse(cat, name)
    \/ FindTable(cat, table_name) = <<>>
    \/ ~Indexable(FindTable(cat, table_name)[1].columns, column_name)

\* No identifier of the SQL grammar is equal to the name of such an index.
PkIndexName(name, column) == <<name, column, "#pk">>

IndexInfo(name, table_name, column_name, object_id, is_primary_key) ==
    [name |-> name, table_name |-> table_name, column_name |-> column_name,
     object_id |-> object_id, is_primary_key |-> is_primary_key]

\* Faulty variant: the table and its primary key index get one ObjectId.
WithTableOneId(cat, name, columns, primary_key_column) ==
    LET id == cat.next_object_id
    IN  [tables  |-> Append(cat.tables, [name |-> name, columns |-> columns,
                         primary_key_column |-> primary_key_column, heap_object_id |-> id]),
         indexes |-> IF primary_key_column = NoColumn THEN cat.indexes
                     ELSE Append(cat.indexes, IndexInfo(PkIndexName(name, primary_key_column), name,
                                                        primary_key_column, id, TRUE)),
         next_object_id |-> id + 1]

\* The catalog in memory after CreateTable: AllocateObjectId for the heap
\* file and then for the index of the primary key.
WithTable(cat, name, columns, primary_key_column) ==
    LET id == cat.next_object_id
        keyed == primary_key_column # NoColumn
    IN  [tables  |-> Append(cat.tables, [name |-> name, columns |-> columns,
                         primary_key_column |-> primary_key_column, heap_object_id |-> id]),
         indexes |-> IF ~keyed THEN cat.indexes
                     ELSE Append(cat.indexes, IndexInfo(PkIndexName(name, primary_key_column), name,
                                                        primary_key_column, id + 1, TRUE)),
         next_object_id |-> IF keyed THEN id + 2 ELSE id + 1]

WithIndex(cat, name, table_name, column_name) ==
    [cat EXCEPT !.indexes = Append(@, IndexInfo(name, table_name, column_name, cat.next_object_id, FALSE)),
                !.next_object_id = @ + 1]
-----------------------------------------------------------------------------
\* What Persist writes: the indexes of a table stand under their table.
Serialize(cat) ==
    [next_object_id |-> cat.next_object_id,
     tables |-> [i \in DOMAIN cat.tables |->
         LET table == cat.tables[i]
             on    == IndexesOnTable(cat, table.name)
         IN  [name |-> table.name, heap_object_id |-> table.heap_object_id, columns |-> table.columns,
              primary_key |-> IF table.primary_key_column = NoColumn THEN NONE
                              ELSE table.primary_key_column,
              indexes |-> [j \in DOMAIN on |->
                  [name |-> on[j].name, column_name |-> on[j].column_name, object_id |-> on[j].object_id,
                   kind |-> IF on[j].is_primary_key THEN "PK" ELSE "SEC"]]]]]

\* Faulty variant: what an index is for is not read back.
LoadedIndexPlain(entry, index) ==
    IndexInfo(index.name, entry.name, index.column_name, index.object_id, FALSE)

LoadedIndex(entry, index) ==
    IndexInfo(index.name, entry.name, index.column_name, index.object_id, index.kind = "PK")

\* What Load makes of it: the indexes come back table by table, whatever
\* order they were created in.
Load(content) ==
    [next_object_id |-> content.next_object_id,
     tables |-> [i \in DOMAIN content.tables |->
         LET entry == content.tables[i]
         IN  [name |-> entry.name, columns |-> entry.columns, heap_object_id |-> entry.heap_object_id,
              primary_key_column |-> IF entry.primary_key = NONE THEN NoColumn ELSE entry.primary_key]],
     indexes |->
         LET list[n \in 0..Len(content.tables)] ==
                 IF n = 0 THEN <<>>
                 ELSE LET entry == content.tables[n]
                      IN  list[n - 1] \o
                              [j \in DOMAIN entry.indexes |-> LoadedIndex(entry, entry.indexes[j])]
         IN  list[Len(content.tables)]]

\* The constructor: a database without the file is an empty one.
CatalogOnOpen == IF metadata = <<>> THEN Empty ELSE Load(metadata[1])

\* Faulty variant: the file is written before the change is made.
PersistEarly == metadata' = <<Serialize(catalog)>>

\* A new file is written, synced and renamed over the old one.
Persist == metadata' = <<Serialize(catalog')>>

\* open, write, fsync or rename failed: the exception leaves the change in
\* memory and the old file in place.
PersistThrows == UNCHANGED metadata

CatalogInit == catalog = Empty /\ metadata = <<>>

\* The change in memory and the call of Persist, which may throw.
CreateTableInCatalog(name, columns, primary_key_column) ==
    /\ ~TableRejected(catalog, name, columns, primary_key_column)
    /\ catalog' = WithTable(catalog, name, columns, primary_key_column)

CreateIndexInCatalog(name, table_name, column_name) ==
    /\ ~IndexRejected(catalog, name, table_name, column_name)
    /\ catalog' = WithIndex(catalog, name, table_name, column_name)
-----------------------------------------------------------------------------
\* The lookups statements are planned and executed with.
SameLookups(a, b) ==
    LET names == {a.tables[i].name : i \in DOMAIN a.tables} \cup {b.tables[i].name : i \in DOMAIN b.tables}
    IN  /\ \A n \in names :
              /\ IndexesOnTable(a, n) = IndexesOnTable(b, n)
              /\ PrimaryKeyIndex(a, n) = PrimaryKeyIndex(b, n)
              /\ LET s == FindTable(a, n)  t == FindTable(b, n)
                 IN  /\ Len(s) = 1 /\ Len(t) = 1
                     /\ s[1].columns = t[1].columns /\ s[1].heap_object_id = t[1].heap_object_id
        /\ ToSet(a.indexes) = ToSet(b.indexes)
        /\ a.next_object_id = b.next_object_id
=============================================================================
