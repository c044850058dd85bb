------------------------------- MODULE Schema -------------------------------
(***************************************************************************)
(* A catalog as a value (src/src/catalog/catalog.h) and the lookups that   *)
(* the planner and the executor make in it.  cat has the fields tables,    *)
(* indexes and next_object_id; a lookup returns a sequence, where <<>>     *)
(* stands for nullptr.                                                     *)
(***************************************************************************)
EXTENDS Naturals, Sequences

kInteger == "INTEGER"
kText    == "TEXT"

\* The element a loop over list returns that stops at the first of hits.
First(list, hits) == IF hits = {} THEN <<>> ELSE <<list[CHOOSE i \in hits : \A j \in hits : i <= j]>>

\* The elements a loop over list collects that takes those at hits.
Keep(list, hits) ==
    LET kept[n \in 0..Len(list)] ==
            IF n = 0 THEN <<>>
            ELSE IF n \notin hits THEN kept[n - 1]
            ELSE Append(kept[n - 1], list[n])
    IN  kept[Len(list)]

FindTable(cat, name) == First(cat.tables, {i \in DOMAIN cat.tables : cat.tables[i].name = name})

FindIndex(cat, name) == First(cat.indexes, {i \in DOMAIN cat.indexes : cat.indexes[i].name = name})

IndexesOnTable(cat, name) ==
    LET result[n \in 0..Len(cat.indexes)] ==
            IF n = 0 THEN <<>>
            ELSE IF cat.indexes[n].table_name # name THEN result[n - 1]
            ELSE Append(result[n - 1], cat.indexes[n])
    IN  result[Len(cat.indexes)]

PrimaryKeyIndex(cat, name) ==
    First(cat.indexes, {i \in DOMAIN cat.indexes : /\ cat.indexes[i].table_name = name
                                                  /\ cat.indexes[i].is_primary_key})

\* TableInfo::FindColumn finds one.
HasColumn(table, column) == \E i \in DOMAIN table.columns : table.columns[i].name = column

\* The position of a column that the table has; names are not repeated.
ColumnIndex(table, column) == CHOOSE i \in DOMAIN table.columns : table.columns[i].name = column

ColumnType(table, column) == table.columns[ColumnIndex(table, column)].type
=============================================================================
