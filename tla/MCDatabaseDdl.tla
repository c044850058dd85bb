--------------------------- MODULE MCDatabaseDdl ---------------------------
(* Small instances of DDL for TLC. *)
EXTENDS DatabaseDdl, TLC

CONSTANTS users, orders, by_age, ident, age, note, r1, r2

Columns(pk) == <<[name |-> pk, type |-> kInteger], [name |-> age, type |-> kInteger],
                 [name |-> note, type |-> kText]>>

\* Two tables, the second with a primary key column of the name NONE, and
\* statements that are rejected: no column, a column twice, a key that is
\* TEXT or not a column, a name that is taken.
Tables2 ==
    {[name |-> users, columns |-> Columns(ident), primary_key_column |-> NoColumn],
     [name |-> orders, columns |-> Columns(NONE), primary_key_column |-> NONE],
     [name |-> orders, columns |-> <<>>, primary_key_column |-> NoColumn],
     [name |-> orders, columns |-> Columns(age), primary_key_column |-> NoColumn],
     [name |-> orders, columns |-> Columns(ident), primary_key_column |-> note],
     [name |-> orders, columns |-> Columns(ident), primary_key_column |-> NONE],
     [name |-> by_age, columns |-> Columns(ident), primary_key_column |-> NoColumn]}

Indexes1 ==
    {[name |-> by_age, table_name |-> users, column_name |-> age],
     [name |-> by_age, table_name |-> users, column_name |-> note],
     [name |-> orders, table_name |-> users, column_name |-> age]}

Rows2 == {r1, r2}

\* Rows are only compared for equality.
RowSymmetry == Permutations(Row)
=============================================================================
