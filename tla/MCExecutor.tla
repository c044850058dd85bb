----------------------------- MODULE MCExecutor -----------------------------
(* Small instances of the executor for TLC. *)
EXTENDS Executor

Txn2 == 1..2
Autocommit1 == {1}

IntColumn(name) == [name |-> name, type |-> kInteger]
Index(name, table, column, pk) ==
    [name |-> name, table_name |-> table, column_name |-> column, is_primary_key |-> pk]

\* t(id PRIMARY KEY, v) with an index on v; s(k, v, w) with an index on k.
Cat2 ==
    [tables  |-> <<[name |-> "t", columns |-> <<IntColumn("id"), IntColumn("v")>>],
                   [name |-> "s", columns |-> <<IntColumn("k"), IntColumn("v"), [name |-> "w", type |-> kText]>>]>>,
     indexes |-> <<Index("t.id#pk", "t", "id", TRUE), Index("by_v", "t", "v", FALSE), Index("by_k", "s", "k", FALSE)>>]

OtherRows ==
    [rows  |-> [x \in {"s"} |-> [rid \in {<<1, 1>>, <<1, 2>>, <<1, 3>>} |->
                   CASE rid[2] = 1 -> <<1, 2, 1>> [] rid[2] = 2 -> <<1, 1, 2>> [] OTHER -> <<2, 1, 1>>]],
     index |-> [x \in {"by_k"} |-> <<<<1, <<1, 1>>>>, <<1, <<1, 2>>>>, <<2, <<1, 3>>>>>>]]

Col(table, column) == [table |-> table, column |-> column]
Pred(table, column, op, n) == [column |-> Col(table, column), op |-> op, value |-> [kind |-> kInteger, value |-> n]]
On(column, op, n) == Pred(NoTable, column, op, n)

InsertStmt(row, fits) == [kind |-> "insert", row |-> row, fits |-> fits]
DeleteStmt(where) == [kind |-> "delete", where |-> where]
SelectStmt(where) == [kind |-> "select", where |-> where]
UpdateStmt(column, n, where, fits) ==
    [kind |-> "update", set |-> <<[column |-> column, value |-> n]>>, where |-> where, fits |-> fits]

Statements ==
    {InsertStmt(<<1, 1>>, TRUE), InsertStmt(<<3, 2>>, TRUE), InsertStmt(<<3, 1>>, FALSE),
     DeleteStmt(<<On("v", "=", 1)>>), DeleteStmt(<<On("id", ">", 1)>>),
     UpdateStmt("v", 2, <<On("v", "=", 1)>>, TRUE), UpdateStmt("id", 1, <<>>, TRUE),
     UpdateStmt("id", 2, <<On("id", "=", 1), On("v", "<>", 2)>>, TRUE),
     UpdateStmt("v", 1, <<>>, FALSE),
     SelectStmt(<<On("v", "=", 2)>>), SelectStmt(<<>>)}

Values123 == 1..3

Rows012 == {<<>>, <<<<1, 1>>>>, <<<<1, 1>>, <<2, 1>>>>}

Select(from, join, where, list) ==
    [from |-> from, join |-> join, where |-> where, star |-> list = <<>>, list |-> list]
Join(table, left, right) == <<[table |-> table, left |-> left, right |-> right]>>

\* Index and table scans, a second equality, joins with and without an index
\* on the inner side, with the ON clause in either order, with WHERE on both
\* sides, and queries that are rejected: an ambiguous column, two columns of
\* one side, an unknown table, TEXT joined with INTEGER.
Queries ==
    {Select("t", <<>>, <<On("v", "=", 1), On("id", ">=", 2)>>, <<>>),
     Select("t", <<>>, <<On("v", "<", 2), On("id", "=", 1)>>, <<Col("t", "v")>>),
     Select("t", <<>>, <<On("id", "<=", 2), Pred("t", "v", "<>", 1)>>, <<>>),
     Select("t", <<>>, <<On("v", "=", 1), On("v", "=", 2)>>, <<>>),
     Select("t", Join("s", Col(NoTable, "id"), Col(NoTable, "k")), <<Pred("s", "v", ">", 1)>>, <<>>),
     Select("t", Join("s", Col("s", "v"), Col("t", "v")), <<On("id", "=", 1)>>, <<Col("s", "v"), Col(NoTable, "w")>>),
     Select("s", Join("t", Col("s", "k"), Col("t", "v")), <<On("k", "=", 1), Pred("t", "v", "=", 1)>>, <<Col(NoTable, "id"), Col("s", "v")>>),
     Select("t", Join("s", Col("t", "id"), Col("s", "k")), <<On("v", "=", 1)>>, <<>>),
     Select("t", Join("s", Col("t", "id"), Col("t", "v")), <<>>, <<>>),
     Select("t", Join("s", Col("t", "id"), Col("s", "w")), <<>>, <<>>),
     Select("t", Join("u", Col("t", "id"), Col("u", "k")), <<>>, <<>>)}
=============================================================================
