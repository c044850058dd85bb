------------------------------ MODULE Planner ------------------------------
(***************************************************************************)
(* How a WHERE clause and a JOIN are planned and executed                  *)
(* (src/src/sql/planner.cpp, sql_semantics.cpp and the SELECT half of      *)
(* executor.cpp), as operators on a catalog and the contents of a          *)
(* database, beside the answer SQL defines.                                *)
(*                                                                         *)
(* A row is the sequence of its values; a TEXT value is its rank in the    *)
(* order of the texts, and a literal keeps its kind.  db.rows[t] maps the  *)
(* RIDs of table t to rows, db.index[i] is the sequence of the <<key, RID>> *)
(* entries of index i.  A result is a set of <<RID, values>> pairs, so     *)
(* that equal rows stay apart.                                             *)
(***************************************************************************)
EXTENDS Schema

CONSTANT NoTable   \* a ColumnRef without a table

\* CompareLiterals and the switch on the comparator.
Compare(op, a, b) ==
    \/ op = "="  /\ a = b
    \/ op = "<>" /\ a # b
    \/ op = "<"  /\ a < b
    \/ op = "<=" /\ a <= b
    \/ op = ">"  /\ a > b
    \/ op = ">=" /\ a >= b

EvaluatePredicate(table, row, pred) ==
    Compare(pred.op, row[ColumnIndex(table, pred.column.column)], pred.value.value)

MatchesAll(table, row, preds) == \A i \in DOMAIN preds : EvaluatePredicate(table, row, preds[i])

\* RequireColumn and RequireLiteralMatchesColumn do not throw.
LiteralFits(table, column, literal) ==
    HasColumn(table, column) /\ ColumnType(table, column) = literal.kind

ValidPredicate(table, pred) ==
    /\ pred.column.table \in {NoTable, table.name}
    /\ LiteralFits(table, pred.column.column, pred.value)

FindIndexOnColumn(cat, name, column) ==
    LET on == IndexesOnTable(cat, name)
    IN  First(on, {i \in DOMAIN on : on[i].column_name = column})
-----------------------------------------------------------------------------
\* PlanTableAccess throws.
AccessRejected(cat, name, preds) ==
    \/ FindTable(cat, name) = <<>>
    \/ \E i \in DOMAIN preds : ~ValidPredicate(FindTable(cat, name)[1], preds[i])

\* The predicate is an equality with a column that has an index.
Drives(cat, name, preds, i) ==
    preds[i].op = "=" /\ FindIndexOnColumn(cat, name, preds[i].column.column) # <<>>

\* Faulty variant: the predicates behind the driving one are forgotten.
WithoutRest(preds, i) == SubSeq(preds, 1, i - 1)

\* All predicates but the i-th stay residual.
Without(preds, i) == SubSeq(preds, 1, i - 1) \o SubSeq(preds, i + 1, Len(preds))

\* The first predicate that can drive an index scan does; without one the
\* table is scanned.
PlanTableAccess(cat, name, preds) ==
    LET drivers == {i \in DOMAIN preds : Drives(cat, name, preds, i)}
        first   == CHOOSE i \in drivers : \A j \in drivers : i <= j
    IN  IF drivers = {}
        THEN [table |-> name, method |-> "SeqScan", residual |-> preds]
        ELSE [table |-> name, method |-> "IndexScan",
              index |-> FindIndexOnColumn(cat, name, preds[first].column.column)[1].name,
              key |-> preds[first].value.value, residual |-> Without(preds, first)]
-----------------------------------------------------------------------------
\* ResolveColumnSide, where "error" is its exception.
ResolveColumnSide(outer, inner, col) ==
    IF col.table # NoTable
    THEN IF col.table = outer.name /\ HasColumn(outer, col.column) THEN "outer"
         ELSE IF col.table = inner.name /\ HasColumn(inner, col.column) THEN "inner"
         ELSE "error"
    ELSE IF HasColumn(outer, col.column) = HasColumn(inner, col.column) THEN "error"
         ELSE IF HasColumn(outer, col.column) THEN "outer" ELSE "inner"

SideTable(outer, inner, col) ==
    IF ResolveColumnSide(outer, inner, col) = "outer" THEN outer ELSE inner

\* The join column of a side of the ON clause.
JoinColumn(outer, inner, join, side) ==
    IF ResolveColumnSide(outer, inner, join.left) = side THEN join.left.column ELSE join.right.column

JoinRejected(outer, inner, stmt) ==
    LET join == stmt.join[1]
        Side(col) == ResolveColumnSide(outer, inner, col)
    IN  \/ inner.name = outer.name
        \/ {Side(join.left), Side(join.right)} # {"outer", "inner"}
        \/ ColumnType(outer, JoinColumn(outer, inner, join, "outer"))
               # ColumnType(inner, JoinColumn(outer, inner, join, "inner"))
        \/ \E i \in DOMAIN stmt.where :
              \/ Side(stmt.where[i].column) = "error"
              \/ ~LiteralFits(SideTable(outer, inner, stmt.where[i].column),
                              stmt.where[i].column.column, stmt.where[i].value)
        \/ ~stmt.star /\ \E i \in DOMAIN stmt.list : Side(stmt.list[i]) = "error"

\* PlanSelect throws.
SelectRejected(cat, stmt) ==
    \/ FindTable(cat, stmt.from) = <<>>
    \/ LET table == FindTable(cat, stmt.from)[1]
       IN  IF stmt.join = <<>>
           THEN \/ ~stmt.star /\ \E i \in DOMAIN stmt.list :
                       stmt.list[i].table \notin {NoTable, table.name} \/ ~HasColumn(table, stmt.list[i].column)
                \/ AccessRejected(cat, stmt.from, stmt.where)
           ELSE \/ FindTable(cat, stmt.join[1].table) = <<>>
                \/ JoinRejected(table, FindTable(cat, stmt.join[1].table)[1], stmt)

\* The WHERE predicates of one side of a join.
PredicatesOf(outer, inner, preds, side) ==
    Keep(preds, {i \in DOMAIN preds : ResolveColumnSide(outer, inner, preds[i].column) = side})

\* PlanSelect for a join: the inner side uses an index only on its join column.
PlanJoin(cat, outer, inner, stmt) ==
    LET column == JoinColumn(outer, inner, stmt.join[1], "inner")
        found  == FindIndexOnColumn(cat, inner.name, column)
    IN  [outer |-> PlanTableAccess(cat, outer.name, PredicatesOf(outer, inner, stmt.where, "outer")),
         outer_join_column |-> JoinColumn(outer, inner, stmt.join[1], "outer"),
         inner_join_column |-> column,
         inner_residual |-> PredicatesOf(outer, inner, stmt.where, "inner"),
         inner_index |-> IF found = <<>> THEN <<>> ELSE <<found[1].name>>]
-----------------------------------------------------------------------------
\* BPlusTree::Search.
Search(entries, key) ==
    LET hits == Keep(entries, {i \in DOMAIN entries : entries[i][1] = key})
    IN  [i \in DOMAIN hits |-> hits[i][2]]

\* The RIDs it returns, in any order.
Hits(entries, key) == {entries[i][2] : i \in {j \in DOMAIN entries : entries[j][1] = key}}

\* The RIDs FetchCandidateRows reads.
CandidateRids(db, access) ==
    IF access.method = "SeqScan" THEN DOMAIN db.rows[access.table]
    ELSE Hits(db.index[access.index], access.key)

FetchMatching(db, table, access) ==
    {rid \in CandidateRids(db, access) : MatchesAll(table, db.rows[access.table][rid], access.residual)}

\* The values of the select list; a column of a join comes from its side.
Project(table, row, stmt) ==
    IF stmt.star THEN row
    ELSE [i \in DOMAIN stmt.list |-> row[ColumnIndex(table, stmt.list[i].column)]]

ProjectJoin(outer, inner, o, i, stmt) ==
    IF stmt.star THEN o \o i
    ELSE [k \in DOMAIN stmt.list |->
             LET col == stmt.list[k]
             IN  IF ResolveColumnSide(outer, inner, col) = "outer"
                 THEN o[ColumnIndex(outer, col.column)] ELSE i[ColumnIndex(inner, col.column)]]

ExecuteSelectSingleTable(db, cat, stmt) ==
    LET table  == FindTable(cat, stmt.from)[1]
        access == PlanTableAccess(cat, stmt.from, stmt.where)
    IN  {<<rid, Project(table, db.rows[stmt.from][rid], stmt)>> : rid \in FetchMatching(db, table, access)}

\* The rows of the inner table an outer row meets: those its index lists
\* under the outer value, or those of a scan that are equal to it.
InnerRids(db, inner, plan, value) ==
    LET matching == IF plan.inner_index # <<>> THEN Hits(db.index[plan.inner_index[1]], value)
                    ELSE {rid \in DOMAIN db.rows[inner.name] :
                             db.rows[inner.name][rid][ColumnIndex(inner, plan.inner_join_column)] = value}
    IN  {rid \in matching : MatchesAll(inner, db.rows[inner.name][rid], plan.inner_residual)}

ExecuteSelectJoin(db, cat, stmt) ==
    LET outer == FindTable(cat, stmt.from)[1]
        inner == FindTable(cat, stmt.join[1].table)[1]
        plan  == PlanJoin(cat, outer, inner, stmt)
        Row(t, rid) == db.rows[t.name][rid]
    IN  UNION {{<<<<o, i>>, ProjectJoin(outer, inner, Row(outer, o), Row(inner, i), stmt)>> :
                   i \in InnerRids(db, inner, plan, Row(outer, o)[ColumnIndex(outer, plan.outer_join_column)])} :
               o \in FetchMatching(db, outer, plan.outer)}

ExecuteSelect(db, cat, stmt) ==
    IF stmt.join = <<>> THEN ExecuteSelectSingleTable(db, cat, stmt) ELSE ExecuteSelectJoin(db, cat, stmt)
-----------------------------------------------------------------------------
(* What SQL says, without plans and without indexes. *)

\* All rows that satisfy the whole WHERE clause.
MatchingRows(db, table, preds) ==
    {rid \in DOMAIN db.rows[table.name] : MatchesAll(table, db.rows[table.name][rid], preds)}

SingleTableAnswer(db, cat, stmt) ==
    LET table == FindTable(cat, stmt.from)[1]
    IN  {<<rid, Project(table, db.rows[stmt.from][rid], stmt)>> : rid \in MatchingRows(db, table, stmt.where)}

\* All pairs of rows that satisfy the ON and the WHERE clause.
JoinAnswer(db, cat, stmt) ==
    LET outer == FindTable(cat, stmt.from)[1]
        inner == FindTable(cat, stmt.join[1].table)[1]
        ValueOf(col, o, i) == IF ResolveColumnSide(outer, inner, col) = "outer"
                              THEN db.rows[outer.name][o][ColumnIndex(outer, col.column)]
                              ELSE db.rows[inner.name][i][ColumnIndex(inner, col.column)]
        Meets(o, i) == /\ ValueOf(stmt.join[1].left, o, i) = ValueOf(stmt.join[1].right, o, i)
                       /\ \A p \in DOMAIN stmt.where :
                             Compare(stmt.where[p].op, ValueOf(stmt.where[p].column, o, i), stmt.where[p].value.value)
    IN  {<<<<oi[1], oi[2]>>, ProjectJoin(outer, inner, db.rows[outer.name][oi[1]], db.rows[inner.name][oi[2]], stmt)>> :
            oi \in {x \in (DOMAIN db.rows[outer.name]) \X (DOMAIN db.rows[inner.name]) : Meets(x[1], x[2])}}

Answer(db, cat, stmt) ==
    IF stmt.join = <<>> THEN SingleTableAnswer(db, cat, stmt) ELSE JoinAnswer(db, cat, stmt)

\* An index has one entry for every row of its table, under the row's value.
IndexAgrees(db, cat, index) ==
    LET table   == FindTable(cat, index.table_name)[1]
        entries == db.index[index.name]
    IN  /\ {entries[i] : i \in DOMAIN entries} =
              {<<db.rows[table.name][rid][ColumnIndex(table, index.column_name)], rid>> :
                  rid \in DOMAIN db.rows[table.name]}
        /\ \A i, j \in DOMAIN entries : entries[i] = entries[j] => i = j

AllIndexesAgree(db, cat) == \A i \in DOMAIN cat.indexes : IndexAgrees(db, cat, cat.indexes[i])
=============================================================================
