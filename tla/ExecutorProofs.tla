--------------------------- MODULE ExecutorProofs ---------------------------
(***************************************************************************)
(* Proofs about the executor and the planner, for every catalog, every set *)
(* of statements, any number of transactions and any size of pages and     *)
(* file.                                                                   *)
(*                                                                         *)
(* What a transaction may rely on is said by TxnOK, a predicate of its own *)
(* call, its changes and the rows it sees: the pages it has changed as     *)
(* they are cached, the other ones as they are in the file.  The steps of  *)
(* a transaction are lemmas about TxnOK alone; that no step of another     *)
(* transaction disturbs it is the work of the locks.                       *)
(***************************************************************************)
EXTENDS Executor, SequenceLemmas

LP == INSTANCE LockManagerProofs

Rid   == (1..MaxPages) \X (1..SlotsPerPage)
Found == Rid \X Row
Entry == Value \X Rid
SlotType == [row : Row, live : BOOLEAN]
Page  == {p \in [formatted : BOOLEAN, slots : Seq(SlotType)] : Len(p.slots) <= SlotsPerPage}
Arg   == Value \cup Rid \cup Entry \cup Row \cup (1..MaxPages)
DoType == {"search", "get", "scan", "delete", "tree_delete", "tree_insert", "insert", "put"}
AccessType == [do : DoType, page : PageKey, mode : LM!LockMode, arg : Arg]
CallType ==
    [stage : {"none", "fetch", "check", "mutate"}, stmt : Stmt \cup {[kind |-> "none"]},
     todo : Seq(AccessType), got : Seq(Found), hits : SUBSET Rid, rid : Rid \cup {<<0, 0>>}, begun : Nat]

\* The values of the variables the proofs speak of.  A call never is
\* "out_of_sync".
Typed ==
    /\ heap \in Seq(Page) /\ heap_file \in Seq(Page)
    /\ Len(heap_file) = Len(heap) /\ Len(heap) <= MaxPages
    /\ tree \in [IndexId -> Seq(Entry)] /\ tree_file \in [IndexId -> Seq(Entry)]
    /\ dirtied \in [Txn -> SUBSET PageKey]
    /\ call \in [Txn -> CallType]
-----------------------------------------------------------------------------
N == Len(Indexes)
IndexRoot(j) == Root(Indexes[j].name)
Key(j, row)  == KeyOf(Indexes[j], row)
PkRoot       == Root(Pk[1].name)

\* The rows of some pages, and the entries an index has for rows.
Content(pages) == {<<rid, RowAt(pages, rid)>> : rid \in Rids(pages)}
Entries(j, found) == {<<Key(j, x[2]), x[1]>> : x \in found}

\* The pages a transaction sees that has changed the pages d.
Seen(h, f, d) == [p \in DOMAIN h |-> IF HeapPage(p) \in d THEN h[p] ELSE f[p]]
View(t) == Seen(heap, heap_file, dirtied[t])
-----------------------------------------------------------------------------
(* A call c of a transaction that has changed the pages d, sees the rows V *)
(* and holds locks on the pages H; the file has the rows F and n pages, T  *)
(* are the cached trees.                                                   *)
MatchedOf(c) ==
    LET got == c.got
    IN  Keep(got, {i \in DOMAIN got : MatchesAll(Info, got[i][2], Plan(c.stmt).residual)})
NewOf(c, m) == Assigned(MatchedOf(c)[m][2], c.stmt.set)
Left(c)     == Len(c.todo)

\* The mutation loop is at a row to remove, and at one to add.
Erasing(c) == c.stage = "mutate" /\ c.stmt.kind \in {"delete", "update"} /\ c.begun >= 1
Adding(c)  == c.stage = "mutate" /\ (c.stmt.kind = "insert" \/ (c.stmt.kind = "update" /\ c.begun >= 1))
Old(c) == MatchedOf(c)[c.begun]
New(c) == IF c.stmt.kind = "insert" THEN c.stmt.row ELSE NewOf(c, c.begun)

\* What is left to do when the removal from the heap file is next.
EraseAt(c) == IF c.stmt.kind = "update" THEN N + 2 ELSE 1

\* Rows that index j does not list: the old one between its removal from the
\* index and from the heap file, the new one between its insertion there and
\* into the index.
Leaving(c, j)  == IF Erasing(c) /\ EraseAt(c) <= Left(c) /\ Left(c) <= EraseAt(c) + N - j THEN {Old(c)} ELSE {}
Arriving(c, j) == IF Adding(c) /\ N - j + 1 <= Left(c) /\ Left(c) <= N THEN {<<c.rid, New(c)>>} ELSE {}
Lag(c, j) == Leaving(c, j) \cup Arriving(c, j)

FetchShape(c, V, H, n) ==
    c.stage = "fetch" =>
        /\ c.stmt.kind \in {"select", "delete", "update"} /\ c.begun = 0
        /\ \A k \in 1..Left(c) :
              LET a == c.todo[k]
              IN  \/ /\ a.do = "scan" /\ a.arg \in 1..n /\ a = ScanPage(a.arg)
                     /\ \A g \in 1..Len(c.got) : c.got[g][1][1] # a.arg
                  \/ /\ a.do = "search" /\ Left(c) = 1 /\ c.got = <<>>
                     /\ \E j \in 1..N : a = SearchTree(Indexes[j].name, a.arg)
                  \/ /\ a.do = "get" /\ a.arg \in {x[1] : x \in V} /\ a = GetRow(a.arg)
                     /\ \A g \in 1..Len(c.got) : c.got[g][1] # a.arg
                     /\ \E j \in 1..N : IndexRoot(j) \in H
        /\ \A k, l \in 1..Left(c) : c.todo[k].do = c.todo[l].do /\ (k # l => c.todo[k].arg # c.todo[l].arg)

CheckShape(c) ==
    c.stage = "check" =>
        /\ c.stmt.kind \in {"insert", "update"} /\ c.begun = 0
        /\ c.stmt.kind = "insert" => c.got = <<>>
        /\ \A k \in 1..Left(c) : Pk # <<>> /\ c.todo[k] = SearchTree(Pk[1].name, c.todo[k].arg)

MutateShape(c, n) ==
    c.stage = "mutate" =>
        /\ c.stmt.kind \in {"insert", "delete", "update"} /\ c.begun \in 0..Len(MatchedOf(c))
        /\ c.stmt.kind = "insert" => c.got = <<>>
        /\ ~Erasing(c) /\ ~Adding(c) => Left(c) = 0
        /\ Erasing(c) =>
              /\ Left(c) <= EraseAt(c) + N
              /\ \A j \in 1..N : Left(c) > EraseAt(c) + N - j =>
                    c.todo[Left(c) - (EraseAt(c) + N - j)] = TreeDelete(Indexes[j].name, <<Key(j, Old(c)[2]), Old(c)[1]>>)
              /\ Left(c) >= EraseAt(c) => c.todo[Left(c) + 1 - EraseAt(c)] = DeleteRow(Old(c)[1])
        /\ Adding(c) =>
              /\ ~Erasing(c) => Left(c) <= N + 1
              /\ Left(c) > N =>
                    LET a == c.todo[Left(c) - N]
                    IN  /\ a.do \in {"insert", "put"} /\ a.mode = LM!kExclusive /\ a.arg = New(c)
                        /\ a.do = "put" => Left(c) = N + 1 /\ \E p \in 1..n : a.page = HeapPage(p)
              /\ \A j \in 1..N : Left(c) > N - j =>
                    c.todo[Left(c) - (N - j)] = TreeInsert(Indexes[j].name, Key(j, New(c)))

\* Matched row m is still where it was found; its new version is to come.
Unhandled(c, m) == m > c.begun \/ (m = c.begun /\ Left(c) >= EraseAt(c))
Coming(c, m)    == m > c.begun \/ (m = c.begun /\ Left(c) > N)

RidsDiffer(s) == \A k, l \in 1..Len(s) : k # l => s[k][1] # s[l][1]

\* The rows that were fetched are different rows, locked, and as they were.
RowsOK(c, V, H) ==
    /\ RidsDiffer(c.got)
    /\ \A k \in 1..Len(c.got) : HeapPage(c.got[k][1][1]) \in H
    /\ c.stage \in {"fetch", "check"} => \A k \in 1..Len(c.got) : c.got[k] \in V
    /\ c.stage = "mutate" => \A m \in 1..Len(MatchedOf(c)) : Unhandled(c, m) => MatchedOf(c)[m] \in V

\* A tree the transaction has changed lists the rows it sees, one it has not
\* changed those of the file, up to the row at hand.
TreesOK(c, d, V, F, T) ==
    \A j \in 1..N :
        /\ Arriving(c, j) \subseteq V
        /\ IndexRoot(j) \in d => Elements(T[Indexes[j].name]) = Entries(j, V \ Lag(c, j))
        /\ IndexRoot(j) \notin d => V \ Lag(c, j) = F

\* Whoever changes a page of the heap file has changed, or is about to
\* change, every tree.
HeapOK(c, d) ==
    \A j \in 1..N :
        /\ \A p \in 1..MaxPages : HeapPage(p) \in d =>
              IndexRoot(j) \in d \/ (Adding(c) /\ N - j + 1 <= Left(c) /\ Left(c) <= N)
        /\ Erasing(c) /\ Left(c) <= EraseAt(c) + N - j => IndexRoot(j) \in d

KeysDiffer(S) == \A x, y \in S : PkOf(x[2]) = PkOf(y[2]) => x = y

\* The matched rows an UPDATE has still to remove.
Rest(c) ==
    IF c.stage = "mutate" /\ c.stmt.kind = "update"
    THEN {MatchedOf(c)[m] : m \in {k \in 1..Len(MatchedOf(c)) : Unhandled(c, k)}} ELSE {}

\* A key is still to be searched, or hits has all rows that have it.
Searched(c, V, H, key) ==
    \/ \E k \in 1..Left(c) : c.todo[k].arg = key
    \/ PkRoot \in H /\ \A x \in V : PkOf(x[2]) = key => x[1] \in c.hits

\* With the lock on the primary key index: the keys of the rows that stay and
\* of those that are to come are different.
KeysOK(c, V, H) ==
    /\ PkRoot \in H => KeysDiffer(V \ Rest(c))
    /\ Adding(c) => PkRoot \in H
    /\ c.stage = "mutate" /\ c.stmt.kind = "insert" /\ Left(c) > N =>
          \A x \in V : PkOf(x[2]) # PkOf(c.stmt.row)
    /\ c.stage = "mutate" /\ c.stmt.kind = "update" =>
          \A m \in 1..Len(MatchedOf(c)) :
              /\ PkRoot \in H
              /\ Coming(c, m) => \A x \in V \ Rest(c) : PkOf(x[2]) # PkOf(NewOf(c, m))
    /\ c.stage \in {"check", "mutate"} /\ c.stmt.kind = "update" =>
          \A m, k \in 1..Len(MatchedOf(c)) : PkOf(NewOf(c, m)) = PkOf(NewOf(c, k)) => m = k
    /\ c.stage = "check" /\ c.stmt.kind = "insert" => Searched(c, V, H, PkOf(c.stmt.row))
    /\ c.stage = "check" /\ c.stmt.kind = "update" =>
          \A m \in 1..Len(MatchedOf(c)) : Searched(c, V, H, PkOf(NewOf(c, m)))

TxnOK(c, d, V, F, T, H, n) ==
    /\ c.stage = "none" => c = NoCall
    /\ FetchShape(c, V, H, n) /\ CheckShape(c) /\ MutateShape(c, n)
    /\ RowsOK(c, V, H) /\ TreesOK(c, d, V, F, T) /\ HeapOK(c, d)
    /\ Pk # <<>> => KeysOK(c, V, H)
-----------------------------------------------------------------------------
Active(t) == status[t] # "done"

\* Only its own transaction reaches a page that was changed and not committed.
WritersHoldLocks ==
    \A t \in Txn : Active(t) => \A p \in dirtied[t] : locks[p].exclusive_holder = t

\* What is cached differs from the files only by the changes of an open
\* transaction.
CleanPages ==
    /\ \A p \in 1..Len(heap) :
          (\A t \in Txn : Active(t) => HeapPage(p) \notin dirtied[t]) => heap[p] = heap_file[p]
    /\ \A i \in IndexId :
          (\A t \in Txn : Active(t) => Root(i) \notin dirtied[t]) => tree[i] = tree_file[i]

Injective(s) == \A i, j \in DOMAIN s : s[i] = s[j] => i = j

\* The files agree with each other, and no tree has an entry twice.
FilesOK ==
    /\ \A j \in 1..N : Elements(tree_file[Indexes[j].name]) = Entries(j, Content(heap_file))
    /\ \A i \in IndexId : Injective(tree_file[i]) /\ Injective(tree[i])
    /\ Pk # <<>> => KeysDiffer(Content(heap_file))

TxnsOK ==
    \A t \in Txn : Active(t) =>
        TxnOK(call[t], dirtied[t], Content(View(t)), Content(heap_file), tree, held_by_txn[t], Len(heap))

ExecInv == Typed /\ LP!IInv /\ WritersHoldLocks /\ CleanPages /\ FilesOK /\ TxnsOK
-----------------------------------------------------------------------------
(* Sequences. *)

\* The loop of Keep.
Collects(s, S, f) ==
    /\ f[0] = <<>> /\ Keep(s, S) = f[Len(s)]
    /\ \A k \in 1..Len(s) : f[k] = IF k \notin S THEN f[k - 1] ELSE Append(f[k - 1], s[k])

LEMMA KeepLoop ==
    ASSUME NEW R, NEW s \in Seq(R), NEW S
    PROVE  \E f \in [0..Len(s) -> Seq(R)] : Collects(s, S, f)
<1> DEFINE m == Len(s)
           V == Seq(R)
           B(k, x) == IF k \notin S THEN x ELSE Append(x, s[k])
           step == [a \in (1..m) \X V |-> B(a[1], a[2])]
           P(f) == f = [n \in 0..m |-> IF n = 0 THEN <<>> ELSE
                                       IF n \notin S THEN f[n - 1] ELSE Append(f[n - 1], s[n])]
<1>1. m \in Nat /\ \A k \in 1..m : s[k] \in R
  BY LenProperties, ElementOfSeq
<1>2. \A k \in 1..m, x \in V : B(k, x) \in V
  BY <1>1, AppendProperties
<1>3. step \in Steps(m, V)
  <2> HIDE DEF B
  <2>. QED  BY <1>2 DEF Steps
<1>4. <<>> \in V
  OBVIOUS
<1>5. \A k \in 1..m, x \in V : step[<<k, x>>] = B(k, x)
  OBVIOUS
<1>6. PICK f \in [0..m -> V] : f[0] = <<>> /\ \A k \in 1..m : f[k] = step[<<k, f[k - 1]>>]
  <2> DEFINE e == <<>>
  <2>1. e \in V
    BY <1>4
  <2> HIDE DEF m, V, step, e
  <2>2. \E f \in [0..m -> V] : Iterates(f, e, m, step)
    BY <1>1, <1>3, <2>1, RecursionExists
  <2>. QED  BY <2>2 DEF e, Iterates
<1>7. P(f)
  <2> HIDE DEF B, m, V, step
  <2>1. \A k \in 1..m : f[k - 1] \in V
    BY <1>1, <1>6
  <2>2. \A k \in 1..m : f[k] = B(k, f[k - 1])
    BY <1>5, <1>6, <2>1
  <2>3. f = [k \in 0..m |-> IF k = 0 THEN <<>> ELSE B(k, f[k - 1])]
    <3>1. \A k \in 0..m : k # 0 => k \in 1..m
      BY <1>1
    <3>. QED  BY <1>6, <2>2, <3>1
  <2>. QED  BY <2>3 DEF B
<1> DEFINE g == CHOOSE g : P(g)
<1>8. P(g)
  <2> HIDE DEF P
  <2>. QED  BY <1>7
<1>9. Keep(s, S) = g[m]
  BY DEF Keep
<1> HIDE DEF g
<1>10. g[0] = <<>> /\ \A k \in 1..m : g[k] = B(k, g[k - 1])
  <2>1. g = [k \in 0..m |-> IF k = 0 THEN <<>> ELSE B(k, g[k - 1])]
    BY <1>8
  <2>2. 0 \in 0..m /\ \A k \in 1..m : k \in 0..m /\ k # 0
    <3> HIDE DEF m
    <3>. QED  BY <1>1
  <2> HIDE DEF B, m
  <2>. QED  BY <2>1, <2>2
<1>11. \A k \in 0..m : g[k] \in V
  <2> DEFINE G == {k \in 0..m : g[k] \in V}
  <2>1. 0 \in G
    <3> HIDE DEF B, V, m
    <3>. QED  BY <1>1, <1>4, <1>10
  <2>2. \A k \in 1..m : k - 1 \in G => k \in G
    <3> HIDE DEF B, V
    <3>. QED  BY <1>1, <1>2, <1>10
  <2> HIDE DEF G
  <2>3. \A k \in 0..m : k \in G
    BY <1>1, <2>1, <2>2, IntervalInduction
  <2>. QED  BY <2>3 DEF G
<1>12. g \in [0..m -> V]
  <2>1. g = [k \in 0..m |-> g[k]]
    BY <1>8
  <2> HIDE DEF V
  <2>. QED  BY <1>11, <2>1
<1>. QED  BY <1>9, <1>10, <1>12 DEF Collects

\* f maps the positions of r to those of s that it comes from, all of S.
Picks(r, s, m, S, f) ==
    /\ f \in [1..Len(r) -> Nat]
    /\ \A k \in 1..Len(r) : f[k] \in 1..m /\ f[k] \in S /\ r[k] = s[f[k]]
    /\ \A k, l \in 1..Len(r) : f[k] = f[l] => k = l
    /\ \A i \in 1..m : i \in S => \E k \in 1..Len(r) : f[k] = i

\* Keep returns the elements at the given positions, each position once.
LEMMA KeepFacts ==
    ASSUME NEW R, NEW s \in Seq(R), NEW S
    PROVE  /\ Keep(s, S) \in Seq(R)
           /\ \E f : Picks(Keep(s, S), s, Len(s), S, f)
<1>0. PICK g \in [0..Len(s) -> Seq(R)] : Collects(s, S, g)
  BY KeepLoop
<1>1. /\ g[0] = <<>> /\ Keep(s, S) = g[Len(s)]
      /\ \A k \in 1..Len(s) : g[k] = IF k \notin S THEN g[k - 1] ELSE Append(g[k - 1], s[k])
  BY <1>0 DEF Collects
<1>2. Len(s) \in Nat /\ \A k \in 1..Len(s) : s[k] \in R
  BY LenProperties, ElementOfSeq
<1> DEFINE G == {m \in 0..Len(s) : \E f : Picks(g[m], s, m, S, f)}
<1>3. 0 \in G
  <2> DEFINE e == [k \in 1..0 |-> 0]
  <2>1. Len(g[0]) = 0
    BY <1>1
  <2>2. Picks(g[0], s, 0, S, e)
    BY <2>1 DEF Picks
  <2>. QED  BY <1>2, <2>2
<1>4. ASSUME NEW m \in 1..Len(s), m - 1 \in G PROVE m \in G
  <2>1. PICK f : Picks(g[m - 1], s, m - 1, S, f)
    BY <1>4
  <2>2. m \in Nat /\ m - 1 \in Nat /\ g[m - 1] \in Seq(R) /\ Len(g[m - 1]) \in Nat /\ s[m] \in R
    <3>1. m \in Nat /\ m - 1 \in 0..Len(s)
      BY <1>2
    <3>2. g[m - 1] \in Seq(R)
      BY <3>1
    <3>. QED  BY <1>2, <3>1, <3>2, LenProperties
  <2>3. CASE m \notin S
    <3>1. g[m] = g[m - 1]
      BY <1>1, <2>3
    <3>2. \A i \in 1..m : i \in S => i \in 1..m - 1
      BY <2>2, <2>3
    <3>3. \A i \in 1..m - 1 : i \in 1..m
      BY <2>2
    <3>4. Picks(g[m], s, m, S, f)
      BY <2>1, <3>1, <3>2, <3>3 DEF Picks
    <3>. QED  BY <3>4
  <2>4. CASE m \in S
    <3> DEFINE r == g[m - 1]
               q == g[m]
               h == [k \in 1..Len(r) + 1 |-> IF k <= Len(r) THEN f[k] ELSE m]
    <3>1. q = Append(r, s[m])
      BY <1>1, <2>4
    <3>2. Len(q) = Len(r) + 1 /\ (\A k \in 1..Len(r) : q[k] = r[k]) /\ q[Len(r) + 1] = s[m]
      BY <2>2, <3>1, AppendProperties
    <3>3. Picks(r, s, m - 1, S, f) /\ Len(r) \in Nat
      BY <2>1, <2>2
    <3> HIDE DEF r, q
    <3>4. \A k \in 1..Len(r) : h[k] = f[k] /\ f[k] \in 1..m - 1 /\ f[k] # m
      BY <2>2, <3>3 DEF Picks
    <3>5. h[Len(r) + 1] = m
      BY <3>3
    <3>6. \A k \in 1..Len(r) + 1 : k \in 1..Len(r) \/ k = Len(r) + 1
      BY <3>3
    <3>7. h \in [1..Len(q) -> Nat]
      BY <2>2, <3>2, <3>3 DEF Picks
    <3> HIDE DEF h
    <3>8. \A k \in 1..Len(q) : h[k] \in 1..m /\ h[k] \in S /\ q[k] = s[h[k]]
      BY <2>2, <2>4, <3>2, <3>3, <3>4, <3>5, <3>6 DEF Picks
    <3>9. \A k, l \in 1..Len(q) : h[k] = h[l] => k = l
      BY <3>2, <3>3, <3>4, <3>5, <3>6 DEF Picks
    <3>10. ASSUME NEW i \in 1..m, i \in S PROVE \E k \in 1..Len(q) : h[k] = i
      <4>1. CASE i = m
        BY <3>2, <3>3, <3>5, <4>1
      <4>2. CASE i # m
        <5>1. i \in 1..m - 1
          BY <2>2, <4>2
        <5>2. PICK k \in 1..Len(r) : f[k] = i
          BY <3>3, <3>10, <5>1 DEF Picks
        <5>3. k \in 1..Len(q)
          BY <3>2, <3>3
        <5>. QED  BY <3>4, <5>2, <5>3
      <4>. QED  BY <4>1, <4>2
    <3>11. Picks(q, s, m, S, h)
      BY <3>7, <3>8, <3>9, <3>10 DEF Picks
    <3>. QED  BY <3>11 DEF q
  <2>. QED  BY <2>3, <2>4
<1>5. \A k \in 0..Len(s) : k \in G
  <2> HIDE DEF G
  <2>. QED  BY <1>2, <1>3, <1>4, IntervalInduction
<1>6. Len(s) \in G /\ g[Len(s)] \in Seq(R)
  <2>1. Len(s) \in 0..Len(s)
    BY <1>2
  <2>. QED  BY <1>1, <1>5, <2>1
<1>. QED  BY <1>1, <1>6

\* A sequence by its elements.
LEMMA SeqFacts ==
    ASSUME NEW R, NEW s \in Seq(R)
    PROVE  /\ Len(s) \in Nat /\ DOMAIN s = 1..Len(s)
           /\ \A i \in 1..Len(s) : s[i] \in R
           /\ s = <<>> <=> Len(s) = 0
BY LenProperties, ElementOfSeq, EmptySeq

LEMMA TailFacts ==
    ASSUME NEW R, NEW s \in Seq(R), s # <<>>
    PROVE  /\ Head(s) = s[1] /\ Tail(s) \in Seq(R) /\ Len(Tail(s)) = Len(s) - 1 /\ Len(s) >= 1
           /\ \A i \in 1..Len(s) - 1 : Tail(s)[i] = s[i + 1]
<1>1. Len(s) \in Nat /\ Len(s) # 0
  BY SeqFacts
<1>. QED  BY <1>1, HeadTailProperties
-----------------------------------------------------------------------------
(* The catalog. *)

OnTable == {i \in DOMAIN Cat.indexes : Cat.indexes[i].table_name = Table}

\* First returns the first of the elements at hits, if there is one.
LEMMA FirstFacts ==
    ASSUME NEW list, NEW hits \in SUBSET Nat
    PROVE  /\ First(list, hits) = <<>> <=> hits = {}
           /\ hits # {} => \E i \in hits : First(list, hits) = <<list[i]>> /\ First(list, hits)[1] = list[i]
<1>1. CASE hits = {}
  BY <1>1 DEF First
<1>2. CASE hits # {}
  <2>1. \E i \in hits : \A j \in hits : i <= j
    BY <1>2, LeastNatural
  <2> DEFINE i == CHOOSE i \in hits : \A j \in hits : i <= j
  <2>2. i \in hits
    BY <2>1
  <2>3. First(list, hits) = <<list[i]>>
    BY <1>2 DEF First
  <2> HIDE DEF i
  <2>4. <<list[i]>> # <<>> /\ <<list[i]>>[1] = list[i]
    OBVIOUS
  <2>. QED  BY <1>2, <2>2, <2>3, <2>4
<1>. QED  BY <1>1, <1>2

\* IndexesOnTable is a Keep.
LEMMA IndexesOnTableIsKeep ==
    ASSUME NEW cat, NEW name, DOMAIN cat.indexes = 1..Len(cat.indexes), Len(cat.indexes) \in Nat
    PROVE  IndexesOnTable(cat, name) =
             Keep(cat.indexes, {i \in DOMAIN cat.indexes : cat.indexes[i].table_name = name})
<1> DEFINE s == cat.indexes
           m == Len(s)
           S == {i \in DOMAIN cat.indexes : cat.indexes[i].table_name = name}
           F(f) == [n \in 0..m |-> IF n = 0 THEN <<>> ELSE IF n \notin S THEN f[n - 1] ELSE Append(f[n - 1], s[n])]
           E(f) == [n \in 0..m |-> IF n = 0 THEN <<>> ELSE IF s[n].table_name # name THEN f[n - 1]
                                   ELSE Append(f[n - 1], s[n])]
<1>1. \A n \in 0..m : n # 0 => (n \notin S <=> s[n].table_name # name)
  OBVIOUS
<1>2. ASSUME NEW f PROVE E(f) = F(f)
  <2> HIDE DEF S, m, s
  <2>. QED  BY <1>1
<1>3. (CHOOSE f : f = E(f)) = (CHOOSE f : f = F(f))
  <2> HIDE DEF E, F
  <2>. QED  BY <1>2
<1>4. IndexesOnTable(cat, name) = (CHOOSE f : f = E(f))[m]
  BY DEF IndexesOnTable
<1>5. Keep(s, S) = (CHOOSE f : f = F(f))[m]
  BY DEF Keep
<1>. QED  BY <1>3, <1>4, <1>5

LEMMA Constants ==
    /\ Txn \subseteq Nat /\ NoTxn \notin Txn
    /\ SlotsPerPage \in Nat /\ SlotsPerPage >= 1 /\ MaxPages \in Nat /\ MaxPages >= 1
    /\ FindTable(Cat, Table) # <<>>
BY ExecutorAssumption DEF ExecutorAssumption

\* The table is the one that was looked for.
LEMMA FoundTable ==
    ASSUME NEW cat, NEW name, DOMAIN cat.tables \in SUBSET Nat, FindTable(cat, name) # <<>>
    PROVE  FindTable(cat, name)[1].name = name
<1> DEFINE hits == {i \in DOMAIN cat.tables : cat.tables[i].name = name}
<1>1. hits \in SUBSET Nat
  OBVIOUS
<1>2. FindTable(cat, name) = First(cat.tables, hits)
  BY DEF FindTable
<1>3. PICK i \in hits : First(cat.tables, hits)[1] = cat.tables[i]
  <2> HIDE DEF hits
  <2>. QED  BY <1>1, <1>2, FirstFacts
<1>. QED  BY <1>2, <1>3

\* The indexes of the table.
LEMMA IndexFacts ==
    /\ N \in Nat /\ DOMAIN Indexes = 1..N /\ Indexes \in Seq(ToSet(Cat.indexes))
    /\ \A j \in 1..N : \E i \in DOMAIN Cat.indexes : Indexes[j] = Cat.indexes[i] /\ Cat.indexes[i].table_name = Table
    /\ \A i \in DOMAIN Cat.indexes : Cat.indexes[i].table_name = Table => \E j \in 1..N : Indexes[j] = Cat.indexes[i]
    /\ \A j, k \in 1..N : Indexes[j].name = Indexes[k].name => j = k
<1> DEFINE s == Cat.indexes
<1>1. /\ s \in Seq(ToSet(s))
      /\ \A i, j \in DOMAIN s : s[i].name = s[j].name => i = j
  BY CatalogAssumption DEF CatalogAssumption
<1>2. Len(s) \in Nat /\ DOMAIN s = 1..Len(s)
  BY <1>1, SeqFacts
<1>3. Indexes = Keep(s, OnTable)
  BY <1>2, IndexesOnTableIsKeep DEF Indexes, OnTable
<1>4. Indexes \in Seq(ToSet(s)) /\ \E f : Picks(Indexes, s, Len(s), OnTable, f)
  <2> HIDE DEF s
  <2>. QED  BY <1>1, <1>3, KeepFacts
<1>5. PICK f : Picks(Indexes, s, Len(s), OnTable, f)
  BY <1>4
<1>6. N \in Nat /\ DOMAIN Indexes = 1..N
  BY <1>4, SeqFacts DEF N
<1>7. /\ \A k \in 1..N : f[k] \in DOMAIN s /\ f[k] \in OnTable /\ Indexes[k] = s[f[k]]
      /\ \A k, l \in 1..N : f[k] = f[l] => k = l
      /\ \A i \in DOMAIN s : i \in OnTable => \E k \in 1..N : f[k] = i
  BY <1>2, <1>5 DEF Picks, N
<1>8. \A i \in DOMAIN s : i \in OnTable <=> s[i].table_name = Table
  BY DEF OnTable
<1> HIDE DEF s
<1>9. \A j \in 1..N : \E i \in DOMAIN s : Indexes[j] = s[i] /\ s[i].table_name = Table
  BY <1>7, <1>8
<1>10. \A i \in DOMAIN s : s[i].table_name = Table => \E j \in 1..N : Indexes[j] = s[i]
  BY <1>7, <1>8
<1>11. \A j, k \in 1..N : Indexes[j].name = Indexes[k].name => j = k
  BY <1>1, <1>7
<1>. QED  BY <1>4, <1>6, <1>9, <1>10, <1>11 DEF s

LEMMA IndexIdFacts ==
    /\ \A j \in 1..N : Indexes[j].name \in IndexId
    /\ \A i \in IndexId : \E j \in 1..N : i = Indexes[j].name
BY IndexFacts DEF IndexId

\* The key of a row is a value.
LEMMA KeyFacts ==
    ASSUME NEW j \in 1..N, NEW row \in Row
    PROVE  Key(j, row) \in Value
<1>1. PICK i \in DOMAIN Cat.indexes : Indexes[j] = Cat.indexes[i] /\ Cat.indexes[i].table_name = Table
  BY IndexFacts
<1>2. HasColumn(Info, Indexes[j].column_name)
  BY <1>1, CatalogAssumption DEF CatalogAssumption
<1>3. ColumnIndex(Info, Indexes[j].column_name) \in DOMAIN Info.columns
  BY <1>2 DEF HasColumn, ColumnIndex
<1>. QED  BY <1>3 DEF Key, KeyOf, Row

\* The primary key index is one of the indexes.
LEMMA PkFacts ==
    ASSUME Pk # <<>>
    PROVE  \E j \in 1..N : Pk[1] = Indexes[j] /\ PkRoot = IndexRoot(j) /\ Pk = <<Indexes[j]>>
<1> DEFINE hits == {i \in DOMAIN Cat.indexes : Cat.indexes[i].table_name = Table /\ Cat.indexes[i].is_primary_key}
<1>1. hits \in SUBSET Nat
  <2>1. Cat.indexes \in Seq(ToSet(Cat.indexes))
    BY CatalogAssumption DEF CatalogAssumption
  <2>. QED  BY <2>1, SeqFacts
<1>2. Pk = First(Cat.indexes, hits)
  BY DEF Pk, PrimaryKeyIndex
<1>3. PICK i \in hits : Pk = <<Cat.indexes[i]>> /\ Pk[1] = Cat.indexes[i]
  <2> HIDE DEF hits
  <2>. QED  BY <1>1, <1>2, FirstFacts
<1>4. PICK j \in 1..N : Indexes[j] = Cat.indexes[i]
  BY IndexFacts
<1>. QED  BY <1>3, <1>4 DEF PkRoot, IndexRoot

\* The pages of heap file and trees are different pages.
LEMMA PageKeyFacts ==
    /\ \A p \in 1..MaxPages : HeapPage(p) \in PageKey
    /\ \A i \in IndexId : Root(i) \in PageKey
    /\ \A j \in 1..N : IndexRoot(j) \in PageKey
    /\ \A p, i : HeapPage(p) # Root(i)
    /\ \A p, q : HeapPage(p) = HeapPage(q) => p = q
    /\ \A i, k : Root(i) = Root(k) => i = k
    /\ \A p : HeapPage(p)[2] = p
    /\ \A i : Root(i)[2] = i
    /\ \A k \in PageKey : (\E p \in 1..MaxPages : k = HeapPage(p)) \/ (\E i \in IndexId : k = Root(i))
<1>1. \A j \in 1..N : Indexes[j].name \in IndexId
  BY IndexIdFacts
<1>2. \A p, i : HeapPage(p) # Root(i)
  BY DEF HeapPage, Root
<1>. QED  BY <1>1, <1>2 DEF PageKey, HeapPage, Root, IndexRoot
-----------------------------------------------------------------------------
(* Statements and calls. *)

LEMMA StmtFacts ==
    ASSUME NEW s \in Stmt
    PROVE  /\ s.kind \in {"insert", "update", "delete", "select"}
           /\ s.kind = "insert" => s.row \in Row
           /\ s.kind # "insert" => /\ s.where \in Seq(ToSet(s.where))
                                  /\ \A i \in DOMAIN s.where : s.where[i].value.value \in Value
           /\ s.kind = "update" => /\ s.set \in Seq(ToSet(s.set))
                                  /\ \A a \in DOMAIN s.set : s.set[a].value \in Value
BY StatementAssumption DEF StatementAssumption

\* The SET clause makes a row of a row.
LEMMA AssignedRow ==
    ASSUME NEW s \in Stmt, s.kind = "update", NEW row \in Row
    PROVE  Assigned(row, s.set) \in Row
<1> DEFINE set == s.set
           Hit(c, a) == ColumnIndex(Info, set[a].column) = c
           Final(c, a) == Hit(c, a) /\ \A b \in a + 1..Len(set) : set[b].column # set[a].column
<1>1. /\ set \in Seq(ToSet(set)) /\ \A a \in DOMAIN set : set[a].value \in Value
  BY StmtFacts
<1>2. Len(set) \in Nat /\ DOMAIN set = 1..Len(set)
  BY <1>1, SeqFacts
<1>3. ASSUME NEW c, \E a \in DOMAIN set : Hit(c, a)
      PROVE  \E a \in DOMAIN set : Final(c, a)
  <2> DEFINE S == {a \in DOMAIN set : Hit(c, a)}
  <2>1. S \in SUBSET (0..Len(set)) /\ S # {}
    BY <1>2, <1>3
  <2>2. PICK a \in S : \A b \in S : b <= a
    <3> HIDE DEF S
    <3>. QED  BY <1>2, <2>1, GreatestNatural
  <2>3. ASSUME NEW b \in a + 1..Len(set), set[b].column = set[a].column PROVE FALSE
    <3>1. b \in DOMAIN set /\ ~(b <= a)
      BY <1>2, <2>2
    <3>2. b \in S
      BY <2>2, <2>3, <3>1
    <3>. QED  BY <2>2, <3>1, <3>2
  <2>. QED  BY <2>2, <2>3
<1>4. ASSUME NEW c, \E a \in DOMAIN set : Hit(c, a)
      PROVE  set[CHOOSE a \in DOMAIN set : Final(c, a)].value \in Value
  <2>1. (CHOOSE a \in DOMAIN set : Final(c, a)) \in DOMAIN set
    <3> HIDE DEF Final
    <3>. QED  BY <1>3, <1>4
  <2>. QED  BY <1>1, <2>1
<1>5. Assigned(row, set) = [c \in DOMAIN row |-> IF \E a \in DOMAIN set : Hit(c, a)
                                                THEN set[CHOOSE a \in DOMAIN set : Final(c, a)].value
                                                ELSE row[c]]
  BY DEF Assigned
<1> HIDE DEF Hit, Final, set
<1>6. DOMAIN row = DOMAIN Info.columns /\ \A c \in DOMAIN row : row[c] \in Value
  BY DEF Row
<1>7. \A c \in DOMAIN row : (IF \E a \in DOMAIN set : Hit(c, a)
                             THEN set[CHOOSE a \in DOMAIN set : Final(c, a)].value ELSE row[c]) \in Value
  BY <1>4, <1>6
<1>8. Assigned(row, set) \in [DOMAIN Info.columns -> Value]
  BY <1>5, <1>6, <1>7
<1>. QED  BY <1>8 DEF Row, set

\* The fields of a call.
LEMMA CallFields ==
    ASSUME NEW c \in CallType
    PROVE  /\ c.stage \in {"none", "fetch", "check", "mutate"}
           /\ c.stmt \in Stmt \cup {[kind |-> "none"]}
           /\ c.stmt.kind # "none" => c.stmt \in Stmt
           /\ c.todo \in Seq(AccessType) /\ Left(c) \in Nat /\ DOMAIN c.todo = 1..Left(c)
           /\ c.got \in Seq(Found) /\ Len(c.got) \in Nat /\ DOMAIN c.got = 1..Len(c.got)
           /\ c.hits \in SUBSET Rid /\ c.rid \in Rid \cup {<<0, 0>>} /\ c.begun \in Nat
           /\ c.todo = <<>> <=> Left(c) = 0
<1>1. /\ c.stage \in {"none", "fetch", "check", "mutate"}
      /\ c.stmt \in Stmt \cup {[kind |-> "none"]}
      /\ c.todo \in Seq(AccessType) /\ c.got \in Seq(Found)
      /\ c.hits \in SUBSET Rid /\ c.rid \in Rid \cup {<<0, 0>>} /\ c.begun \in Nat
  BY DEF CallType
<1>2. c.stmt.kind # "none" => c.stmt \in Stmt
  BY <1>1
<1>. QED  BY <1>1, <1>2, SeqFacts DEF Left

\* The rows a statement matches are fetched rows, each once.
LEMMA MatchedFacts ==
    ASSUME NEW c \in CallType
    PROVE  /\ MatchedOf(c) \in Seq(Found) /\ Len(MatchedOf(c)) \in Nat /\ DOMAIN MatchedOf(c) = 1..Len(MatchedOf(c))
           /\ \A m \in 1..Len(MatchedOf(c)) : MatchedOf(c)[m] \in Found
           /\ \A m \in 1..Len(MatchedOf(c)) : \E k \in 1..Len(c.got) : MatchedOf(c)[m] = c.got[k]
           /\ RidsDiffer(c.got) => RidsDiffer(MatchedOf(c))
           /\ c.got = <<>> => MatchedOf(c) = <<>>
<1> DEFINE S == {i \in DOMAIN c.got : MatchesAll(Info, c.got[i][2], Plan(c.stmt).residual)}
           q == MatchedOf(c)
           got == c.got
<1>1. q = Keep(got, S)
  BY DEF MatchedOf
<1>2. got \in Seq(Found) /\ Len(got) \in Nat
  BY CallFields
<1> HIDE DEF q, S, got
<1>3. q \in Seq(Found) /\ \E f : Picks(q, got, Len(got), S, f)
  BY <1>1, <1>2, KeepFacts
<1>4. PICK f : Picks(q, got, Len(got), S, f)
  BY <1>3
<1>5. Len(q) \in Nat /\ DOMAIN q = 1..Len(q) /\ (\A m \in 1..Len(q) : q[m] \in Found) /\ (q = <<>> <=> Len(q) = 0)
  BY <1>3, SeqFacts
<1>6. \A m \in 1..Len(q) : f[m] \in 1..Len(got) /\ q[m] = got[f[m]]
  BY <1>4 DEF Picks
<1>7. \A m, k \in 1..Len(q) : m # k => f[m] # f[k]
  BY <1>4 DEF Picks
<1>8. ASSUME RidsDiffer(got), NEW m \in 1..Len(q), NEW k \in 1..Len(q), m # k PROVE q[m][1] # q[k][1]
  <2>1. f[m] \in 1..Len(got) /\ f[k] \in 1..Len(got) /\ f[m] # f[k]
    BY <1>6, <1>7, <1>8
  <2>2. got[f[m]][1] # got[f[k]][1]
    BY <1>8, <2>1 DEF RidsDiffer
  <2>. QED  BY <1>6, <2>2
<1>9. got = <<>> => q = <<>>
  <2>1. got = <<>> => Len(got) = 0
    BY <1>2, SeqFacts
  <2>. QED  BY <1>2, <1>5, <1>6, <2>1
<1>10. RidsDiffer(got) => RidsDiffer(q)
  BY <1>8 DEF RidsDiffer
<1>. QED  BY <1>3, <1>5, <1>6, <1>9, <1>10 DEF q, got

LEMMA NewFacts ==
    ASSUME NEW c \in CallType, c.stmt.kind = "update", NEW m \in 1..Len(MatchedOf(c))
    PROVE  NewOf(c, m) \in Row
<1>1. MatchedOf(c)[m] \in Found /\ c.stmt \in Stmt
  BY MatchedFacts, CallFields
<1>2. MatchedOf(c)[m][2] \in Row
  BY <1>1 DEF Found
<1>. QED  BY <1>1, <1>2, AssignedRow DEF NewOf
-----------------------------------------------------------------------------
(* What a transaction relies on: steps that leave its rows alone. *)

\* Every index lists all rows: no row is leaving or arriving.
Still(c) ==
    \A j \in 1..N : /\ ~(Erasing(c) /\ EraseAt(c) <= Left(c) /\ Left(c) <= EraseAt(c) + N - j)
                    /\ ~(Adding(c) /\ N - j + 1 <= Left(c) /\ Left(c) <= N)

LEMMA StillNoLag ==
    ASSUME NEW c, Still(c), NEW j \in 1..N
    PROVE  Lag(c, j) = {} /\ Arriving(c, j) = {} /\ Leaving(c, j) = {}
BY DEF Still, Lag, Arriving, Leaving

LEMMA StillIdle ==
    ASSUME NEW c \in CallType, Left(c) = 0 \/ c.stage # "mutate"
    PROVE  Still(c)
<1>1. N \in Nat
  BY IndexFacts
<1>2. EraseAt(c) \in Nat /\ EraseAt(c) >= 1
  BY <1>1 DEF EraseAt
<1>. QED  BY <1>1, <1>2 DEF Still, Erasing, Adding

\* The trees the mutation loop has been through are changed.
Reached(c, d) == \A j \in 1..N : Erasing(c) /\ Left(c) <= EraseAt(c) + N - j => IndexRoot(j) \in d

LEMMA QuietTrees ==
    ASSUME NEW c, NEW c2, NEW d, NEW V, NEW F, NEW T,
           TreesOK(c, d, V, F, T), HeapOK(c, d), Still(c), Still(c2), Reached(c2, d)
    PROVE  TreesOK(c2, d, V, F, T) /\ HeapOK(c2, d)
<1>1. ASSUME NEW j \in 1..N
      PROVE  /\ Lag(c, j) = {} /\ Lag(c2, j) = {} /\ Arriving(c2, j) = {}
             /\ ~(Adding(c) /\ N - j + 1 <= Left(c) /\ Left(c) <= N)
  BY StillNoLag DEF Still
<1>2. TreesOK(c2, d, V, F, T)
  BY <1>1 DEF TreesOK
<1>3. HeapOK(c2, d)
  BY <1>1 DEF HeapOK, Reached
<1>. QED  BY <1>2, <1>3

\* Without a lock on the primary key index a transaction sees the file.
LEMMA SeesFile ==
    ASSUME NEW c \in CallType, NEW d, NEW V, NEW F, NEW T, NEW H,
           TreesOK(c, d, V, F, T), HeapOK(c, d), Pk # <<>>, ~Adding(c), PkRoot \notin d
    PROVE  V = F
<1>1. PICK j \in 1..N : PkRoot = IndexRoot(j)
  BY PkFacts
<1>2. Arriving(c, j) = {}
  BY DEF Arriving
<1>3. ~(Erasing(c) /\ Left(c) <= EraseAt(c) + N - j)
  BY <1>1 DEF HeapOK
<1>4. Leaving(c, j) = {}
  BY <1>3 DEF Leaving
<1>5. V \ Lag(c, j) = F
  BY <1>1 DEF TreesOK
<1>. QED  BY <1>2, <1>4, <1>5 DEF Lag

\* More locks, more pages and changes of other trees do not matter.
LEMMA Frame ==
    ASSUME NEW c \in CallType, NEW d, NEW V, NEW F, NEW T, NEW T2, NEW H, NEW H2, NEW n \in Nat, NEW n2 \in Nat,
           TxnOK(c, d, V, F, T, H, n), d \subseteq H, H \subseteq H2, n <= n2,
           Pk # <<>> => KeysDiffer(F),
           \A j \in 1..N : IndexRoot(j) \in d => T2[Indexes[j].name] = T[Indexes[j].name]
    PROVE  TxnOK(c, d, V, F, T2, H2, n2)
<1>1. FetchShape(c, V, H2, n2)
  <2>1. \A a \in 1..n : a \in 1..n2
    OBVIOUS
  <2>. QED  BY <2>1 DEF TxnOK, FetchShape
<1>2. MutateShape(c, n2)
  <2>1. \A a \in 1..n : a \in 1..n2
    OBVIOUS
  <2>. QED  BY <2>1 DEF TxnOK, MutateShape
<1>3. RowsOK(c, V, H2)
  BY DEF TxnOK, RowsOK
<1>4. TreesOK(c, d, V, F, T2)
  BY DEF TxnOK, TreesOK
<1>5. ASSUME Pk # <<>> PROVE KeysOK(c, V, H2)
  <2>1. KeysOK(c, V, H)
    BY <1>5 DEF TxnOK
  <2>2. ASSUME PkRoot \in H2 PROVE KeysDiffer(V \ Rest(c))
    <3>1. CASE PkRoot \in H
      BY <2>1, <3>1 DEF KeysOK
    <3>2. CASE PkRoot \notin H
      <4>1. ~Adding(c) /\ PkRoot \notin d
        BY <2>1, <3>2 DEF KeysOK
      <4>2. TreesOK(c, d, V, F, T) /\ HeapOK(c, d)
        BY DEF TxnOK
      <4>3. V = F
        BY <1>5, <4>1, <4>2, SeesFile
      <4>. QED  BY <1>5, <4>3 DEF KeysDiffer
    <3>. QED  BY <3>1, <3>2
  <2>3. \A key : Searched(c, V, H, key) => Searched(c, V, H2, key)
    BY DEF Searched
  <2>. QED  BY <2>1, <2>2, <2>3 DEF KeysOK
<1>. QED  BY <1>1, <1>2, <1>3, <1>4, <1>5 DEF TxnOK

LEMMA NoCallFacts ==
    /\ NoCall \in CallType /\ NoCall.stage = "none" /\ NoCall.todo = <<>> /\ NoCall.got = <<>>
    /\ NoCall.hits = {} /\ NoCall.begun = 0
    /\ Left(NoCall) = 0 /\ ~Erasing(NoCall) /\ ~Adding(NoCall) /\ Rest(NoCall) = {}
<1>1. /\ NoCall.stage = "none" /\ NoCall.todo = <<>> /\ NoCall.got = <<>>
      /\ NoCall.hits = {} /\ NoCall.begun = 0
  BY DEF NoCall
<1>2. NoCall \in CallType
  BY DEF NoCall, CallType
<1>. QED  BY <1>1, <1>2 DEF Left, Erasing, Adding, Rest

\* A new state of a call that changes nothing, from one in which every index
\* lists all rows.
LEMMA QuietFetch ==
    ASSUME NEW c \in CallType, NEW c2 \in CallType, NEW d, NEW V, NEW F, NEW T, NEW H, NEW n,
           TxnOK(c, d, V, F, T, H, n), Still(c), Rest(c) = {},
           c2.stage = "fetch", FetchShape(c2, V, H, n), RowsOK(c2, V, H)
    PROVE  TxnOK(c2, d, V, F, T, H, n)
<1>1. Still(c2) /\ Reached(c2, d)
  BY StillIdle DEF Reached, Erasing
<1>2. TreesOK(c2, d, V, F, T) /\ HeapOK(c2, d)
  BY <1>1, QuietTrees DEF TxnOK
<1>3. ASSUME Pk # <<>> PROVE KeysOK(c2, V, H)
  <2>1. Rest(c2) = {} /\ ~Adding(c2)
    BY DEF Rest, Adding
  <2>2. PkRoot \in H => KeysDiffer(V \ Rest(c))
    BY <1>3 DEF TxnOK, KeysOK
  <2>. QED  BY <2>1, <2>2 DEF KeysOK
<1>. QED  BY <1>2, <1>3 DEF TxnOK, CheckShape, MutateShape

\* The keys a check has to find free.
ToSearch(c) ==
    IF c.stmt.kind = "insert" THEN {PkOf(c.stmt.row)}
    ELSE {PkOf(NewOf(c, m)) : m \in 1..Len(MatchedOf(c))}

NewKeysDiffer(c) ==
    \A m, k \in 1..Len(MatchedOf(c)) : PkOf(NewOf(c, m)) = PkOf(NewOf(c, k)) => m = k

LEMMA QuietCheck ==
    ASSUME NEW c \in CallType, NEW c2 \in CallType, NEW d, NEW V, NEW F, NEW T, NEW H, NEW n,
           TxnOK(c, d, V, F, T, H, n), Still(c), Rest(c) = {},
           c2.stage = "check", CheckShape(c2), RowsOK(c2, V, H),
           Pk # <<>> => /\ \A key \in ToSearch(c2) : Searched(c2, V, H, key)
                        /\ c2.stmt.kind = "update" => NewKeysDiffer(c2)
    PROVE  TxnOK(c2, d, V, F, T, H, n)
<1>1. Still(c2) /\ Reached(c2, d)
  BY StillIdle DEF Reached, Erasing
<1>2. TreesOK(c2, d, V, F, T) /\ HeapOK(c2, d)
  BY <1>1, QuietTrees DEF TxnOK
<1>3. ASSUME Pk # <<>> PROVE KeysOK(c2, V, H)
  <2>1. Rest(c2) = {} /\ ~Adding(c2)
    BY DEF Rest, Adding
  <2>2. PkRoot \in H => KeysDiffer(V \ Rest(c))
    BY <1>3 DEF TxnOK, KeysOK
  <2>3. c2.stmt.kind = "insert" => Searched(c2, V, H, PkOf(c2.stmt.row))
    BY <1>3 DEF ToSearch
  <2>4. c2.stmt.kind = "update" => \A m \in 1..Len(MatchedOf(c2)) : Searched(c2, V, H, PkOf(NewOf(c2, m)))
    BY <1>3 DEF ToSearch
  <2>. QED  BY <1>3, <2>1, <2>2, <2>3, <2>4 DEF KeysOK, NewKeysDiffer
<1>. QED  BY <1>2, <1>3 DEF TxnOK, FetchShape, MutateShape

LEMMA QuietMutate ==
    ASSUME NEW c \in CallType, NEW c2 \in CallType, NEW d, NEW V, NEW F, NEW T, NEW H, NEW n,
           TxnOK(c, d, V, F, T, H, n), Still(c), Still(c2), Reached(c2, d),
           c2.stage = "mutate", MutateShape(c2, n), RowsOK(c2, V, H), Pk # <<>> => KeysOK(c2, V, H)
    PROVE  TxnOK(c2, d, V, F, T, H, n)
<1>1. TreesOK(c2, d, V, F, T) /\ HeapOK(c2, d)
  BY QuietTrees DEF TxnOK
<1>. QED  BY <1>1 DEF TxnOK, FetchShape, CheckShape

\* Before and after the mutation loop there is nothing left to remove.
LEMMA RestEmpty ==
    ASSUME NEW c \in CallType, c.stage = "mutate" => Left(c) = 0 /\ c.begun = Len(MatchedOf(c))
    PROVE  Rest(c) = {}
<1>1. EraseAt(c) \in Nat /\ EraseAt(c) >= 1
  BY IndexFacts DEF EraseAt
<1>2. ASSUME c.stage = "mutate", NEW m \in 1..Len(MatchedOf(c)) PROVE ~Unhandled(c, m)
  BY <1>1, <1>2, MatchedFacts DEF Unhandled
<1>. QED  BY <1>2 DEF Rest

\* The statement returns.
LEMMA ReturnOK ==
    ASSUME NEW c \in CallType, NEW d, NEW V, NEW F, NEW T, NEW H, NEW n,
           TxnOK(c, d, V, F, T, H, n), Left(c) = 0,
           c.stage = "mutate" => c.begun = Len(MatchedOf(c))
    PROVE  TxnOK(NoCall, d, V, F, T, H, n)
<1>1. Still(c) /\ Still(NoCall) /\ Reached(NoCall, d)
  BY StillIdle, NoCallFacts DEF Reached
<1>2. TreesOK(NoCall, d, V, F, T) /\ HeapOK(NoCall, d)
  BY <1>1, QuietTrees DEF TxnOK
<1>3. ASSUME Pk # <<>> PROVE KeysOK(NoCall, V, H)
  <2>1. Rest(c) = {}
    BY RestEmpty
  <2>2. PkRoot \in H => KeysDiffer(V \ Rest(c))
    BY <1>3 DEF TxnOK, KeysOK
  <2>. QED  BY <2>1, <2>2, NoCallFacts DEF KeysOK
<1>4. RowsOK(NoCall, V, H)
  <2>1. Len(NoCall.got) = 0
    BY NoCallFacts
  <2>. QED  BY <2>1, NoCallFacts DEF RowsOK, RidsDiffer
<1>. QED  BY <1>2, <1>3, <1>4, NoCallFacts DEF TxnOK, FetchShape, CheckShape, MutateShape

\* A call with the same statement and the same fetched rows.
LEMMA SameRows ==
    ASSUME NEW c, NEW c2, c2.stmt = c.stmt, c2.got = c.got
    PROVE  /\ MatchedOf(c2) = MatchedOf(c) /\ EraseAt(c2) = EraseAt(c)
           /\ \A m : NewOf(c2, m) = NewOf(c, m)
           /\ c2.begun = c.begun => Old(c2) = Old(c) /\ New(c2) = New(c)
BY DEF MatchedOf, EraseAt, NewOf, Old, New

\* The statement goes on to its next access.
Advances(c, c2) ==
    /\ c2 \in CallType /\ c2.stage = c.stage /\ c2.stmt = c.stmt /\ c2.got = c.got /\ c2.begun = c.begun
    /\ Left(c) >= 1 /\ Left(c2) = Left(c) - 1
    /\ \A k \in 1..Left(c) - 1 : c2.todo[k] = c.todo[k + 1]

LEMMA NextAccess ==
    ASSUME NEW c \in CallType, c.todo # <<>>, NEW c2, c2 = [c EXCEPT !.todo = Tail(@)]
    PROVE  Advances(c, c2) /\ c2.hits = c.hits /\ c2.rid = c.rid /\ c.todo[1] = Head(c.todo)
<1>1. c.todo \in Seq(AccessType)
  BY CallFields
<1>2. /\ Tail(c.todo) \in Seq(AccessType) /\ Head(c.todo) = c.todo[1]
      /\ Len(Tail(c.todo)) = Len(c.todo) - 1 /\ Len(c.todo) >= 1
      /\ \A k \in 1..Len(c.todo) - 1 : Tail(c.todo)[k] = c.todo[k + 1]
  BY <1>1, TailFacts
<1>3. c2 = [stage |-> c.stage, stmt |-> c.stmt, todo |-> Tail(c.todo), got |-> c.got, hits |-> c.hits,
            rid |-> c.rid, begun |-> c.begun]
  BY DEF CallType
<1>4. c2 \in CallType
  BY <1>2, <1>3, CallFields DEF CallType
<1>. QED  BY <1>2, <1>3, <1>4 DEF Left, Advances

\* A row of the statement with the rows it sees.
Functional(V) == V \subseteq Found /\ \A x, y \in V : x[1] = y[1] => x = y

\* Numbers a proof about a call needs.
LEMMA CallNumbers ==
    ASSUME NEW c \in CallType
    PROVE  /\ N \in Nat /\ Left(c) \in Nat /\ EraseAt(c) \in Nat /\ EraseAt(c) >= 1 /\ c.begun \in Nat
           /\ c.stmt.kind = "update" => EraseAt(c) = N + 2
           /\ c.stmt.kind # "update" => EraseAt(c) = 1
           /\ Erasing(c) /\ Adding(c) => EraseAt(c) = N + 2 /\ c.stmt.kind = "update"
           /\ Adding(c) /\ ~Erasing(c) => c.stmt.kind = "insert"
<1>1. N \in Nat
  BY IndexFacts
<1>. QED  BY <1>1, CallFields DEF EraseAt, Erasing, Adding

\* The kinds of a call's stages.
LEMMA SameStage ==
    ASSUME NEW c, NEW c2, c2.stage = c.stage, c2.stmt = c.stmt, c2.begun = c.begun
    PROVE  (Erasing(c2) <=> Erasing(c)) /\ (Adding(c2) <=> Adding(c))
BY DEF Erasing, Adding

\* What the mutation loop has left after an access is as it was.
LEMMA NextShape ==
    ASSUME NEW c \in CallType, c.todo # <<>>, NEW n, MutateShape(c, n), c.stage = "mutate",
           NEW c2, Advances(c, c2)
    PROVE  MutateShape(c2, n)
<1>0. /\ c2 \in CallType /\ c2.stage = c.stage /\ c2.stmt = c.stmt /\ c2.got = c.got /\ c2.begun = c.begun
      /\ Left(c2) = Left(c) - 1 /\ \A k \in 1..Left(c) - 1 : c2.todo[k] = c.todo[k + 1]
  BY DEF Advances
<1>1. /\ MatchedOf(c2) = MatchedOf(c) /\ EraseAt(c2) = EraseAt(c) /\ Old(c2) = Old(c) /\ New(c2) = New(c)
      /\ (Erasing(c2) <=> Erasing(c)) /\ (Adding(c2) <=> Adding(c))
  BY <1>0, SameRows, SameStage
<1>2. /\ N \in Nat /\ Left(c) \in Nat /\ EraseAt(c) \in Nat /\ EraseAt(c) >= 1 /\ Left(c) >= 1
  BY CallNumbers, CallFields
<1>3. ASSUME NEW i \in Nat, Left(c2) > i PROVE c2.todo[Left(c2) - i] = c.todo[Left(c) - i] /\ Left(c) > i
  <2>1. Left(c2) - i \in 1..Left(c) - 1 /\ Left(c2) - i + 1 = Left(c) - i
    BY <1>0, <1>2, <1>3
  <2>. QED  BY <1>0, <1>2, <1>3, <2>1
<1>4. ~Erasing(c2) /\ ~Adding(c2) => Left(c2) = 0
  BY <1>0, <1>1, <1>2 DEF MutateShape
<1>5. ASSUME Erasing(c2)
      PROVE  /\ Left(c2) <= EraseAt(c2) + N
             /\ \A j \in 1..N : Left(c2) > EraseAt(c2) + N - j =>
                    c2.todo[Left(c2) - (EraseAt(c2) + N - j)] = TreeDelete(Indexes[j].name, <<Key(j, Old(c2)[2]), Old(c2)[1]>>)
             /\ Left(c2) >= EraseAt(c2) => c2.todo[Left(c2) + 1 - EraseAt(c2)] = DeleteRow(Old(c2)[1])
  <2>1. Left(c2) <= EraseAt(c2) + N
    BY <1>0, <1>1, <1>2, <1>5 DEF MutateShape
  <2>2. ASSUME NEW j \in 1..N, Left(c2) > EraseAt(c2) + N - j
        PROVE  c2.todo[Left(c2) - (EraseAt(c2) + N - j)] = TreeDelete(Indexes[j].name, <<Key(j, Old(c2)[2]), Old(c2)[1]>>)
    <3>1. EraseAt(c) + N - j \in Nat
      BY <1>2
    <3>2. c2.todo[Left(c2) - (EraseAt(c) + N - j)] = c.todo[Left(c) - (EraseAt(c) + N - j)] /\ Left(c) > EraseAt(c) + N - j
      BY <1>1, <1>3, <2>2, <3>1
    <3>3. c.todo[Left(c) - (EraseAt(c) + N - j)] = TreeDelete(Indexes[j].name, <<Key(j, Old(c)[2]), Old(c)[1]>>)
      BY <1>1, <1>5, <3>2 DEF MutateShape
    <3>. QED  BY <1>1, <3>2, <3>3
  <2>3. ASSUME Left(c2) >= EraseAt(c2) PROVE c2.todo[Left(c2) + 1 - EraseAt(c2)] = DeleteRow(Old(c2)[1])
    <3>1. EraseAt(c) - 1 \in Nat /\ Left(c2) > EraseAt(c) - 1
      BY <1>0, <1>1, <1>2, <2>3
    <3>2. c2.todo[Left(c2) - (EraseAt(c) - 1)] = c.todo[Left(c) - (EraseAt(c) - 1)]
      BY <1>3, <3>1
    <3>3. Left(c2) - (EraseAt(c) - 1) = Left(c2) + 1 - EraseAt(c) /\ Left(c) - (EraseAt(c) - 1) = Left(c) + 1 - EraseAt(c)
      BY <1>0, <1>2
    <3>4. Left(c) >= EraseAt(c)
      BY <1>0, <1>2, <3>1
    <3>5. c.todo[Left(c) + 1 - EraseAt(c)] = DeleteRow(Old(c)[1])
      BY <1>1, <1>5, <3>4 DEF MutateShape
    <3>. QED  BY <1>1, <3>2, <3>3, <3>5
  <2>. QED  BY <2>1, <2>2, <2>3
<1>6. ASSUME Adding(c2)
      PROVE  /\ ~Erasing(c2) => Left(c2) <= N + 1
             /\ Left(c2) > N =>
                    LET a == c2.todo[Left(c2) - N]
                    IN  /\ a.do \in {"insert", "put"} /\ a.mode = LM!kExclusive /\ a.arg = New(c2)
                        /\ a.do = "put" => Left(c2) = N + 1 /\ \E p \in 1..n : a.page = HeapPage(p)
             /\ \A j \in 1..N : Left(c2) > N - j =>
                    c2.todo[Left(c2) - (N - j)] = TreeInsert(Indexes[j].name, Key(j, New(c2)))
  <2>1. ~Erasing(c2) => Left(c2) <= N + 1
    BY <1>0, <1>1, <1>2, <1>6 DEF MutateShape
  <2>2. ASSUME Left(c2) > N
        PROVE  LET a == c2.todo[Left(c2) - N]
               IN  /\ a.do \in {"insert", "put"} /\ a.mode = LM!kExclusive /\ a.arg = New(c2)
                   /\ a.do = "put" => Left(c2) = N + 1 /\ \E p \in 1..n : a.page = HeapPage(p)
    <3>1. c2.todo[Left(c2) - N] = c.todo[Left(c) - N] /\ Left(c) > N /\ Left(c) # N + 1
      BY <1>0, <1>2, <1>3, <2>2
    <3>. QED  BY <1>1, <1>6, <3>1 DEF MutateShape
  <2>3. ASSUME NEW j \in 1..N, Left(c2) > N - j
        PROVE  c2.todo[Left(c2) - (N - j)] = TreeInsert(Indexes[j].name, Key(j, New(c2)))
    <3>1. N - j \in Nat
      BY <1>2
    <3>2. c2.todo[Left(c2) - (N - j)] = c.todo[Left(c) - (N - j)] /\ Left(c) > N - j
      BY <1>3, <2>3, <3>1
    <3>. QED  BY <1>1, <1>6, <3>2 DEF MutateShape
  <2>. QED  BY <2>1, <2>2, <2>3
<1>. QED  BY <1>0, <1>1, <1>4, <1>5, <1>6 DEF MutateShape
-----------------------------------------------------------------------------
(* The changes. *)

\* The next access of the mutation loop, by what is left.
LEMMA MutateHead ==
    ASSUME NEW c \in CallType, c.todo # <<>>, NEW n, MutateShape(c, n), c.stage = "mutate"
    PROVE  \/ /\ Erasing(c) /\ Left(c) > EraseAt(c)
              /\ \E j \in 1..N : /\ j = EraseAt(c) + N - Left(c) + 1
                                 /\ c.todo[1] = TreeDelete(Indexes[j].name, <<Key(j, Old(c)[2]), Old(c)[1]>>)
           \/ Erasing(c) /\ Left(c) = EraseAt(c) /\ c.todo[1] = DeleteRow(Old(c)[1])
           \/ /\ Adding(c) /\ Left(c) = N + 1
              /\ c.todo[1].do \in {"insert", "put"} /\ c.todo[1].mode = LM!kExclusive /\ c.todo[1].arg = New(c)
              /\ c.todo[1].do = "put" => \E p \in 1..n : c.todo[1].page = HeapPage(p)
           \/ /\ Adding(c) /\ Left(c) <= N
              /\ \E j \in 1..N : j = N - Left(c) + 1 /\ c.todo[1] = TreeInsert(Indexes[j].name, Key(j, New(c)))
<1>1. /\ N \in Nat /\ Left(c) \in Nat /\ EraseAt(c) \in Nat /\ EraseAt(c) >= 1 /\ Left(c) >= 1
  BY CallNumbers, CallFields
<1>2. CASE Erasing(c) /\ Left(c) > EraseAt(c)
  <2> DEFINE j == EraseAt(c) + N - Left(c) + 1
  <2>1. j \in 1..N /\ Left(c) > EraseAt(c) + N - j /\ Left(c) - (EraseAt(c) + N - j) = 1
    BY <1>1, <1>2 DEF MutateShape
  <2> HIDE DEF j
  <2>2. c.todo[1] = TreeDelete(Indexes[j].name, <<Key(j, Old(c)[2]), Old(c)[1]>>)
    BY <1>2, <2>1 DEF MutateShape
  <2>. QED  BY <1>2, <2>1, <2>2 DEF j
<1>3. CASE Erasing(c) /\ Left(c) = EraseAt(c)
  <2>1. Left(c) + 1 - EraseAt(c) = 1
    BY <1>1, <1>3
  <2>. QED  BY <1>1, <1>3, <2>1 DEF MutateShape
<1>4. CASE ~Erasing(c) \/ Left(c) < EraseAt(c)
  <2>1. Adding(c) /\ Left(c) <= N + 1
    <3>1. CASE ~Erasing(c)
      BY <1>1, <3>1 DEF MutateShape
    <3>2. CASE Erasing(c)
      <4>1. c.stmt.kind = "update" \/ c.stmt.kind = "delete"
        BY <3>2 DEF Erasing
      <4>. QED  BY <1>1, <1>4, <3>2, <4>1 DEF EraseAt, Erasing, Adding
    <3>. QED  BY <3>1, <3>2
  <2>2. CASE Left(c) = N + 1
    <3>1. Left(c) > N /\ Left(c) - N = 1
      BY <1>1, <2>2
    <3>. QED  BY <2>1, <2>2, <3>1 DEF MutateShape
  <2>3. CASE Left(c) # N + 1
    <3> DEFINE j == N - Left(c) + 1
    <3>1. j \in 1..N /\ Left(c) > N - j /\ Left(c) - (N - j) = 1 /\ Left(c) <= N
      BY <1>1, <2>1, <2>3
    <3> HIDE DEF j
    <3>2. c.todo[1] = TreeInsert(Indexes[j].name, Key(j, New(c)))
      BY <2>1, <3>1 DEF MutateShape
    <3>. QED  BY <2>1, <3>1, <3>2 DEF j
  <2>. QED  BY <2>2, <2>3
<1>. QED  BY <1>1, <1>2, <1>3, <1>4

\* A removed entry is that of one row.
LEMMA EntriesWithout ==
    ASSUME NEW V, Functional(V), NEW x \in V, NEW j
    PROVE  Entries(j, V) \ {<<Key(j, x[2]), x[1]>>} = Entries(j, V \ {x})
<1>1. \A y \in V : <<Key(j, y[2]), y[1]>> = <<Key(j, x[2]), x[1]>> => y = x
  BY DEF Functional
<1>. QED  BY <1>1 DEF Entries

\* The rows the loop has still to remove and to add are the same.
SamePlace(c, c2) ==
    /\ \A m : (Unhandled(c2, m) <=> Unhandled(c, m)) /\ (Coming(c2, m) <=> Coming(c, m))
    /\ Left(c2) > N => Left(c) > N

\* An access that leaves the rows alone.
LEMMA SameRowsOK ==
    ASSUME NEW c \in CallType, NEW c2, Advances(c, c2), c.stage = "mutate", NEW V, NEW H, SamePlace(c, c2)
    PROVE  /\ RowsOK(c, V, H) => RowsOK(c2, V, H)
           /\ KeysOK(c, V, H) => KeysOK(c2, V, H)
           /\ Rest(c2) = Rest(c)
<1>1. /\ MatchedOf(c2) = MatchedOf(c) /\ (\A m : NewOf(c2, m) = NewOf(c, m))
      /\ (Adding(c2) <=> Adding(c))
  BY SameRows, SameStage DEF Advances
<1>2. Rest(c2) = Rest(c)
  BY <1>1 DEF Rest, SamePlace, Advances
<1>3. RowsOK(c, V, H) => RowsOK(c2, V, H)
  BY <1>1 DEF RowsOK, SamePlace, Advances
<1>4. KeysOK(c, V, H) => KeysOK(c2, V, H)
  BY <1>1, <1>2 DEF KeysOK, SamePlace, Advances
<1>. QED  BY <1>2, <1>3, <1>4

\* DELETE and UPDATE take the entry of the row out of index j.
EntryRemoved(c, j, V, T, T2) ==
    /\ Elements(T[Indexes[j].name]) = Entries(j, V \ Lag(c, j))
    /\ Elements(T2[Indexes[j].name]) = Elements(T[Indexes[j].name]) \ {<<Key(j, Old(c)[2]), Old(c)[1]>>}
    /\ \A k \in 1..N : k # j => T2[Indexes[k].name] = T[Indexes[k].name]

LEMMA TreeDeleteOK ==
    ASSUME NEW c \in CallType, NEW d, NEW V, NEW F, NEW T, NEW T2, NEW H, NEW n, Functional(V),
           TxnOK(c, d, V, F, T, H, n), c.stage = "mutate", Erasing(c), Left(c) > EraseAt(c),
           NEW j \in 1..N, j = EraseAt(c) + N - Left(c) + 1,
           NEW c2, Advances(c, c2), c2.rid = c.rid,
           EntryRemoved(c, j, V, T, T2)
    PROVE  TxnOK(c2, d \cup {IndexRoot(j)}, V, F, T2, H, n)
<1> USE DEF EntryRemoved
<1> DEFINE d2 == d \cup {IndexRoot(j)}
<1>1. /\ N \in Nat /\ Left(c) \in Nat /\ EraseAt(c) \in Nat /\ EraseAt(c) >= 1 /\ c.begun \in Nat
      /\ (Adding(c) => EraseAt(c) = N + 2) /\ c.todo # <<>>
      /\ (c.stmt.kind = "update" => EraseAt(c) = N + 2)
  BY CallNumbers, CallFields
<1>2. /\ c2 \in CallType /\ c2.stage = c.stage /\ c2.stmt = c.stmt /\ c2.got = c.got
      /\ c2.rid = c.rid /\ c2.begun = c.begun
      /\ Left(c2) = Left(c) - 1 /\ \A k \in 1..Left(c) - 1 : c2.todo[k] = c.todo[k + 1]
  BY DEF Advances
<1>3. /\ MatchedOf(c2) = MatchedOf(c) /\ EraseAt(c2) = EraseAt(c) /\ Old(c2) = Old(c) /\ New(c2) = New(c)
      /\ (Erasing(c2) <=> Erasing(c)) /\ (Adding(c2) <=> Adding(c))
  BY <1>2, SameRows, SameStage
<1>4. MutateShape(c2, n)
  BY <1>1, <1>2, NextShape DEF TxnOK
<1>5. \A m : Unhandled(c2, m) <=> Unhandled(c, m)
  BY <1>1, <1>2, <1>3 DEF Unhandled
<1>6. ASSUME Adding(c) PROVE \A m : Coming(c2, m) <=> Coming(c, m)
  BY <1>1, <1>2, <1>6 DEF Coming
<1>7. RowsOK(c2, V, H)
  BY <1>2, <1>3, <1>5 DEF TxnOK, RowsOK
<1>8. ASSUME Pk # <<>> PROVE KeysOK(c2, V, H)
  <2>1. KeysOK(c, V, H)
    BY <1>8 DEF TxnOK
  <2>2. CASE Adding(c)
    <3>1. SamePlace(c, c2)
      BY <1>1, <1>2, <1>5, <1>6, <2>2 DEF SamePlace
    <3>. QED  BY <2>1, <3>1, SameRowsOK
  <2>3. CASE ~Adding(c)
    <3>1. c.stmt.kind = "delete"
      BY <1>2, <2>3 DEF Erasing, Adding
    <3>2. Rest(c2) = {} /\ Rest(c) = {} /\ ~Adding(c2)
      BY <1>2, <1>3, <2>3, <3>1 DEF Rest
    <3>. QED  BY <1>2, <2>1, <3>1, <3>2 DEF KeysOK
  <2>. QED  BY <2>2, <2>3
<1>9. ASSUME NEW k \in 1..N
      PROVE  /\ Arriving(c, k) = {} /\ Arriving(c2, k) = {}
             /\ k # j => Lag(c2, k) = Lag(c, k)
  <2>1. Arriving(c, k) = {} /\ Arriving(c2, k) = {}
    BY <1>1, <1>2, <1>3 DEF Arriving
  <2>2. k # j => (EraseAt(c) <= Left(c2) /\ Left(c2) <= EraseAt(c) + N - k
                  <=> EraseAt(c) <= Left(c) /\ Left(c) <= EraseAt(c) + N - k)
    BY <1>1, <1>2
  <2>3. k # j => Leaving(c2, k) = Leaving(c, k)
    BY <1>3, <2>2 DEF Leaving
  <2>. QED  BY <2>1, <2>3 DEF Lag
<1>10. Lag(c, j) = {} /\ Lag(c2, j) = {Old(c)}
  <2>1. Leaving(c, j) = {} /\ Leaving(c2, j) = {Old(c)}
    BY <1>1, <1>2, <1>3 DEF Leaving
  <2>. QED  BY <1>9, <2>1 DEF Lag
<1>11. Old(c) \in V
  <2>1. c.begun \in 1..Len(MatchedOf(c)) /\ Unhandled(c, c.begun)
    BY <1>1, MatchedFacts DEF TxnOK, MutateShape, Unhandled, Erasing
  <2>. QED  BY <2>1 DEF TxnOK, RowsOK, Old
<1>12. Elements(T2[Indexes[j].name]) = Entries(j, V \ Lag(c2, j))
  <2>1. Elements(T[Indexes[j].name]) = Entries(j, V)
    <3>1. V \ Lag(c, j) = V
      BY <1>10
    <3>. QED  BY <3>1
  <2>2. Entries(j, V) \ {<<Key(j, Old(c)[2]), Old(c)[1]>>} = Entries(j, V \ {Old(c)})
    BY <1>11, EntriesWithout
  <2>. QED  BY <1>10, <2>1, <2>2
<1>13. TreesOK(c2, d2, V, F, T2)
  <2>1. \A k \in 1..N : k # j => IndexRoot(k) # IndexRoot(j)
    BY IndexFacts, PageKeyFacts DEF IndexRoot
  <2>2. TreesOK(c, d, V, F, T)
    BY DEF TxnOK
  <2>3. ASSUME NEW k \in 1..N, k # j
        PROVE  /\ Arriving(c2, k) \subseteq V
               /\ IndexRoot(k) \in d2 => Elements(T2[Indexes[k].name]) = Entries(k, V \ Lag(c2, k))
               /\ IndexRoot(k) \notin d2 => V \ Lag(c2, k) = F
    <3>1. T2[Indexes[k].name] = T[Indexes[k].name] /\ Lag(c2, k) = Lag(c, k) /\ Arriving(c2, k) = {}
      BY <1>9, <2>3
    <3>2. IndexRoot(k) \in d2 <=> IndexRoot(k) \in d
      BY <2>1, <2>3
    <3>3. /\ IndexRoot(k) \in d => Elements(T[Indexes[k].name]) = Entries(k, V \ Lag(c, k))
          /\ IndexRoot(k) \notin d => V \ Lag(c, k) = F
      BY <2>2 DEF TreesOK
    <3>. QED  BY <3>1, <3>2, <3>3
  <2>4. IndexRoot(j) \in d2 /\ Arriving(c2, j) \subseteq V
    BY <1>9
  <2>. QED  BY <1>12, <2>3, <2>4 DEF TreesOK
<1>14. HeapOK(c2, d2)
  <2>1. \A p \in 1..MaxPages, k \in 1..N : HeapPage(p) \in d2 => HeapPage(p) \in d
    BY PageKeyFacts DEF IndexRoot
  <2>2. HeapOK(c, d)
    BY DEF TxnOK
  <2>3. \A k \in 1..N : Left(c2) <= EraseAt(c2) + N - k => k = j \/ Left(c) <= EraseAt(c) + N - k
    BY <1>1, <1>2, <1>3
  <2>4. ~(Adding(c) /\ Left(c) <= N)
    BY <1>1
  <2>. QED  BY <1>3, <2>1, <2>2, <2>3, <2>4 DEF HeapOK
<1>. QED  BY <1>2, <1>4, <1>7, <1>8, <1>13, <1>14 DEF TxnOK, FetchShape, CheckShape

\* They take the row out of the heap file.
LEMMA DeleteOK ==
    ASSUME NEW c \in CallType, NEW d, NEW V, NEW F, NEW T, NEW H, NEW n, Functional(V),
           TxnOK(c, d, V, F, T, H, n), c.stage = "mutate", Erasing(c), Left(c) = EraseAt(c),
           NEW c2, Advances(c, c2), c2.rid = c.rid, NEW p
    PROVE  Old(c) \in V /\ TxnOK(c2, d \cup {HeapPage(p)}, V \ {Old(c)}, F, T, H, n)
<1> DEFINE d2 == d \cup {HeapPage(p)}
           V2 == V \ {Old(c)}
<1>1. /\ N \in Nat /\ Left(c) \in Nat /\ EraseAt(c) \in Nat /\ EraseAt(c) >= 1 /\ c.begun \in Nat
      /\ (Adding(c) => EraseAt(c) = N + 2) /\ c.todo # <<>>
      /\ (c.stmt.kind = "update" => EraseAt(c) = N + 2)
  BY CallNumbers, CallFields
<1>2. /\ c2 \in CallType /\ c2.stage = c.stage /\ c2.stmt = c.stmt /\ c2.got = c.got
      /\ c2.begun = c.begun /\ Left(c2) = Left(c) - 1
  BY DEF Advances
<1>3. /\ MatchedOf(c2) = MatchedOf(c) /\ EraseAt(c2) = EraseAt(c) /\ Old(c2) = Old(c) /\ New(c2) = New(c)
      /\ (Erasing(c2) <=> Erasing(c)) /\ (Adding(c2) <=> Adding(c)) /\ (\A m : NewOf(c2, m) = NewOf(c, m))
  BY <1>2, SameRows, SameStage
<1>4. MutateShape(c2, n)
  BY <1>1, NextShape DEF TxnOK
<1>5. c.begun \in 1..Len(MatchedOf(c)) /\ Unhandled(c, c.begun)
  <2>1. c.begun \in 0..Len(MatchedOf(c)) /\ c.begun >= 1
    BY DEF TxnOK, MutateShape, Erasing
  <2>2. c.begun \in 1..Len(MatchedOf(c))
    BY <1>1, <2>1, MatchedFacts
  <2>. QED  BY <1>1, <2>2 DEF Unhandled
<1>6. Old(c) \in V
  BY <1>5 DEF TxnOK, RowsOK, Old
<1>7. \A m : (Unhandled(c2, m) <=> m > c.begun) /\ (Unhandled(c, m) <=> m > c.begun \/ m = c.begun)
  BY <1>1, <1>2, <1>3 DEF Unhandled
<1>8. ASSUME NEW m \in 1..Len(MatchedOf(c)), m > c.begun PROVE MatchedOf(c)[m] # Old(c) /\ MatchedOf(c)[m] \in V
  <2>1. RidsDiffer(MatchedOf(c)) /\ m # c.begun
    BY <1>1, <1>8, MatchedFacts DEF TxnOK, RowsOK
  <2>2. MatchedOf(c)[m][1] # Old(c)[1]
    BY <1>5, <2>1 DEF RidsDiffer, Old
  <2>. QED  BY <1>7, <1>8, <2>2 DEF TxnOK, RowsOK
<1>9. RowsOK(c2, V2, H)
  BY <1>2, <1>3, <1>7, <1>8 DEF TxnOK, RowsOK
<1>10. ASSUME Pk # <<>> PROVE KeysOK(c2, V2, H)
  <2>1. KeysOK(c, V, H)
    BY <1>10 DEF TxnOK
  <2>2. CASE c.stmt.kind = "update"
    <3>1. Adding(c) /\ \A m : Coming(c2, m) <=> Coming(c, m)
      BY <1>1, <1>2, <2>2 DEF Coming, Adding, Erasing
    <3>2. V2 \ Rest(c2) = V \ Rest(c)
      <4>1. Rest(c) = {MatchedOf(c)[m] : m \in {k \in 1..Len(MatchedOf(c)) : k > c.begun \/ k = c.begun}}
        BY <1>7, <2>2 DEF Rest
      <4>2. Rest(c2) = {MatchedOf(c)[m] : m \in {k \in 1..Len(MatchedOf(c)) : k > c.begun}}
        BY <1>2, <1>3, <1>7, <2>2 DEF Rest
      <4>3. \A x : x \in Rest(c) <=> x \in Rest(c2) \/ x = Old(c)
        BY <1>5, <4>1, <4>2 DEF Old
      <4>. QED  BY <4>3
    <3> HIDE DEF V2
    <3>3. PkRoot \in H
      BY <2>1, <3>1 DEF KeysOK
    <3>. QED  BY <1>2, <1>3, <2>1, <2>2, <3>1, <3>2, <3>3 DEF KeysOK
  <2>3. CASE c.stmt.kind # "update"
    <3>1. c.stmt.kind = "delete"
      BY <2>3 DEF Erasing
    <3>2. Rest(c2) = {} /\ Rest(c) = {} /\ ~Adding(c2)
      BY <1>2, <3>1 DEF Rest, Adding
    <3>. QED  BY <1>2, <2>1, <3>1, <3>2 DEF KeysOK, KeysDiffer
  <2>. QED  BY <2>2, <2>3
<1>11. ASSUME NEW k \in 1..N
       PROVE  Lag(c, k) = {Old(c)} /\ Lag(c2, k) = {} /\ Arriving(c2, k) = {}
  <2>1. Arriving(c, k) = {} /\ Arriving(c2, k) = {}
    BY <1>1, <1>2, <1>3 DEF Arriving
  <2>2. Leaving(c2, k) = {} /\ Leaving(c, k) = {Old(c)}
    BY <1>1, <1>2, <1>3 DEF Leaving
  <2>. QED  BY <2>1, <2>2 DEF Lag
<1>12. \A k \in 1..N : (IndexRoot(k) \in d2 <=> IndexRoot(k) \in d) /\ IndexRoot(k) \in d
  <2>1. \A k \in 1..N : IndexRoot(k) \in d
    BY <1>1 DEF TxnOK, HeapOK
  <2>. QED  BY <2>1
<1>13. TreesOK(c2, d2, V2, F, T)
  <2>1. ASSUME NEW k \in 1..N
        PROVE  V \ Lag(c, k) = V2 \ Lag(c2, k)
    BY <1>11
  <2> HIDE DEF V2
  <2>. QED  BY <1>11, <1>12, <2>1 DEF TxnOK, TreesOK
<1>14. HeapOK(c2, d2)
  BY <1>12 DEF HeapOK
<1>. QED  BY <1>2, <1>4, <1>6, <1>9, <1>10, <1>13, <1>14 DEF TxnOK, FetchShape, CheckShape

\* INSERT and UPDATE put the entry of the new row into index j.
EntryAdded(c, j, V, T, T2) ==
    /\ Elements(T[Indexes[j].name]) = Entries(j, V \ Lag(c, j))
    /\ Elements(T2[Indexes[j].name]) = Elements(T[Indexes[j].name]) \cup {<<Key(j, New(c)), c.rid>>}
    /\ \A k \in 1..N : k # j => T2[Indexes[k].name] = T[Indexes[k].name]

LEMMA TreeInsertOK ==
    ASSUME NEW c \in CallType, NEW d, NEW V, NEW F, NEW T, NEW T2, NEW H, NEW n,
           TxnOK(c, d, V, F, T, H, n), c.stage = "mutate", Adding(c), Left(c) <= N,
           NEW j \in 1..N, j = N - Left(c) + 1,
           NEW c2, Advances(c, c2), c2.rid = c.rid,
           EntryAdded(c, j, V, T, T2)
    PROVE  TxnOK(c2, d \cup {IndexRoot(j)}, V, F, T2, H, n)
<1> USE DEF EntryAdded
<1> DEFINE d2 == d \cup {IndexRoot(j)}
<1>1. /\ N \in Nat /\ Left(c) \in Nat /\ EraseAt(c) \in Nat /\ EraseAt(c) >= 1 /\ c.begun \in Nat
      /\ (Erasing(c) => EraseAt(c) = N + 2) /\ (c.stmt.kind = "update" => EraseAt(c) = N + 2)
      /\ (~Erasing(c) => c.stmt.kind = "insert") /\ Left(c) >= 1 /\ c.todo # <<>>
  BY CallNumbers, CallFields DEF Advances
<1>2. /\ c2 \in CallType /\ c2.stage = c.stage /\ c2.stmt = c.stmt /\ c2.got = c.got
      /\ c2.begun = c.begun /\ Left(c2) = Left(c) - 1
  BY DEF Advances
<1>3. /\ MatchedOf(c2) = MatchedOf(c) /\ EraseAt(c2) = EraseAt(c) /\ Old(c2) = Old(c) /\ New(c2) = New(c)
      /\ (Erasing(c2) <=> Erasing(c)) /\ (Adding(c2) <=> Adding(c))
  BY <1>2, SameRows, SameStage
<1>4. MutateShape(c2, n)
  BY <1>1, NextShape DEF TxnOK
<1>5. ASSUME c.stmt.kind = "update" PROVE SamePlace(c, c2)
  BY <1>1, <1>2, <1>3, <1>5 DEF SamePlace, Unhandled, Coming
<1>6. ASSUME c.stmt.kind = "insert" PROVE MatchedOf(c) = <<>> /\ Len(MatchedOf(c)) = 0
  <2>1. MatchedOf(c) = <<>>
    BY <1>6, MatchedFacts DEF TxnOK, MutateShape
  <2>. QED  BY <2>1
<1>7. c.stmt.kind = "insert" \/ c.stmt.kind = "update"
  BY DEF Adding
<1>8. RowsOK(c2, V, H)
  <2>1. RowsOK(c, V, H)
    BY DEF TxnOK
  <2>2. CASE c.stmt.kind = "update"
    BY <1>5, <2>1, <2>2, SameRowsOK
  <2>3. CASE c.stmt.kind = "insert"
    BY <1>2, <1>3, <1>6, <2>1, <2>3 DEF RowsOK
  <2>. QED  BY <1>7, <2>2, <2>3
<1>9. ASSUME Pk # <<>> PROVE KeysOK(c2, V, H)
  <2>1. KeysOK(c, V, H)
    BY <1>9 DEF TxnOK
  <2>2. CASE c.stmt.kind = "update"
    BY <1>5, <2>1, <2>2, SameRowsOK
  <2>3. CASE c.stmt.kind = "insert"
    <3>1. Rest(c) = {} /\ Rest(c2) = {} /\ ~(Left(c2) > N)
      BY <1>1, <1>2, <2>3 DEF Rest
    <3>. QED  BY <1>2, <1>3, <2>1, <2>3, <3>1 DEF KeysOK
  <2>. QED  BY <1>7, <2>2, <2>3
<1>10. ASSUME NEW k \in 1..N
       PROVE  /\ Leaving(c, k) = {} /\ Leaving(c2, k) = {} /\ Lag(c, k) = Arriving(c, k) /\ Lag(c2, k) = Arriving(c2, k)
              /\ k # j => Arriving(c2, k) = Arriving(c, k)
  <2>1. Leaving(c, k) = {} /\ Leaving(c2, k) = {}
    BY <1>1, <1>2, <1>3 DEF Leaving
  <2>2. k # j => (N - k + 1 <= Left(c2) /\ Left(c2) <= N <=> N - k + 1 <= Left(c) /\ Left(c) <= N)
    BY <1>1, <1>2
  <2>3. k # j => Arriving(c2, k) = Arriving(c, k)
    BY <1>3, <2>2 DEF Arriving
  <2>. QED  BY <2>1, <2>3 DEF Lag
<1> DEFINE x == <<c.rid, New(c)>>
<1>11. Arriving(c, j) = {x} /\ Arriving(c2, j) = {}
  BY <1>1, <1>2, <1>3 DEF Arriving
<1>12. x \in V
  BY <1>11 DEF TxnOK, TreesOK
<1>13. Elements(T2[Indexes[j].name]) = Entries(j, V \ Lag(c2, j))
  <2>1. Lag(c, j) = {x} /\ Lag(c2, j) = {}
    BY <1>10, <1>11
  <2>2. Entries(j, V \ {x}) \cup {<<Key(j, x[2]), x[1]>>} = Entries(j, V)
    <3> HIDE DEF x
    <3>. QED  BY <1>12 DEF Entries
  <2>3. x[1] = c.rid /\ x[2] = New(c) /\ V \ {} = V
    OBVIOUS
  <2> HIDE DEF x
  <2>. QED  BY <2>1, <2>2, <2>3
<1> HIDE DEF x
<1>14. TreesOK(c2, d2, V, F, T2)
  <2>1. \A k \in 1..N : k # j => IndexRoot(k) # IndexRoot(j)
    BY IndexFacts, PageKeyFacts DEF IndexRoot
  <2>2. TreesOK(c, d, V, F, T)
    BY DEF TxnOK
  <2>3. ASSUME NEW k \in 1..N, k # j
        PROVE  /\ Arriving(c2, k) \subseteq V
               /\ IndexRoot(k) \in d2 => Elements(T2[Indexes[k].name]) = Entries(k, V \ Lag(c2, k))
               /\ IndexRoot(k) \notin d2 => V \ Lag(c2, k) = F
    <3>1. T2[Indexes[k].name] = T[Indexes[k].name] /\ Lag(c2, k) = Lag(c, k) /\ Arriving(c2, k) = Arriving(c, k)
      BY <1>10, <2>3
    <3>2. IndexRoot(k) \in d2 <=> IndexRoot(k) \in d
      BY <2>1, <2>3
    <3>3. /\ IndexRoot(k) \in d => Elements(T[Indexes[k].name]) = Entries(k, V \ Lag(c, k))
          /\ IndexRoot(k) \notin d => V \ Lag(c, k) = F
          /\ Arriving(c, k) \subseteq V
      BY <2>2 DEF TreesOK
    <3>. QED  BY <3>1, <3>2, <3>3
  <2>4. IndexRoot(j) \in d2 /\ Arriving(c2, j) \subseteq V
    BY <1>11
  <2>. QED  BY <1>13, <2>3, <2>4 DEF TreesOK
<1>15. HeapOK(c2, d2)
  <2>1. \A p \in 1..MaxPages, k \in 1..N : HeapPage(p) \in d2 => HeapPage(p) \in d
    BY PageKeyFacts DEF IndexRoot
  <2>2. HeapOK(c, d)
    BY DEF TxnOK
  <2>3. \A k \in 1..N : k = j \/ ((N - k + 1 <= Left(c2) /\ Left(c2) <= N) <=> (N - k + 1 <= Left(c) /\ Left(c) <= N))
    BY <1>1, <1>2
  <2>4. Erasing(c) => \A k \in 1..N : Left(c) <= EraseAt(c) + N - k
    BY <1>1
  <2>5. ASSUME NEW k \in 1..N, NEW p \in 1..MaxPages, HeapPage(p) \in d2
        PROVE  IndexRoot(k) \in d2 \/ (Adding(c2) /\ N - k + 1 <= Left(c2) /\ Left(c2) <= N)
    <3>1. IndexRoot(k) \in d \/ (N - k + 1 <= Left(c) /\ Left(c) <= N)
      BY <2>1, <2>2, <2>5 DEF HeapOK
    <3>. QED  BY <1>3, <2>3, <3>1
  <2>6. ASSUME NEW k \in 1..N, Erasing(c2) PROVE IndexRoot(k) \in d2
    BY <1>3, <2>2, <2>4, <2>6 DEF HeapOK
  <2>. QED  BY <2>5, <2>6 DEF HeapOK
<1>. QED  BY <1>2, <1>4, <1>8, <1>9, <1>14, <1>15 DEF TxnOK, FetchShape, CheckShape

\* They put the new row into the heap file, where no row was.  The file may
\* have grown by a page.
LEMMA PutOK ==
    ASSUME NEW c \in CallType, NEW d, NEW V, NEW F, NEW T, NEW H, NEW n \in Nat, NEW n2 \in Nat, n <= n2,
           TxnOK(c, d, V, F, T, H, n), c.stage = "mutate", Adding(c), Left(c) = N + 1,
           NEW c2, Advances(c, c2), NEW p, \A x \in V : x[1] # c2.rid
    PROVE  TxnOK(c2, d \cup {HeapPage(p)}, V \cup {<<c2.rid, New(c)>>}, F, T, H, n2)
<1> DEFINE d2 == d \cup {HeapPage(p)}
           x  == <<c2.rid, New(c)>>
           V2 == V \cup {x}
<1>0. x[1] = c2.rid /\ x[2] = New(c) /\ x \notin V
  OBVIOUS
<1> HIDE DEF x
<1>1. /\ N \in Nat /\ Left(c) \in Nat /\ EraseAt(c) \in Nat /\ EraseAt(c) >= 1 /\ c.begun \in Nat
      /\ (Erasing(c) => EraseAt(c) = N + 2) /\ (c.stmt.kind = "update" => EraseAt(c) = N + 2)
      /\ (~Erasing(c) => c.stmt.kind = "insert") /\ Left(c) >= 1 /\ c.todo # <<>>
  BY CallNumbers, CallFields DEF Advances
<1>2. /\ c2 \in CallType /\ c2.stage = c.stage /\ c2.stmt = c.stmt /\ c2.got = c.got
      /\ c2.begun = c.begun /\ Left(c2) = N
  BY <1>1 DEF Advances
<1>3. /\ MatchedOf(c2) = MatchedOf(c) /\ EraseAt(c2) = EraseAt(c) /\ Old(c2) = Old(c) /\ New(c2) = New(c)
      /\ (Erasing(c2) <=> Erasing(c)) /\ (Adding(c2) <=> Adding(c)) /\ (\A m : NewOf(c2, m) = NewOf(c, m))
  BY <1>2, SameRows, SameStage
<1>4. MutateShape(c2, n2)
  <2>1. MutateShape(c2, n)
    BY <1>1, NextShape DEF TxnOK
  <2>2. \A a \in 1..n : a \in 1..n2
    OBVIOUS
  <2>. QED  BY <2>1, <2>2 DEF MutateShape
<1>5. c.stmt.kind = "update" => \A m : /\ Unhandled(c2, m) <=> Unhandled(c, m)
                                       /\ Unhandled(c, m) <=> m > c.begun
                                       /\ Coming(c2, m) <=> m > c.begun
                                       /\ Coming(c, m) <=> m > c.begun \/ m = c.begun
  BY <1>1, <1>2, <1>3 DEF Unhandled, Coming
<1>6. ASSUME c.stmt.kind = "insert" PROVE MatchedOf(c) = <<>> /\ Len(MatchedOf(c)) = 0
  <2>1. MatchedOf(c) = <<>>
    BY <1>6, MatchedFacts DEF TxnOK, MutateShape
  <2>. QED  BY <2>1
<1>7. c.stmt.kind = "insert" \/ c.stmt.kind = "update"
  BY DEF Adding
<1>8. RowsOK(c2, V2, H)
  <2>1. RowsOK(c, V, H)
    BY DEF TxnOK
  <2>2. CASE c.stmt.kind = "update"
    BY <1>2, <1>3, <1>5, <2>1, <2>2 DEF RowsOK
  <2>3. CASE c.stmt.kind = "insert"
    BY <1>2, <1>3, <1>6, <2>1, <2>3 DEF RowsOK
  <2>. QED  BY <1>7, <2>2, <2>3
<1>9. ASSUME Pk # <<>> PROVE KeysOK(c2, V2, H)
  <2>1. KeysOK(c, V, H) /\ PkRoot \in H
    BY <1>9 DEF TxnOK, KeysOK
  <2>2. CASE c.stmt.kind = "update"
    <3>1. Rest(c2) = Rest(c)
      BY <1>2, <1>3, <1>5, <2>2 DEF Rest
    <3>2. \A y \in V2 \ Rest(c) : y = x \/ y \in V \ Rest(c)
      OBVIOUS
    <3>3. c.begun \in 1..Len(MatchedOf(c)) /\ New(c) = NewOf(c, c.begun)
      <4>1. c.begun \in 0..Len(MatchedOf(c)) /\ c.begun >= 1
        BY <2>2 DEF TxnOK, MutateShape, Adding
      <4>. QED  BY <1>1, <2>2, <4>1, MatchedFacts DEF New
    <3>4. \A y \in V \ Rest(c) : PkOf(y[2]) # PkOf(x[2])
      BY <1>0, <1>5, <2>1, <2>2, <3>3 DEF KeysOK
    <3>5. KeysDiffer(V2 \ Rest(c2))
      <4> HIDE DEF V2
      <4>1. KeysDiffer(V \ Rest(c))
        BY <2>1 DEF KeysOK
      <4>. QED  BY <3>1, <3>2, <3>4, <4>1 DEF KeysDiffer
    <3>6. ASSUME NEW m \in 1..Len(MatchedOf(c)), m > c.begun, NEW y \in V2 \ Rest(c)
          PROVE  PkOf(y[2]) # PkOf(NewOf(c, m))
      <4>1. CASE y = x
        <5>1. PkOf(NewOf(c, m)) = PkOf(NewOf(c, c.begun)) => m = c.begun
          BY <2>1, <2>2, <3>3 DEF KeysOK
        <5>. QED  BY <1>0, <1>1, <3>3, <3>6, <4>1, <5>1
      <4>2. CASE y # x
        BY <1>5, <2>1, <2>2, <3>2, <3>6, <4>2 DEF KeysOK
      <4>. QED  BY <4>1, <4>2
    <3> HIDE DEF V2
    <3>. QED  BY <1>2, <1>3, <1>5, <2>1, <2>2, <3>1, <3>5, <3>6 DEF KeysOK
  <2>3. CASE c.stmt.kind = "insert"
    <3>1. Rest(c) = {} /\ Rest(c2) = {} /\ ~(Left(c2) > N) /\ Left(c) > N
      BY <1>1, <1>2, <2>3 DEF Rest
    <3>2. \A y \in V : PkOf(y[2]) # PkOf(x[2])
      BY <1>0, <2>1, <2>3, <3>1 DEF KeysOK, New
    <3>3. KeysDiffer(V)
      BY <2>1, <3>1 DEF KeysOK, KeysDiffer
    <3>4. KeysDiffer(V2 \ Rest(c2))
      BY <3>1, <3>2, <3>3 DEF KeysDiffer
    <3> HIDE DEF V2
    <3>. QED  BY <1>2, <1>3, <2>1, <2>3, <3>1, <3>4 DEF KeysOK
  <2>. QED  BY <1>7, <2>2, <2>3
<1>10. ASSUME NEW k \in 1..N
       PROVE  Lag(c, k) = {} /\ Lag(c2, k) = {x} /\ Arriving(c2, k) = {x}
  <2>1. Leaving(c, k) = {} /\ Leaving(c2, k) = {}
    BY <1>1, <1>2, <1>3 DEF Leaving
  <2>2. Arriving(c, k) = {} /\ Arriving(c2, k) = {x}
    BY <1>1, <1>2, <1>3 DEF Arriving, x
  <2>. QED  BY <2>1, <2>2 DEF Lag
<1>11. \A k \in 1..N : IndexRoot(k) \in d2 <=> IndexRoot(k) \in d
  BY PageKeyFacts DEF IndexRoot
<1>12. TreesOK(c2, d2, V2, F, T)
  <2>1. ASSUME NEW k \in 1..N
        PROVE  V \ Lag(c, k) = V2 \ Lag(c2, k) /\ Arriving(c2, k) \subseteq V2
    BY <1>0, <1>10
  <2> HIDE DEF V2
  <2>. QED  BY <1>11, <2>1 DEF TxnOK, TreesOK
<1>13. HeapOK(c2, d2)
  <2>1. \A k \in 1..N : N - k + 1 <= Left(c2) /\ Left(c2) <= N
    BY <1>1, <1>2
  <2>2. Erasing(c) => \A k \in 1..N : Left(c) <= EraseAt(c) + N - k
    BY <1>1
  <2>. QED  BY <1>3, <1>11, <2>1, <2>2 DEF TxnOK, HeapOK
<1>14. TxnOK(c2, d2, V2, F, T, H, n2)
  <2> HIDE DEF V2, d2
  <2>. QED  BY <1>2, <1>4, <1>8, <1>9, <1>12, <1>13 DEF TxnOK, FetchShape, CheckShape
<1>. QED  BY <1>14 DEF x
-----------------------------------------------------------------------------
(* The steps that change only the call. *)

Call(stage, stmt, todo, got, hits, rid, begun) ==
    [stage |-> stage, stmt |-> stmt, todo |-> todo, got |-> got, hits |-> hits, rid |-> rid, begun |-> begun]

LEMMA CallParts ==
    ASSUME NEW stage, NEW stmt, NEW todo, NEW got, NEW hits, NEW rid, NEW begun,
           NEW c, c = Call(stage, stmt, todo, got, hits, rid, begun)
    PROVE  /\ c.stage = stage /\ c.stmt = stmt /\ c.todo = todo /\ c.got = got /\ c.hits = hits
           /\ c.rid = rid /\ c.begun = begun
           /\ /\ stage \in {"none", "fetch", "check", "mutate"} /\ stmt \in Stmt \cup {[kind |-> "none"]}
              /\ todo \in Seq(AccessType) /\ got \in Seq(Found) /\ hits \in SUBSET Rid
              /\ rid \in Rid \cup {<<0, 0>>} /\ begun \in Nat
              => c \in CallType
BY DEF Call, CallType

LEMMA AccessParts ==
    ASSUME NEW do \in DoType, NEW page \in PageKey, NEW mode \in LM!LockMode, NEW arg \in Arg
    PROVE  /\ Access(do, page, mode, arg) \in AccessType
           /\ Access(do, page, mode, arg).do = do /\ Access(do, page, mode, arg).page = page
           /\ Access(do, page, mode, arg).mode = mode /\ Access(do, page, mode, arg).arg = arg
BY DEF Access, AccessType

LEMMA Modes == LM!kShared \in LM!LockMode /\ LM!kExclusive \in LM!LockMode /\ LM!kShared # LM!kExclusive
BY DEF LM!LockMode, LM!kShared, LM!kExclusive

\* The accesses.
LEMMA AccessKinds ==
    /\ \A j \in 1..N, key \in Value :
          LET a == SearchTree(Indexes[j].name, key)
          IN  a \in AccessType /\ a.do = "search" /\ a.page = IndexRoot(j) /\ a.mode = LM!kShared /\ a.arg = key
    /\ \A rid \in Rid :
          LET a == GetRow(rid)
          IN  a \in AccessType /\ a.do = "get" /\ a.page = HeapPage(rid[1]) /\ a.mode = LM!kShared /\ a.arg = rid
    /\ \A p \in 1..MaxPages :
          LET a == ScanPage(p)
          IN  a \in AccessType /\ a.do = "scan" /\ a.page = HeapPage(p) /\ a.mode = LM!kShared /\ a.arg = p
    /\ \A rid \in Rid :
          LET a == DeleteRow(rid)
          IN  a \in AccessType /\ a.do = "delete" /\ a.page = HeapPage(rid[1]) /\ a.mode = LM!kExclusive /\ a.arg = rid
    /\ \A j \in 1..N, e \in Entry :
          LET a == TreeDelete(Indexes[j].name, e)
          IN  a \in AccessType /\ a.do = "tree_delete" /\ a.page = IndexRoot(j) /\ a.mode = LM!kExclusive /\ a.arg = e
    /\ \A j \in 1..N, key \in Value :
          LET a == TreeInsert(Indexes[j].name, key)
          IN  a \in AccessType /\ a.do = "tree_insert" /\ a.page = IndexRoot(j) /\ a.mode = LM!kExclusive /\ a.arg = key
    /\ \A row \in Row :
          LET a == InsertRow(row)
          IN  a \in AccessType /\ a.do = "insert" /\ a.page = HeapPage(1) /\ a.mode = LM!kExclusive /\ a.arg = row
<1>1. /\ LM!kShared \in LM!LockMode /\ LM!kExclusive \in LM!LockMode
      /\ \A p \in 1..MaxPages : HeapPage(p) \in PageKey
      /\ \A j \in 1..N : IndexRoot(j) \in PageKey /\ Root(Indexes[j].name) = IndexRoot(j)
      /\ \A rid \in Rid : rid[1] \in 1..MaxPages
      /\ 1 \in 1..MaxPages
  BY Modes, PageKeyFacts, Constants DEF IndexRoot, Rid
<1>2. Value \subseteq Arg /\ Rid \subseteq Arg /\ Entry \subseteq Arg /\ Row \subseteq Arg /\ 1..MaxPages \subseteq Arg
  BY DEF Arg
<1>3. {"search", "get", "scan", "delete", "tree_delete", "tree_insert", "insert"} \subseteq DoType
  BY DEF DoType
<1>4. ASSUME NEW j \in 1..N, NEW key \in Value
      PROVE  LET a == SearchTree(Indexes[j].name, key)
             IN  a \in AccessType /\ a.do = "search" /\ a.page = IndexRoot(j) /\ a.mode = LM!kShared /\ a.arg = key
  BY <1>1, <1>2, <1>3, AccessParts DEF SearchTree
<1>5. ASSUME NEW rid \in Rid
      PROVE  LET a == GetRow(rid)
             IN  a \in AccessType /\ a.do = "get" /\ a.page = HeapPage(rid[1]) /\ a.mode = LM!kShared /\ a.arg = rid
  BY <1>1, <1>2, <1>3, AccessParts DEF GetRow
<1>6. ASSUME NEW p \in 1..MaxPages
      PROVE  LET a == ScanPage(p)
             IN  a \in AccessType /\ a.do = "scan" /\ a.page = HeapPage(p) /\ a.mode = LM!kShared /\ a.arg = p
  BY <1>1, <1>2, <1>3, AccessParts DEF ScanPage
<1>7. ASSUME NEW rid \in Rid
      PROVE  LET a == DeleteRow(rid)
             IN  a \in AccessType /\ a.do = "delete" /\ a.page = HeapPage(rid[1]) /\ a.mode = LM!kExclusive /\ a.arg = rid
  BY <1>1, <1>2, <1>3, AccessParts DEF DeleteRow
<1>8. ASSUME NEW j \in 1..N, NEW e \in Entry
      PROVE  LET a == TreeDelete(Indexes[j].name, e)
             IN  a \in AccessType /\ a.do = "tree_delete" /\ a.page = IndexRoot(j) /\ a.mode = LM!kExclusive /\ a.arg = e
  BY <1>1, <1>2, <1>3, AccessParts DEF TreeDelete
<1>9. ASSUME NEW j \in 1..N, NEW key \in Value
      PROVE  LET a == TreeInsert(Indexes[j].name, key)
             IN  a \in AccessType /\ a.do = "tree_insert" /\ a.page = IndexRoot(j) /\ a.mode = LM!kExclusive /\ a.arg = key
  BY <1>1, <1>2, <1>3, AccessParts DEF TreeInsert
<1>10. ASSUME NEW row \in Row
       PROVE  LET a == InsertRow(row)
              IN  a \in AccessType /\ a.do = "insert" /\ a.page = HeapPage(1) /\ a.mode = LM!kExclusive /\ a.arg = row
  BY <1>1, <1>2, <1>3, AccessParts DEF InsertRow
<1>. QED  BY <1>4, <1>5, <1>6, <1>7, <1>8, <1>9, <1>10

\* The accesses for the row to remove and for the row to add.
LEMMA DeleteEverywhereFacts ==
    ASSUME NEW x \in Found
    PROVE  /\ DeleteEverywhere(x) \in Seq(AccessType) /\ Len(DeleteEverywhere(x)) = N + 1
           /\ \A j \in 1..N : DeleteEverywhere(x)[j] = TreeDelete(Indexes[j].name, <<Key(j, x[2]), x[1]>>)
           /\ DeleteEverywhere(x)[N + 1] = DeleteRow(x[1])
<1> DEFINE s == DeleteFromAllIndexes(x[2], x[1])
           e == DeleteRow(x[1])
<1>1. x[1] \in Rid /\ x[2] \in Row /\ N \in Nat /\ DOMAIN Indexes = 1..N
  BY IndexFacts DEF Found
<1>2. s = [i \in 1..N |-> TreeDelete(Indexes[i].name, <<Key(i, x[2]), x[1]>>)]
  BY <1>1 DEF DeleteFromAllIndexes, Key
<1>3. \A j \in 1..N : TreeDelete(Indexes[j].name, <<Key(j, x[2]), x[1]>>) \in AccessType
  <2>1. \A j \in 1..N : <<Key(j, x[2]), x[1]>> \in Entry
    BY <1>1, KeyFacts DEF Entry
  <2>. QED  BY <2>1, AccessKinds
<1>4. e \in AccessType
  BY <1>1, AccessKinds
<1>5. DeleteEverywhere(x) = s \o <<e>>
  BY DEF DeleteEverywhere
<1>6. s \in Seq(AccessType) /\ Len(s) = N
  <2> DEFINE B(i) == TreeDelete(Indexes[i].name, <<Key(i, x[2]), x[1]>>)
  <2>1. \A i \in 1..N : B(i) \in AccessType
    BY <1>3
  <2>2. s = [i \in 1..N |-> B(i)]
    BY <1>2
  <2> HIDE DEF B, s
  <2>. QED  BY <1>1, <2>1, <2>2
<1>7. \A j \in 1..N : s[j] = TreeDelete(Indexes[j].name, <<Key(j, x[2]), x[1]>>)
  BY <1>2
<1> HIDE DEF s, e
<1>8. <<e>> \in Seq(AccessType) /\ Len(<<e>>) = 1 /\ <<e>>[1] = e
  BY <1>4
<1>9. /\ s \o <<e>> \in Seq(AccessType) /\ Len(s \o <<e>>) = N + 1
      /\ \A j \in 1..N : (s \o <<e>>)[j] = s[j]
      /\ (s \o <<e>>)[N + 1] = e
  BY <1>1, <1>6, <1>8, ConcatProperties
<1>. QED  BY <1>5, <1>7, <1>9 DEF e

LEMMA InsertEverywhereFacts ==
    ASSUME NEW row \in Row
    PROVE  /\ InsertEverywhere(row) \in Seq(AccessType) /\ Len(InsertEverywhere(row)) = N + 1
           /\ InsertEverywhere(row)[1] = InsertRow(row)
           /\ \A j \in 1..N : InsertEverywhere(row)[j + 1] = TreeInsert(Indexes[j].name, Key(j, row))
<1> DEFINE s == InsertIntoAllIndexes(row)
           e == InsertRow(row)
<1>1. N \in Nat /\ DOMAIN Indexes = 1..N
  BY IndexFacts
<1>2. s = [i \in 1..N |-> TreeInsert(Indexes[i].name, Key(i, row))]
  BY <1>1 DEF InsertIntoAllIndexes, Key
<1>3. \A j \in 1..N : TreeInsert(Indexes[j].name, Key(j, row)) \in AccessType
  BY KeyFacts, AccessKinds
<1>4. e \in AccessType
  BY <1>1, AccessKinds
<1>5. InsertEverywhere(row) = <<e>> \o s
  BY DEF InsertEverywhere
<1>6. s \in Seq(AccessType) /\ Len(s) = N
  <2> DEFINE B(i) == TreeInsert(Indexes[i].name, Key(i, row))
  <2>1. \A i \in 1..N : B(i) \in AccessType
    BY <1>3
  <2>2. s = [i \in 1..N |-> B(i)]
    BY <1>2
  <2> HIDE DEF B, s
  <2>. QED  BY <1>1, <2>1, <2>2
<1>7. \A j \in 1..N : s[j] = TreeInsert(Indexes[j].name, Key(j, row))
  BY <1>2
<1> HIDE DEF s, e
<1>8. <<e>> \in Seq(AccessType) /\ Len(<<e>>) = 1 /\ <<e>>[1] = e
  BY <1>4
<1>9. /\ <<e>> \o s \in Seq(AccessType) /\ Len(<<e>> \o s) = N + 1
      /\ (<<e>> \o s)[1] = e
      /\ \A j \in 1..N : (<<e>> \o s)[j + 1] = s[j]
  BY <1>1, <1>6, <1>8, ConcatProperties
<1>. QED  BY <1>5, <1>7, <1>9 DEF e

\* HeapFile::Insert has chosen a page.
ChosenPage(c, n) ==
    Call(c.stage, c.stmt, <<Access("put", HeapPage(n), LM!kExclusive, c.todo[1].arg)>> \o Tail(c.todo),
         c.got, c.hits, c.rid, c.begun)

LEMMA ChoosePageOK ==
    ASSUME NEW c \in CallType, NEW d, NEW V, NEW F, NEW T, NEW H, NEW n \in 1..MaxPages,
           TxnOK(c, d, V, F, T, H, n), c.stage = "mutate", Adding(c), Left(c) = N + 1,
           c.todo[1].arg = New(c),
           NEW c2, c2 = ChosenPage(c, n)
    PROVE  c2 \in CallType /\ TxnOK(c2, d, V, F, T, H, n)
<1> DEFINE a == Access("put", HeapPage(n), LM!kExclusive, c.todo[1].arg)
           s == Tail(c.todo)
           td == <<a>> \o s
<1>1. /\ N \in Nat /\ Left(c) \in Nat /\ EraseAt(c) \in Nat /\ EraseAt(c) >= 1 /\ c.begun \in Nat
      /\ (Erasing(c) => EraseAt(c) = N + 2) /\ (c.stmt.kind = "update" => EraseAt(c) = N + 2)
      /\ (~Erasing(c) => c.stmt.kind = "insert") /\ c.todo # <<>> /\ c.todo \in Seq(AccessType)
      /\ Left(c) = Len(c.todo)
  BY CallNumbers, CallFields DEF Left
<1>2. /\ s \in Seq(AccessType) /\ Len(s) = N /\ \A i \in 1..N : s[i] = c.todo[i + 1]
  BY <1>1, TailFacts
<1>3. c.todo[1] \in AccessType
  BY <1>1, SeqFacts
<1>4. a \in AccessType /\ a.do = "put" /\ a.page = HeapPage(n) /\ a.mode = LM!kExclusive /\ a.arg = c.todo[1].arg
  <2>1. "put" \in DoType /\ HeapPage(n) \in PageKey /\ LM!kExclusive \in LM!LockMode /\ c.todo[1].arg \in Arg
    BY <1>3, PageKeyFacts, Modes DEF DoType, AccessType
  <2>. QED  BY <2>1, AccessParts
<1> HIDE DEF a, s
<1>5. <<a>> \in Seq(AccessType) /\ Len(<<a>>) = 1 /\ <<a>>[1] = a
  BY <1>4
<1>6. /\ td \in Seq(AccessType) /\ Len(td) = N + 1 /\ td[1] = a
      /\ \A i \in 1..N : td[i + 1] = s[i]
  BY <1>1, <1>2, <1>5, ConcatProperties
<1> HIDE DEF td
<1>7. c2 = Call(c.stage, c.stmt, td, c.got, c.hits, c.rid, c.begun)
  BY DEF td, a, s, ChosenPage
<1>8. /\ c2 \in CallType /\ c2.stage = c.stage /\ c2.stmt = c.stmt /\ c2.todo = td /\ c2.got = c.got
      /\ c2.begun = c.begun /\ c2.rid = c.rid /\ c2.hits = c.hits
  BY <1>6, <1>7, CallParts, CallFields
<1>9. Left(c2) = Left(c) /\ c2.todo[1] = a /\ \A i \in 2..N + 1 : c2.todo[i] = c.todo[i]
  <2>1. \A i \in 2..N + 1 : i - 1 \in 1..N /\ (i - 1) + 1 = i
    BY <1>1
  <2>. QED  BY <1>1, <1>2, <1>6, <1>8, <2>1 DEF Left
<1>10. /\ MatchedOf(c2) = MatchedOf(c) /\ EraseAt(c2) = EraseAt(c) /\ Old(c2) = Old(c) /\ New(c2) = New(c)
       /\ (Erasing(c2) <=> Erasing(c)) /\ (Adding(c2) <=> Adding(c)) /\ (\A m : NewOf(c2, m) = NewOf(c, m))
  BY <1>8, SameRows, SameStage
<1>11. MutateShape(c2, n)
  <2>1. \A j \in 1..N : Left(c2) - (N - j) \in 2..N + 1 /\ Left(c) > N - j
    BY <1>1, <1>9
  <2>2. Left(c2) - N = 1 /\ n \in 1..n
    BY <1>1, <1>9
  <2>3. \A j \in 1..N : c.todo[Left(c) - (N - j)] = TreeInsert(Indexes[j].name, Key(j, New(c)))
    BY <2>1 DEF TxnOK, MutateShape
  <2>4. Erasing(c) => /\ ~(Left(c) >= EraseAt(c)) /\ Left(c) <= EraseAt(c) + N
                      /\ \A j \in 1..N : ~(Left(c) > EraseAt(c) + N - j)
    BY <1>1
  <2>5. c2.stmt.kind \in {"insert", "delete", "update"} /\ c2.begun \in 0..Len(MatchedOf(c2))
        /\ (c2.stmt.kind = "insert" => c2.got = <<>>)
    BY <1>8, <1>10 DEF TxnOK, MutateShape
  <2>6. Left(c2) <= N + 1
    BY <1>9, <1>1
  <2>. QED  BY <1>4, <1>9, <1>10, <2>1, <2>2, <2>3, <2>4, <2>5, <2>6 DEF MutateShape
<1>12. RowsOK(c2, V, H)
  BY <1>8, <1>9, <1>10 DEF TxnOK, RowsOK, Unhandled
<1>13. ASSUME Pk # <<>> PROVE KeysOK(c2, V, H)
  <2>1. KeysOK(c, V, H)
    BY <1>13 DEF TxnOK
  <2>2. Rest(c2) = Rest(c)
    BY <1>8, <1>9, <1>10 DEF Rest, Unhandled
  <2>3. \A m : Coming(c2, m) <=> Coming(c, m)
    BY <1>8, <1>9 DEF Coming
  <2>. QED  BY <1>8, <1>9, <1>10, <2>1, <2>2, <2>3 DEF KeysOK
<1>14. Still(c) /\ Still(c2)
  BY <1>1, <1>9, <1>10 DEF Still
<1>15. Reached(c2, d)
  BY <1>9, <1>10 DEF Reached, TxnOK, HeapOK
<1>. QED  BY <1>8, <1>11, <1>12, <1>13, <1>14, <1>15, QuietMutate

\* The new rows that are to come have keys of their own.
ComingKeysFree(c, V) ==
    \A m \in 1..Len(MatchedOf(c)) : Coming(c, m) => \A x \in V \ Rest(c) : PkOf(x[2]) # PkOf(NewOf(c, m))

LEMMA KeysMutate ==
    ASSUME NEW c \in CallType, NEW V, NEW H, c.stage = "mutate", c.stmt.kind \in {"delete", "update"},
           PkRoot \in H => KeysDiffer(V \ Rest(c)), Adding(c) => PkRoot \in H,
           c.stmt.kind = "update" => /\ NewKeysDiffer(c) /\ ComingKeysFree(c, V)
                                    /\ \A m \in 1..Len(MatchedOf(c)) : PkRoot \in H
    PROVE  KeysOK(c, V, H)
BY DEF KeysOK, NewKeysDiffer, ComingKeysFree

\* The mutation loop begins with the next row.
AtRow(c, b) ==
    Call(c.stage, c.stmt,
         DeleteEverywhere(MatchedOf(c)[b]) \o
         (IF c.stmt.kind = "update" THEN InsertEverywhere(NewOf(c, b)) ELSE <<>>),
         c.got, c.hits, c.rid, b)

LEMMA NextRowOK ==
    ASSUME NEW c \in CallType, NEW d, NEW V, NEW F, NEW T, NEW H, NEW n,
           TxnOK(c, d, V, F, T, H, n), c.stage = "mutate", Left(c) = 0, c.begun < Len(MatchedOf(c)),
           NEW b, b = c.begun + 1, NEW c2, c2 = AtRow(c, b)
    PROVE  c2 \in CallType /\ TxnOK(c2, d, V, F, T, H, n)
<1> DEFINE x == MatchedOf(c)[b]
           s == DeleteEverywhere(x)
           q == IF c.stmt.kind = "update" THEN InsertEverywhere(NewOf(c, b)) ELSE <<>>
           td == s \o q
<1>1. /\ N \in Nat /\ EraseAt(c) \in Nat /\ EraseAt(c) >= 1 /\ c.begun \in Nat
      /\ (c.stmt.kind = "update" => EraseAt(c) = N + 2) /\ (c.stmt.kind # "update" => EraseAt(c) = 1)
      /\ Len(MatchedOf(c)) \in Nat
  BY CallNumbers, MatchedFacts
<1>2. b \in 1..Len(MatchedOf(c)) /\ b \in Nat /\ b >= 1
  BY <1>1
<1>3. x \in Found
  BY <1>2, MatchedFacts
<1>4. c.stmt.kind = "update" \/ c.stmt.kind = "delete"
  <2>1. c.stmt.kind = "insert" => c.got = <<>>
    BY DEF TxnOK, MutateShape
  <2>2. c.got = <<>> => MatchedOf(c) = <<>>
    BY MatchedFacts
  <2>3. MatchedOf(c) = <<>> => Len(MatchedOf(c)) = 0
    OBVIOUS
  <2>. QED  BY <1>1, <2>1, <2>2, <2>3 DEF TxnOK, MutateShape
<1>5. /\ s \in Seq(AccessType) /\ Len(s) = N + 1
      /\ \A j \in 1..N : s[j] = TreeDelete(Indexes[j].name, <<Key(j, x[2]), x[1]>>)
      /\ s[N + 1] = DeleteRow(x[1])
  BY <1>3, DeleteEverywhereFacts
<1>6. c.stmt.kind = "update" => /\ q \in Seq(AccessType) /\ Len(q) = N + 1
                                /\ q[1] = InsertRow(NewOf(c, b))
                                /\ \A j \in 1..N : q[j + 1] = TreeInsert(Indexes[j].name, Key(j, NewOf(c, b)))
                                /\ NewOf(c, b) \in Row
  BY <1>2, NewFacts, InsertEverywhereFacts
<1>7. c.stmt.kind # "update" => q \in Seq(AccessType) /\ Len(q) = 0
  OBVIOUS
<1>8. q \in Seq(AccessType) /\ Len(q) = EraseAt(c) - 1
  BY <1>1, <1>6, <1>7
<1> HIDE DEF x, s, q
<1>9. /\ td \in Seq(AccessType) /\ Len(td) = EraseAt(c) + N
      /\ \A j \in 1..N + 1 : td[j] = s[j]
      /\ \A j \in 1..EraseAt(c) - 1 : td[j + N + 1] = q[j]
  <2>1. td \in Seq(AccessType) /\ Len(td) = Len(s) + Len(q)
    BY <1>5, <1>8, ConcatProperties
  <2>2. \A j \in 1..N + 1 : td[j] = s[j]
    BY <1>1, <1>5, <1>8, ConcatProperties
  <2>3. ASSUME NEW j \in 1..EraseAt(c) - 1 PROVE td[j + N + 1] = q[j]
    <3>1. N \in Nat /\ EraseAt(c) \in Nat /\ Len(s) = N + 1 /\ Len(q) = EraseAt(c) - 1
      BY <1>1, <1>5, <1>8
    <3>2. j \in Nat /\ j >= 1 /\ j + 1 <= EraseAt(c)
      BY <3>1
    <3>3. j + N + 1 \in 1..Len(s) + Len(q)
      BY <3>1, <3>2
    <3>4. ~(j + N + 1 <= Len(s)) /\ (j + N + 1) - Len(s) = j
      BY <3>1, <3>2
    <3>. QED  BY <1>5, <1>8, <3>3, <3>4, ConcatProperties
  <2>4. Len(s) + Len(q) = EraseAt(c) + N
    <3>1. N \in Nat /\ EraseAt(c) \in Nat /\ Len(s) = N + 1 /\ Len(q) = EraseAt(c) - 1
      BY <1>1, <1>5, <1>8
    <3>. QED  BY <3>1
  <2> HIDE DEF td
  <2>. QED  BY <2>1, <2>2, <2>3, <2>4
<1> HIDE DEF td
<1>10. c2 = Call(c.stage, c.stmt, td, c.got, c.hits, c.rid, b)
  BY DEF td, s, q, x, AtRow
<1>11. /\ c2 \in CallType /\ c2.stage = c.stage /\ c2.stmt = c.stmt /\ c2.todo = td /\ c2.got = c.got
       /\ c2.begun = b /\ Left(c2) = EraseAt(c) + N
  <2>1. /\ c2 \in CallType /\ c2.stage = c.stage /\ c2.stmt = c.stmt /\ c2.todo = td /\ c2.got = c.got
        /\ c2.begun = b
    BY <1>2, <1>9, <1>10, CallParts, CallFields
  <2>. QED  BY <1>9, <2>1 DEF Left
<1>12. /\ MatchedOf(c2) = MatchedOf(c) /\ EraseAt(c2) = EraseAt(c) /\ (\A m : NewOf(c2, m) = NewOf(c, m))
  BY <1>11, SameRows
<1>13. /\ Erasing(c2) /\ (Adding(c2) <=> c.stmt.kind = "update") /\ Old(c2) = x
       /\ (c.stmt.kind = "update" => New(c2) = NewOf(c, b))
  BY <1>2, <1>4, <1>11, <1>12 DEF Erasing, Adding, Old, New, x
<1>14. MutateShape(c2, n)
  <2>1. c2.stmt.kind \in {"insert", "delete", "update"} /\ c2.begun \in 0..Len(MatchedOf(c2))
        /\ (c2.stmt.kind = "insert" => c2.got = <<>>)
    BY <1>1, <1>2, <1>4, <1>11, <1>12
  <2>2. \A j \in 1..N : Left(c2) - (EraseAt(c2) + N - j) = j /\ j \in 1..N + 1
    BY <1>1, <1>11, <1>12
  <2>3. Left(c2) + 1 - EraseAt(c2) = N + 1 /\ N + 1 \in 1..N + 1 /\ Left(c2) <= EraseAt(c2) + N
    BY <1>1, <1>11, <1>12
  <2>4. \A j \in 1..N : c2.todo[Left(c2) - (EraseAt(c2) + N - j)] =
                            TreeDelete(Indexes[j].name, <<Key(j, Old(c2)[2]), Old(c2)[1]>>)
    BY <1>5, <1>9, <1>11, <1>13, <2>2
  <2>5. c2.todo[Left(c2) + 1 - EraseAt(c2)] = DeleteRow(Old(c2)[1])
    BY <1>5, <1>9, <1>11, <1>13, <2>3
  <2>6. ASSUME Adding(c2)
        PROVE  LET a == c2.todo[Left(c2) - N]
               IN  /\ a.do \in {"insert", "put"} /\ a.mode = LM!kExclusive /\ a.arg = New(c2)
                   /\ a.do = "put" => Left(c2) = N + 1 /\ \E p \in 1..n : a.page = HeapPage(p)
    <3>1. Left(c2) - N = 1 + N + 1 /\ 1 \in 1..EraseAt(c) - 1
      BY <1>1, <1>11, <1>13, <2>6
    <3>2. c2.todo[Left(c2) - N] = InsertRow(NewOf(c, b)) /\ NewOf(c, b) \in Row
      BY <1>6, <1>9, <1>11, <1>13, <2>6, <3>1
    <3>. QED  BY <1>13, <2>6, <3>2, AccessKinds
  <2>7. ASSUME Adding(c2), NEW j \in 1..N
        PROVE  c2.todo[Left(c2) - (N - j)] = TreeInsert(Indexes[j].name, Key(j, New(c2)))
    <3>1. Left(c2) - (N - j) = (j + 1) + N + 1 /\ j + 1 \in 1..EraseAt(c) - 1
      BY <1>1, <1>11, <1>13, <2>7
    <3>2. c2.todo[Left(c2) - (N - j)] = q[j + 1]
      BY <1>9, <1>11, <3>1
    <3>. QED  BY <1>6, <1>13, <2>7, <3>2
  <2>. QED  BY <1>13, <2>1, <2>3, <2>4, <2>5, <2>6, <2>7 DEF MutateShape
<1>15. \A m \in 1..Len(MatchedOf(c)) : /\ (Unhandled(c2, m) <=> Unhandled(c, m))
                                       /\ Coming(c2, m) => Coming(c, m)
  BY <1>1, <1>2, <1>11, <1>12 DEF Unhandled, Coming
<1>16. RowsOK(c2, V, H)
  BY <1>11, <1>12, <1>15 DEF TxnOK, RowsOK
<1>17. ASSUME Pk # <<>> PROVE KeysOK(c2, V, H)
  <2>1. KeysOK(c, V, H)
    BY <1>17 DEF TxnOK
  <2>2. Rest(c2) = Rest(c)
    <3>1. {k \in 1..Len(MatchedOf(c)) : Unhandled(c2, k)} = {k \in 1..Len(MatchedOf(c)) : Unhandled(c, k)}
      BY <1>15
    <3>2. (c2.stage = "mutate" /\ c2.stmt.kind = "update") <=> (c.stage = "mutate" /\ c.stmt.kind = "update")
      BY <1>11
    <3>3. {MatchedOf(c2)[m] : m \in {k \in 1..Len(MatchedOf(c2)) : Unhandled(c2, k)}}
            = {MatchedOf(c)[m] : m \in {k \in 1..Len(MatchedOf(c)) : Unhandled(c, k)}}
      BY <1>12, <3>1
    <3>. QED  BY <3>2, <3>3 DEF Rest
  <2>3. Adding(c2) => PkRoot \in H
    BY <1>2, <1>13, <2>1 DEF KeysOK
  <2>4. c2.stage = "mutate" /\ (c2.stmt.kind = "insert" <=> c.stmt.kind = "insert") /\ c.stmt.kind # "insert"
        /\ (c2.stmt.kind = "update" <=> c.stmt.kind = "update")
    BY <1>4, <1>11
  <2>5. ASSUME c.stmt.kind = "update", NEW m \in 1..Len(MatchedOf(c)), Coming(c2, m), NEW y \in V \ Rest(c)
        PROVE  PkOf(y[2]) # PkOf(NewOf(c, m))
    BY <1>15, <2>1, <2>5 DEF KeysOK
  <2>6. PkRoot \in H => KeysDiffer(V \ Rest(c))
    BY <2>1 DEF KeysOK
  <2>7. c.stmt.kind = "update" =>
          /\ \A m \in 1..Len(MatchedOf(c)) : PkRoot \in H
          /\ \A m, k \in 1..Len(MatchedOf(c)) : PkOf(NewOf(c, m)) = PkOf(NewOf(c, k)) => m = k
    BY <2>1 DEF KeysOK
  <2>8. c.stmt.kind = "update" => NewKeysDiffer(c2)
    BY <1>12, <2>7 DEF NewKeysDiffer
  <2>9. c.stmt.kind = "update" => ComingKeysFree(c2, V)
    <3>1. ASSUME c.stmt.kind = "update", NEW m \in 1..Len(MatchedOf(c2)), Coming(c2, m), NEW y \in V \ Rest(c2)
          PROVE  PkOf(y[2]) # PkOf(NewOf(c2, m))
      BY <1>12, <2>2, <2>5, <3>1
    <3>. QED  BY <3>1 DEF ComingKeysFree
  <2>10. c2.stmt.kind \in {"delete", "update"} /\ \A m \in 1..Len(MatchedOf(c2)) : c.stmt.kind = "update" => PkRoot \in H
    BY <1>4, <1>11, <1>12, <2>7
  <2>. QED  BY <1>11, <2>2, <2>3, <2>4, <2>6, <2>8, <2>9, <2>10, KeysMutate
<1>18. Still(c) /\ Still(c2) /\ Reached(c2, d)
  <2>1. Still(c)
    BY StillIdle
  <2>2. Still(c2)
    BY <1>1, <1>11, <1>12, <1>13 DEF Still
  <2>3. Reached(c2, d)
    BY <1>1, <1>11, <1>12 DEF Reached
  <2>. QED  BY <2>1, <2>2, <2>3
<1>. QED  BY <1>11, <1>14, <1>16, <1>17, <1>18, QuietMutate

\* The mutation loop begins.
Mutating(c, todo) == Call("mutate", c.stmt, todo, c.got, c.hits, c.rid, c.begun)

LEMMA MutatingFacts ==
    ASSUME NEW c \in CallType, NEW todo \in Seq(AccessType), NEW c2, c2 = Mutating(c, todo)
    PROVE  /\ c2 \in CallType /\ c2.stage = "mutate" /\ c2.stmt = c.stmt /\ c2.todo = todo /\ c2.got = c.got
           /\ c2.begun = c.begun /\ c2.hits = c.hits /\ Left(c2) = Len(todo)
           /\ MatchedOf(c2) = MatchedOf(c) /\ \A m : NewOf(c2, m) = NewOf(c, m)
<1>1. c2 = Call("mutate", c.stmt, todo, c.got, c.hits, c.rid, c.begun)
  BY DEF Mutating
<1>2. /\ c2 \in CallType /\ c2.stage = "mutate" /\ c2.stmt = c.stmt /\ c2.todo = todo /\ c2.got = c.got
      /\ c2.begun = c.begun /\ c2.hits = c.hits
  BY <1>1, CallParts, CallFields
<1>. QED  BY <1>2, SameRows DEF Left

NoAccess == <<>>

LEMMA MutatingEmpty ==
    ASSUME NEW c \in CallType, NEW c2, c2 = Mutating(c, NoAccess)
    PROVE  /\ c2 \in CallType /\ c2.stage = "mutate" /\ c2.stmt = c.stmt /\ c2.got = c.got
           /\ c2.begun = c.begun /\ c2.hits = c.hits /\ Left(c2) = 0
           /\ MatchedOf(c2) = MatchedOf(c) /\ \A m : NewOf(c2, m) = NewOf(c, m)
<1>1. NoAccess \in Seq(AccessType)
  BY DEF NoAccess
<1>2. /\ c2 \in CallType /\ c2.stage = "mutate" /\ c2.stmt = c.stmt /\ c2.got = c.got
      /\ c2.begun = c.begun /\ c2.hits = c.hits /\ Left(c2) = Len(NoAccess)
      /\ MatchedOf(c2) = MatchedOf(c) /\ \A m : NewOf(c2, m) = NewOf(c, m)
  BY <1>1, MutatingFacts
<1>3. Len(NoAccess) = 0
  BY DEF NoAccess
<1>. QED  BY <1>2, <1>3

\* DELETE and UPDATE, before the first row.
LEMMA MutatingShape ==
    ASSUME NEW c \in CallType, NEW V, NEW H, NEW n, NEW d, c.todo = <<>>, c.begun = 0,
           c.stage \in {"fetch", "check"}, c.stmt.kind \in {"delete", "update"}, RowsOK(c, V, H),
           NEW c2, c2 = Mutating(c, NoAccess)
    PROVE  c2 \in CallType /\ MutateShape(c2, n) /\ RowsOK(c2, V, H) /\ Still(c2) /\ Reached(c2, d) /\ ~Adding(c2)
<1>1. /\ c2 \in CallType /\ c2.stage = "mutate" /\ c2.stmt = c.stmt /\ c2.got = c.got
      /\ c2.begun = 0 /\ Left(c2) = 0
      /\ MatchedOf(c2) = MatchedOf(c)
  BY MutatingEmpty
<1>2. ~Erasing(c2) /\ ~Adding(c2) /\ Still(c2)
  BY <1>1, StillIdle DEF Erasing, Adding
<1>3. 0 \in 0..Len(MatchedOf(c))
  BY MatchedFacts
<1>4. MutateShape(c2, n)
  BY <1>1, <1>2, <1>3 DEF MutateShape
<1>5. ASSUME NEW m \in 1..Len(MatchedOf(c)) PROVE MatchedOf(c)[m] \in V
  <2>1. PICK k \in 1..Len(c.got) : MatchedOf(c)[m] = c.got[k]
    BY MatchedFacts
  <2>. QED  BY <2>1 DEF RowsOK
<1>6. RowsOK(c2, V, H)
  BY <1>1, <1>5 DEF RowsOK
<1>7. Reached(c2, d)
  BY <1>2 DEF Reached
<1>. QED  BY <1>1, <1>2, <1>4, <1>6, <1>7

LEMMA StartDeleteOK ==
    ASSUME NEW c \in CallType, NEW d, NEW V, NEW F, NEW T, NEW H, NEW n,
           TxnOK(c, d, V, F, T, H, n), c.stage = "fetch", c.stmt.kind = "delete", c.todo = <<>>,
           NEW c2, c2 = Mutating(c, NoAccess)
    PROVE  c2 \in CallType /\ TxnOK(c2, d, V, F, T, H, n)
<1>0. c.begun = 0 /\ c.todo \in Seq(AccessType) /\ RowsOK(c, V, H)
  BY CallFields DEF TxnOK, FetchShape
<1>1. c2 \in CallType /\ MutateShape(c2, n) /\ RowsOK(c2, V, H) /\ Still(c2) /\ Reached(c2, d) /\ ~Adding(c2)
  BY <1>0, MutatingShape
<1>2. c2.stage = "mutate" /\ c2.stmt.kind = "delete"
  BY <1>0, MutatingEmpty
<1>3. Still(c) /\ Rest(c) = {} /\ Rest(c2) = {}
  BY <1>2, StillIdle, RestEmpty DEF Rest
<1>4. ASSUME Pk # <<>> PROVE KeysOK(c2, V, H)
  <2>1. PkRoot \in H => KeysDiffer(V \ Rest(c))
    BY <1>4 DEF TxnOK, KeysOK
  <2>. QED  BY <1>1, <1>2, <1>3, <2>1, KeysMutate
<1>. QED  BY <1>1, <1>2, <1>3, <1>4, QuietMutate

\* UPDATE has found that the new keys are free.
LEMMA StartUpdateOK ==
    ASSUME NEW c \in CallType, NEW d, NEW V, NEW F, NEW T, NEW H, NEW n, Functional(V),
           TxnOK(c, d, V, F, T, H, n), c.stage = "check", c.stmt.kind = "update", c.todo = <<>>,
           c.hits \subseteq {MatchedOf(c)[m][1] : m \in 1..Len(MatchedOf(c))},
           NEW c2, c2 = Mutating(c, NoAccess)
    PROVE  c2 \in CallType /\ TxnOK(c2, d, V, F, T, H, n)
<1>0. c.begun = 0 /\ c.todo \in Seq(AccessType) /\ RowsOK(c, V, H)
  BY CallFields DEF TxnOK, CheckShape
<1>1. c2 \in CallType /\ MutateShape(c2, n) /\ RowsOK(c2, V, H) /\ Still(c2) /\ Reached(c2, d) /\ ~Adding(c2)
  BY <1>0, MutatingShape
<1>2. /\ c2.stage = "mutate" /\ c2.stmt = c.stmt /\ c2.stmt.kind = "update" /\ c2.begun = 0
      /\ MatchedOf(c2) = MatchedOf(c) /\ \A m : NewOf(c2, m) = NewOf(c, m)
  BY <1>0, MutatingEmpty
<1>3. Still(c) /\ Rest(c) = {} /\ Left(c) = 0
  BY StillIdle, RestEmpty, CallFields
<1>4. ASSUME Pk # <<>> PROVE KeysOK(c2, V, H)
  <2>1. KeysOK(c, V, H)
    BY <1>4 DEF TxnOK
  <2>2. PkRoot \in H => KeysDiffer(V)
    BY <1>3, <2>1 DEF KeysOK, KeysDiffer
  <2>3. PkRoot \in H => KeysDiffer(V \ Rest(c2))
    BY <2>2 DEF KeysDiffer
  <2>4. NewKeysDiffer(c2)
    BY <1>2, <2>1 DEF KeysOK, NewKeysDiffer
  <2>5. ASSUME NEW m \in 1..Len(MatchedOf(c))
        PROVE  PkRoot \in H /\ \A x \in V : PkOf(x[2]) = PkOf(NewOf(c, m)) => x[1] \in c.hits
    <3>1. Searched(c, V, H, PkOf(NewOf(c, m)))
      BY <2>1 DEF KeysOK
    <3>. QED  BY <1>3, <3>1 DEF Searched
  <2>6. ASSUME NEW x \in V, x[1] \in c.hits PROVE x \in Rest(c2)
    <3>1. PICK m \in 1..Len(MatchedOf(c)) : x[1] = MatchedOf(c)[m][1]
      BY <2>6
    <3>2. MatchedOf(c)[m] \in V
      <4>1. PICK k \in 1..Len(c.got) : MatchedOf(c)[m] = c.got[k]
        BY MatchedFacts
      <4>. QED  BY <1>0, <4>1 DEF RowsOK
    <3>3. x = MatchedOf(c)[m]
      BY <3>1, <3>2 DEF Functional
    <3>4. Unhandled(c2, m)
      BY <1>2, MatchedFacts DEF Unhandled
    <3>. QED  BY <1>2, <3>3, <3>4 DEF Rest
  <2>7. ComingKeysFree(c2, V)
    <3>1. ASSUME NEW m \in 1..Len(MatchedOf(c2)), NEW x \in V \ Rest(c2) PROVE PkOf(x[2]) # PkOf(NewOf(c2, m))
      BY <1>2, <2>5, <2>6
    <3>. QED  BY <3>1 DEF ComingKeysFree
  <2>8. \A m \in 1..Len(MatchedOf(c2)) : PkRoot \in H
    BY <1>2, <2>5
  <2>. QED  BY <1>1, <1>2, <2>3, <2>4, <2>7, <2>8, KeysMutate
<1>. QED  BY <1>1, <1>2, <1>3, <1>4, QuietMutate

\* INSERT has found that its key is free.
LEMMA StartInsertOK ==
    ASSUME NEW c \in CallType, NEW d, NEW V, NEW F, NEW T, NEW H, NEW n,
           TxnOK(c, d, V, F, T, H, n), c.stage = "check", c.stmt.kind = "insert", c.todo = <<>>, c.hits = {},
           NEW c2, c2 = Mutating(c, InsertEverywhere(c.stmt.row))
    PROVE  c2 \in CallType /\ TxnOK(c2, d, V, F, T, H, n)
<1> DEFINE row == c.stmt.row
           td == InsertEverywhere(row)
<1>0. c.begun = 0 /\ c.got = <<>> /\ RowsOK(c, V, H) /\ row \in Row /\ N \in Nat
  BY CallFields, StmtFacts, IndexFacts DEF TxnOK, CheckShape
<1>1. /\ td \in Seq(AccessType) /\ Len(td) = N + 1 /\ td[1] = InsertRow(row)
      /\ \A j \in 1..N : td[j + 1] = TreeInsert(Indexes[j].name, Key(j, row))
  BY <1>0, InsertEverywhereFacts
<1> HIDE DEF td
<1>2. /\ c2 \in CallType /\ c2.stage = "mutate" /\ c2.stmt = c.stmt /\ c2.todo = td /\ c2.got = c.got
      /\ c2.begun = 0 /\ Left(c2) = N + 1
      /\ MatchedOf(c2) = MatchedOf(c)
  BY <1>0, <1>1, MutatingFacts DEF td
<1>3. ~Erasing(c2) /\ Adding(c2) /\ New(c2) = row
  BY <1>2 DEF Erasing, Adding, New
<1>4. MatchedOf(c) = <<>> /\ Len(MatchedOf(c)) = 0
  <2>1. MatchedOf(c) = <<>>
    BY <1>0, MatchedFacts
  <2>. QED  BY <2>1
<1>5. MutateShape(c2, n)
  <2>1. Left(c2) - N = 1 /\ Left(c2) <= N + 1
    BY <1>0, <1>2
  <2>2. \A j \in 1..N : Left(c2) - (N - j) = j + 1
    BY <1>0, <1>2
  <2>3. /\ InsertRow(row).do = "insert" /\ InsertRow(row).mode = LM!kExclusive /\ InsertRow(row).arg = row
    BY <1>0, AccessKinds
  <2>4. 0 \in 0..Len(MatchedOf(c))
    BY <1>4
  <2>. QED  BY <1>0, <1>1, <1>2, <1>3, <2>1, <2>2, <2>3, <2>4 DEF MutateShape
<1>6. RowsOK(c2, V, H)
  BY <1>0, <1>2, <1>4 DEF RowsOK
<1>7. Still(c) /\ Still(c2) /\ Reached(c2, d)
  <2>1. Still(c)
    BY StillIdle
  <2>2. Still(c2)
    BY <1>0, <1>2, <1>3 DEF Still
  <2>. QED  BY <1>3, <2>1, <2>2 DEF Reached
<1>8. ASSUME Pk # <<>> PROVE KeysOK(c2, V, H)
  <2>1. KeysOK(c, V, H) /\ Left(c) = 0 /\ Rest(c) = {} /\ Rest(c2) = {}
    BY <1>2, <1>8, CallFields, RestEmpty DEF TxnOK, Rest
  <2>2. Searched(c, V, H, PkOf(row))
    BY <2>1 DEF KeysOK
  <2>3. PkRoot \in H /\ \A x \in V : PkOf(x[2]) # PkOf(row)
    BY <2>1, <2>2 DEF Searched
  <2>4. PkRoot \in H => KeysDiffer(V \ Rest(c2))
    BY <2>1 DEF KeysOK
  <2>. QED  BY <1>2, <1>3, <2>3, <2>4 DEF KeysOK
<1>. QED  BY <1>2, <1>5, <1>6, <1>7, <1>8, QuietMutate

\* A check begins, or has searched a key.
Checking(c, todo, hits) == Call("check", c.stmt, todo, c.got, hits, c.rid, c.begun)

LEMMA CheckingFacts ==
    ASSUME NEW c \in CallType, NEW todo \in Seq(AccessType), NEW hits \in SUBSET Rid,
           NEW c2, c2 = Checking(c, todo, hits)
    PROVE  /\ c2 \in CallType /\ c2.stage = "check" /\ c2.stmt = c.stmt /\ c2.todo = todo /\ c2.got = c.got
           /\ c2.begun = c.begun /\ c2.hits = hits /\ Left(c2) = Len(todo)
           /\ MatchedOf(c2) = MatchedOf(c) /\ \A m : NewOf(c2, m) = NewOf(c, m)
<1>1. c2 = Call("check", c.stmt, todo, c.got, hits, c.rid, c.begun)
  BY DEF Checking
<1>2. /\ c2 \in CallType /\ c2.stage = "check" /\ c2.stmt = c.stmt /\ c2.todo = todo /\ c2.got = c.got
      /\ c2.begun = c.begun /\ c2.hits = hits
  BY <1>1, CallParts, CallFields
<1>. QED  BY <1>2, SameRows DEF Left

LEMMA PkValue ==
    ASSUME Pk # <<>>, NEW row \in Row
    PROVE  PkOf(row) \in Value
<1>1. PICK j \in 1..N : Pk[1] = Indexes[j]
  BY PkFacts
<1>2. Key(j, row) \in Value
  BY KeyFacts
<1>. QED  BY <1>1, <1>2 DEF PkOf, Key

\* A search of the primary key index.
LEMMA PkSearch ==
    ASSUME Pk # <<>>, NEW key \in Value
    PROVE  LET a == SearchTree(Pk[1].name, key)
           IN  a \in AccessType /\ a.do = "search" /\ a.page = PkRoot /\ a.mode = LM!kShared /\ a.arg = key
<1>1. PICK j \in 1..N : Pk[1] = Indexes[j] /\ PkRoot = IndexRoot(j)
  BY PkFacts
<1>. QED  BY <1>1, AccessKinds

\* UPDATE searches the key of every new row.
SearchAll(c) ==
    IF Pk = <<>> THEN <<>> ELSE [i \in 1..Len(MatchedOf(c)) |-> SearchTree(Pk[1].name, PkOf(NewOf(c, i)))]

LEMMA CheckUpdateOK ==
    ASSUME NEW c \in CallType, NEW d, NEW V, NEW F, NEW T, NEW H, NEW n,
           TxnOK(c, d, V, F, T, H, n), c.stage = "fetch", c.stmt.kind = "update", c.todo = <<>>,
           Pk # <<>> => NewKeysDiffer(c),
           NEW c2, c2 = Checking(c, SearchAll(c), c.hits)
    PROVE  c2 \in CallType /\ TxnOK(c2, d, V, F, T, H, n)
<1> DEFINE td == SearchAll(c)
           m0 == Len(MatchedOf(c))
           B(i) == SearchTree(Pk[1].name, PkOf(NewOf(c, i)))
<1>0. c.begun = 0 /\ RowsOK(c, V, H) /\ m0 \in Nat /\ Still(c) /\ Rest(c) = {} /\ c.hits \in SUBSET Rid
  BY MatchedFacts, StillIdle, RestEmpty, CallFields DEF TxnOK, FetchShape
<1>1. ASSUME Pk # <<>>, NEW i \in 1..m0 PROVE B(i) \in AccessType /\ B(i).arg = PkOf(NewOf(c, i))
  <2>1. PkOf(NewOf(c, i)) \in Value
    BY <1>1, NewFacts, PkValue
  <2>. QED  BY <1>1, <2>1, PkSearch
<1>2. Pk # <<>> => td = [i \in 1..m0 |-> B(i)]
  BY DEF SearchAll
<1>3. Pk = <<>> => td = <<>>
  BY DEF SearchAll
<1> HIDE DEF td, m0
<1>4. Pk # <<>> => td \in Seq(AccessType) /\ Len(td) = m0 /\ \A i \in 1..m0 : td[i] = B(i)
  <2> HIDE DEF B
  <2>. QED  BY <1>0, <1>1, <1>2
<1>5. td \in Seq(AccessType) /\ (Pk = <<>> => Len(td) = 0)
  <2>1. <<>> \in Seq(AccessType) /\ Len(<<>>) = 0
    OBVIOUS
  <2>. QED  BY <1>3, <1>4, <2>1
<1>6. /\ c2 \in CallType /\ c2.stage = "check" /\ c2.stmt = c.stmt /\ c2.todo = td /\ c2.got = c.got
      /\ c2.begun = c.begun /\ c2.hits = c.hits /\ Left(c2) = Len(td)
      /\ MatchedOf(c2) = MatchedOf(c) /\ \A m : NewOf(c2, m) = NewOf(c, m)
  BY <1>0, <1>5, CheckingFacts DEF td
<1>7. CheckShape(c2)
  <2>1. ASSUME NEW k \in 1..Left(c2) PROVE Pk # <<>> /\ c2.todo[k] = SearchTree(Pk[1].name, c2.todo[k].arg)
    <3>1. Pk # <<>>
      BY <1>5, <1>6, <2>1
    <3>2. k \in 1..m0 /\ c2.todo[k] = B(k)
      BY <1>4, <1>6, <3>1
    <3>3. B(k).arg = PkOf(NewOf(c, k))
      BY <1>1, <3>1, <3>2
    <3>. QED  BY <3>1, <3>2, <3>3
  <2>2. c2.stmt.kind = "update" /\ c2.begun = 0
    BY <1>0, <1>6
  <2>. QED  BY <2>1, <2>2 DEF CheckShape
<1>8. RowsOK(c2, V, H)
  BY <1>0, <1>6 DEF RowsOK
<1>9. ASSUME Pk # <<>>
      PROVE  (\A key \in ToSearch(c2) : Searched(c2, V, H, key)) /\ NewKeysDiffer(c2)
  <2>1. NewKeysDiffer(c2)
    BY <1>6, <1>9 DEF NewKeysDiffer
  <2>2. ASSUME NEW key \in ToSearch(c2) PROVE Searched(c2, V, H, key)
    <3>1. PICK m \in 1..m0 : key = PkOf(NewOf(c, m))
      BY <1>6 DEF ToSearch, m0
    <3>2. m \in 1..Left(c2) /\ c2.todo[m].arg = key
      BY <1>1, <1>4, <1>6, <1>9, <3>1
    <3>. QED  BY <3>2 DEF Searched
  <2>. QED  BY <2>1, <2>2
<1>. QED  BY <1>0, <1>6, <1>7, <1>8, <1>9, QuietCheck

\* The rows that have a key.
KeySearched(c, found) == Checking(c, Tail(c.todo), c.hits \cup found)

LEMMA SearchForKeyOK ==
    ASSUME NEW c \in CallType, NEW d, NEW V, NEW F, NEW T, NEW H, NEW n,
           TxnOK(c, d, V, F, T, H, n), c.stage = "check", c.todo # <<>>, PkRoot \in H,
           NEW found \in SUBSET Rid, \A x \in V : PkOf(x[2]) = c.todo[1].arg => x[1] \in found,
           NEW c2, c2 = KeySearched(c, found)
    PROVE  c2 \in CallType /\ TxnOK(c2, d, V, F, T, H, n)
<1> DEFINE td == Tail(c.todo)
           hits == c.hits \cup found
<1>0. /\ c.begun = 0 /\ RowsOK(c, V, H) /\ Still(c) /\ Rest(c) = {} /\ hits \in SUBSET Rid
      /\ c.todo \in Seq(AccessType) /\ CheckShape(c)
  BY StillIdle, RestEmpty, CallFields DEF TxnOK, CheckShape
<1>1. /\ td \in Seq(AccessType) /\ Len(td) = Left(c) - 1 /\ Left(c) >= 1 /\ Left(c) \in Nat
      /\ \A k \in 1..Left(c) - 1 : td[k] = c.todo[k + 1]
  BY <1>0, TailFacts, CallFields DEF Left
<1> HIDE DEF td, hits
<1>2. /\ c2 \in CallType /\ c2.stage = "check" /\ c2.stmt = c.stmt /\ c2.todo = td /\ c2.got = c.got
      /\ c2.begun = c.begun /\ c2.hits = hits /\ Left(c2) = Left(c) - 1
      /\ MatchedOf(c2) = MatchedOf(c) /\ \A m : NewOf(c2, m) = NewOf(c, m)
  <2>1. c2 = Checking(c, td, hits)
    BY DEF td, hits, KeySearched
  <2>. QED  BY <1>0, <1>1, <2>1, CheckingFacts
<1>3. \A k \in 1..Left(c) - 1 : k + 1 \in 1..Left(c)
  BY <1>1
<1>4. CheckShape(c2)
  <2>1. /\ c.stmt.kind \in {"insert", "update"} /\ (c.stmt.kind = "insert" => c.got = <<>>)
        /\ \A k \in 1..Left(c) : Pk # <<>> /\ c.todo[k] = SearchTree(Pk[1].name, c.todo[k].arg)
    BY <1>0 DEF CheckShape
  <2>2. ASSUME NEW k \in 1..Left(c2) PROVE Pk # <<>> /\ c2.todo[k] = SearchTree(Pk[1].name, c2.todo[k].arg)
    <3>1. k + 1 \in 1..Left(c) /\ c2.todo[k] = c.todo[k + 1]
      BY <1>1, <1>2, <1>3
    <3>. QED  BY <2>1, <3>1
  <2>. QED  BY <1>0, <1>2, <2>1, <2>2 DEF CheckShape
<1>5. RowsOK(c2, V, H)
  BY <1>0, <1>2 DEF RowsOK
<1>6. ASSUME Pk # <<>>, NEW key, Searched(c, V, H, key) PROVE Searched(c2, V, H, key)
  <2>1. CASE \E k \in 1..Left(c) : c.todo[k].arg = key
    <3>1. PICK k \in 1..Left(c) : c.todo[k].arg = key
      BY <2>1
    <3>2. CASE k = 1
      BY <1>2, <3>1, <3>2 DEF Searched, hits
    <3>3. CASE k # 1
      <4>1. k - 1 \in 1..Left(c) - 1 /\ (k - 1) + 1 = k
        BY <1>1, <3>3
      <4>2. c2.todo[k - 1] = c.todo[k]
        BY <1>1, <1>2, <4>1
      <4>. QED  BY <1>2, <3>1, <4>1, <4>2 DEF Searched
    <3>. QED  BY <3>2, <3>3
  <2>2. CASE \A x \in V : PkOf(x[2]) = key => x[1] \in c.hits
    BY <1>2, <2>2 DEF Searched, hits
  <2>. QED  BY <1>6, <2>1, <2>2 DEF Searched
<1>7. ASSUME Pk # <<>>
      PROVE  /\ \A key \in ToSearch(c2) : Searched(c2, V, H, key)
             /\ c2.stmt.kind = "update" => NewKeysDiffer(c2)
  <2>1. KeysOK(c, V, H)
    BY <1>7 DEF TxnOK
  <2>2. c2.stmt.kind = "update" => NewKeysDiffer(c2)
    <3>1. c.stmt.kind = "update" => NewKeysDiffer(c)
      BY <2>1 DEF KeysOK, NewKeysDiffer
    <3>. QED  BY <1>2, <3>1 DEF NewKeysDiffer
  <2>3. ASSUME NEW key \in ToSearch(c2) PROVE Searched(c, V, H, key)
    <3>1. CASE c.stmt.kind = "insert"
      BY <1>2, <2>1, <2>3, <3>1 DEF ToSearch, KeysOK
    <3>2. CASE c.stmt.kind # "insert"
      <4>1. c.stmt.kind = "update"
        BY <1>0, <3>2 DEF CheckShape
      <4>2. PICK m \in 1..Len(MatchedOf(c)) : key = PkOf(NewOf(c, m))
        BY <1>2, <2>3, <3>2 DEF ToSearch
      <4>. QED  BY <2>1, <4>1, <4>2 DEF KeysOK
    <3>. QED  BY <3>1, <3>2
  <2>. QED  BY <1>6, <1>7, <2>2, <2>3
<1>. QED  BY <1>0, <1>2, <1>4, <1>5, <1>7, QuietCheck

\* A fetch goes on.
Fetching(c, todo, got) == Call("fetch", c.stmt, todo, got, c.hits, c.rid, c.begun)

LEMMA FetchingFacts ==
    ASSUME NEW c \in CallType, NEW todo \in Seq(AccessType), NEW got \in Seq(Found),
           NEW c2, c2 = Fetching(c, todo, got)
    PROVE  /\ c2 \in CallType /\ c2.stage = "fetch" /\ c2.stmt = c.stmt /\ c2.todo = todo /\ c2.got = got
           /\ c2.begun = c.begun /\ Left(c2) = Len(todo)
<1>1. c2 = Call("fetch", c.stmt, todo, got, c.hits, c.rid, c.begun)
  BY DEF Fetching
<1>2. /\ c2 \in CallType /\ c2.stage = "fetch" /\ c2.stmt = c.stmt /\ c2.todo = todo /\ c2.got = got
      /\ c2.begun = c.begun
  BY <1>1, CallParts, CallFields
<1>. QED  BY <1>2 DEF Left

\* An access of a fetch.
FetchAccess(c, k, V, H, n) ==
    LET a == c.todo[k]
    IN  \/ /\ a.do = "scan" /\ a.arg \in 1..n /\ a = ScanPage(a.arg)
           /\ \A g \in 1..Len(c.got) : c.got[g][1][1] # a.arg
        \/ /\ a.do = "search" /\ Left(c) = 1 /\ c.got = <<>>
           /\ \E j \in 1..N : a = SearchTree(Indexes[j].name, a.arg)
        \/ /\ a.do = "get" /\ a.arg \in {x[1] : x \in V} /\ a = GetRow(a.arg)
           /\ \A g \in 1..Len(c.got) : c.got[g][1] # a.arg
           /\ \E j \in 1..N : IndexRoot(j) \in H

LEMMA FetchParts ==
    ASSUME NEW c, NEW V, NEW H, NEW n, c.stage = "fetch"
    PROVE  FetchShape(c, V, H, n) <=>
             /\ c.stmt.kind \in {"select", "delete", "update"} /\ c.begun = 0
             /\ \A k \in 1..Left(c) : FetchAccess(c, k, V, H, n)
             /\ \A k, l \in 1..Left(c) : c.todo[k].do = c.todo[l].do /\ (k # l => c.todo[k].arg # c.todo[l].arg)
BY DEF FetchShape, FetchAccess

\* A row the access a returns.
Returned(a, x, V, H) ==
    /\ x \in V /\ HeapPage(x[1][1]) \in H
    /\ a.do = "get" => x[1] = a.arg
    /\ a.do = "scan" => x[1][1] = a.arg

\* Fetched rows and those the access a has added.
MoreRows(got, got2, a, V, H) ==
    /\ RidsDiffer(got2)
    /\ \A g \in 1..Len(got2) : (\E k \in 1..Len(got) : got2[g] = got[k]) \/ Returned(a, got2[g], V, H)

RowsFetched(c, got) == Fetching(c, Tail(c.todo), got)

LEMMA FetchMore ==
    ASSUME NEW c \in CallType, NEW d, NEW V, NEW F, NEW T, NEW H, NEW n,
           TxnOK(c, d, V, F, T, H, n), c.stage = "fetch", c.todo # <<>>, c.todo[1].do \in {"get", "scan"},
           NEW got \in Seq(Found), MoreRows(c.got, got, c.todo[1], V, H),
           NEW c2, c2 = RowsFetched(c, got)
    PROVE  c2 \in CallType /\ TxnOK(c2, d, V, F, T, H, n)
<1> DEFINE td == Tail(c.todo)
<1>0. RowsOK(c, V, H) /\ Still(c) /\ Rest(c) = {} /\ c.todo \in Seq(AccessType)
  BY StillIdle, RestEmpty, CallFields DEF TxnOK
<1>1. /\ td \in Seq(AccessType) /\ Len(td) = Left(c) - 1 /\ Left(c) >= 1 /\ Left(c) \in Nat
      /\ \A k \in 1..Left(c) - 1 : td[k] = c.todo[k + 1]
  BY <1>0, TailFacts, CallFields DEF Left
<1> HIDE DEF td
<1>2. c2 = Fetching(c, td, got)
  BY DEF td, RowsFetched
<1>3. /\ c2 \in CallType /\ c2.stage = "fetch" /\ c2.stmt = c.stmt /\ c2.todo = td /\ c2.got = got
      /\ c2.begun = c.begun /\ Left(c2) = Left(c) - 1
  BY <1>1, <1>2, FetchingFacts
<1>4. FetchShape(c, V, H, n)
  BY DEF TxnOK
<1>5. /\ c.stmt.kind \in {"select", "delete", "update"} /\ c.begun = 0
      /\ \A k \in 1..Left(c) : FetchAccess(c, k, V, H, n)
      /\ \A k, l \in 1..Left(c) : c.todo[k].do = c.todo[l].do /\ (k # l => c.todo[k].arg # c.todo[l].arg)
  BY <1>4, FetchParts
<1>6. \A k \in 1..Left(c2) : k + 1 \in 1..Left(c) /\ k + 1 # 1 /\ c2.todo[k] = c.todo[k + 1]
  BY <1>1, <1>3
<1>7. 1 \in 1..Left(c)
  BY <1>1
<1>8. \A k, l \in 1..Left(c2) : k # l => k + 1 # l + 1
  BY <1>1, <1>3
<1>9. ASSUME NEW k \in 1..Left(c2) PROVE FetchAccess(c2, k, V, H, n)
  <2> DEFINE a == c.todo[k + 1]
  <2>1. c2.todo[k] = a /\ FetchAccess(c, k + 1, V, H, n) /\ a.do = c.todo[1].do /\ a.arg # c.todo[1].arg
    BY <1>5, <1>6, <1>7
  <2>2. CASE c.todo[1].do = "get"
    <3>1. /\ a.do = "get" /\ a.arg \in {x[1] : x \in V} /\ a = GetRow(a.arg)
          /\ \A g \in 1..Len(c.got) : c.got[g][1] # a.arg
          /\ \E j \in 1..N : IndexRoot(j) \in H
      BY <2>1, <2>2 DEF FetchAccess
    <3>2. ASSUME NEW g \in 1..Len(c2.got) PROVE c2.got[g][1] # a.arg
      <4>1. CASE \E l \in 1..Len(c.got) : got[g] = c.got[l]
        BY <1>3, <3>1, <4>1
      <4>2. CASE Returned(c.todo[1], got[g], V, H)
        BY <1>3, <2>1, <2>2, <4>2 DEF Returned
      <4>. QED  BY <1>3, <4>1, <4>2 DEF MoreRows
    <3> HIDE DEF a
    <3>. QED  BY <2>1, <3>1, <3>2 DEF FetchAccess
  <2>3. CASE c.todo[1].do = "scan"
    <3>1. /\ a.do = "scan" /\ a.arg \in 1..n /\ a = ScanPage(a.arg)
          /\ \A g \in 1..Len(c.got) : c.got[g][1][1] # a.arg
      BY <2>1, <2>3 DEF FetchAccess
    <3>2. ASSUME NEW g \in 1..Len(c2.got) PROVE c2.got[g][1][1] # a.arg
      <4>1. CASE \E l \in 1..Len(c.got) : got[g] = c.got[l]
        BY <1>3, <3>1, <4>1
      <4>2. CASE Returned(c.todo[1], got[g], V, H)
        BY <1>3, <2>1, <2>3, <4>2 DEF Returned
      <4>. QED  BY <1>3, <4>1, <4>2 DEF MoreRows
    <3> HIDE DEF a
    <3>. QED  BY <2>1, <3>1, <3>2 DEF FetchAccess
  <2>. QED  BY <2>2, <2>3
<1>10. \A k, l \in 1..Left(c2) : c2.todo[k].do = c2.todo[l].do /\ (k # l => c2.todo[k].arg # c2.todo[l].arg)
  BY <1>5, <1>6, <1>8
<1>11. FetchShape(c2, V, H, n)
  BY <1>3, <1>5, <1>9, <1>10, FetchParts
<1>12. ASSUME NEW g \in 1..Len(got) PROVE HeapPage(got[g][1][1]) \in H /\ got[g] \in V
  <2>1. CASE \E l \in 1..Len(c.got) : got[g] = c.got[l]
    BY <1>0, <2>1 DEF RowsOK
  <2>2. CASE Returned(c.todo[1], got[g], V, H)
    BY <2>2 DEF Returned
  <2>. QED  BY <2>1, <2>2 DEF MoreRows
<1>13. RowsOK(c2, V, H)
  BY <1>3, <1>12 DEF RowsOK, MoreRows
<1>. QED  BY <1>0, <1>3, <1>11, <1>13, QuietFetch

\* A row was found where the index said.
LEMMA GetOK ==
    ASSUME NEW c \in CallType, NEW d, NEW V, NEW F, NEW T, NEW H, NEW n, Functional(V),
           TxnOK(c, d, V, F, T, H, n), c.stage = "fetch", c.todo # <<>>, c.todo[1].do = "get",
           NEW x \in V, x[1] = c.todo[1].arg, HeapPage(x[1][1]) \in H,
           NEW c2, c2 = RowsFetched(c, Append(c.got, x))
    PROVE  c2 \in CallType /\ TxnOK(c2, d, V, F, T, H, n)
<1> DEFINE got == Append(c.got, x)
<1>1. /\ c.got \in Seq(Found) /\ Len(c.got) \in Nat /\ x \in Found /\ RowsOK(c, V, H) /\ Left(c) >= 1 /\ Left(c) \in Nat
  BY CallFields DEF TxnOK, Functional
<1>2. /\ got \in Seq(Found) /\ Len(got) = Len(c.got) + 1
      /\ (\A g \in 1..Len(c.got) : got[g] = c.got[g]) /\ got[Len(c.got) + 1] = x
  BY <1>1, AppendProperties
<1> HIDE DEF got
<1>3. \A g \in 1..Len(got) : g \in 1..Len(c.got) \/ g = Len(c.got) + 1
  BY <1>1, <1>2
<1>4. \A g \in 1..Len(c.got) : c.got[g][1] # x[1]
  <2>1. 1 \in 1..Left(c) /\ FetchShape(c, V, H, n)
    BY <1>1 DEF TxnOK
  <2>2. FetchAccess(c, 1, V, H, n)
    BY <2>1, FetchParts
  <2>. QED  BY <2>2 DEF FetchAccess
<1>5. RidsDiffer(got)
  <2>1. ASSUME NEW k \in 1..Len(got), NEW l \in 1..Len(got), k # l PROVE got[k][1] # got[l][1]
    BY <1>1, <1>2, <1>3, <1>4, <2>1 DEF RowsOK, RidsDiffer
  <2>. QED  BY <2>1 DEF RidsDiffer
<1>6. Returned(c.todo[1], x, V, H)
  BY DEF Returned
<1>7. MoreRows(c.got, got, c.todo[1], V, H)
  BY <1>2, <1>3, <1>5, <1>6 DEF MoreRows
<1>8. c2 = RowsFetched(c, got) /\ c.todo[1].do \in {"get", "scan"}
  BY DEF got
<1>. QED  BY <1>2, <1>7, <1>8, FetchMore

\* A page was scanned.
PageFetched(c, rows) == RowsFetched(c, c.got \o rows)

LEMMA ScanOK ==
    ASSUME NEW c \in CallType, NEW d, NEW V, NEW F, NEW T, NEW H, NEW n,
           TxnOK(c, d, V, F, T, H, n), c.stage = "fetch", c.todo # <<>>, c.todo[1].do = "scan",
           NEW rows \in Seq(Found), RidsDiffer(rows), HeapPage(c.todo[1].arg) \in H,
           \A g \in 1..Len(rows) : rows[g] \in V /\ rows[g][1][1] = c.todo[1].arg,
           NEW c2, c2 = PageFetched(c, rows)
    PROVE  c2 \in CallType /\ TxnOK(c2, d, V, F, T, H, n)
<1> DEFINE got == c.got \o rows
           m == Len(c.got)
<1>1. /\ c.got \in Seq(Found) /\ m \in Nat /\ Len(rows) \in Nat /\ RowsOK(c, V, H)
      /\ Left(c) >= 1 /\ Left(c) \in Nat
  BY CallFields, SeqFacts DEF TxnOK
<1>2. /\ got \in Seq(Found) /\ Len(got) = m + Len(rows)
      /\ (\A g \in 1..m : got[g] = c.got[g])
      /\ \A g \in m + 1..m + Len(rows) : got[g] = rows[g - m]
  <2>1. got \in Seq(Found) /\ Len(got) = m + Len(rows)
    BY <1>1, ConcatProperties
  <2>2. \A g \in 1..m + Len(rows) : got[g] = IF g <= m THEN c.got[g] ELSE rows[g - m]
    BY <1>1, ConcatProperties
  <2>3. \A g \in 1..m : g \in 1..m + Len(rows) /\ g <= m
    BY <1>1
  <2>4. \A g \in m + 1..m + Len(rows) : g \in 1..m + Len(rows) /\ ~(g <= m)
    BY <1>1
  <2> HIDE DEF got, m
  <2>. QED  BY <2>1, <2>2, <2>3, <2>4
<1> HIDE DEF got
<1>3. \A g \in 1..Len(got) : g \in 1..m \/ (g \in m + 1..m + Len(rows) /\ g - m \in 1..Len(rows))
  <2> HIDE DEF m
  <2>. QED  BY <1>1, <1>2
<1>4. \A g \in 1..m : c.got[g][1][1] # c.todo[1].arg
  <2>1. 1 \in 1..Left(c) /\ FetchShape(c, V, H, n)
    BY <1>1 DEF TxnOK
  <2>2. FetchAccess(c, 1, V, H, n)
    BY <2>1, FetchParts
  <2>. QED  BY <2>2 DEF FetchAccess
<1>5. ASSUME NEW g \in m + 1..m + Len(rows) PROVE Returned(c.todo[1], got[g], V, H) /\ got[g][1][1] = c.todo[1].arg
  <2>1. got[g] = rows[g - m] /\ g - m \in 1..Len(rows)
    BY <1>1, <1>2
  <2>2. got[g] \in V /\ got[g][1][1] = c.todo[1].arg
    BY <2>1
  <2>. QED  BY <2>2 DEF Returned
<1>6. RidsDiffer(got)
  <2>1. ASSUME NEW k \in 1..Len(got), NEW l \in 1..Len(got), k # l PROVE got[k][1] # got[l][1]
    <3>1. CASE k \in 1..m /\ l \in 1..m
      BY <1>1, <1>2, <2>1, <3>1 DEF RowsOK, RidsDiffer
    <3> HIDE DEF m
    <3>2. CASE k \in 1..m /\ l \in m + 1..m + Len(rows)
      BY <1>2, <1>4, <1>5, <3>2
    <3>3. CASE l \in 1..m /\ k \in m + 1..m + Len(rows)
      BY <1>2, <1>4, <1>5, <3>3
    <3>4. CASE k \in m + 1..m + Len(rows) /\ l \in m + 1..m + Len(rows)
      <4>1. k - m \in 1..Len(rows) /\ l - m \in 1..Len(rows) /\ k - m # l - m
        BY <1>1, <2>1, <3>4
      <4>2. rows[k - m][1] # rows[l - m][1]
        BY <4>1 DEF RidsDiffer
      <4>. QED  BY <1>2, <3>4, <4>2
    <3>. QED  BY <1>3, <3>1, <3>2, <3>3, <3>4
  <2>. QED  BY <2>1 DEF RidsDiffer
<1>7. MoreRows(c.got, got, c.todo[1], V, H)
  BY <1>2, <1>3, <1>5, <1>6 DEF MoreRows
<1>8. c2 = RowsFetched(c, got) /\ c.todo[1].do \in {"get", "scan"}
  BY DEF got, PageFetched
<1>. QED  BY <1>2, <1>7, <1>8, FetchMore

\* The index has been searched: the rows it lists are next.
RowsListed(c, rids) == Fetching(c, [i \in DOMAIN rids |-> GetRow(rids[i])], c.got)

LEMMA SearchForRowsOK ==
    ASSUME NEW c \in CallType, NEW d, NEW V, NEW F, NEW T, NEW H, NEW n, Functional(V),
           TxnOK(c, d, V, F, T, H, n), c.stage = "fetch", Len(c.got) = 0,
           NEW rids \in Seq(Rid), \A k, l \in 1..Len(rids) : k # l => rids[k] # rids[l],
           \A k \in 1..Len(rids) : rids[k] \in {x[1] : x \in V},
           NEW j \in 1..N, IndexRoot(j) \in H,
           NEW c2, c2 = RowsListed(c, rids)
    PROVE  c2 \in CallType /\ TxnOK(c2, d, V, F, T, H, n)
<1> DEFINE B(i) == GetRow(rids[i])
           td == [i \in 1..Len(rids) |-> B(i)]
<1>0. RowsOK(c, V, H) /\ Still(c) /\ Rest(c) = {} /\ c.got \in Seq(Found)
  BY StillIdle, RestEmpty, CallFields DEF TxnOK
<1>1. Len(rids) \in Nat /\ DOMAIN rids = 1..Len(rids) /\ \A k \in 1..Len(rids) : rids[k] \in Rid
  BY SeqFacts
<1>2. \A i \in 1..Len(rids) : B(i) \in AccessType /\ B(i).do = "get" /\ B(i).arg = rids[i]
  BY <1>1, AccessKinds
<1>3. c2 = Fetching(c, td, c.got)
  BY <1>1 DEF RowsListed
<1>4. td \in Seq(AccessType) /\ Len(td) = Len(rids) /\ \A i \in 1..Len(rids) : td[i] = B(i)
  <2> HIDE DEF B
  <2>. QED  BY <1>1, <1>2
<1> HIDE DEF td
<1>5. /\ c2 \in CallType /\ c2.stage = "fetch" /\ c2.stmt = c.stmt /\ c2.todo = td /\ c2.got = c.got
      /\ c2.begun = c.begun /\ Left(c2) = Len(rids)
  BY <1>0, <1>3, <1>4, FetchingFacts
<1>6. c.stmt.kind \in {"select", "delete", "update"} /\ c.begun = 0
  BY DEF TxnOK, FetchShape
<1>7. Len(c2.got) = 0
  BY <1>5
<1>8. ASSUME NEW k \in 1..Left(c2) PROVE FetchAccess(c2, k, V, H, n)
  <2>1. c2.todo[k] = GetRow(rids[k]) /\ c2.todo[k].do = "get" /\ c2.todo[k].arg = rids[k]
    BY <1>2, <1>4, <1>5
  <2>2. rids[k] \in {x[1] : x \in V}
    BY <1>5
  <2>. QED  BY <1>7, <2>1, <2>2 DEF FetchAccess
<1>9. \A k, l \in 1..Left(c2) : c2.todo[k].do = c2.todo[l].do /\ (k # l => c2.todo[k].arg # c2.todo[l].arg)
  BY <1>2, <1>4, <1>5
<1>10. FetchShape(c2, V, H, n)
  BY <1>5, <1>6, <1>8, <1>9, FetchParts
<1>11. RowsOK(c2, V, H)
  BY <1>0, <1>5 DEF RowsOK
<1>. QED  BY <1>0, <1>5, <1>10, <1>11, QuietFetch

\* A statement begins.
Begun(stage, stmt, todo) == Call(stage, stmt, todo, <<>>, {}, <<0, 0>>, 0)

LEMMA BegunFacts ==
    ASSUME NEW stage \in {"fetch", "check"}, NEW s \in Stmt, NEW todo \in Seq(AccessType),
           NEW c2, c2 = Begun(stage, s, todo)
    PROVE  /\ c2 \in CallType /\ c2.stage = stage /\ c2.stmt = s /\ c2.todo = todo /\ c2.got = <<>>
           /\ c2.begun = 0 /\ Left(c2) = Len(todo) /\ Len(c2.got) = 0
           /\ \A V, H : RowsOK(c2, V, H)
<1>1. c2 = Call(stage, s, todo, <<>>, {}, <<0, 0>>, 0)
  BY DEF Begun
<1>2. <<>> \in Seq(Found) /\ {} \in SUBSET Rid
  OBVIOUS
<1>3. /\ c2.stage = stage /\ c2.stmt = s /\ c2.todo = todo /\ c2.got = <<>> /\ c2.begun = 0
  BY <1>1, CallParts
<1>4. c2 \in CallType
  BY <1>1, <1>2 DEF Call, CallType
<1>5. Len(c2.got) = 0 /\ Left(c2) = Len(todo)
  BY <1>3 DEF Left
<1>6. ASSUME NEW V, NEW H PROVE RowsOK(c2, V, H)
  BY <1>3, <1>5 DEF RowsOK, RidsDiffer
<1>. QED  BY <1>3, <1>4, <1>5, <1>6

\* INSERT searches its key.
SearchKey(s) == [i \in DOMAIN Pk |-> SearchTree(Pk[i].name, PkOf(s.row))]

LEMMA ExecuteInsertOK ==
    ASSUME NEW d, NEW V, NEW F, NEW T, NEW H, NEW n, TxnOK(NoCall, d, V, F, T, H, n),
           NEW s \in Stmt, s.kind = "insert", NEW c2, c2 = Begun("check", s, SearchKey(s))
    PROVE  c2 \in CallType /\ TxnOK(c2, d, V, F, T, H, n)
<1> DEFINE td == SearchKey(s)
           a == SearchTree(Pk[1].name, PkOf(s.row))
<1>0. s.row \in Row
  BY StmtFacts
<1>1. Pk # <<>> => td = <<a>> /\ a \in AccessType /\ a.arg = PkOf(s.row)
  <2>1. ASSUME Pk # <<>> PROVE td = <<a>> /\ a \in AccessType /\ a.arg = PkOf(s.row)
    <3>1. PICK j \in 1..N : Pk = <<Indexes[j]>> /\ Pk[1] = Indexes[j]
      BY <2>1, PkFacts
    <3>2. DOMAIN Pk = 1..1
      BY <3>1
    <3>3. td = [i \in 1..1 |-> a]
      BY <3>2 DEF SearchKey
    <3>4. [i \in 1..1 |-> a] = <<a>>
      <4> HIDE DEF a
      <4>. QED  OBVIOUS
    <3>5. PkOf(s.row) \in Value
      BY <1>0, <2>1, PkValue
    <3>. QED  BY <2>1, <3>3, <3>4, <3>5, PkSearch
  <2>. QED  BY <2>1
<1>2. Pk = <<>> => td = <<>>
  BY DEF SearchKey
<1> HIDE DEF td, a
<1>3. /\ td \in Seq(AccessType)
      /\ Pk = <<>> => Len(td) = 0
      /\ Pk # <<>> => Len(td) = 1 /\ td[1] = a
  <2>1. <<>> \in Seq(AccessType) /\ Len(<<>>) = 0
    OBVIOUS
  <2>2. a \in AccessType => <<a>> \in Seq(AccessType) /\ Len(<<a>>) = 1 /\ <<a>>[1] = a
    OBVIOUS
  <2>. QED  BY <1>1, <1>2, <2>1, <2>2
<1>4. /\ c2 \in CallType /\ c2.stage = "check" /\ c2.stmt = s /\ c2.todo = td /\ c2.got = <<>>
      /\ c2.begun = 0 /\ Left(c2) = Len(td) /\ RowsOK(c2, V, H)
  BY <1>3, BegunFacts DEF td
<1>5. CheckShape(c2)
  <2>1. ASSUME NEW k \in 1..Left(c2) PROVE Pk # <<>> /\ c2.todo[k] = SearchTree(Pk[1].name, c2.todo[k].arg)
    <3>1. Pk # <<>> /\ k = 1
      BY <1>3, <1>4, <2>1
    <3>2. c2.todo[k] = a /\ a.arg = PkOf(s.row)
      BY <1>1, <1>3, <1>4, <3>1
    <3>. QED  BY <3>1, <3>2 DEF a
  <2>. QED  BY <1>4, <2>1 DEF CheckShape
<1>6. Pk # <<>> => /\ \A key \in ToSearch(c2) : Searched(c2, V, H, key)
                   /\ c2.stmt.kind = "update" => NewKeysDiffer(c2)
  <2>1. ASSUME Pk # <<>> PROVE Searched(c2, V, H, PkOf(s.row))
    <3>1. 1 \in 1..Left(c2) /\ c2.todo[1].arg = PkOf(s.row)
      BY <1>1, <1>3, <1>4, <2>1
    <3>. QED  BY <3>1 DEF Searched
  <2>. QED  BY <1>4, <2>1 DEF ToSearch
<1>7. Still(NoCall) /\ Rest(NoCall) = {} /\ NoCall \in CallType
  BY StillIdle, NoCallFacts
<1>. QED  BY <1>4, <1>5, <1>6, <1>7, QuietCheck

\* The plan is a scan of the table or a search of one of its indexes.
LEMMA PlanFacts ==
    ASSUME NEW s \in Stmt, s.kind # "insert", Plan(s).method # "SeqScan"
    PROVE  \E j \in 1..N : Plan(s).index = Indexes[j].name /\ Plan(s).key \in Value
<1> DEFINE preds == s.where
           drivers == {i \in DOMAIN preds : Drives(Cat, Table, preds, i)}
           first == CHOOSE i \in drivers : \A j \in drivers : i <= j
           col == preds[first].column.column
           hits == {i \in DOMAIN Indexes : Indexes[i].column_name = col}
<1>1. preds \in Seq(ToSet(preds)) /\ \A i \in DOMAIN preds : preds[i].value.value \in Value
  BY StmtFacts
<1>2. drivers # {}
  BY DEF Plan, PlanTableAccess
<1>3. Plan(s) = [table |-> Table, method |-> "IndexScan",
                 index |-> FindIndexOnColumn(Cat, Table, col)[1].name,
                 key |-> preds[first].value.value, residual |-> Without(preds, first)]
  BY <1>2 DEF Plan, PlanTableAccess
<1>4. first \in drivers
  <2>1. drivers \in SUBSET Nat
    BY <1>1, SeqFacts
  <2> HIDE DEF drivers
  <2>2. \E i \in drivers : \A j \in drivers : i <= j
    BY <1>2, <2>1, LeastNatural
  <2>. QED  BY <2>2
<1> HIDE DEF first
<1>5. first \in DOMAIN preds /\ FindIndexOnColumn(Cat, Table, col) # <<>>
  BY <1>4 DEF Drives
<1>6. FindIndexOnColumn(Cat, Table, col) = First(Indexes, hits)
  BY DEF FindIndexOnColumn, Indexes
<1>7. hits \in SUBSET Nat
  BY IndexFacts
<1>8. PICK j \in hits : First(Indexes, hits)[1] = Indexes[j]
  <2> HIDE DEF hits, col
  <2>. QED  BY <1>5, <1>6, <1>7, FirstFacts
<1>9. j \in 1..N
  BY <1>8, IndexFacts
<1>10. Plan(s).key = preds[first].value.value /\ Plan(s).index = FindIndexOnColumn(Cat, Table, col)[1].name
  <2> HIDE DEF preds, col
  <2>. QED  BY <1>3
<1>11. Plan(s).key \in Value
  BY <1>1, <1>5, <1>10
<1>12. Plan(s).index = Indexes[j].name
  <2> HIDE DEF hits, col
  <2>. QED  BY <1>6, <1>8, <1>10
<1>. QED  BY <1>9, <1>11, <1>12

\* The other statements begin with the rows they are about.
FirstAccesses(s, n) ==
    IF Plan(s).method = "SeqScan" THEN [p \in 1..n |-> ScanPage(p)] ELSE <<SearchTree(Plan(s).index, Plan(s).key)>>

LEMMA ExecuteFetchOK ==
    ASSUME NEW d, NEW V, NEW F, NEW T, NEW H, NEW n \in Nat, n <= MaxPages, TxnOK(NoCall, d, V, F, T, H, n),
           NEW s \in Stmt, s.kind # "insert", NEW c2, c2 = Begun("fetch", s, FirstAccesses(s, n))
    PROVE  c2 \in CallType /\ TxnOK(c2, d, V, F, T, H, n)
<1> DEFINE td == FirstAccesses(s, n)
<1>0. s.kind \in {"select", "delete", "update"} /\ MaxPages \in Nat
  BY StmtFacts, Constants
<1>1. CASE Plan(s).method = "SeqScan"
  <2>1. \A p \in 1..n : ScanPage(p) \in AccessType /\ ScanPage(p).do = "scan" /\ ScanPage(p).arg = p
    <3>1. \A p \in 1..n : p \in 1..MaxPages
      BY <1>0
    <3>. QED  BY <3>1, AccessKinds
  <2>2. td = [p \in 1..n |-> ScanPage(p)]
    BY <1>1 DEF FirstAccesses
  <2> HIDE DEF td
  <2>3. td \in Seq(AccessType) /\ Len(td) = n /\ \A p \in 1..n : td[p] = ScanPage(p)
    BY <2>1, <2>2
  <2>4. /\ c2 \in CallType /\ c2.stage = "fetch" /\ c2.stmt = s /\ c2.todo = td /\ c2.got = <<>>
        /\ c2.begun = 0 /\ Left(c2) = n /\ RowsOK(c2, V, H) /\ Len(c2.got) = 0
    BY <2>3, BegunFacts DEF td
  <2>5. ASSUME NEW k \in 1..Left(c2) PROVE FetchAccess(c2, k, V, H, n)
    <3>1. c2.todo[k] = ScanPage(k) /\ c2.todo[k].do = "scan" /\ c2.todo[k].arg = k
      BY <2>1, <2>3, <2>4
    <3>. QED  BY <2>4, <3>1 DEF FetchAccess
  <2>6. \A k, l \in 1..Left(c2) : c2.todo[k].do = c2.todo[l].do /\ (k # l => c2.todo[k].arg # c2.todo[l].arg)
    BY <2>1, <2>3, <2>4
  <2>7. FetchShape(c2, V, H, n)
    BY <1>0, <2>4, <2>5, <2>6, FetchParts
  <2>8. Still(NoCall) /\ Rest(NoCall) = {} /\ NoCall \in CallType
    BY StillIdle, NoCallFacts
  <2>. QED  BY <2>4, <2>7, <2>8, QuietFetch
<1>2. CASE Plan(s).method # "SeqScan"
  <2> DEFINE a == SearchTree(Plan(s).index, Plan(s).key)
  <2>1. PICK j \in 1..N : Plan(s).index = Indexes[j].name /\ Plan(s).key \in Value
    BY <1>2, PlanFacts
  <2>2. a \in AccessType /\ a.do = "search" /\ a = SearchTree(Indexes[j].name, a.arg)
    BY <2>1, AccessKinds
  <2>3. td = <<a>>
    BY <1>2 DEF FirstAccesses
  <2> HIDE DEF td, a
  <2>4. td \in Seq(AccessType) /\ Len(td) = 1 /\ td[1] = a
    BY <2>2, <2>3
  <2>5. /\ c2 \in CallType /\ c2.stage = "fetch" /\ c2.stmt = s /\ c2.todo = td /\ c2.got = <<>>
        /\ c2.begun = 0 /\ Left(c2) = Len(td) /\ RowsOK(c2, V, H)
    <3>1. td \in Seq(AccessType)
      BY <2>4
    <3>. QED  BY <3>1, BegunFacts DEF td
  <2>6. ASSUME NEW k \in 1..Left(c2) PROVE k = 1 /\ FetchAccess(c2, k, V, H, n)
    <3>1. k = 1 /\ c2.todo[k] = a /\ Left(c2) = 1
      BY <2>4, <2>5
    <3>. QED  BY <2>2, <2>5, <3>1 DEF FetchAccess
  <2>7. \A k, l \in 1..Left(c2) : c2.todo[k].do = c2.todo[l].do /\ (k # l => c2.todo[k].arg # c2.todo[l].arg)
    BY <2>6
  <2>8. FetchShape(c2, V, H, n)
    BY <1>0, <2>5, <2>6, <2>7, FetchParts
  <2>9. Still(NoCall) /\ Rest(NoCall) = {} /\ NoCall \in CallType
    BY StillIdle, NoCallFacts
  <2>. QED  BY <2>5, <2>8, <2>9, QuietFetch
<1>. QED  BY <1>1, <1>2
-----------------------------------------------------------------------------
(* The pages of the heap file. *)

\* The live slots of a page and its rows.
Lives(page)     == {s \in DOMAIN page.slots : page.slots[s].live}
OnPage(page, p) == {<<<<p, s>>, page.slots[s].row>> : s \in Lives(page)}

LEMMA PageFields ==
    ASSUME NEW page \in Page
    PROVE  /\ page.formatted \in BOOLEAN /\ page.slots \in Seq(SlotType) /\ Len(page.slots) \in Nat
           /\ Len(page.slots) <= SlotsPerPage /\ DOMAIN page.slots = 1..Len(page.slots)
           /\ \A s \in 1..Len(page.slots) : /\ s \in 1..SlotsPerPage
                                            /\ page.slots[s].row \in Row /\ page.slots[s].live \in BOOLEAN
<1>1. page.slots \in Seq(SlotType) /\ page.formatted \in BOOLEAN /\ Len(page.slots) <= SlotsPerPage
  BY DEF Page
<1>2. Len(page.slots) \in Nat /\ DOMAIN page.slots = 1..Len(page.slots) /\ \A s \in 1..Len(page.slots) : page.slots[s] \in SlotType
  BY <1>1, SeqFacts
<1>3. \A s \in 1..Len(page.slots) : s \in 1..SlotsPerPage
  BY <1>1, <1>2, Constants
<1>. QED  BY <1>1, <1>2, <1>3 DEF SlotType

\* The rows of a page are found rows, each in its slot.
LEMMA OnPageFacts ==
    ASSUME NEW page \in Page, NEW p \in 1..MaxPages
    PROVE  /\ OnPage(page, p) \subseteq Found
           /\ \A x \in OnPage(page, p) : /\ x[1][1] = p /\ x[1][2] \in Lives(page)
                                         /\ x[1] = <<p, x[1][2]>> /\ x[2] = page.slots[x[1][2]].row
           /\ \A s \in Lives(page) : <<<<p, s>>, page.slots[s].row>> \in OnPage(page, p)
<1>1. \A s \in Lives(page) : s \in 1..SlotsPerPage /\ page.slots[s].row \in Row
  BY PageFields DEF Lives
<1>2. \A s \in Lives(page) : <<<<p, s>>, page.slots[s].row>> \in Found
  BY <1>1 DEF Found, Rid
<1>3. ASSUME NEW x \in OnPage(page, p)
      PROVE  /\ x[1][1] = p /\ x[1][2] \in Lives(page)
             /\ x[1] = <<p, x[1][2]>> /\ x[2] = page.slots[x[1][2]].row
  BY <1>3 DEF OnPage
<1>. QED  BY <1>2, <1>3 DEF OnPage

\* The rows of the file are those of its pages.
LEMMA ContentByPage ==
    ASSUME NEW pages \in Seq(Page)
    PROVE  \A x : x \in Content(pages) <=> \E p \in 1..Len(pages) : x \in OnPage(pages[p], p)
<1>1. Len(pages) \in Nat /\ DOMAIN pages = 1..Len(pages) /\ \A p \in 1..Len(pages) : pages[p] \in Page
  BY SeqFacts
<1>2. ASSUME NEW rid \in Rids(pages)
      PROVE  /\ rid[1] \in 1..Len(pages) /\ rid[2] \in Lives(pages[rid[1]]) /\ rid = <<rid[1], rid[2]>>
  BY <1>1, <1>2 DEF Rids, IsLive, Lives
<1>3. ASSUME NEW p \in 1..Len(pages), NEW s \in Lives(pages[p])
      PROVE  <<p, s>> \in Rids(pages) /\ RowAt(pages, <<p, s>>) = pages[p].slots[s].row
  <2>1. pages[p] \in Page
    BY <1>1
  <2>2. s \in 1..SlotsPerPage /\ s \in DOMAIN pages[p].slots /\ pages[p].slots[s].live
    BY <2>1, PageFields DEF Lives
  <2>3. <<p, s>> \in (DOMAIN pages) \X (1..SlotsPerPage) /\ <<p, s>>[1] = p /\ <<p, s>>[2] = s
    BY <1>1, <2>2
  <2>. QED  BY <2>2, <2>3 DEF Rids, IsLive, RowAt
<1>4. ASSUME NEW x, x \in Content(pages) PROVE \E p \in 1..Len(pages) : x \in OnPage(pages[p], p)
  <2>1. PICK rid \in Rids(pages) : x = <<rid, RowAt(pages, rid)>>
    BY <1>4 DEF Content
  <2> DEFINE p == rid[1]
             s == rid[2]
  <2>2. p \in 1..Len(pages) /\ s \in Lives(pages[p]) /\ rid = <<p, s>> /\ RowAt(pages, rid) = pages[p].slots[s].row
    BY <1>2 DEF RowAt
  <2> HIDE DEF p, s
  <2>3. x = <<<<p, s>>, pages[p].slots[s].row>>
    BY <2>1, <2>2
  <2>4. x \in OnPage(pages[p], p)
    BY <2>2, <2>3 DEF OnPage
  <2>. QED  BY <2>2, <2>4
<1>5. ASSUME NEW x, NEW p \in 1..Len(pages), x \in OnPage(pages[p], p) PROVE x \in Content(pages)
  <2>1. PICK s \in Lives(pages[p]) : x = <<<<p, s>>, pages[p].slots[s].row>>
    BY <1>5 DEF OnPage
  <2>. QED  BY <1>3, <2>1 DEF Content
<1>. QED  BY <1>4, <1>5

\* They are found rows, each in a place of its own.
LEMMA ContentFacts ==
    ASSUME NEW pages \in Seq(Page), Len(pages) <= MaxPages
    PROVE  /\ Functional(Content(pages))
           /\ \A x \in Content(pages) : /\ x \in Found /\ x[1][1] \in 1..Len(pages)
                                        /\ x \in OnPage(pages[x[1][1]], x[1][1])
           /\ \A p \in 1..Len(pages) : p \in 1..MaxPages /\ pages[p] \in Page /\ OnPage(pages[p], p) \subseteq Content(pages)
<1>1. Len(pages) \in Nat /\ (\A p \in 1..Len(pages) : pages[p] \in Page) /\ MaxPages \in Nat
  BY SeqFacts, Constants
<1>2. \A p \in 1..Len(pages) : p \in 1..MaxPages
  BY <1>1
<1>3. ASSUME NEW x \in Content(pages)
      PROVE  /\ x \in Found /\ x[1][1] \in 1..Len(pages) /\ x \in OnPage(pages[x[1][1]], x[1][1])
  <2>1. PICK p \in 1..Len(pages) : x \in OnPage(pages[p], p)
    BY ContentByPage
  <2>2. x \in Found /\ x[1][1] = p
    BY <1>1, <1>2, <2>1, OnPageFacts
  <2>. QED  BY <2>1, <2>2
<1>4. ASSUME NEW x \in Content(pages), NEW y \in Content(pages), x[1] = y[1] PROVE x = y
  <2> DEFINE p == x[1][1]
  <2>1. p \in 1..Len(pages) /\ x \in OnPage(pages[p], p) /\ y \in OnPage(pages[p], p) /\ x \in Found /\ y \in Found
    BY <1>3, <1>4
  <2>2. x[2] = pages[p].slots[x[1][2]].row /\ y[2] = pages[p].slots[y[1][2]].row
    BY <1>1, <1>2, <2>1, OnPageFacts
  <2>3. x[2] = y[2]
    BY <1>4, <2>2
  <2>4. x = <<x[1], x[2]>> /\ y = <<y[1], y[2]>>
    BY <2>1 DEF Found
  <2>. QED  BY <1>4, <2>3, <2>4
<1>5. Content(pages) \subseteq Found
  BY <1>3
<1>6. Functional(Content(pages))
  BY <1>4, <1>5 DEF Functional
<1>. QED  BY <1>1, <1>2, <1>3, <1>6, ContentByPage

\* Page p loses the rows A and gets the rows B; the other pages stay.
After(V, A, B) == (V \ A) \cup B
Changes(page, page2, p, A, B) ==
    OnPage(page2, p) = After(OnPage(page, p), A, B) /\ \A x \in A : x[1][1] = p
SameBut(pages, pages2, p) ==
    Len(pages2) = Len(pages) /\ \A q \in 1..Len(pages) : q # p => pages2[q] = pages[q]

\* What a change of one page does to the rows.
LEMMA ContentChange ==
    ASSUME NEW pages \in Seq(Page), NEW pages2 \in Seq(Page), Len(pages) <= MaxPages,
           NEW p \in 1..Len(pages), SameBut(pages, pages2, p), NEW A, NEW B, Changes(pages[p], pages2[p], p, A, B)
    PROVE  Content(pages2) = After(Content(pages), A, B)
<1>0. /\ Len(pages2) = Len(pages) /\ \A q \in 1..Len(pages) : q # p => pages2[q] = pages[q]
      /\ OnPage(pages2[p], p) = (OnPage(pages[p], p) \ A) \cup B /\ \A x \in A : x[1][1] = p
  BY DEF SameBut, Changes, After
<1>1. \A q \in 1..Len(pages) : \A x \in OnPage(pages[q], q) : x[1][1] = q
  <2>1. \A q \in 1..Len(pages) : q \in 1..MaxPages /\ pages[q] \in Page
    BY ContentFacts
  <2>. QED  BY <2>1, OnPageFacts
<1>2. ASSUME NEW x, x \in Content(pages2) PROVE x \in (Content(pages) \ A) \cup B
  <2>1. PICK q \in 1..Len(pages) : x \in OnPage(pages2[q], q)
    BY <1>0, <1>2, ContentByPage
  <2>2. CASE q = p
    BY <1>0, <2>1, <2>2, ContentByPage
  <2>3. CASE q # p
    <3>1. x \in OnPage(pages[q], q)
      BY <1>0, <2>1, <2>3
    <3>. QED  BY <1>0, <1>1, <2>3, <3>1, ContentByPage
  <2>. QED  BY <2>2, <2>3
<1>3. ASSUME NEW x, x \in (Content(pages) \ A) \cup B PROVE x \in Content(pages2)
  <2>1. CASE x \in B
    <3>1. x \in OnPage(pages2[p], p)
      BY <1>0, <2>1
    <3>. QED  BY <1>0, <3>1, ContentByPage
  <2>2. CASE x \in Content(pages) \ A
    <3>1. PICK q \in 1..Len(pages) : x \in OnPage(pages[q], q)
      BY <2>2, ContentByPage
    <3>2. x \in OnPage(pages2[q], q)
      BY <1>0, <2>2, <3>1
    <3>. QED  BY <1>0, <3>1, <3>2, ContentByPage
  <2>. QED  BY <1>3, <2>1, <2>2
<1>. QED  BY <1>2, <1>3 DEF After

\* The pages with a new one, x, behind them.
Grown(pages, pages2, x) ==
    /\ pages2 \in Seq(Page) /\ Len(pages2) = Len(pages) + 1 /\ pages2[Len(pages) + 1] = x
    /\ \A q \in 1..Len(pages) : pages2[q] = pages[q]

LEMMA AppendGrows ==
    ASSUME NEW pages \in Seq(Page), NEW x \in Page
    PROVE  Grown(pages, Append(pages, x), x)
  BY AppendProperties DEF Grown

\* What a new page adds.
LEMMA ContentGrows ==
    ASSUME NEW pages \in Seq(Page), NEW pages2, NEW x, Grown(pages, pages2, x), NEW p, p = Len(pages) + 1
    PROVE  Content(pages2) = Content(pages) \cup OnPage(x, p)
<1>1. /\ Len(pages) \in Nat /\ pages2 \in Seq(Page) /\ Len(pages2) = Len(pages) + 1 /\ pages2[p] = x
      /\ \A q \in 1..Len(pages) : pages2[q] = pages[q]
  BY SeqFacts DEF Grown
<1>2. \A q \in 1..Len(pages2) : q \in 1..Len(pages) \/ q = p
  BY <1>1
<1>3. p \in 1..Len(pages2) /\ \A q \in 1..Len(pages) : q \in 1..Len(pages2)
  BY <1>1
<1>4. ASSUME NEW z, z \in Content(pages2) PROVE z \in Content(pages) \cup OnPage(x, p)
  <2>1. PICK q \in 1..Len(pages2) : z \in OnPage(pages2[q], q)
    BY <1>1, <1>4, ContentByPage
  <2>2. CASE q = p
    BY <1>1, <2>1, <2>2
  <2>3. CASE q \in 1..Len(pages)
    <3>1. z \in OnPage(pages[q], q)
      BY <1>1, <2>1, <2>3
    <3>. QED  BY <2>3, <3>1, ContentByPage
  <2>. QED  BY <1>2, <2>2, <2>3
<1>5. ASSUME NEW z, z \in Content(pages) PROVE z \in Content(pages2)
  <2>1. PICK q \in 1..Len(pages) : z \in OnPage(pages[q], q)
    BY <1>5, ContentByPage
  <2>2. z \in OnPage(pages2[q], q) /\ q \in 1..Len(pages2)
    BY <1>1, <1>3, <2>1
  <2>. QED  BY <1>1, <2>2, ContentByPage
<1>6. ASSUME NEW z, z \in OnPage(x, p) PROVE z \in Content(pages2)
  <2>1. z \in OnPage(pages2[p], p)
    BY <1>1, <1>6
  <2>. QED  BY <1>1, <1>3, <2>1, ContentByPage
<1>. QED  BY <1>4, <1>5, <1>6

\* The slot of a deleted row stays, without the row.
LEMMA PageDelete ==
    ASSUME NEW page \in Page, NEW p \in 1..MaxPages, NEW s \in Lives(page),
           NEW new, new = [page EXCEPT !.slots[s].live = FALSE]
    PROVE  /\ new \in Page
           /\ Changes(page, new, p, {<<<<p, s>>, page.slots[s].row>>}, {})
<1> DEFINE n == Len(page.slots)
           x == [page.slots[s] EXCEPT !.live = FALSE]
           sl == [page.slots EXCEPT ![s] = x]
<1>1. /\ page.formatted \in BOOLEAN /\ page.slots \in Seq(SlotType) /\ n \in Nat /\ n <= SlotsPerPage
      /\ DOMAIN page.slots = 1..n /\ s \in 1..n /\ \A i \in 1..n : page.slots[i] \in SlotType
  BY PageFields, SeqFacts DEF Lives
<1>2. x \in SlotType /\ x.row = page.slots[s].row /\ x.live = FALSE
  BY <1>1 DEF SlotType
<1>3. new = [page EXCEPT !.slots = sl]
  OBVIOUS
<1> HIDE DEF x
<1>4. sl \in Seq(SlotType) /\ Len(sl) = n /\ sl[s] = x /\ \A i \in 1..n : i # s => sl[i] = page.slots[i]
  <2>1. sl \in [1..n -> SlotType]
    BY <1>1, <1>2
  <2>2. Len(sl) = n
    BY <1>1, <2>1
  <2>. QED  BY <1>1, <2>1, <2>2
<1> HIDE DEF sl
<1>5. new.slots = sl /\ new.formatted = page.formatted /\ new = [formatted |-> page.formatted, slots |-> sl]
  BY <1>1, <1>3 DEF Page
<1>6. new \in Page
  BY <1>1, <1>4, <1>5 DEF Page
<1>7. DOMAIN sl = 1..n
  BY <1>4, SeqFacts
<1> HIDE DEF n
<1>8. Lives(new) = Lives(page) \ {s} /\ \A i \in Lives(new) : new.slots[i].row = page.slots[i].row
  BY <1>1, <1>2, <1>4, <1>5, <1>7 DEF Lives
<1> DEFINE B(i) == <<<<p, i>>, page.slots[i].row>>
<1>9. \A i : B(i) = B(s) => i = s
  OBVIOUS
<1>10. OnPage(new, p) = {B(i) : i \in Lives(new)} /\ OnPage(page, p) = {B(i) : i \in Lives(page)}
  BY <1>8 DEF OnPage
<1>11. OnPage(new, p) = OnPage(page, p) \ {B(s)}
  <2> HIDE DEF B
  <2>. QED  BY <1>8, <1>9, <1>10
<1>12. \A z \in {B(s)} : z[1][1] = p
  OBVIOUS
<1>. QED  BY <1>6, <1>11, <1>12 DEF Changes, After

\* A row is put behind the slots there are.
LEMMA PagePut ==
    ASSUME NEW page \in Page, NEW p \in 1..MaxPages, Len(page.slots) < SlotsPerPage, NEW row \in Row,
           NEW new, new = With(page, row), NEW s, s = Len(page.slots) + 1
    PROVE  /\ new \in Page /\ s \in 1..SlotsPerPage
           /\ Changes(page, new, p, {}, {<<<<p, s>>, row>>})
           /\ \A x \in OnPage(page, p) : x[1] # <<p, s>>
<1> DEFINE n == Len(page.slots)
           x == Slot(row)
           sl == Append(page.slots, x)
<1>1. /\ page.formatted \in BOOLEAN /\ page.slots \in Seq(SlotType) /\ n \in Nat /\ n <= SlotsPerPage
      /\ DOMAIN page.slots = 1..n /\ \A i \in 1..n : page.slots[i] \in SlotType
  BY PageFields, SeqFacts
<1>2. x \in SlotType /\ x.row = row /\ x.live = TRUE
  BY DEF SlotType, Slot
<1>3. new = [page EXCEPT !.slots = sl]
  BY DEF With
<1> HIDE DEF x
<1>4. sl \in Seq(SlotType) /\ Len(sl) = n + 1 /\ sl[n + 1] = x /\ \A i \in 1..n : sl[i] = page.slots[i]
  BY <1>1, <1>2, AppendProperties
<1> HIDE DEF sl
<1>5. new.slots = sl /\ new = [formatted |-> page.formatted, slots |-> sl]
  BY <1>1, <1>3 DEF Page
<1>6. n + 1 <= SlotsPerPage /\ s \in 1..SlotsPerPage /\ s = n + 1
  BY <1>1, Constants
<1>7. new \in Page
  BY <1>1, <1>4, <1>5, <1>6 DEF Page
<1>8. DOMAIN sl = 1..n + 1
  BY <1>4, SeqFacts
<1> HIDE DEF n
<1>9. /\ Lives(new) = Lives(page) \cup {s} /\ s \notin Lives(page)
      /\ new.slots[s].row = row /\ \A i \in Lives(page) : new.slots[i].row = page.slots[i].row
  BY <1>1, <1>2, <1>4, <1>5, <1>6, <1>8 DEF Lives
<1>10. OnPage(new, p) = OnPage(page, p) \cup {<<<<p, s>>, row>>}
  BY <1>9 DEF OnPage
<1>11. \A y \in OnPage(page, p) : y[1] # <<p, s>>
  BY <1>9 DEF OnPage
<1>. QED  BY <1>6, <1>7, <1>10, <1>11 DEF Changes, After

\* A new page has no row, and then one.
FirstOnPage(row) == With([Unformatted EXCEPT !.formatted = TRUE], row)

LEMMA NewPage ==
    /\ Unformatted \in Page /\ \A p : OnPage(Unformatted, p) = {}
    /\ \A row \in Row, p \in 1..MaxPages :
          FirstOnPage(row) \in Page /\ OnPage(FirstOnPage(row), p) = {<<<<p, 1>>, row>>}
<1> DEFINE e == [Unformatted EXCEPT !.formatted = TRUE]
<1>0. \A z : LET u == [formatted |-> FALSE, slots |-> z]
            IN  u.slots = z /\ [u EXCEPT !.formatted = TRUE] = [formatted |-> TRUE, slots |-> z]
  <2> TAKE z
  <2> DEFINE u == [formatted |-> FALSE, slots |-> z]
  <2>1. u \in [formatted : BOOLEAN, slots : {z}] /\ u.slots = z
    OBVIOUS
  <2> HIDE DEF u
  <2>2. \A y : [u EXCEPT !.formatted = y] = [formatted |-> y, slots |-> u.slots]
    BY <2>1
  <2>3. [u EXCEPT !.formatted = TRUE] = [formatted |-> TRUE, slots |-> u.slots]
    BY <2>2
  <2>. QED  BY <2>1, <2>3 DEF u
<1>1. /\ Unformatted = [formatted |-> FALSE, slots |-> <<>>] /\ Unformatted.slots = <<>>
      /\ e = [formatted |-> TRUE, slots |-> <<>>] /\ e.slots = <<>>
  BY <1>0 DEF Unformatted
<1>2. <<>> \in Seq(SlotType) /\ Len(<<>>) = 0 /\ DOMAIN <<>> = {}
  OBVIOUS
<1>3. Unformatted \in Page /\ e \in Page
  <2> DEFINE z == <<>>
  <2>1. z \in Seq(SlotType) /\ Len(z) <= SlotsPerPage
    BY <1>2, Constants
  <2>2. Unformatted = [formatted |-> FALSE, slots |-> z] /\ e = [formatted |-> TRUE, slots |-> z]
    BY <1>1
  <2> HIDE DEF z, e
  <2>. QED  BY <2>1, <2>2 DEF Page
<1>4. \A p : OnPage(Unformatted, p) = {} /\ OnPage(e, p) = {}
  <2>1. Lives(Unformatted) = {} /\ Lives(e) = {}
    BY <1>1, <1>2 DEF Lives
  <2> HIDE DEF e
  <2>. QED  BY <2>1 DEF OnPage
<1>5. Len(e.slots) = 0 /\ 0 < SlotsPerPage
  BY <1>1, <1>2, Constants
<1> HIDE DEF e
<1>6. ASSUME NEW row \in Row, NEW p \in 1..MaxPages
      PROVE  FirstOnPage(row) \in Page /\ OnPage(FirstOnPage(row), p) = {<<<<p, 1>>, row>>}
  <2>1. FirstOnPage(row) = With(e, row)
    BY DEF FirstOnPage, e
  <2>2. Len(e.slots) < SlotsPerPage /\ 1 = Len(e.slots) + 1
    BY <1>5
  <2>3. With(e, row) \in Page /\ Changes(e, With(e, row), p, {}, {<<<<p, 1>>, row>>})
    BY <1>3, <2>2, PagePut
  <2>. QED  BY <1>4, <2>1, <2>3 DEF Changes, After
<1>. QED  BY <1>3, <1>4, <1>6

\* A scan of a page returns its rows, each once.
LEMMA PageRowsFacts ==
    ASSUME NEW pages \in Seq(Page), NEW p \in 1..MaxPages, pages[p] \in Page, NEW rows, rows = PageRows(pages, p)
    PROVE  /\ rows \in Seq(Found) /\ RidsDiffer(rows)
           /\ \A g \in 1..Len(rows) : rows[g] \in OnPage(pages[p], p)
<1> DEFINE n == Len(pages[p].slots)
           B(s) == <<<<p, s>>, pages[p].slots[s].row>>
           all == [s \in 1..n |-> B(s)]
           S == {s \in 1..n : pages[p].slots[s].live}
<1>1. n \in Nat /\ DOMAIN pages[p].slots = 1..n /\ \A s \in 1..n : s \in 1..SlotsPerPage /\ pages[p].slots[s].row \in Row
  BY PageFields
<1>2. \A s \in 1..n : B(s) \in Found
  BY <1>1 DEF Found, Rid
<1>3. rows = Keep(all, S)
  BY <1>1 DEF PageRows
<1>4. all \in Seq(Found) /\ Len(all) = n /\ \A s \in 1..n : all[s] = B(s)
  <2> HIDE DEF B, n
  <2>. QED  BY <1>1, <1>2
<1>5. \A s \in S : s \in Lives(pages[p])
  BY <1>1 DEF Lives
<1> HIDE DEF all, S
<1>6. rows \in Seq(Found) /\ \E f : Picks(rows, all, Len(all), S, f)
  BY <1>3, <1>4, KeepFacts
<1>7. PICK f : Picks(rows, all, n, S, f)
  BY <1>4, <1>6
<1> HIDE DEF n, B
<1>8. \A g \in 1..Len(rows) : f[g] \in 1..n /\ f[g] \in S /\ rows[g] = B(f[g])
  BY <1>4, <1>7 DEF Picks
<1>9. \A g \in 1..Len(rows) : rows[g] \in OnPage(pages[p], p)
  BY <1>5, <1>8 DEF B, OnPage
<1>10. \A s : B(s)[1] = <<p, s>> /\ B(s)[1][2] = s
  BY DEF B
<1>11. RidsDiffer(rows)
  <2>1. ASSUME NEW k \in 1..Len(rows), NEW l \in 1..Len(rows), rows[k][1] = rows[l][1] PROVE k = l
    <3>1. f[k] = f[l]
      BY <1>8, <1>10, <2>1
    <3>. QED  BY <1>7, <3>1 DEF Picks
  <2>. QED  BY <2>1 DEF RidsDiffer
<1>. QED  BY <1>6, <1>9, <1>11
-----------------------------------------------------------------------------
(* The trees. *)

LEMMA RemovedFacts ==
    ASSUME NEW s \in Seq(Entry), Injective(s), NEW e, NEW r, r = Removed(s, e)
    PROVE  r \in Seq(Entry) /\ Injective(r) /\ Elements(r) = Elements(s) \ {e}
<1> DEFINE S == {i \in DOMAIN s : s[i] # e}
<1>1. Len(s) \in Nat /\ DOMAIN s = 1..Len(s)
  BY SeqFacts
<1>2. r = Keep(s, S)
  BY DEF Removed
<1>3. \A i \in 1..Len(s) : i \in S <=> s[i] # e
  BY <1>1
<1> HIDE DEF S
<1>4. r \in Seq(Entry) /\ \E f : Picks(r, s, Len(s), S, f)
  BY <1>2, KeepFacts
<1>5. PICK f : Picks(r, s, Len(s), S, f)
  BY <1>4
<1>6. DOMAIN r = 1..Len(r)
  BY <1>4, SeqFacts
<1>7. Injective(r)
  BY <1>1, <1>5, <1>6 DEF Picks, Injective
<1>8. Elements(r) = Elements(s) \ {e}
  <2>1. ASSUME NEW i \in 1..Len(r) PROVE r[i] \in Elements(s) \ {e}
    <3>1. f[i] \in 1..Len(s) /\ r[i] = s[f[i]] /\ s[f[i]] # e
      BY <1>3, <1>5 DEF Picks
    <3>. QED  BY <1>1, <3>1 DEF Elements
  <2>2. ASSUME NEW i \in 1..Len(s), s[i] # e PROVE s[i] \in Elements(r)
    <3>1. PICK k \in 1..Len(r) : f[k] = i
      BY <1>3, <1>5, <2>2 DEF Picks
    <3>2. r[k] = s[i]
      BY <1>5, <3>1 DEF Picks
    <3>. QED  BY <1>6, <3>2 DEF Elements
  <2>3. Elements(r) = {r[i] : i \in 1..Len(r)} /\ Elements(s) = {s[i] : i \in 1..Len(s)}
    BY <1>1, <1>6 DEF Elements
  <2>. QED  BY <2>1, <2>2, <2>3
<1>. QED  BY <1>4, <1>7, <1>8

LEMMA AppendedFacts ==
    ASSUME NEW s \in Seq(Entry), Injective(s), NEW e \in Entry, e \notin Elements(s), NEW r, r = Append(s, e)
    PROVE  r \in Seq(Entry) /\ Injective(r) /\ Elements(r) = Elements(s) \cup {e}
<1>1. Len(s) \in Nat /\ DOMAIN s = 1..Len(s)
  BY SeqFacts
<1>2. /\ r \in Seq(Entry) /\ Len(r) = Len(s) + 1 /\ r[Len(s) + 1] = e /\ \A i \in 1..Len(s) : r[i] = s[i]
  BY AppendProperties
<1>3. DOMAIN r = 1..Len(s) + 1
  BY <1>2, SeqFacts
<1>4. \A i \in 1..Len(s) + 1 : i \in 1..Len(s) \/ i = Len(s) + 1
  BY <1>1
<1>5. \A i \in 1..Len(s) : s[i] # e
  BY <1>1 DEF Elements
<1>6. Injective(r)
  BY <1>1, <1>2, <1>3, <1>4, <1>5 DEF Injective
<1>. QED  BY <1>2, <1>6, ElementsAppended

\* A search returns the places listed under the key, each once.
LEMMA SearchFacts ==
    ASSUME NEW s \in Seq(Entry), Injective(s), NEW key, NEW rids, rids = Search(s, key)
    PROVE  /\ rids \in Seq(Rid) /\ \A k, l \in 1..Len(rids) : k # l => rids[k] # rids[l]
           /\ \A k \in 1..Len(rids) : <<key, rids[k]>> \in Elements(s)
<1> DEFINE S == {i \in DOMAIN s : s[i][1] = key}
           h == Keep(s, S)
<1>1. Len(s) \in Nat /\ DOMAIN s = 1..Len(s) /\ \A i \in 1..Len(s) : s[i] \in Entry
  BY SeqFacts
<1>2. \A i \in 1..Len(s) : i \in S => s[i][1] = key
  BY <1>1
<1>3. rids = [i \in DOMAIN h |-> h[i][2]]
  BY DEF Search
<1> HIDE DEF S
<1>4. h \in Seq(Entry) /\ \E f : Picks(h, s, Len(s), S, f)
  BY KeepFacts
<1>5. PICK f : Picks(h, s, Len(s), S, f)
  BY <1>4
<1> HIDE DEF h
<1>6. Len(h) \in Nat /\ DOMAIN h = 1..Len(h) /\ \A i \in 1..Len(h) : h[i] \in Entry
  BY <1>4, SeqFacts
<1>7. \A i \in 1..Len(h) : h[i][2] \in Rid /\ h[i] = <<h[i][1], h[i][2]>>
  BY <1>6 DEF Entry
<1>8. rids \in Seq(Rid) /\ Len(rids) = Len(h) /\ \A i \in 1..Len(h) : rids[i] = h[i][2]
  <2>1. rids \in [1..Len(h) -> Rid]
    BY <1>3, <1>6, <1>7
  <2>. QED  BY <1>3, <1>6, <2>1
<1>9. \A i \in 1..Len(h) : f[i] \in 1..Len(s) /\ h[i] = s[f[i]] /\ h[i][1] = key
  BY <1>2, <1>5 DEF Picks
<1>10. \A i \in 1..Len(h) : <<key, rids[i]>> = s[f[i]]
  BY <1>7, <1>8, <1>9
<1>11. ASSUME NEW k \in 1..Len(h), NEW l \in 1..Len(h), rids[k] = rids[l] PROVE k = l
  <2>1. s[f[k]] = s[f[l]] /\ f[k] \in DOMAIN s /\ f[l] \in DOMAIN s
    BY <1>1, <1>9, <1>10, <1>11
  <2>2. f[k] = f[l]
    BY <2>1 DEF Injective
  <2>. QED  BY <1>5, <2>2 DEF Picks
<1>12. \A k \in 1..Len(h) : <<key, rids[k]>> \in Elements(s)
  BY <1>1, <1>9, <1>10 DEF Elements
<1>. QED  BY <1>8, <1>11, <1>12

LEMMA HitsFacts ==
    ASSUME NEW s \in Seq(Entry), NEW key
    PROVE  Hits(s, key) \in SUBSET Rid /\ \A rid : <<key, rid>> \in Elements(s) => rid \in Hits(s, key)
<1>1. Len(s) \in Nat /\ DOMAIN s = 1..Len(s) /\ \A i \in 1..Len(s) : s[i] \in Entry
  BY SeqFacts
<1>2. \A i \in 1..Len(s) : s[i][2] \in Rid
  BY <1>1 DEF Entry
<1>3. ASSUME NEW rid, <<key, rid>> \in Elements(s) PROVE rid \in Hits(s, key)
  <2>1. PICK i \in DOMAIN s : <<key, rid>> = s[i]
    BY <1>3 DEF Elements
  <2>2. s[i][1] = key /\ s[i][2] = rid
    BY <2>1
  <2>. QED  BY <2>2 DEF Hits
<1>. QED  BY <1>1, <1>2, <1>3 DEF Hits
-----------------------------------------------------------------------------
(* The locks. *)

\* The two instances of LockManager are one.
LEMMA SameLocks ==
    /\ LM!Next <=> LP!Next
    /\ LM!Init <=> LP!Init
    /\ LM!TypeOK <=> LP!TypeOK
  BY DEF LM!Next, LP!Next, LM!Init, LP!Init, LM!TypeOK, LP!TypeOK, LM!AcquireLock, LP!AcquireLock,
     LM!Recheck, LP!Recheck, LM!SpuriousWakeup, LP!SpuriousWakeup, LM!ReleaseAll, LP!ReleaseAll,
     LM!Quiescent, LP!Quiescent, LM!LoopBody, LP!LoopBody, LM!GrantHeld, LP!GrantHeld,
     LM!Grant, LP!Grant, LM!Wait, LP!Wait, LM!Die, LP!Die, LM!Blocked, LP!Blocked,
     LM!Return, LP!Return, LM!Granted, LP!Granted, LM!Without, LP!Without,
     LM!AlreadyHolds, LP!AlreadyHolds, LM!ConflictsWithOthers, LP!ConflictsWithOthers,
     LM!MayWait, LP!MayWait, LM!OtherHolders, LP!OtherHolders, LM!Holders, LP!Holders,
     LM!HasAnyLock, LP!HasAnyLock, LM!NotifyAll, LP!NotifyAll, LM!Absent, LP!Absent,
     LM!NoRequest, LP!NoRequest, LM!Request, LP!Request, LM!LockEntry, LP!LockEntry,
     LM!LockMode, LP!LockMode, LM!Status, LP!Status, LM!kShared, LP!kShared,
     LM!kExclusive, LP!kExclusive, LM!lmvars, LP!lmvars

\* The values of the lock table.
LEMMA LocksTyped ==
    ASSUME LP!IInv
    PROVE  /\ locks \in [PageKey -> LM!LockEntry] /\ held_by_txn \in [Txn -> SUBSET PageKey]
           /\ status \in [Txn -> {"running", "asleep", "awake", "dying", "done"}]
           /\ \A t \in Txn : status[t] \in {"asleep", "awake"} =>
                 request[t].page \in PageKey /\ request[t].mode \in LM!LockMode
<1>1. LM!TypeOK
  BY SameLocks DEF LP!IInv
<1>. QED  BY <1>1 DEF LM!TypeOK, LM!Status, LM!Request

\* Who holds a page exclusively holds it alone.
LEMMA Exclusion ==
    ASSUME LP!IInv, NEW t \in Txn, NEW p \in PageKey
    PROVE  /\ locks[p].exclusive_holder = t => p \in held_by_txn[t]
           /\ \A u \in Txn : (p \in held_by_txn[u] /\ locks[p].exclusive_holder = t) => u = t
           /\ \A m \in LM!LockMode : LM!AlreadyHolds(locks[p], t, m) => p \in held_by_txn[t]
           /\ LM!AlreadyHolds(locks[p], t, LM!kExclusive) => locks[p].exclusive_holder = t
<1>1. /\ locks[p].exclusive_holder # NoTxn => locks[p].shared_holders = {}
      /\ \A u \in Txn : p \in held_by_txn[u] <=> u \in LP!Holders(locks[p])
  BY DEF LP!IInv, LP!MutualExclusion, LP!TablesAgree
<1>2. t # NoTxn
  BY Constants
<1>. QED  BY <1>1, <1>2 DEF LP!Holders, LM!AlreadyHolds, LM!kShared, LM!kExclusive, LM!LockMode

\* A step of the lock table keeps its invariant, and every lock but those of
\* the transaction it ends.
LEMMA LockTableStep ==
    ASSUME LP!IInv, LM!Next \/ UNCHANGED lmvars
    PROVE  /\ LP!IInv'
           /\ \A t \in Txn, p \in PageKey :
                 locks[p].exclusive_holder = t /\ status'[t] # "done" => locks'[p].exclusive_holder = t
<1>1. [LP!Next]_(LP!lmvars)
  BY SameLocks DEF lmvars, LP!lmvars
<1>2. LP!IInv'
  BY <1>1, Constants, LP!InvInductive
<1>3. ASSUME NEW t \in Txn, NEW p \in PageKey, locks[p].exclusive_holder = t, status'[t] # "done"
      PROVE  locks'[p].exclusive_holder = t
  BY <1>1, <1>2, <1>3, Constants, LP!LocksKept
<1>. QED  BY <1>2, <1>3

\* One pass through the loop of AcquireLock ends nobody and releases nothing.
LEMMA PassThroughLoop ==
    ASSUME LP!IInv, NEW t \in Txn, NEW p \in PageKey, NEW m \in LM!LockMode, status[t] # "done", LM!LoopBody(t, p, m)
    PROVE  \A u \in Txn : /\ held_by_txn[u] \subseteq held_by_txn'[u]
                          /\ status'[u] = "done" <=> status[u] = "done"
<1>1. /\ status \in [Txn -> {"running", "asleep", "awake", "dying", "done"}]
      /\ held_by_txn \in [Txn -> SUBSET PageKey]
  BY LocksTyped
<1>2. CASE LM!GrantHeld(t, p, m)
  BY <1>1, <1>2 DEF LM!GrantHeld, LM!Return
<1>3. CASE LM!Grant(t, p, m)
  BY <1>1, <1>3 DEF LM!Grant, LM!Return
<1>4. CASE LM!Wait(t, p, m)
  BY <1>1, <1>4 DEF LM!Wait, LM!Blocked
<1>5. CASE LM!Die(t, p, m)
  BY <1>1, <1>5 DEF LM!Die, LM!Blocked
<1>. QED  BY <1>2, <1>3, <1>4, <1>5 DEF LM!LoopBody

\* The end of a transaction.
LEMMA Releasing ==
    ASSUME LP!IInv, NEW t \in Txn, LM!ReleaseAll(t)
    PROVE  /\ status'[t] = "done" /\ status[t] # "done" /\ LM!Next
           /\ \A u \in Txn \ {t} : /\ held_by_txn'[u] = held_by_txn[u]
                                   /\ status'[u] = "done" <=> status[u] = "done"
<1>1. /\ status \in [Txn -> {"running", "asleep", "awake", "dying", "done"}]
      /\ held_by_txn \in [Txn -> SUBSET PageKey]
  BY LocksTyped
<1>2. LM!Next /\ status[t] # "done"
  BY DEF LM!Next, LM!ReleaseAll
<1>3. CASE LM!HasAnyLock(t)
  BY <1>1, <1>2, <1>3 DEF LM!ReleaseAll, LM!NotifyAll
<1>4. CASE ~LM!HasAnyLock(t)
  BY <1>1, <1>2, <1>4 DEF LM!ReleaseAll, LM!HasAnyLock
<1>. QED  BY <1>3, <1>4
-----------------------------------------------------------------------------
(* What a transaction sees. *)

LEMMA SeenFacts ==
    ASSUME NEW h \in Seq(Page), NEW f \in Seq(Page), Len(f) = Len(h), NEW d
    PROVE  /\ Seen(h, f, d) \in Seq(Page) /\ Len(Seen(h, f, d)) = Len(h)
           /\ DOMAIN h = 1..Len(h) /\ DOMAIN f = 1..Len(h) /\ Len(h) \in Nat
           /\ \A p \in 1..Len(h) : /\ h[p] \in Page /\ f[p] \in Page
                                   /\ HeapPage(p) \in d => Seen(h, f, d)[p] = h[p]
                                   /\ HeapPage(p) \notin d => Seen(h, f, d)[p] = f[p]
<1> DEFINE s == Seen(h, f, d)
<1>1. /\ Len(h) \in Nat /\ DOMAIN h = 1..Len(h) /\ DOMAIN f = 1..Len(h)
      /\ \A p \in 1..Len(h) : h[p] \in Page /\ f[p] \in Page
  BY SeqFacts
<1>2. s = [p \in 1..Len(h) |-> IF HeapPage(p) \in d THEN h[p] ELSE f[p]]
  BY <1>1 DEF Seen
<1>3. s \in [1..Len(h) -> Page]
  BY <1>1, <1>2
<1>4. s \in Seq(Page) /\ Len(s) = Len(h)
  BY <1>1, <1>3
<1>. QED  BY <1>1, <1>2, <1>4

\* The view of a transaction that changes a page it sees as it is cached.
LEMMA SeenWrite ==
    ASSUME NEW h \in Seq(Page), NEW h2 \in Seq(Page), NEW f \in Seq(Page), Len(f) = Len(h), Len(h) <= MaxPages,
           NEW p \in 1..Len(h), SameBut(h, h2, p), NEW d, NEW d2, d2 = d \cup {HeapPage(p)},
           Seen(h, f, d)[p] = h[p], NEW A, NEW B, Changes(h[p], h2[p], p, A, B)
    PROVE  Content(Seen(h2, f, d2)) = After(Content(Seen(h, f, d)), A, B)
<1> DEFINE v  == Seen(h, f, d)
           v2 == Seen(h2, f, d2)
<1>0. Len(h2) = Len(h) /\ \A q \in 1..Len(h) : q # p => h2[q] = h[q]
  BY DEF SameBut
<1>1. v \in Seq(Page) /\ Len(v) = Len(h) /\ v2 \in Seq(Page) /\ Len(v2) = Len(h)
  BY <1>0, SeenFacts
<1>2. v2[p] = h2[p]
  BY <1>0, SeenFacts
<1>3. ASSUME NEW q \in 1..Len(h), q # p PROVE v2[q] = v[q]
  <2>1. HeapPage(q) \in d2 <=> HeapPage(q) \in d
    BY <1>3, PageKeyFacts
  <2>2. h2[q] = h[q]
    BY <1>0, <1>3
  <2>3. CASE HeapPage(q) \in d
    <3>1. v[q] = h[q]
      BY <2>3, SeenFacts
    <3>2. v2[q] = h2[q]
      BY <1>0, <2>1, <2>3, SeenFacts
    <3>. QED  BY <2>2, <3>1, <3>2
  <2>4. CASE HeapPage(q) \notin d
    <3>1. v[q] = f[q]
      BY <2>4, SeenFacts
    <3>2. v2[q] = f[q]
      BY <1>0, <2>1, <2>4, SeenFacts
    <3>. QED  BY <3>1, <3>2
  <2>. QED  BY <2>3, <2>4
<1>4. v[p] = h[p]
  OBVIOUS
<1> HIDE DEF v, v2
<1>5. SameBut(v, v2, p) /\ p \in 1..Len(v) /\ Len(v) <= MaxPages
  BY <1>1, <1>3 DEF SameBut
<1>6. Changes(v[p], v2[p], p, A, B)
  BY <1>2, <1>4
<1>7. Content(v2) = After(Content(v), A, B)
  BY <1>1, <1>5, <1>6, ContentChange
<1>. QED  BY <1>7 DEF v, v2

\* Nobody else has changed a page that a transaction holds a lock on.
LEMMA OthersKeepOff ==
    ASSUME LP!IInv, WritersHoldLocks, NEW t \in Txn, NEW p \in PageKey, p \in held_by_txn[t],
           NEW u \in Txn, Active(u), u # t, dirtied \in [Txn -> SUBSET PageKey]
    PROVE  p \notin dirtied[u]
  BY Exclusion DEF WritersHoldLocks

LEMMA DirtyHeld ==
    ASSUME LP!IInv, WritersHoldLocks, NEW t \in Txn, Active(t), dirtied \in [Txn -> SUBSET PageKey]
    PROVE  dirtied[t] \subseteq held_by_txn[t]
<1>1. \A p \in dirtied[t] : p \in PageKey /\ locks[p].exclusive_holder = t
  BY DEF WritersHoldLocks
<1>. QED  BY <1>1, Exclusion

\* A transaction that holds a lock on a page sees the page as it is cached.
LEMMA SeesPage ==
    ASSUME ExecInv, NEW t \in Txn, Active(t), NEW p \in 1..Len(heap), HeapPage(p) \in held_by_txn[t]
    PROVE  View(t)[p] = heap[p] /\ p \in 1..MaxPages /\ heap[p] \in Page
<1>1. heap \in Seq(Page) /\ heap_file \in Seq(Page) /\ Len(heap_file) = Len(heap) /\ Len(heap) <= MaxPages
  BY DEF ExecInv, Typed
<1>2. p \in 1..MaxPages /\ heap[p] \in Page /\ HeapPage(p) \in PageKey
  BY <1>1, ContentFacts, PageKeyFacts
<1>3. CASE HeapPage(p) \in dirtied[t]
  BY <1>1, <1>2, <1>3, SeenFacts DEF View
<1>4. CASE HeapPage(p) \notin dirtied[t]
  <2>1. \A u \in Txn : Active(u) => HeapPage(p) \notin dirtied[u]
    BY <1>2, <1>4, OthersKeepOff DEF ExecInv, Typed
  <2>2. heap[p] = heap_file[p]
    BY <2>1 DEF ExecInv, CleanPages
  <2>. QED  BY <1>1, <1>2, <1>4, <2>2, SeenFacts DEF View
<1>. QED  BY <1>3, <1>4

\* A transaction that holds a lock on a tree finds the rows it sees in it, up
\* to the row at hand.
LEMMA SeesTree ==
    ASSUME ExecInv, NEW t \in Txn, Active(t), NEW j \in 1..N, IndexRoot(j) \in held_by_txn[t]
    PROVE  /\ Elements(tree[Indexes[j].name]) = Entries(j, Content(View(t)) \ Lag(call[t], j))
           /\ tree[Indexes[j].name] \in Seq(Entry) /\ Injective(tree[Indexes[j].name])
<1>1. Indexes[j].name \in IndexId /\ IndexRoot(j) \in PageKey /\ IndexRoot(j) = Root(Indexes[j].name)
  BY IndexIdFacts, PageKeyFacts DEF IndexRoot
<1>2. tree[Indexes[j].name] \in Seq(Entry) /\ Injective(tree[Indexes[j].name])
  BY <1>1 DEF ExecInv, Typed, FilesOK
<1>3. TreesOK(call[t], dirtied[t], Content(View(t)), Content(heap_file), tree)
  BY DEF ExecInv, TxnsOK, TxnOK
<1>4. CASE IndexRoot(j) \in dirtied[t]
  BY <1>2, <1>3, <1>4 DEF TreesOK
<1>5. CASE IndexRoot(j) \notin dirtied[t]
  <2>0. LP!IInv /\ WritersHoldLocks /\ dirtied \in [Txn -> SUBSET PageKey]
    BY DEF ExecInv, Typed
  <2>1. \A u \in Txn : Active(u) => Root(Indexes[j].name) \notin dirtied[u]
    BY <1>1, <1>5, <2>0, OthersKeepOff
  <2>2. tree[Indexes[j].name] = tree_file[Indexes[j].name]
    BY <1>1, <2>1 DEF ExecInv, CleanPages
  <2>3. Elements(tree_file[Indexes[j].name]) = Entries(j, Content(heap_file))
    BY DEF ExecInv, FilesOK
  <2>4. Content(View(t)) \ Lag(call[t], j) = Content(heap_file)
    BY <1>3, <1>5 DEF TreesOK
  <2>. QED  BY <1>2, <2>2, <2>3, <2>4
<1>. QED  BY <1>4, <1>5
-----------------------------------------------------------------------------
(* The steps by what they do to the state. *)

\* What a transaction relies on, in this state.
OK(t) == TxnOK(call[t], dirtied[t], Content(View(t)), Content(heap_file), tree, held_by_txn[t], Len(heap))

\* The parts of the invariant in a state.
LEMMA InvParts ==
    ASSUME ExecInv
    PROVE  /\ Typed /\ LP!IInv /\ WritersHoldLocks /\ CleanPages /\ FilesOK /\ TxnsOK
           /\ heap \in Seq(Page) /\ heap_file \in Seq(Page) /\ Len(heap_file) = Len(heap) /\ Len(heap) <= MaxPages
           /\ Len(heap) \in Nat /\ DOMAIN heap = 1..Len(heap) /\ MaxPages \in Nat
           /\ tree \in [IndexId -> Seq(Entry)] /\ tree_file \in [IndexId -> Seq(Entry)]
           /\ dirtied \in [Txn -> SUBSET PageKey] /\ call \in [Txn -> CallType]
           /\ \A t \in Txn : Active(t) => OK(t)
           /\ \A t \in Txn : Functional(Content(View(t)))
           /\ Pk # <<>> => KeysDiffer(Content(heap_file))
<1>1. /\ heap \in Seq(Page) /\ heap_file \in Seq(Page) /\ Len(heap_file) = Len(heap) /\ Len(heap) <= MaxPages
  BY DEF ExecInv, Typed
<1>2. Len(heap) \in Nat /\ DOMAIN heap = 1..Len(heap)
  BY <1>1, SeqFacts
<1>3. ASSUME NEW t \in Txn PROVE Functional(Content(View(t)))
  <2>1. View(t) \in Seq(Page) /\ Len(View(t)) = Len(heap)
    BY <1>1, SeenFacts DEF View
  <2>. QED  BY <1>1, <2>1, ContentFacts
<1>4. \A t \in Txn : Active(t) => OK(t)
  BY DEF ExecInv, TxnsOK, OK
<1>5. Pk # <<>> => KeysDiffer(Content(heap_file))
  BY DEF ExecInv, FilesOK
<1>. QED  BY <1>1, <1>2, <1>3, <1>4, <1>5, Constants DEF ExecInv, Typed

\* Nothing that a transaction relies on has changed.
Undisturbed(u) ==
    /\ call'[u] = call[u] /\ dirtied'[u] = dirtied[u]
    /\ Content(View(u))' = Content(View(u)) /\ Content(heap_file)' = Content(heap_file)
    /\ held_by_txn[u] \subseteq held_by_txn'[u] /\ Len(heap) <= Len(heap')
    /\ \A j \in 1..N : IndexRoot(j) \in dirtied[u] => tree'[Indexes[j].name] = tree[Indexes[j].name]

LEMMA UndisturbedOK ==
    ASSUME ExecInv, NEW u \in Txn, Active(u), Undisturbed(u), Len(heap') \in Nat
    PROVE  OK(u)'
<1> DEFINE c == call[u]
           d == dirtied[u]
           V == Content(View(u))
           F == Content(heap_file)
           H == held_by_txn[u]
<1>1. TxnOK(c, d, V, F, tree, H, Len(heap)) /\ c \in CallType /\ (Pk # <<>> => KeysDiffer(F)) /\ Len(heap) \in Nat
  BY InvParts DEF OK
<1>2. d \subseteq H
  BY InvParts, DirtyHeld
<1>3. OK(u)' <=> TxnOK(c, d, V, F, tree', held_by_txn'[u], Len(heap'))
  BY DEF OK, Undisturbed
<1>4. H \subseteq held_by_txn'[u] /\ Len(heap) <= Len(heap')
  BY DEF Undisturbed
<1>5. \A j \in 1..N : IndexRoot(j) \in d => tree'[Indexes[j].name] = tree[Indexes[j].name]
  BY DEF Undisturbed
<1> HIDE DEF c, d, V, F, H
<1>6. TxnOK(c, d, V, F, tree', held_by_txn'[u], Len(heap'))
  BY <1>1, <1>2, <1>4, <1>5, Frame
<1>. QED  BY <1>3, <1>6

\* A step in which only the call of t changes.
CallStep(t, c2) == call' = [call EXCEPT ![t] = c2] /\ UNCHANGED <<lmvars, dbvars>>

LEMMA CallStepOK ==
    ASSUME ExecInv, NEW t \in Txn, NEW c2 \in CallType, CallStep(t, c2),
           Active(t) => TxnOK(c2, dirtied[t], Content(View(t)), Content(heap_file), tree, held_by_txn[t], Len(heap))
    PROVE  ExecInv'
<1>1. /\ call' = [call EXCEPT ![t] = c2] /\ locks' = locks /\ held_by_txn' = held_by_txn /\ status' = status
      /\ request' = request /\ heap' = heap /\ heap_file' = heap_file /\ tree' = tree /\ tree_file' = tree_file
      /\ dirtied' = dirtied
  BY DEF CallStep, lmvars, dbvars
<1>2. Typed'
  BY <1>1, InvParts DEF Typed
<1>3. LP!IInv'
  BY <1>1, InvParts, LockTableStep DEF lmvars
<1>4. WritersHoldLocks' /\ CleanPages' /\ FilesOK'
  BY <1>1 DEF ExecInv, WritersHoldLocks, CleanPages, FilesOK, Active
<1>5. ASSUME NEW u \in Txn, Active(u)' PROVE OK(u)'
  <2>1. Active(u) /\ View(u)' = View(u)
    BY <1>1, <1>5 DEF Active, View
  <2>2. CASE u = t
    <3>1. call'[u] = c2
      BY <1>1, <2>2, InvParts
    <3>. QED  BY <1>1, <2>1, <2>2, <3>1 DEF OK
  <2>3. CASE u # t
    <3>1. call'[u] = call[u]
      BY <1>1, <2>3, InvParts
    <3>2. OK(u)
      BY <2>1, InvParts
    <3>. QED  BY <1>1, <2>1, <3>1, <3>2 DEF OK
  <2>. QED  BY <2>2, <2>3
<1>6. TxnsOK'
  BY <1>5 DEF TxnsOK, OK
<1>. QED  BY <1>2, <1>3, <1>4, <1>6 DEF ExecInv

\* A step inside AcquireLock.
LEMMA LockStepOK ==
    ASSUME ExecInv, NEW t \in Txn, NEW p \in PageKey, NEW m \in LM!LockMode, status[t] # "done", LM!LoopBody(t, p, m),
           LM!Next, UNCHANGED dbvars, call' = call
    PROVE  ExecInv'
<1>1. /\ heap' = heap /\ heap_file' = heap_file /\ tree' = tree /\ tree_file' = tree_file /\ dirtied' = dirtied
  BY DEF dbvars
<1>2. \A u \in Txn : /\ held_by_txn[u] \subseteq held_by_txn'[u]
                     /\ Active(u)' <=> Active(u)
  BY InvParts, PassThroughLoop DEF Active
<1>3. Typed'
  BY <1>1, InvParts DEF Typed
<1>4. /\ LP!IInv'
      /\ \A u \in Txn, q \in PageKey :
            locks[q].exclusive_holder = u /\ status'[u] # "done" => locks'[q].exclusive_holder = u
  BY InvParts, LockTableStep
<1>5. WritersHoldLocks'
  <2>1. ASSUME NEW u \in Txn, Active(u)', NEW q \in dirtied'[u] PROVE locks'[q].exclusive_holder = u
    <3>1. Active(u) /\ q \in dirtied[u] /\ q \in PageKey /\ status'[u] # "done"
      BY <1>1, <1>2, <2>1, InvParts DEF Active
    <3>2. locks[q].exclusive_holder = u
      BY <3>1, InvParts DEF WritersHoldLocks
    <3>. QED  BY <1>4, <3>1, <3>2
  <2>. QED  BY <2>1 DEF WritersHoldLocks
<1>6. CleanPages' /\ FilesOK'
  BY <1>1, <1>2, InvParts DEF CleanPages, FilesOK
<1>7. ASSUME NEW u \in Txn, Active(u)' PROVE OK(u)'
  <2>1. Active(u) /\ View(u)' = View(u)
    BY <1>1, <1>2, <1>7 DEF View
  <2>2. Undisturbed(u) /\ Len(heap') \in Nat
    BY <1>1, <1>2, <2>1, InvParts DEF Undisturbed
  <2>. QED  BY <2>1, <2>2, UndisturbedOK
<1>8. TxnsOK'
  BY <1>7 DEF TxnsOK, OK
<1>. QED  BY <1>3, <1>4, <1>5, <1>6, <1>8 DEF ExecInv

\* A change of the tree of index j.
TreeStep(t, j, new, c2) ==
    /\ tree' = [tree EXCEPT ![Indexes[j].name] = new]
    /\ dirtied' = [dirtied EXCEPT ![t] = @ \cup {IndexRoot(j)}]
    /\ call' = [call EXCEPT ![t] = c2]
    /\ UNCHANGED <<lmvars, heap, heap_file, tree_file>>

LEMMA TreeStepOK ==
    ASSUME ExecInv, NEW t \in Txn, NEW j \in 1..N, NEW new \in Seq(Entry), Injective(new), NEW c2 \in CallType,
           TreeStep(t, j, new, c2), locks[IndexRoot(j)].exclusive_holder = t,
           TxnOK(c2, dirtied[t] \cup {IndexRoot(j)}, Content(View(t)), Content(heap_file), tree', held_by_txn[t], Len(heap))
    PROVE  ExecInv'
<1> DEFINE i == Indexes[j].name
<1>0. i \in IndexId /\ IndexRoot(j) = Root(i) /\ IndexRoot(j) \in PageKey
  BY IndexIdFacts, PageKeyFacts DEF IndexRoot
<1>1. /\ tree' = [tree EXCEPT ![i] = new] /\ call' = [call EXCEPT ![t] = c2]
      /\ locks' = locks /\ held_by_txn' = held_by_txn /\ status' = status
      /\ request' = request /\ heap' = heap /\ heap_file' = heap_file /\ tree_file' = tree_file
  BY DEF TreeStep, lmvars
<1>2. /\ dirtied' = [dirtied EXCEPT ![t] = @ \cup {IndexRoot(j)}]
      /\ dirtied' \in [Txn -> SUBSET PageKey] /\ dirtied'[t] = dirtied[t] \cup {IndexRoot(j)}
      /\ \A u \in Txn \ {t} : dirtied'[u] = dirtied[u]
  BY <1>0, InvParts DEF TreeStep
<1>3. tree' \in [IndexId -> Seq(Entry)] /\ tree'[i] = new /\ \A k \in IndexId : k # i => tree'[k] = tree[k]
  BY <1>0, <1>1, InvParts
<1>4. call' \in [Txn -> CallType] /\ call'[t] = c2 /\ \A u \in Txn \ {t} : call'[u] = call[u]
  BY <1>1, InvParts
<1> HIDE DEF i
<1>5. Typed'
  BY <1>1, <1>2, <1>3, <1>4, InvParts DEF Typed
<1>6. LP!IInv'
  BY <1>1, InvParts, LockTableStep DEF lmvars
<1>7. \A u \in Txn : Active(u)' <=> Active(u)
  BY <1>1 DEF Active
<1>8. WritersHoldLocks'
  <2>1. ASSUME NEW u \in Txn, Active(u), NEW q \in dirtied'[u] PROVE locks[q].exclusive_holder = u
    <3>1. q \in dirtied[u] => locks[q].exclusive_holder = u
      BY <2>1, InvParts DEF WritersHoldLocks
    <3>. QED  BY <1>2, <2>1, <3>1
  <2>. QED  BY <1>1, <1>7, <2>1 DEF WritersHoldLocks
<1>9. \A u \in Txn : Active(u) /\ u # t => IndexRoot(j) \notin dirtied[u]
  <2>1. IndexRoot(j) \in held_by_txn[t]
    BY <1>0, InvParts, Exclusion
  <2>. QED  BY <1>0, <2>1, InvParts, OthersKeepOff
<1>10. Active(t)
  <2>1. IndexRoot(j) \in held_by_txn[t]
    BY <1>0, InvParts, Exclusion
  <2>2. status[t] = "done" => held_by_txn[t] = {}
    BY InvParts DEF LP!IInv, LP!TablesAgree
  <2>. QED  BY <2>1, <2>2 DEF Active
<1>11. CleanPages'
  <2>1. ASSUME NEW k \in IndexId, \A u \in Txn : Active(u) => Root(k) \notin dirtied'[u] PROVE tree'[k] = tree_file[k]
    <3>1. k # i
      BY <1>0, <1>2, <1>10, <2>1
    <3>2. \A u \in Txn : Active(u) => Root(k) \notin dirtied[u]
      BY <1>2, <2>1
    <3>. QED  BY <1>3, <3>1, <3>2, InvParts DEF CleanPages
  <2>2. ASSUME NEW p \in 1..Len(heap), \A u \in Txn : Active(u) => HeapPage(p) \notin dirtied'[u] PROVE heap[p] = heap_file[p]
    <3>1. \A u \in Txn : Active(u) => HeapPage(p) \notin dirtied[u]
      BY <1>2, <2>2
    <3>. QED  BY <3>1, InvParts DEF CleanPages
  <2>. QED  BY <1>1, <1>7, <2>1, <2>2 DEF CleanPages
<1>12. FilesOK'
  <2>1. \A k \in IndexId : Injective(tree'[k])
    BY <1>3, InvParts DEF FilesOK
  <2>. QED  BY <1>1, <2>1, InvParts DEF FilesOK
<1>13. ASSUME NEW u \in Txn, Active(u)' PROVE OK(u)'
  <2>1. CASE u = t
    <3>1. Content(View(u))' = Content(View(u))
      <4>1. \A p : HeapPage(p) \in dirtied'[u] <=> HeapPage(p) \in dirtied[u]
        BY <1>0, <1>2, <2>1, PageKeyFacts
      <4>. QED  BY <1>1, <4>1 DEF View, Seen
    <3>. QED  BY <1>1, <1>2, <1>4, <2>1, <3>1 DEF OK
  <2>2. CASE u # t
    <3>1. View(u)' = View(u)
      BY <1>1, <1>2, <2>2 DEF View
    <3>2. ASSUME NEW k \in 1..N, IndexRoot(k) \in dirtied[u] PROVE tree'[Indexes[k].name] = tree[Indexes[k].name]
      <4>1. Indexes[k].name # i
        BY <1>0, <1>7, <1>9, <1>13, <2>2, <3>2 DEF IndexRoot
      <4>. QED  BY <1>3, <4>1, IndexIdFacts
    <3>3. Undisturbed(u) /\ Len(heap') \in Nat
      BY <1>1, <1>2, <1>4, <2>2, <3>1, <3>2, InvParts DEF Undisturbed
    <3>. QED  BY <1>7, <1>13, <3>3, UndisturbedOK
  <2>. QED  BY <2>1, <2>2
<1>14. TxnsOK'
  BY <1>13 DEF TxnsOK, OK
<1>. QED  BY <1>5, <1>6, <1>8, <1>11, <1>12, <1>14 DEF ExecInv

\* A change of page p of the heap file.
PageStep(t, p, new, c2) ==
    /\ heap' = [heap EXCEPT ![p] = new]
    /\ dirtied' = [dirtied EXCEPT ![t] = @ \cup {HeapPage(p)}]
    /\ call' = [call EXCEPT ![t] = c2]
    /\ UNCHANGED <<lmvars, heap_file, tree, tree_file>>

LEMMA PageStepOK ==
    ASSUME ExecInv, NEW t \in Txn, NEW p \in 1..Len(heap), NEW new \in Page, NEW c2 \in CallType,
           PageStep(t, p, new, c2), locks[HeapPage(p)].exclusive_holder = t, NEW A, NEW B,
           Changes(heap[p], new, p, A, B),
           TxnOK(c2, dirtied[t] \cup {HeapPage(p)}, After(Content(View(t)), A, B), Content(heap_file), tree,
                 held_by_txn[t], Len(heap))
    PROVE  ExecInv'
<1>0. p \in 1..MaxPages /\ HeapPage(p) \in PageKey
  BY InvParts, ContentFacts, PageKeyFacts
<1>1. /\ heap' = [heap EXCEPT ![p] = new] /\ call' = [call EXCEPT ![t] = c2]
      /\ locks' = locks /\ held_by_txn' = held_by_txn /\ status' = status
      /\ request' = request /\ tree' = tree /\ heap_file' = heap_file /\ tree_file' = tree_file
  BY DEF PageStep, lmvars
<1>2. /\ dirtied' = [dirtied EXCEPT ![t] = @ \cup {HeapPage(p)}]
      /\ dirtied' \in [Txn -> SUBSET PageKey] /\ dirtied'[t] = dirtied[t] \cup {HeapPage(p)}
      /\ \A u \in Txn \ {t} : dirtied'[u] = dirtied[u]
  BY <1>0, InvParts DEF PageStep
<1>3. heap' \in Seq(Page) /\ Len(heap') = Len(heap) /\ heap'[p] = new /\ \A q \in 1..Len(heap) : q # p => heap'[q] = heap[q]
  <2>1. heap \in [1..Len(heap) -> Page] /\ Len(heap) \in Nat
    BY InvParts, SeqFacts
  <2>2. heap' \in [1..Len(heap) -> Page]
    BY <1>1, <2>1
  <2>3. heap' \in Seq(Page) /\ Len(heap') = Len(heap)
    BY <2>1, <2>2
  <2>. QED  BY <1>1, <2>1, <2>3
<1>4. call' \in [Txn -> CallType] /\ call'[t] = c2 /\ \A u \in Txn \ {t} : call'[u] = call[u]
  BY <1>1, InvParts
<1>5. Typed'
  BY <1>1, <1>2, <1>3, <1>4, InvParts DEF Typed
<1>6. LP!IInv'
  BY <1>1, InvParts, LockTableStep DEF lmvars
<1>7. \A u \in Txn : Active(u)' <=> Active(u)
  BY <1>1 DEF Active
<1>8. WritersHoldLocks'
  <2>1. ASSUME NEW u \in Txn, Active(u), NEW q \in dirtied'[u] PROVE locks[q].exclusive_holder = u
    <3>1. q \in dirtied[u] => locks[q].exclusive_holder = u
      BY <2>1, InvParts DEF WritersHoldLocks
    <3>. QED  BY <1>2, <2>1, <3>1
  <2>. QED  BY <1>1, <1>7, <2>1 DEF WritersHoldLocks
<1>9. HeapPage(p) \in held_by_txn[t]
  BY <1>0, InvParts, Exclusion
<1>10. \A u \in Txn : Active(u) /\ u # t => HeapPage(p) \notin dirtied[u]
  BY <1>0, <1>9, InvParts, OthersKeepOff
<1>11. Active(t)
  <2>2. status[t] = "done" => held_by_txn[t] = {}
    BY InvParts DEF LP!IInv, LP!TablesAgree
  <2>. QED  BY <1>9, <2>2 DEF Active
<1>12. CleanPages'
  <2>1. ASSUME NEW k \in IndexId, \A u \in Txn : Active(u) => Root(k) \notin dirtied'[u] PROVE tree[k] = tree_file[k]
    <3>2. \A u \in Txn : Active(u) => Root(k) \notin dirtied[u]
      BY <1>2, <2>1
    <3>. QED  BY <3>2, InvParts DEF CleanPages
  <2>2. ASSUME NEW q \in 1..Len(heap), \A u \in Txn : Active(u) => HeapPage(q) \notin dirtied'[u] PROVE heap'[q] = heap_file[q]
    <3>1. q # p
      BY <1>2, <1>11, <2>2
    <3>2. \A u \in Txn : Active(u) => HeapPage(q) \notin dirtied[u]
      BY <1>2, <2>2
    <3>. QED  BY <1>3, <3>1, <3>2, InvParts DEF CleanPages
  <2>. QED  BY <1>1, <1>3, <1>7, <2>1, <2>2 DEF CleanPages
<1>13. FilesOK'
  BY <1>1, InvParts DEF FilesOK
<1>14. ASSUME NEW u \in Txn, Active(u)' PROVE OK(u)'
  <2>1. CASE u = t
    <3>1. Seen(heap, heap_file, dirtied[t])[p] = heap[p]
      BY <1>9, <1>11, SeesPage DEF View
    <3>2. Changes(heap[p], heap'[p], p, A, B) /\ SameBut(heap, heap', p)
      BY <1>3 DEF SameBut
    <3>3. /\ heap \in Seq(Page) /\ heap' \in Seq(Page) /\ heap_file \in Seq(Page) /\ Len(heap_file) = Len(heap)
          /\ Len(heap) <= MaxPages /\ dirtied'[t] = dirtied[t] \cup {HeapPage(p)}
      BY <1>2, <1>3, InvParts
    <3>4. Content(Seen(heap', heap_file, dirtied'[t])) = After(Content(Seen(heap, heap_file, dirtied[t])), A, B)
      BY <3>1, <3>2, <3>3, SeenWrite
    <3>5. Content(View(t))' = After(Content(View(t)), A, B)
      BY <1>1, <3>4 DEF View
    <3>. QED  BY <1>1, <1>2, <1>3, <1>4, <2>1, <3>5 DEF OK
  <2>2. CASE u # t
    <3>0. Active(u) /\ HeapPage(p) \notin dirtied[u]
      BY <1>7, <1>10, <1>14, <2>2
    <3>1. View(u)' = View(u)
      <4>1. \A q \in 1..Len(heap) : HeapPage(q) \in dirtied[u] => heap'[q] = heap[q]
        BY <1>3, <3>0
      <4>2. dirtied'[u] = dirtied[u] /\ DOMAIN heap' = 1..Len(heap) /\ DOMAIN heap = 1..Len(heap)
        BY <1>2, <1>3, <2>2, InvParts, SeqFacts
      <4>. QED  BY <1>1, <4>1, <4>2 DEF View, Seen
    <3>3. Undisturbed(u) /\ Len(heap') \in Nat
      BY <1>1, <1>2, <1>3, <1>4, <2>2, <3>1, InvParts DEF Undisturbed
    <3>. QED  BY <3>0, <3>3, UndisturbedOK
  <2>. QED  BY <2>1, <2>2
<1>15. TxnsOK'
  BY <1>14 DEF TxnsOK, OK
<1>. QED  BY <1>5, <1>6, <1>8, <1>12, <1>13, <1>15 DEF ExecInv

\* The view when the file grows by a page: an empty one, if it is another's.
SameOn(n, d, d2) == \A q \in 1..n : HeapPage(q) \in d2 <=> HeapPage(q) \in d

LEMMA SeenGrows ==
    ASSUME NEW h \in Seq(Page), NEW f \in Seq(Page), Len(f) = Len(h), NEW x, NEW y, NEW d, NEW d2,
           NEW h2, Grown(h, h2, x), NEW f2, Grown(f, f2, y), SameOn(Len(h), d, d2), NEW p, p = Len(h) + 1
    PROVE  /\ HeapPage(p) \in d2 => Content(Seen(h2, f2, d2)) = Content(Seen(h, f, d)) \cup OnPage(x, p)
           /\ HeapPage(p) \notin d2 => Content(Seen(h2, f2, d2)) = Content(Seen(h, f, d)) \cup OnPage(y, p)
<1> DEFINE v  == Seen(h, f, d)
           v2 == Seen(h2, f2, d2)
           z == IF HeapPage(p) \in d2 THEN x ELSE y
<1>1. /\ h2 \in Seq(Page) /\ f2 \in Seq(Page) /\ Len(h2) = p /\ Len(f2) = p /\ h2[p] = x /\ f2[p] = y
      /\ \A q \in 1..Len(h) : h2[q] = h[q] /\ f2[q] = f[q]
  BY DEF Grown
<1>2. Len(h) \in Nat /\ p \in 1..p /\ \A q \in 1..Len(h) : q \in 1..p
  <2>1. Len(h) \in Nat
    BY SeqFacts
  <2>. QED  BY <2>1
<1>3. v \in Seq(Page) /\ Len(v) = Len(h)
  BY SeenFacts
<1>4. /\ v2 \in Seq(Page) /\ Len(v2) = p
      /\ \A q \in 1..p : /\ HeapPage(q) \in d2 => v2[q] = h2[q]
                         /\ HeapPage(q) \notin d2 => v2[q] = f2[q]
  <2>1. Len(f2) = Len(h2) /\ Len(h2) = p /\ h2 \in Seq(Page) /\ f2 \in Seq(Page)
    BY <1>1
  <2> HIDE DEF v
  <2>. QED  BY <2>1, SeenFacts
<1>5. v2[p] = z
  <2> HIDE DEF v2
  <2>. QED  BY <1>1, <1>2, <1>4
<1>6. ASSUME NEW q \in 1..Len(h) PROVE v2[q] = v[q]
  <2>1. /\ HeapPage(q) \in d => v[q] = h[q]
        /\ HeapPage(q) \notin d => v[q] = f[q]
    BY SeenFacts
  <2> HIDE DEF v, v2
  <2>. QED  BY <1>1, <1>2, <1>4, <2>1 DEF SameOn
<1> HIDE DEF v, v2, z
<1>7. Grown(v, v2, z)
  BY <1>3, <1>4, <1>5, <1>6 DEF Grown
<1>8. p = Len(v) + 1
  BY <1>3
<1>9. Content(v2) = Content(v) \cup OnPage(z, p)
  BY <1>3, <1>7, <1>8, ContentGrows
<1>. QED  BY <1>9 DEF v, v2, z

\* A new page with a row on it.
NewPageStep(t, p, row, c2) ==
    /\ heap' = Append(heap, FirstOnPage(row)) /\ heap_file' = Append(heap_file, Unformatted)
    /\ LM!Grant(t, HeapPage(p), LM!kExclusive) /\ status[t] = "running"
    /\ dirtied' = [dirtied EXCEPT ![t] = @ \cup {HeapPage(p)}]
    /\ call' = [call EXCEPT ![t] = c2]
    /\ UNCHANGED <<tree, tree_file>>

LEMMA NewPageStepOK ==
    ASSUME ExecInv, NEW t \in Txn, NEW p, p = Len(heap) + 1, p <= MaxPages, NEW row \in Row, NEW c2 \in CallType,
           NewPageStep(t, p, row, c2),
           TxnOK(c2, dirtied[t] \cup {HeapPage(p)}, Content(View(t)) \cup {<<<<p, 1>>, row>>}, Content(heap_file), tree,
                 held_by_txn[t] \cup {HeapPage(p)}, p)
    PROVE  ExecInv'
<1>0. p \in 1..MaxPages /\ HeapPage(p) \in PageKey /\ p \in Nat /\ Len(heap) <= p
  <2>1. p \in 1..MaxPages /\ p \in Nat /\ Len(heap) <= p
    BY InvParts
  <2>. QED  BY <2>1, PageKeyFacts
<1>1. /\ heap' = Append(heap, FirstOnPage(row)) /\ heap_file' = Append(heap_file, Unformatted)
      /\ call' = [call EXCEPT ![t] = c2] /\ tree' = tree /\ tree_file' = tree_file
      /\ LM!Grant(t, HeapPage(p), LM!kExclusive) /\ status[t] = "running"
  BY DEF NewPageStep
<1>2. /\ dirtied' = [dirtied EXCEPT ![t] = @ \cup {HeapPage(p)}]
      /\ dirtied' \in [Txn -> SUBSET PageKey] /\ dirtied'[t] = dirtied[t] \cup {HeapPage(p)}
      /\ \A u \in Txn \ {t} : dirtied'[u] = dirtied[u]
  BY <1>0, InvParts DEF NewPageStep
<1>3. call' \in [Txn -> CallType] /\ call'[t] = c2 /\ \A u \in Txn \ {t} : call'[u] = call[u]
  BY <1>1, InvParts
<1>4. LM!LoopBody(t, HeapPage(p), LM!kExclusive) /\ LM!Next /\ status[t] # "done"
  BY <1>0, <1>1, Modes DEF LM!LoopBody, LM!Next, LM!AcquireLock
<1>5. /\ LP!IInv'
      /\ \A u \in Txn, q \in PageKey :
            locks[q].exclusive_holder = u /\ status'[u] # "done" => locks'[q].exclusive_holder = u
  BY <1>4, InvParts, LockTableStep
<1>6. \A u \in Txn : /\ held_by_txn[u] \subseteq held_by_txn'[u]
                     /\ Active(u)' <=> Active(u)
  BY <1>0, <1>4, Modes, InvParts, PassThroughLoop DEF Active
<1>7. held_by_txn'[t] = held_by_txn[t] \cup {HeapPage(p)} /\ locks'[HeapPage(p)].exclusive_holder = t
  <2>1. locks \in [PageKey -> LM!LockEntry] /\ held_by_txn \in [Txn -> SUBSET PageKey]
    BY InvParts, LocksTyped
  <2>. QED  BY <1>0, <1>1, <2>1 DEF LM!Grant, LM!Granted
<1>8. FirstOnPage(row) \in Page /\ OnPage(FirstOnPage(row), p) = {<<<<p, 1>>, row>>} /\ Unformatted \in Page /\ OnPage(Unformatted, p) = {}
  BY <1>0, NewPage
<1>9. Grown(heap, heap', FirstOnPage(row)) /\ Grown(heap_file, heap_file', Unformatted)
  BY <1>1, <1>8, InvParts, AppendGrows
<1>10. /\ Content(heap_file)' = Content(heap_file)
       /\ heap' \in Seq(Page) /\ heap_file' \in Seq(Page) /\ Len(heap') = p /\ Len(heap_file') = p
       /\ \A q \in 1..Len(heap) : heap'[q] = heap[q] /\ heap_file'[q] = heap_file[q]
  <2>1. p = Len(heap_file) + 1 /\ heap_file \in Seq(Page)
    BY InvParts
  <2>2. Content(heap_file') = Content(heap_file) \cup OnPage(Unformatted, p)
    BY <1>9, <2>1, ContentGrows
  <2>3. Content(heap_file') = Content(heap_file)
    BY <1>8, <2>2
  <2>. QED  BY <1>9, <2>3, InvParts DEF Grown
<1>10a. ASSUME NEW u \in Txn
      PROVE  /\ HeapPage(p) \in dirtied'[u] => Content(View(u))' = Content(View(u)) \cup {<<<<p, 1>>, row>>}
             /\ HeapPage(p) \notin dirtied'[u] => Content(View(u))' = Content(View(u))
  <2>1. SameOn(Len(heap), dirtied[u], dirtied'[u])
    <3>1. \A q \in 1..Len(heap) : q # p
      BY <1>0, InvParts
    <3>. QED  BY <1>2, <3>1, PageKeyFacts DEF SameOn
  <2>2. heap \in Seq(Page) /\ heap_file \in Seq(Page) /\ Len(heap_file) = Len(heap)
    BY InvParts
  <2> DEFINE w == Seen(heap', heap_file', dirtied'[u])
             v == Seen(heap, heap_file, dirtied[u])
  <2>3. /\ HeapPage(p) \in dirtied'[u] => Content(w) = Content(v) \cup OnPage(FirstOnPage(row), p)
        /\ HeapPage(p) \notin dirtied'[u] => Content(w) = Content(v) \cup OnPage(Unformatted, p)
    BY <1>9, <2>1, <2>2, SeenGrows
  <2>4. v = View(u) /\ w = View(u)'
    BY DEF View
  <2> HIDE DEF v, w
  <2>. QED  BY <1>8, <2>3, <2>4
<1>11. Typed'
  BY <1>1, <1>2, <1>3, <1>10, InvParts DEF Typed
<1>12. WritersHoldLocks'
  <2>1. ASSUME NEW u \in Txn, Active(u)', NEW q \in dirtied'[u] PROVE locks'[q].exclusive_holder = u
    <3>1. CASE q \in dirtied[u]
      <4>1. locks[q].exclusive_holder = u /\ q \in PageKey /\ status'[u] # "done"
        <5>1. Active(u) /\ WritersHoldLocks /\ q \in PageKey /\ status'[u] # "done"
          BY <1>6, <2>1, <3>1, InvParts DEF Active
        <5>. QED  BY <3>1, <5>1 DEF WritersHoldLocks
      <4>. QED  BY <1>5, <4>1
    <3>2. CASE q \notin dirtied[u]
      BY <1>2, <1>7, <2>1, <3>2
    <3>. QED  BY <3>1, <3>2
  <2>. QED  BY <2>1 DEF WritersHoldLocks
<1>13. CleanPages'
  <2>1. ASSUME NEW k \in IndexId, \A u \in Txn : Active(u)' => Root(k) \notin dirtied'[u] PROVE tree[k] = tree_file[k]
    <3>2. \A u \in Txn : Active(u) => Root(k) \notin dirtied[u]
      BY <1>2, <1>6, <2>1
    <3>. QED  BY <3>2, InvParts DEF CleanPages
  <2>2. ASSUME NEW q \in 1..p, \A u \in Txn : Active(u)' => HeapPage(q) \notin dirtied'[u] PROVE heap'[q] = heap_file'[q]
    <3>1. q # p
      <4>1. Active(t)'
        BY <1>4, <1>6 DEF Active
      <4>. QED  BY <1>2, <2>2, <4>1
    <3>2. q \in 1..Len(heap)
      BY <3>1, InvParts
    <3>3. \A u \in Txn : Active(u) => HeapPage(q) \notin dirtied[u]
      BY <1>2, <1>6, <2>2
    <3>4. heap[q] = heap_file[q]
      BY <3>2, <3>3, InvParts DEF CleanPages
    <3>. QED  BY <1>10, <3>2, <3>4
  <2>. QED  BY <1>1, <1>10, <2>1, <2>2 DEF CleanPages
<1>14. FilesOK'
  BY <1>1, <1>10, InvParts DEF FilesOK
<1>15. ASSUME NEW u \in Txn, Active(u)' PROVE OK(u)'
  <2>1. CASE u = t
    <3>1. Content(View(u))' = Content(View(u)) \cup {<<<<p, 1>>, row>>}
      BY <1>2, <1>10a, <2>1
    <3>. QED  BY <1>1, <1>2, <1>3, <1>7, <1>10, <2>1, <3>1 DEF OK
  <2>2. CASE u # t
    <3>1. HeapPage(p) \notin dirtied'[u]
      <4>1. u # t /\ Active(u)
        BY <1>6, <1>15, <2>2
      <4>2. HeapPage(p) \in dirtied'[u] => locks'[HeapPage(p)].exclusive_holder = u
        BY <1>12, <1>15 DEF WritersHoldLocks
      <4>. QED  BY <1>7, <2>2, <4>2
    <3>2. Content(View(u))' = Content(View(u))
      BY <1>10a, <3>1
    <3>3. Undisturbed(u) /\ Len(heap') \in Nat
      BY <1>0, <1>1, <1>2, <1>3, <1>6, <1>10, <2>2, <3>2 DEF Undisturbed
    <3>4. Active(u)
      BY <1>6, <1>15
    <3>. QED  BY <3>3, <3>4, UndisturbedOK
  <2>. QED  BY <2>1, <2>2
<1>16. TxnsOK'
  BY <1>15 DEF TxnsOK, OK
<1>. QED  BY <1>5, <1>11, <1>12, <1>13, <1>14, <1>16 DEF ExecInv
-----------------------------------------------------------------------------
(* The end of a transaction. *)

\* What the release of its locks leaves of the others.
LEMMA Ended ==
    ASSUME ExecInv, NEW t \in Txn, LM!ReleaseAll(t), dirtied' = dirtied
    PROVE  /\ LP!IInv' /\ WritersHoldLocks' /\ Active(t)
           /\ \A u \in Txn : Active(u)' <=> (Active(u) /\ u # t)
           /\ \A u \in Txn \ {t} : held_by_txn'[u] = held_by_txn[u]
           /\ \A u \in Txn, p \in PageKey : Active(u) /\ u # t /\ p \in held_by_txn[u] => p \notin dirtied[t]
<1>1. /\ status'[t] = "done" /\ status[t] # "done" /\ LM!Next
      /\ \A u \in Txn \ {t} : /\ held_by_txn'[u] = held_by_txn[u]
                              /\ status'[u] = "done" <=> status[u] = "done"
  BY InvParts, Releasing
<1>2. Active(t) /\ \A u \in Txn : Active(u)' <=> (Active(u) /\ u # t)
  BY <1>1 DEF Active
<1>3. /\ LP!IInv'
      /\ \A u \in Txn, q \in PageKey :
            locks[q].exclusive_holder = u /\ status'[u] # "done" => locks'[q].exclusive_holder = u
  BY <1>1, InvParts, LockTableStep
<1>4. WritersHoldLocks'
  <2>1. ASSUME NEW u \in Txn, Active(u)', NEW q \in dirtied[u] PROVE locks'[q].exclusive_holder = u
    <3>1. Active(u) /\ q \in PageKey /\ status'[u] # "done"
      BY <1>2, <2>1, InvParts DEF Active
    <3>2. locks[q].exclusive_holder = u
      BY <2>1, <3>1, InvParts DEF WritersHoldLocks
    <3>. QED  BY <1>3, <3>1, <3>2
  <2>. QED  BY <2>1 DEF WritersHoldLocks
<1>5. ASSUME NEW u \in Txn, NEW p \in PageKey, Active(u), u # t, p \in held_by_txn[u] PROVE p \notin dirtied[t]
  BY <1>2, <1>5, InvParts, OthersKeepOff
<1>. QED  BY <1>1, <1>2, <1>3, <1>4, <1>5

\* The pages and the trees of a transaction that aborts are those of the file.
LEMMA AbortOK ==
    ASSUME ExecInv, NEW t \in Txn, Abort(t)
    PROVE  ExecInv'
<1>1. /\ LM!ReleaseAll(t) /\ heap_file' = heap_file /\ tree_file' = tree_file /\ dirtied' = dirtied
      /\ call' = [call EXCEPT ![t] = NoCall]
      /\ heap' = [p \in DOMAIN heap |-> IF HeapPage(p) \in dirtied[t] THEN heap_file[p] ELSE heap[p]]
      /\ tree' = [i \in IndexId |-> IF Root(i) \in dirtied[t] THEN tree_file[i] ELSE tree[i]]
  BY DEF Abort
<1>2. /\ LP!IInv' /\ WritersHoldLocks' /\ Active(t)
      /\ \A u \in Txn : Active(u)' <=> (Active(u) /\ u # t)
      /\ \A u \in Txn \ {t} : held_by_txn'[u] = held_by_txn[u]
      /\ \A u \in Txn, p \in PageKey : Active(u) /\ u # t /\ p \in held_by_txn[u] => p \notin dirtied[t]
  BY <1>1, Ended
<1>3. /\ heap' \in Seq(Page) /\ Len(heap') = Len(heap) /\ DOMAIN heap' = 1..Len(heap)
      /\ \A p \in 1..Len(heap) : /\ HeapPage(p) \in dirtied[t] => heap'[p] = heap_file[p]
                                 /\ HeapPage(p) \notin dirtied[t] => heap'[p] = heap[p]
  <2>1. heap \in Seq(Page) /\ heap_file \in Seq(Page) /\ Len(heap) = Len(heap_file)
    BY InvParts
  <2>2. DOMAIN heap = DOMAIN heap_file
    BY <2>1, SeqFacts
  <2>3. heap' = Seen(heap_file, heap, dirtied[t])
    BY <1>1, <2>2 DEF Seen
  <2> DEFINE w == Seen(heap_file, heap, dirtied[t])
  <2>4. /\ w \in Seq(Page) /\ Len(w) = Len(heap_file)
        /\ \A p \in 1..Len(heap_file) : /\ HeapPage(p) \in dirtied[t] => w[p] = heap_file[p]
                                        /\ HeapPage(p) \notin dirtied[t] => w[p] = heap[p]
    BY <2>1, SeenFacts
  <2> HIDE DEF w
  <2>5. DOMAIN w = 1..Len(heap)
    BY <2>1, <2>4, SeqFacts
  <2>. QED  BY <2>1, <2>3, <2>4, <2>5 DEF w
<1>4. /\ tree' \in [IndexId -> Seq(Entry)]
      /\ \A i \in IndexId : /\ Root(i) \in dirtied[t] => tree'[i] = tree_file[i]
                            /\ Root(i) \notin dirtied[t] => tree'[i] = tree[i]
  BY <1>1, InvParts
<1>5. call' \in [Txn -> CallType] /\ \A u \in Txn \ {t} : call'[u] = call[u]
  BY <1>1, InvParts, NoCallFacts
<1>6. Typed'
  BY <1>1, <1>3, <1>4, <1>5, InvParts DEF Typed
<1>7. CleanPages'
  <2>1. ASSUME NEW k \in IndexId, \A u \in Txn : Active(u)' => Root(k) \notin dirtied[u] PROVE tree'[k] = tree_file[k]
    <3>1. CASE Root(k) \in dirtied[t]
      BY <1>4, <3>1
    <3>2. CASE Root(k) \notin dirtied[t]
      <4>1. \A u \in Txn : Active(u) => Root(k) \notin dirtied[u]
        BY <1>2, <2>1, <3>2
      <4>. QED  BY <1>4, <3>2, <4>1, InvParts DEF CleanPages
    <3>. QED  BY <3>1, <3>2
  <2>2. ASSUME NEW q \in 1..Len(heap), \A u \in Txn : Active(u)' => HeapPage(q) \notin dirtied[u] PROVE heap'[q] = heap_file[q]
    <3>1. CASE HeapPage(q) \in dirtied[t]
      BY <1>3, <3>1
    <3>2. CASE HeapPage(q) \notin dirtied[t]
      <4>1. \A u \in Txn : Active(u) => HeapPage(q) \notin dirtied[u]
        BY <1>2, <2>2, <3>2
      <4>. QED  BY <1>3, <3>2, <4>1, InvParts DEF CleanPages
    <3>. QED  BY <3>1, <3>2
  <2>. QED  BY <1>1, <1>3, <2>1, <2>2 DEF CleanPages
<1>8. FilesOK'
  <2>1. \A k \in IndexId : Injective(tree'[k])
    BY <1>4, InvParts DEF FilesOK
  <2>. QED  BY <1>1, <2>1, InvParts DEF FilesOK
<1>9. ASSUME NEW u \in Txn, Active(u)' PROVE OK(u)'
  <2>1. Active(u) /\ u # t
    BY <1>2, <1>9
  <2>2. dirtied[u] \subseteq held_by_txn[u] /\ dirtied[u] \subseteq PageKey
    <3>1. LP!IInv /\ WritersHoldLocks /\ dirtied \in [Txn -> SUBSET PageKey]
      BY InvParts
    <3>. QED  BY <2>1, <3>1, DirtyHeld
  <2>3. \A p \in dirtied[u] : p \notin dirtied[t]
    BY <1>2, <2>1, <2>2
  <2>4. View(u)' = View(u)
    <3>1. \A q \in 1..Len(heap) : HeapPage(q) \in dirtied[u] => heap'[q] = heap[q]
      BY <1>3, <2>3
    <3>2. DOMAIN heap = 1..Len(heap)
      BY InvParts
    <3>. QED  BY <1>1, <1>3, <3>1, <3>2 DEF View, Seen
  <2>5. \A j \in 1..N : IndexRoot(j) \in dirtied[u] => tree'[Indexes[j].name] = tree[Indexes[j].name]
    BY <1>4, <2>3, IndexIdFacts DEF IndexRoot
  <2>6. Len(heap') \in Nat /\ Len(heap) <= Len(heap')
    BY <1>3, InvParts
  <2>7. Undisturbed(u)
    BY <1>1, <1>2, <1>5, <2>1, <2>4, <2>5, <2>6 DEF Undisturbed
  <2>. QED  BY <2>1, <2>6, <2>7, UndisturbedOK
<1>10. TxnsOK'
  BY <1>9 DEF TxnsOK, OK
<1>. QED  BY <1>2, <1>6, <1>7, <1>8, <1>10 DEF ExecInv

\* The rows that another transaction commits, on pages that this one has no
\* lock on.
Steady(d, H, V, V2, F, F2) ==
    /\ \A x : HeapPage(x[1][1]) \in H => (x \in V2 <=> x \in V)
    /\ \A x : HeapPage(x[1][1]) \notin d => /\ x \in V <=> x \in F
                                            /\ x \in V2 <=> x \in F2
    /\ \A x : HeapPage(x[1][1]) \in d => (x \in F2 <=> x \in F)

\* Who commits rows holds every tree, so that the others have got no further
\* than scans and a search of the primary key that is to come.
LEMMA CommitOther ==
    ASSUME NEW c \in CallType, NEW d, NEW V, NEW V2, NEW F, NEW F2, NEW T, NEW H, NEW n,
           TxnOK(c, d, V, F, T, H, n), d \subseteq H, \A j \in 1..N : IndexRoot(j) \notin H,
           Steady(d, H, V, V2, F, F2)
    PROVE  TxnOK(c, d, V2, F2, T, H, n)
<1>1. /\ c.stage = "none" => c = NoCall
      /\ FetchShape(c, V, H, n) /\ CheckShape(c) /\ MutateShape(c, n)
      /\ RowsOK(c, V, H) /\ TreesOK(c, d, V, F, T) /\ HeapOK(c, d)
      /\ Pk # <<>> => KeysOK(c, V, H)
  BY DEF TxnOK
<1>2. \A x : HeapPage(x[1][1]) \in H => (x \in V2 <=> x \in V)
  BY DEF Steady
<1>3. FetchShape(c, V2, H, n)
  <2>1. CASE c.stage = "fetch"
    <3>1. \A k \in 1..Left(c) : FetchAccess(c, k, V, H, n)
      BY <1>1, <2>1, FetchParts
    <3>2. \A k \in 1..Left(c) : FetchAccess(c, k, V2, H, n)
      BY <3>1 DEF FetchAccess
    <3>. QED  BY <1>1, <2>1, <3>2, FetchParts
  <2>2. CASE c.stage # "fetch"
    BY <2>2 DEF FetchShape
  <2>. QED  BY <2>1, <2>2
<1>4. RowsOK(c, V2, H)
  <2>1. \A k \in 1..Len(c.got) : HeapPage(c.got[k][1][1]) \in H /\ (c.got[k] \in V2 <=> c.got[k] \in V)
    BY <1>1, <1>2 DEF RowsOK
  <2>2. \A m \in 1..Len(MatchedOf(c)) : MatchedOf(c)[m] \in V2 <=> MatchedOf(c)[m] \in V
    BY <2>1, MatchedFacts
  <2>. QED  BY <1>1, <2>1, <2>2 DEF RowsOK
<1>5. TreesOK(c, d, V2, F2, T)
  <2>1. ASSUME NEW j \in 1..N PROVE Arriving(c, j) \subseteq V2 /\ IndexRoot(j) \notin d /\ V2 \ Lag(c, j) = F2
    <3>1. IndexRoot(j) \notin d /\ V \ Lag(c, j) = F /\ Arriving(c, j) \subseteq V
      BY <1>1 DEF TreesOK
    <3>2. Leaving(c, j) = {}
      BY <1>1, <3>1 DEF HeapOK, Leaving
    <3>3. Lag(c, j) = Arriving(c, j)
      BY <3>2 DEF Lag
    <3> DEFINE L == Arriving(c, j)
    <3>4. IndexRoot(j) \notin d /\ V \ L = F /\ L \subseteq V /\ Lag(c, j) = L
      BY <3>1, <3>3
    <3> HIDE DEF L
    <3>5. ASSUME NEW x \in L PROVE HeapPage(x[1][1]) \in d
      BY <3>4, <3>5 DEF Steady
    <3>6. L \subseteq V2
      <4>1. ASSUME NEW x \in L PROVE x \in V2
        <5>1. HeapPage(x[1][1]) \in H /\ x \in V
          BY <3>4, <3>5
        <5>. QED  BY <1>2, <5>1
      <4>. QED  BY <4>1
    <3>7. ASSUME NEW x PROVE x \in V2 \ L <=> x \in F2
      <4>1. CASE HeapPage(x[1][1]) \in d
        <5>1. HeapPage(x[1][1]) \in H
          BY <4>1
        <5>2. (x \in V2 <=> x \in V) /\ (x \in F2 <=> x \in F)
          BY <1>2, <4>1, <5>1 DEF Steady
        <5>. QED  BY <3>4, <5>2
      <4>2. CASE HeapPage(x[1][1]) \notin d
        <5>1. x \in V2 <=> x \in F2
          BY <4>2 DEF Steady
        <5>. QED  BY <3>5, <4>2, <5>1
      <4>. QED  BY <4>1, <4>2
    <3>8. V2 \ L = F2
      BY <3>7
    <3>. QED  BY <3>4, <3>6, <3>8 DEF L
  <2>. QED  BY <2>1 DEF TreesOK
<1>6. Pk # <<>> => KeysOK(c, V2, H)
  <2> SUFFICES ASSUME Pk # <<>> PROVE KeysOK(c, V2, H)
    OBVIOUS
  <2>1. PkRoot \notin H
    BY PkFacts
  <2>2. KeysOK(c, V, H)
    BY <1>1
  <2>3. \A key : Searched(c, V, H, key) => Searched(c, V2, H, key)
    BY <2>1 DEF Searched
  <2>4. ~Adding(c)
    BY <2>1, <2>2 DEF KeysOK
  <2>5. ~(c.stage = "mutate" /\ c.stmt.kind = "insert")
    BY <2>4 DEF Adding
  <2>. QED  BY <2>1, <2>2, <2>3, <2>4, <2>5 DEF KeysOK
<1>. QED  BY <1>1, <1>3, <1>4, <1>5, <1>6 DEF TxnOK

\* Whether a row is there depends on its page only.
LEMMA SamePageSameRow ==
    ASSUME NEW v \in Seq(Page), NEW w \in Seq(Page), Len(w) = Len(v), Len(v) <= MaxPages,
           NEW x, \A p \in 1..Len(v) : p = x[1][1] => w[p] = v[p]
    PROVE  x \in Content(w) <=> x \in Content(v)
<1>1. ASSUME NEW a \in Seq(Page), NEW b \in Seq(Page), Len(a) = Len(v), Len(b) = Len(v),
             \A p \in 1..Len(v) : p = x[1][1] => a[p] = b[p], x \in Content(a)
      PROVE  x \in Content(b)
  <2>1. x[1][1] \in 1..Len(a) /\ x \in OnPage(a[x[1][1]], x[1][1])
    BY <1>1, ContentFacts
  <2>2. a[x[1][1]] = b[x[1][1]] /\ x[1][1] \in 1..Len(b)
    BY <1>1, <2>1
  <2>. QED  BY <1>1, <2>1, <2>2, ContentByPage
<1>. QED  BY <1>1

\* Locks that do not meet the changes of another transaction.
Apart(H, d) == \A p : HeapPage(p) \in H => HeapPage(p) \notin d

LEMMA CommitSteady ==
    ASSUME NEW h \in Seq(Page), NEW f \in Seq(Page), Len(f) = Len(h), Len(h) <= MaxPages,
           NEW d, NEW du, NEW H, du \subseteq H, Apart(H, d), NEW f2, f2 = Seen(h, f, d)
    PROVE  Steady(du, H, Content(Seen(h, f, du)), Content(Seen(h, f2, du)), Content(f), Content(f2))
<1>1. /\ f2 \in Seq(Page) /\ Len(f2) = Len(h)
      /\ \A p \in 1..Len(h) : HeapPage(p) \notin d => f2[p] = f[p]
  BY SeenFacts
<1> DEFINE v == Seen(h, f, du)
           w == Seen(h, f2, du)
<1>2. /\ v \in Seq(Page) /\ Len(v) = Len(h)
      /\ \A p \in 1..Len(h) : /\ HeapPage(p) \in du => v[p] = h[p]
                              /\ HeapPage(p) \notin du => v[p] = f[p]
  BY SeenFacts
<1>3. /\ w \in Seq(Page) /\ Len(w) = Len(h)
      /\ \A p \in 1..Len(h) : /\ HeapPage(p) \in du => w[p] = h[p]
                              /\ HeapPage(p) \notin du => w[p] = f2[p]
  BY <1>1, SeenFacts
<1> HIDE DEF v, w
<1>4. ASSUME NEW x, HeapPage(x[1][1]) \in H PROVE x \in Content(w) <=> x \in Content(v)
  <2>1. \A p \in 1..Len(v) : p = x[1][1] => w[p] = v[p]
    BY <1>1, <1>2, <1>3, <1>4 DEF Apart
  <2>. QED  BY <1>2, <1>3, <2>1, SamePageSameRow
<1>5. ASSUME NEW x, HeapPage(x[1][1]) \notin du
      PROVE  (x \in Content(v) <=> x \in Content(f)) /\ (x \in Content(w) <=> x \in Content(f2))
  <2>1. \A p \in 1..Len(f) : p = x[1][1] => v[p] = f[p]
    BY <1>2, <1>5
  <2>2. \A p \in 1..Len(f2) : p = x[1][1] => w[p] = f2[p]
    BY <1>1, <1>3, <1>5
  <2>3. x \in Content(v) <=> x \in Content(f)
    BY <1>2, <2>1, SamePageSameRow
  <2>4. x \in Content(w) <=> x \in Content(f2)
    BY <1>1, <1>3, <2>2, SamePageSameRow
  <2>. QED  BY <2>3, <2>4
<1>6. ASSUME NEW x, HeapPage(x[1][1]) \in du PROVE x \in Content(f2) <=> x \in Content(f)
  <2>1. \A p \in 1..Len(f) : p = x[1][1] => f2[p] = f[p]
    BY <1>1, <1>6 DEF Apart
  <2>. QED  BY <1>1, <2>1, SamePageSameRow
<1>7. Steady(du, H, Content(v), Content(w), Content(f), Content(f2))
  BY <1>4, <1>5, <1>6 DEF Steady
<1>. QED  BY <1>7 DEF v, w

\* A transaction commits between two statements: what it sees becomes the file.
LEMMA CommitOK ==
    ASSUME ExecInv, ClientAborts, NEW t \in Txn, Commit(t)
    PROVE  ExecInv'
<1> DEFINE d == dirtied[t]
           V == Content(View(t))
           F == Content(heap_file)
<1>1. /\ LM!ReleaseAll(t) /\ heap' = heap /\ tree' = tree /\ dirtied' = dirtied
      /\ call' = [call EXCEPT ![t] = NoCall] /\ call[t].stage = "none"
      /\ heap_file' = View(t)
      /\ tree_file' = [i \in IndexId |-> IF Root(i) \in dirtied[t] THEN tree[i] ELSE tree_file[i]]
  BY DEF Commit, InStage, View, Seen
<1>2. /\ LP!IInv' /\ WritersHoldLocks' /\ Active(t)
      /\ \A u \in Txn : Active(u)' <=> (Active(u) /\ u # t)
      /\ \A u \in Txn \ {t} : held_by_txn'[u] = held_by_txn[u]
      /\ \A u \in Txn, p \in PageKey : Active(u) /\ u # t /\ p \in held_by_txn[u] => p \notin dirtied[t]
  BY <1>1, Ended
<1>3. TxnOK(NoCall, d, V, F, tree, held_by_txn[t], Len(heap))
  <2>1. OK(t)
    BY <1>2, InvParts
  <2>2. call[t] = NoCall
    BY <1>1, <2>1 DEF OK, TxnOK
  <2>. QED  BY <2>1, <2>2 DEF OK
<1>4. /\ heap_file' \in Seq(Page) /\ Len(heap_file') = Len(heap)
      /\ \A p \in 1..Len(heap) : /\ HeapPage(p) \in d => heap_file'[p] = heap[p]
                                 /\ HeapPage(p) \notin d => heap_file'[p] = heap_file[p]
  <2>1. heap \in Seq(Page) /\ heap_file \in Seq(Page) /\ Len(heap_file) = Len(heap)
    BY InvParts
  <2> DEFINE w == Seen(heap, heap_file, d)
  <2>2. /\ w \in Seq(Page) /\ Len(w) = Len(heap)
        /\ \A p \in 1..Len(heap) : /\ HeapPage(p) \in d => w[p] = heap[p]
                                   /\ HeapPage(p) \notin d => w[p] = heap_file[p]
    BY <2>1, SeenFacts
  <2>3. heap_file' = w
    BY <1>1 DEF View
  <2> HIDE DEF w
  <2>. QED  BY <2>2, <2>3
<1>5. /\ tree_file' \in [IndexId -> Seq(Entry)]
      /\ \A i \in IndexId : /\ Root(i) \in d => tree_file'[i] = tree[i]
                            /\ Root(i) \notin d => tree_file'[i] = tree_file[i]
  BY <1>1, InvParts
<1>6. call' \in [Txn -> CallType] /\ \A u \in Txn \ {t} : call'[u] = call[u]
  BY <1>1, InvParts, NoCallFacts
<1>7. Typed'
  BY <1>1, <1>4, <1>5, <1>6, InvParts DEF Typed
<1>8. CleanPages'
  <2>1. ASSUME NEW k \in IndexId, \A u \in Txn : Active(u)' => Root(k) \notin dirtied[u] PROVE tree[k] = tree_file'[k]
    <3>1. CASE Root(k) \in dirtied[t]
      BY <1>5, <3>1
    <3>2. CASE Root(k) \notin dirtied[t]
      <4>1. \A u \in Txn : Active(u) => Root(k) \notin dirtied[u]
        BY <1>2, <2>1, <3>2
      <4>. QED  BY <1>5, <3>2, <4>1, InvParts DEF CleanPages
    <3>. QED  BY <3>1, <3>2
  <2>2. ASSUME NEW q \in 1..Len(heap), \A u \in Txn : Active(u)' => HeapPage(q) \notin dirtied[u] PROVE heap[q] = heap_file'[q]
    <3>1. CASE HeapPage(q) \in dirtied[t]
      BY <1>4, <3>1
    <3>2. CASE HeapPage(q) \notin dirtied[t]
      <4>1. \A u \in Txn : Active(u) => HeapPage(q) \notin dirtied[u]
        BY <1>2, <2>2, <3>2
      <4>. QED  BY <1>4, <3>2, <4>1, InvParts DEF CleanPages
    <3>. QED  BY <3>1, <3>2
  <2>. QED  BY <1>1, <2>1, <2>2 DEF CleanPages
<1>9. Content(heap_file)' = V
  BY <1>1
<1>10. TreesOK(NoCall, d, V, F, tree) /\ HeapOK(NoCall, d) /\ (Pk # <<>> => KeysOK(NoCall, V, held_by_txn[t]))
  BY <1>3 DEF TxnOK
<1>11. FilesOK'
  <2>1. ASSUME NEW j \in 1..N PROVE Elements(tree_file'[Indexes[j].name]) = Entries(j, V)
    <3>1. V \ Lag(NoCall, j) = V
      <4>1. Lag(NoCall, j) = {}
        BY NoCallFacts, StillIdle, StillNoLag
      <4> HIDE DEF V
      <4>. QED  BY <4>1
    <3>2. Indexes[j].name \in IndexId /\ IndexRoot(j) = Root(Indexes[j].name)
      BY IndexIdFacts DEF IndexRoot
    <3>3. CASE IndexRoot(j) \in d
      BY <1>5, <1>10, <3>1, <3>2, <3>3 DEF TreesOK
    <3>4. CASE IndexRoot(j) \notin d
      <4>1. V = F
        BY <1>10, <3>1, <3>4 DEF TreesOK
      <4>2. tree_file'[Indexes[j].name] = tree_file[Indexes[j].name]
        BY <1>5, <3>2, <3>4
      <4>. QED  BY <4>1, <4>2, InvParts DEF FilesOK
    <3>. QED  BY <3>3, <3>4
  <2>2. \A k \in IndexId : Injective(tree_file'[k]) /\ Injective(tree[k])
    BY <1>5, InvParts DEF FilesOK
  <2>3. Pk # <<>> => KeysDiffer(V)
    <3> SUFFICES ASSUME Pk # <<>> PROVE KeysDiffer(V)
      OBVIOUS
    <3>1. CASE PkRoot \in held_by_txn[t]
      <4>1. KeysDiffer(V \ Rest(NoCall)) /\ Rest(NoCall) = {}
        BY <1>10, <3>1, NoCallFacts DEF KeysOK
      <4> HIDE DEF V
      <4>2. V \ Rest(NoCall) = V
        BY <4>1
      <4>. QED  BY <4>1, <4>2
    <3>2. CASE PkRoot \notin held_by_txn[t]
      <4>1. PkRoot \notin d
        <5>1. LP!IInv /\ WritersHoldLocks /\ dirtied \in [Txn -> SUBSET PageKey]
          BY InvParts
        <5>2. d \subseteq held_by_txn[t]
          BY <1>2, <5>1, DirtyHeld
        <5>. QED  BY <3>2, <5>2
      <4>2. KeysDiffer(F)
        BY InvParts
      <4> HIDE DEF V, F, d
      <4>3. V = F
        BY <1>10, <4>1, NoCallFacts, SeesFile
      <4>. QED  BY <4>2, <4>3
    <3>. QED  BY <3>1, <3>2
  <2>. QED  BY <1>1, <1>9, <2>1, <2>2, <2>3 DEF FilesOK
<1>12. ASSUME NEW u \in Txn, Active(u)' PROVE OK(u)'
  <2>1. Active(u) /\ u # t
    BY <1>2, <1>12
  <2>2. /\ dirtied[u] \subseteq held_by_txn[u] /\ call[u] \in CallType
        /\ heap \in Seq(Page) /\ heap_file \in Seq(Page) /\ Len(heap_file) = Len(heap) /\ Len(heap) <= MaxPages
        /\ held_by_txn[u] \subseteq PageKey /\ Len(heap) \in Nat /\ DOMAIN heap = 1..Len(heap)
    <3>1. LP!IInv /\ WritersHoldLocks /\ dirtied \in [Txn -> SUBSET PageKey]
      BY InvParts
    <3>2. held_by_txn \in [Txn -> SUBSET PageKey]
      BY <3>1, LocksTyped
    <3>. QED  BY <2>1, <3>1, <3>2, DirtyHeld, InvParts
  <2>3. \A p \in held_by_txn[u] : p \notin d
    BY <1>2, <2>1, <2>2
  <2>4. call'[u] = call[u] /\ held_by_txn'[u] = held_by_txn[u]
    BY <1>2, <1>6, <2>1
  <2>5. CASE \A p \in 1..Len(heap) : HeapPage(p) \notin d
    <3>1. View(t) = heap_file
      <4>1. DOMAIN heap_file = 1..Len(heap) /\ heap_file = [p \in 1..Len(heap) |-> heap_file[p]]
        BY <2>2, SeqFacts
      <4>. QED  BY <2>2, <2>5, <4>1 DEF View, Seen
    <3>2. heap_file' = heap_file /\ View(u)' = View(u)
      BY <1>1, <3>1 DEF View
    <3>3. Undisturbed(u)
      BY <1>1, <2>2, <2>4, <3>2 DEF Undisturbed
    <3>. QED  BY <1>1, <2>1, <2>2, <3>3, UndisturbedOK
  <2>6. CASE \E p \in 1..Len(heap) : HeapPage(p) \in d
    <3>1. \A j \in 1..N : IndexRoot(j) \in d
      <4>1. PICK p \in 1..Len(heap) : HeapPage(p) \in d
        BY <2>6
      <4>2. p \in 1..MaxPages
        BY <2>2, Constants
      <4>. QED  BY <1>10, <4>1, <4>2, NoCallFacts DEF HeapOK
    <3>2. \A j \in 1..N : IndexRoot(j) \notin held_by_txn[u]
      BY <2>3, <3>1
    <3>3. Apart(held_by_txn[u], d)
      BY <2>3 DEF Apart
    <3>4. OK(u)
      BY <2>1, InvParts
    <3> DEFINE c == call[u]
               du == dirtied[u]
               H == held_by_txn[u]
               W == Content(Seen(heap, heap_file, du))
               W2 == Content(Seen(heap, heap_file', du))
               F2 == Content(heap_file')
    <3>5. TxnOK(c, du, W, F, tree, H, Len(heap))
      BY <3>4 DEF OK, View
    <3>6. Steady(du, H, W, W2, F, F2)
      <4>1. heap_file' = Seen(heap, heap_file, d)
        BY <1>1 DEF View
      <4> HIDE DEF c, d, du, H, F, W, W2, F2
      <4>. QED  BY <2>2, <3>3, <4>1, CommitSteady DEF du, H, W, W2, F, F2
    <3>7. OK(u)' <=> TxnOK(c, du, W2, F2, tree, H, Len(heap))
      BY <1>1, <2>4 DEF OK, View
    <3>8. c \in CallType /\ du \subseteq H /\ \A j \in 1..N : IndexRoot(j) \notin H
      BY <2>2, <3>2
    <3> HIDE DEF c, d, du, H, F, W, W2, F2
    <3>9. TxnOK(c, du, W2, F2, tree, H, Len(heap))
      BY <3>5, <3>6, <3>8, CommitOther
    <3>. QED  BY <3>7, <3>9
  <2>. QED  BY <2>5, <2>6
<1>13. TxnsOK'
  BY <1>12 DEF TxnsOK, OK
<1>. QED  BY <1>2, <1>7, <1>8, <1>11, <1>13 DEF ExecInv
-----------------------------------------------------------------------------
(* The actions. *)

\* Which accesses belong to which stage.
LEMMA StageOfAccess ==
    ASSUME NEW c \in CallType, NEW d, NEW V, NEW F, NEW T, NEW H, NEW n, TxnOK(c, d, V, F, T, H, n), c.todo # <<>>
    PROVE  /\ c.todo[1].do \in {"get", "scan"} => c.stage = "fetch"
           /\ c.todo[1].do \in {"delete", "tree_delete", "tree_insert", "insert", "put"} => c.stage = "mutate"
<1>1. /\ c.stage = "none" => c = NoCall
      /\ FetchShape(c, V, H, n) /\ CheckShape(c) /\ MutateShape(c, n)
  BY DEF TxnOK
<1>2. Left(c) \in Nat /\ Left(c) # 0 /\ 1 \in 1..Left(c) /\ c.todo \in Seq(AccessType)
      /\ c.stage \in {"none", "fetch", "check", "mutate"}
  <2>1. Left(c) \in Nat /\ Left(c) # 0 /\ c.todo \in Seq(AccessType)
        /\ c.stage \in {"none", "fetch", "check", "mutate"}
    BY CallFields
  <2>. QED  BY <2>1
<1>3. c.stage # "none"
  BY <1>1, <1>2, NoCallFacts
<1>4. c.stage = "check" => c.todo[1].do = "search"
  <2>1. c.stage = "check" => c.todo[1] = SearchTree(Pk[1].name, c.todo[1].arg)
    BY <1>1, <1>2 DEF CheckShape
  <2>. QED  BY <2>1 DEF SearchTree, Access
<1>5. c.stage = "fetch" => c.todo[1].do \in {"scan", "search", "get"}
  BY <1>1, <1>2, FetchParts DEF FetchAccess
<1>6. ASSUME c.stage = "mutate" PROVE c.todo[1].do \notin {"get", "scan"}
  <2>1. \A i, e : TreeDelete(i, e).do = "tree_delete" /\ TreeInsert(i, e).do = "tree_insert"
    BY DEF TreeDelete, TreeInsert, Access
  <2>2. \A x : DeleteRow(x).do = "delete"
    BY DEF DeleteRow, Access
  <2>3. \/ \E j \in 1..N : /\ j = EraseAt(c) + N - Left(c) + 1
                           /\ c.todo[1] = TreeDelete(Indexes[j].name, <<Key(j, Old(c)[2]), Old(c)[1]>>)
        \/ c.todo[1] = DeleteRow(Old(c)[1])
        \/ c.todo[1].do \in {"insert", "put"}
        \/ \E j \in 1..N : j = N - Left(c) + 1 /\ c.todo[1] = TreeInsert(Indexes[j].name, Key(j, New(c)))
    BY <1>1, <1>6, MutateHead, Zenon
  <2>. QED  BY <2>1, <2>2, <2>3
<1>. QED  BY <1>2, <1>3, <1>4, <1>5, <1>6

\* A running transaction with its next access.
LEMMA RunningFacts ==
    ASSUME ExecInv, NEW t \in Txn, status[t] = "running"
    PROVE  /\ Active(t) /\ OK(t) /\ call[t] \in CallType
           /\ TxnOK(call[t], dirtied[t], Content(View(t)), Content(heap_file), tree, held_by_txn[t], Len(heap))
           /\ Functional(Content(View(t))) /\ Len(heap) \in Nat /\ Len(heap) <= MaxPages
           /\ call[t].todo # <<>> =>
                 /\ Here(t) = call[t].todo[1] /\ Here(t) \in AccessType /\ Here(t).page \in PageKey /\ Here(t).mode \in LM!LockMode
                 /\ Here(t).arg \in Arg /\ Here(t).do \in DoType
                 /\ Left(call[t]) >= 1
<1>1. Active(t)
  BY DEF Active
<1>2. call[t].todo # <<>> => /\ Here(t) = call[t].todo[1] /\ Here(t) \in AccessType /\ Left(call[t]) >= 1
  <2> SUFFICES ASSUME call[t].todo # <<>> PROVE /\ Here(t) = call[t].todo[1] /\ Here(t) \in AccessType /\ Left(call[t]) >= 1
    OBVIOUS
  <2>1. call[t] \in CallType
    BY InvParts
  <2>2. call[t].todo \in Seq(AccessType) /\ Left(call[t]) \in Nat /\ Left(call[t]) # 0 /\ Left(call[t]) = Len(call[t].todo)
    BY <2>1, CallFields DEF Left
  <2>3. Left(call[t]) >= 1 /\ 1 \in 1..Left(call[t])
    BY <2>2
  <2>4. Head(call[t].todo) = call[t].todo[1]
    BY <2>2, HeadTailProperties
  <2>5. call[t].todo[1] \in AccessType
    BY <2>2, <2>3, ElementOfSeq
  <2>. QED  BY <2>3, <2>4, <2>5 DEF Here
<1>3. \A a \in AccessType : a.page \in PageKey /\ a.mode \in LM!LockMode /\ a.arg \in Arg /\ a.do \in DoType
  BY DEF AccessType
<1>. QED  BY <1>1, <1>2, <1>3, InvParts DEF OK

LEMMA DoingFacts ==
    ASSUME ExecInv, NEW t \in Txn, NEW do, Doing(t, do)
    PROVE  /\ status[t] = "running" /\ call[t].todo # <<>> /\ Here(t).do = do /\ Here(t) = call[t].todo[1]
           /\ Here(t).page \in held_by_txn[t]
           /\ Here(t).mode = LM!kExclusive => locks[Here(t).page].exclusive_holder = t
<1>1. status[t] = "running" /\ call[t].todo # <<>> /\ Here(t).do = do /\ LM!AlreadyHolds(locks[Here(t).page], t, Here(t).mode)
  BY DEF Doing
<1>2. Here(t) = call[t].todo[1] /\ Here(t).page \in PageKey /\ Here(t).mode \in LM!LockMode
  BY <1>1, RunningFacts
<1>. QED  BY <1>1, <1>2, InvParts, Exclusion

\* A call with some of its parts replaced.
Replaced(c, x, y) ==
    /\ [c EXCEPT !.stage = x] = Call(x, c.stmt, c.todo, c.got, c.hits, c.rid, c.begun)
    /\ [c EXCEPT !.todo = x] = Call(c.stage, c.stmt, x, c.got, c.hits, c.rid, c.begun)
    /\ [c EXCEPT !.stage = x, !.todo = y] = Call(x, c.stmt, y, c.got, c.hits, c.rid, c.begun)
    /\ [c EXCEPT !.todo = x, !.got = y] = Call(c.stage, c.stmt, x, y, c.hits, c.rid, c.begun)
    /\ [c EXCEPT !.todo = x, !.hits = y] = Call(c.stage, c.stmt, x, c.got, y, c.rid, c.begun)
    /\ [c EXCEPT !.todo = x, !.rid = y] = Call(c.stage, c.stmt, x, c.got, c.hits, y, c.begun)
    /\ [c EXCEPT !.begun = x, !.todo = y] = Call(c.stage, c.stmt, y, c.got, c.hits, c.rid, x)

LEMMA PartsReplaced ==
    ASSUME NEW c \in CallType, NEW x, NEW y
    PROVE  Replaced(c, x, y)
<1>1. c = Call(c.stage, c.stmt, c.todo, c.got, c.hits, c.rid, c.begun)
  BY DEF CallType, Call
<1>2. [c EXCEPT !.stage = x] = Call(x, c.stmt, c.todo, c.got, c.hits, c.rid, c.begun)
  BY <1>1 DEF Call
<1>3. [c EXCEPT !.todo = x] = Call(c.stage, c.stmt, x, c.got, c.hits, c.rid, c.begun)
  BY <1>1 DEF Call
<1>4. [c EXCEPT !.stage = x, !.todo = y] = Call(x, c.stmt, y, c.got, c.hits, c.rid, c.begun)
  <2> DEFINE e == [c EXCEPT !.stage = x]
  <2>1. e = Call(x, c.stmt, c.todo, c.got, c.hits, c.rid, c.begun)
    BY <1>1 DEF Call
  <2> HIDE DEF e
  <2>2. [e EXCEPT !.todo = y] = Call(x, c.stmt, y, c.got, c.hits, c.rid, c.begun)
    BY <2>1 DEF Call
  <2>. QED  BY <2>2 DEF e
<1>5. [c EXCEPT !.todo = x, !.got = y] = Call(c.stage, c.stmt, x, y, c.hits, c.rid, c.begun)
  <2> DEFINE e == [c EXCEPT !.todo = x]
  <2>1. e = Call(c.stage, c.stmt, x, c.got, c.hits, c.rid, c.begun)
    BY <1>1 DEF Call
  <2> HIDE DEF e
  <2>2. [e EXCEPT !.got = y] = Call(c.stage, c.stmt, x, y, c.hits, c.rid, c.begun)
    BY <2>1 DEF Call
  <2>. QED  BY <2>2 DEF e
<1>6. [c EXCEPT !.todo = x, !.hits = y] = Call(c.stage, c.stmt, x, c.got, y, c.rid, c.begun)
  <2> DEFINE e == [c EXCEPT !.todo = x]
  <2>1. e = Call(c.stage, c.stmt, x, c.got, c.hits, c.rid, c.begun)
    BY <1>1 DEF Call
  <2> HIDE DEF e
  <2>2. [e EXCEPT !.hits = y] = Call(c.stage, c.stmt, x, c.got, y, c.rid, c.begun)
    BY <2>1 DEF Call
  <2>. QED  BY <2>2 DEF e
<1>7. [c EXCEPT !.todo = x, !.rid = y] = Call(c.stage, c.stmt, x, c.got, c.hits, y, c.begun)
  <2> DEFINE e == [c EXCEPT !.todo = x]
  <2>1. e = Call(c.stage, c.stmt, x, c.got, c.hits, c.rid, c.begun)
    BY <1>1 DEF Call
  <2> HIDE DEF e
  <2>2. [e EXCEPT !.rid = y] = Call(c.stage, c.stmt, x, c.got, c.hits, y, c.begun)
    BY <2>1 DEF Call
  <2>. QED  BY <2>2 DEF e
<1>8. [c EXCEPT !.begun = x, !.todo = y] = Call(c.stage, c.stmt, y, c.got, c.hits, c.rid, x)
  <2> DEFINE e == [c EXCEPT !.begun = x]
  <2>1. e = Call(c.stage, c.stmt, c.todo, c.got, c.hits, c.rid, x)
    BY <1>1 DEF Call
  <2> HIDE DEF e
  <2>2. [e EXCEPT !.todo = y] = Call(c.stage, c.stmt, y, c.got, c.hits, c.rid, x)
    BY <2>1 DEF Call
  <2>. QED  BY <2>2 DEF e
<1>. QED  BY <1>2, <1>3, <1>4, <1>5, <1>6, <1>7, <1>8 DEF Replaced

CallsReplaced(t, x, y) ==
    /\ [call EXCEPT ![t].stage = x] = [call EXCEPT ![t] = Call(x, call[t].stmt, call[t].todo, call[t].got, call[t].hits, call[t].rid, call[t].begun)]
    /\ [call EXCEPT ![t].todo = x] = [call EXCEPT ![t] = Call(call[t].stage, call[t].stmt, x, call[t].got, call[t].hits, call[t].rid, call[t].begun)]
    /\ [call EXCEPT ![t].stage = x, ![t].todo = y] = [call EXCEPT ![t] = Call(x, call[t].stmt, y, call[t].got, call[t].hits, call[t].rid, call[t].begun)]
    /\ [call EXCEPT ![t].todo = x, ![t].got = y] = [call EXCEPT ![t] = Call(call[t].stage, call[t].stmt, x, y, call[t].hits, call[t].rid, call[t].begun)]
    /\ [call EXCEPT ![t].todo = x, ![t].hits = y] = [call EXCEPT ![t] = Call(call[t].stage, call[t].stmt, x, call[t].got, y, call[t].rid, call[t].begun)]
    /\ [call EXCEPT ![t].todo = x, ![t].rid = y] = [call EXCEPT ![t] = Call(call[t].stage, call[t].stmt, x, call[t].got, call[t].hits, y, call[t].begun)]
    /\ [call EXCEPT ![t].begun = x, ![t].todo = y] = [call EXCEPT ![t] = Call(call[t].stage, call[t].stmt, y, call[t].got, call[t].hits, call[t].rid, x)]

LEMMA CallReplaced ==
    ASSUME NEW t \in Txn, call \in [Txn -> CallType], NEW x, NEW y
    PROVE  CallsReplaced(t, x, y)
<1>1. Replaced(call[t], x, y)
  BY PartsReplaced
<1>2. [call EXCEPT ![t].stage = x] = [call EXCEPT ![t] = Call(x, call[t].stmt, call[t].todo, call[t].got, call[t].hits, call[t].rid, call[t].begun)]
  <2> DEFINE e == [call[t] EXCEPT !.stage = x]
  <2>1. [call EXCEPT ![t].stage = x] = [call EXCEPT ![t] = e]
    OBVIOUS
  <2>2. e = Call(x, call[t].stmt, call[t].todo, call[t].got, call[t].hits, call[t].rid, call[t].begun)
    BY <1>1 DEF Replaced
  <2> HIDE DEF e
  <2>. QED  BY <2>1, <2>2
<1>3. [call EXCEPT ![t].todo = x] = [call EXCEPT ![t] = Call(call[t].stage, call[t].stmt, x, call[t].got, call[t].hits, call[t].rid, call[t].begun)]
  <2> DEFINE e == [call[t] EXCEPT !.todo = x]
  <2>1. [call EXCEPT ![t].todo = x] = [call EXCEPT ![t] = e]
    OBVIOUS
  <2>2. e = Call(call[t].stage, call[t].stmt, x, call[t].got, call[t].hits, call[t].rid, call[t].begun)
    BY <1>1 DEF Replaced
  <2> HIDE DEF e
  <2>. QED  BY <2>1, <2>2
<1>4. [call EXCEPT ![t].stage = x, ![t].todo = y] = [call EXCEPT ![t] = Call(x, call[t].stmt, y, call[t].got, call[t].hits, call[t].rid, call[t].begun)]
  <2> DEFINE e == [call[t] EXCEPT !.stage = x, !.todo = y]
  <2>1. [call EXCEPT ![t].stage = x, ![t].todo = y] = [call EXCEPT ![t] = e]
    OBVIOUS
  <2>2. e = Call(x, call[t].stmt, y, call[t].got, call[t].hits, call[t].rid, call[t].begun)
    BY <1>1 DEF Replaced
  <2> HIDE DEF e
  <2>. QED  BY <2>1, <2>2
<1>5. [call EXCEPT ![t].todo = x, ![t].got = y] = [call EXCEPT ![t] = Call(call[t].stage, call[t].stmt, x, y, call[t].hits, call[t].rid, call[t].begun)]
  <2> DEFINE e == [call[t] EXCEPT !.todo = x, !.got = y]
  <2>1. [call EXCEPT ![t].todo = x, ![t].got = y] = [call EXCEPT ![t] = e]
    OBVIOUS
  <2>2. e = Call(call[t].stage, call[t].stmt, x, y, call[t].hits, call[t].rid, call[t].begun)
    BY <1>1 DEF Replaced
  <2> HIDE DEF e
  <2>. QED  BY <2>1, <2>2
<1>6. [call EXCEPT ![t].todo = x, ![t].hits = y] = [call EXCEPT ![t] = Call(call[t].stage, call[t].stmt, x, call[t].got, y, call[t].rid, call[t].begun)]
  <2> DEFINE e == [call[t] EXCEPT !.todo = x, !.hits = y]
  <2>1. [call EXCEPT ![t].todo = x, ![t].hits = y] = [call EXCEPT ![t] = e]
    OBVIOUS
  <2>2. e = Call(call[t].stage, call[t].stmt, x, call[t].got, y, call[t].rid, call[t].begun)
    BY <1>1 DEF Replaced
  <2> HIDE DEF e
  <2>. QED  BY <2>1, <2>2
<1>7. [call EXCEPT ![t].todo = x, ![t].rid = y] = [call EXCEPT ![t] = Call(call[t].stage, call[t].stmt, x, call[t].got, call[t].hits, y, call[t].begun)]
  <2> DEFINE e == [call[t] EXCEPT !.todo = x, !.rid = y]
  <2>1. [call EXCEPT ![t].todo = x, ![t].rid = y] = [call EXCEPT ![t] = e]
    OBVIOUS
  <2>2. e = Call(call[t].stage, call[t].stmt, x, call[t].got, call[t].hits, y, call[t].begun)
    BY <1>1 DEF Replaced
  <2> HIDE DEF e
  <2>. QED  BY <2>1, <2>2
<1>8. [call EXCEPT ![t].begun = x, ![t].todo = y] = [call EXCEPT ![t] = Call(call[t].stage, call[t].stmt, y, call[t].got, call[t].hits, call[t].rid, x)]
  <2> DEFINE e == [call[t] EXCEPT !.begun = x, !.todo = y]
  <2>1. [call EXCEPT ![t].begun = x, ![t].todo = y] = [call EXCEPT ![t] = e]
    OBVIOUS
  <2>2. e = Call(call[t].stage, call[t].stmt, y, call[t].got, call[t].hits, call[t].rid, x)
    BY <1>1 DEF Replaced
  <2> HIDE DEF e
  <2>. QED  BY <2>1, <2>2
<1>. QED  BY <1>2, <1>3, <1>4, <1>5, <1>6, <1>7, <1>8 DEF CallsReplaced

\* The call that Execute begins.
Restarted(c, stage, stmt, todo) ==
    [c EXCEPT !.stage = stage, !.stmt = stmt, !.todo = todo] = Call(stage, stmt, todo, c.got, c.hits, c.rid, c.begun)

LEMMA Restart ==
    ASSUME NEW c \in CallType, NEW stage, NEW stmt, NEW todo
    PROVE  Restarted(c, stage, stmt, todo)
<1> DEFINE e == [c EXCEPT !.stage = stage]
           f == [e EXCEPT !.stmt = stmt]
<1>0. c = Call(c.stage, c.stmt, c.todo, c.got, c.hits, c.rid, c.begun)
  BY DEF CallType, Call
<1>1. e = Call(stage, c.stmt, c.todo, c.got, c.hits, c.rid, c.begun)
  BY <1>0 DEF Call
<1> HIDE DEF e
<1>2. f = Call(stage, stmt, c.todo, c.got, c.hits, c.rid, c.begun)
  BY <1>1 DEF Call
<1> HIDE DEF f
<1>3. [f EXCEPT !.todo = todo] = Call(stage, stmt, todo, c.got, c.hits, c.rid, c.begun)
  BY <1>2 DEF Call
<1>. QED  BY <1>3 DEF e, f, Restarted

BegunFrom(stage, stmt, todo) ==
    [NoCall EXCEPT !.stage = stage, !.stmt = stmt, !.todo = todo] = Begun(stage, stmt, todo)

LEMMA BegunCall ==
    ASSUME NEW stage, NEW stmt, NEW todo
    PROVE  BegunFrom(stage, stmt, todo)
<1>1. Restarted(NoCall, stage, stmt, todo)
  BY NoCallFacts, Restart
<1>2. NoCall.got = <<>> /\ NoCall.hits = {} /\ NoCall.rid = <<0, 0>> /\ NoCall.begun = 0
  BY DEF NoCall
<1>3. Call(stage, stmt, todo, NoCall.got, NoCall.hits, NoCall.rid, NoCall.begun) = Begun(stage, stmt, todo)
  BY <1>2 DEF Begun
<1>. QED  BY <1>1, <1>3 DEF Restarted, BegunFrom

LEMMA ExecuteStep ==
    ASSUME ExecInv, NEW t \in Txn, NEW stmt \in Stmt, Execute(t, stmt)
    PROVE  ExecInv'
<1>1. status[t] = "running" /\ call[t].stage = "none" /\ UNCHANGED <<lmvars, dbvars>>
  BY DEF Execute, InStage
<1> DEFINE d == dirtied[t]
           V == Content(View(t))
           F == Content(heap_file)
           H == held_by_txn[t]
<1>2. Active(t) /\ TxnOK(call[t], d, V, F, tree, H, Len(heap)) /\ Len(heap) \in Nat /\ Len(heap) <= MaxPages
  BY <1>1, RunningFacts
<1>3. TxnOK(NoCall, d, V, F, tree, H, Len(heap))
  BY <1>1, <1>2 DEF TxnOK
<1> HIDE DEF d, V, F, H
<1>4. CASE stmt.kind = "insert"
  <2> DEFINE c2 == Begun("check", stmt, SearchKey(stmt))
  <2>1. call' = [call EXCEPT ![t] = c2]
    <3> DEFINE x == SearchKey(stmt)
               e == [NoCall EXCEPT !.stage = "check", !.stmt = stmt, !.todo = x]
    <3>1. call' = [call EXCEPT ![t] = e]
      BY <1>4 DEF Execute, SearchKey
    <3> HIDE DEF x
    <3>2. e = c2
      BY BegunCall DEF BegunFrom, x
    <3> HIDE DEF e, c2
    <3>. QED  BY <3>1, <3>2
  <2> HIDE DEF c2
  <2>2. c2 \in CallType /\ TxnOK(c2, d, V, F, tree, H, Len(heap))
    BY <1>3, <1>4, ExecuteInsertOK DEF c2
  <2>3. CallStep(t, c2)
    BY <1>1, <2>1 DEF CallStep
  <2>. QED  BY <2>2, <2>3, CallStepOK DEF d, V, F, H
<1>5. CASE stmt.kind # "insert"
  <2> DEFINE c2 == Begun("fetch", stmt, FirstAccesses(stmt, Len(heap)))
  <2>0. FetchAccesses(stmt) = FirstAccesses(stmt, Len(heap))
    BY InvParts DEF FetchAccesses, FirstAccesses
  <2>1. call' = [call EXCEPT ![t] = c2]
    <3> DEFINE x == FirstAccesses(stmt, Len(heap))
               e == [NoCall EXCEPT !.stage = "fetch", !.stmt = stmt, !.todo = x]
    <3>1. call' = [call EXCEPT ![t] = e]
      BY <1>5, <2>0 DEF Execute
    <3> HIDE DEF x
    <3>2. e = c2
      BY BegunCall DEF BegunFrom, x
    <3> HIDE DEF e, c2
    <3>. QED  BY <3>1, <3>2
  <2> HIDE DEF c2
  <2>2. c2 \in CallType /\ TxnOK(c2, d, V, F, tree, H, Len(heap))
    BY <1>2, <1>3, <1>5, ExecuteFetchOK DEF c2
  <2>3. CallStep(t, c2)
    BY <1>1, <2>1 DEF CallStep
  <2>. QED  BY <2>2, <2>3, CallStepOK DEF d, V, F, H
<1>. QED  BY <1>4, <1>5

LEMMA LockPageStep ==
    ASSUME ExecInv, NEW t \in Txn, LockPage(t)
    PROVE  ExecInv'
<1>1. /\ call[t].todo # <<>> /\ LM!AcquireLock(t, Here(t).page, Here(t).mode) /\ UNCHANGED dbvars /\ call' = call
  BY DEF LockPage
<1>2. status[t] = "running" /\ status[t] # "done" /\ LM!LoopBody(t, Here(t).page, Here(t).mode)
  BY <1>1 DEF LM!AcquireLock
<1>3. Here(t).page \in PageKey /\ Here(t).mode \in LM!LockMode
  BY <1>1, <1>2, RunningFacts
<1>4. LM!Next
  BY <1>1, <1>3 DEF LM!Next
<1>. QED  BY <1>1, <1>2, <1>3, <1>4, LockStepOK

LEMMA RecheckLockStep ==
    ASSUME ExecInv, NEW t \in Txn, RecheckLock(t)
    PROVE  ExecInv'
<1>1. LM!Recheck(t) /\ UNCHANGED dbvars /\ call' = call
  BY DEF RecheckLock
<1>2. status[t] = "awake" /\ status[t] # "done" /\ LM!LoopBody(t, request[t].page, request[t].mode)
  BY <1>1 DEF LM!Recheck
<1>3. request[t].page \in PageKey /\ request[t].mode \in LM!LockMode
  BY <1>2, InvParts, LocksTyped
<1>4. LM!Next
  BY <1>1 DEF LM!Next
<1>. QED  BY <1>1, <1>2, <1>3, <1>4, LockStepOK

LEMMA SearchForRowsStep ==
    ASSUME ExecInv, NEW t \in Txn, SearchForRows(t)
    PROVE  ExecInv'
<1> DEFINE c == call[t]
           d == dirtied[t]
           V == Content(View(t))
           F == Content(heap_file)
           H == held_by_txn[t]
           rids == Search(tree[Here(t).page[2]], Here(t).arg)
           gets == [i \in DOMAIN rids |-> GetRow(rids[i])]
           c2 == RowsListed(c, rids)
<1>1. Doing(t, "search") /\ c.stage = "fetch" /\ UNCHANGED <<lmvars, dbvars>> /\ call' = [call EXCEPT ![t].todo = gets]
  BY DEF SearchForRows, InStage
<1>2. status[t] = "running" /\ c.todo # <<>> /\ Here(t).do = "search" /\ Here(t) = c.todo[1] /\ Here(t).page \in H
  BY <1>1, DoingFacts
<1>3. /\ Active(t) /\ c \in CallType /\ TxnOK(c, d, V, F, tree, H, Len(heap)) /\ Functional(V)
      /\ Left(c) >= 1 /\ call \in [Txn -> CallType]
  BY <1>2, RunningFacts, InvParts
<1>4. FetchAccess(c, 1, V, H, Len(heap))
  <2>1. FetchShape(c, V, H, Len(heap))
    BY <1>3 DEF TxnOK
  <2>2. 1 \in 1..Left(c)
    BY <1>3, CallFields
  <2>. QED  BY <1>1, <2>1, <2>2, FetchParts
<1>5. PICK j \in 1..N : c.got = <<>> /\ c.todo[1] = SearchTree(Indexes[j].name, c.todo[1].arg)
  BY <1>2, <1>4 DEF FetchAccess
<1>6. Len(c.got) = 0 /\ Here(t).page = IndexRoot(j) /\ IndexRoot(j) \in H /\ Here(t).page[2] = Indexes[j].name
  <2>1. Here(t).page = IndexRoot(j)
    BY <1>2, <1>5 DEF SearchTree, Access, IndexRoot
  <2>2. Len(c.got) = 0
    BY <1>5
  <2>. QED  BY <1>2, <2>1, <2>2, PageKeyFacts DEF IndexRoot
<1>7. /\ Elements(tree[Indexes[j].name]) = Entries(j, V \ Lag(c, j))
      /\ tree[Indexes[j].name] \in Seq(Entry) /\ Injective(tree[Indexes[j].name])
  BY <1>3, <1>6, SeesTree
<1>8. /\ rids \in Seq(Rid) /\ \A k, l \in 1..Len(rids) : k # l => rids[k] # rids[l]
      /\ \A k \in 1..Len(rids) : <<Here(t).arg, rids[k]>> \in Elements(tree[Indexes[j].name])
  BY <1>6, <1>7, SearchFacts
<1>9. ASSUME NEW k \in 1..Len(rids) PROVE rids[k] \in {x[1] : x \in V}
  <2>1. <<Here(t).arg, rids[k]>> \in Entries(j, V \ Lag(c, j))
    BY <1>7, <1>8
  <2> HIDE DEF V, rids
  <2>. QED  BY <2>1 DEF Entries
<1>10. call' = [call EXCEPT ![t] = c2]
  <2> HIDE DEF gets
  <2>1. CallsReplaced(t, gets, gets)
    BY <1>3, CallReplaced
  <2>2. call' = [call EXCEPT ![t] = Call(c.stage, c.stmt, gets, c.got, c.hits, c.rid, c.begun)]
    BY <1>1, <2>1 DEF CallsReplaced
  <2>3. c2 = Call(c.stage, c.stmt, gets, c.got, c.hits, c.rid, c.begun)
    BY <1>1 DEF RowsListed, Fetching, gets
  <2>. QED  BY <2>2, <2>3
<1> HIDE DEF c, d, V, F, H, rids, gets, c2
<1>11. c2 \in CallType /\ TxnOK(c2, d, V, F, tree, H, Len(heap))
  BY <1>1, <1>3, <1>6, <1>8, <1>9, SearchForRowsOK DEF c2
<1>12. CallStep(t, c2)
  BY <1>1, <1>10 DEF CallStep
<1>. QED  BY <1>11, <1>12, CallStepOK DEF d, V, F, H

LEMMA SearchForKeyStep ==
    ASSUME ExecInv, NEW t \in Txn, SearchForKey(t)
    PROVE  ExecInv'
<1> DEFINE c == call[t]
           d == dirtied[t]
           V == Content(View(t))
           F == Content(heap_file)
           H == held_by_txn[t]
           found == Hits(tree[Here(t).page[2]], Here(t).arg)
           x == Tail(c.todo)
           y == c.hits \cup found
           c2 == KeySearched(c, found)
<1>1. Doing(t, "search") /\ c.stage = "check" /\ UNCHANGED <<lmvars, dbvars>> /\ call \in [Txn -> CallType]
  BY InvParts DEF SearchForKey, InStage
<1>2. call' = [call EXCEPT ![t].todo = x, ![t].hits = y]
  BY <1>1 DEF SearchForKey, CallType
<1>3. status[t] = "running" /\ c.todo # <<>> /\ Here(t) = c.todo[1] /\ Here(t).page \in H
  BY <1>1, DoingFacts
<1>4. /\ Active(t) /\ c \in CallType /\ TxnOK(c, d, V, F, tree, H, Len(heap)) /\ Left(c) >= 1
  BY <1>3, RunningFacts, InvParts
<1>5. Pk # <<>> /\ c.todo[1] = SearchTree(Pk[1].name, c.todo[1].arg)
  <2>1. CheckShape(c)
    BY <1>4 DEF TxnOK
  <2>2. 1 \in 1..Left(c)
    BY <1>4, CallFields
  <2>. QED  BY <1>1, <2>1, <2>2 DEF CheckShape
<1>6. PICK j \in 1..N : Pk[1] = Indexes[j] /\ PkRoot = IndexRoot(j)
  BY <1>5, PkFacts
<1>7. Here(t).page = PkRoot /\ PkRoot \in H /\ Here(t).page[2] = Indexes[j].name
  <2>1. Here(t).page = PkRoot
    BY <1>3, <1>5 DEF SearchTree, Access, PkRoot
  <2>. QED  BY <1>3, <1>6, <2>1, PageKeyFacts DEF PkRoot
<1>8. /\ Elements(tree[Indexes[j].name]) = Entries(j, V \ Lag(c, j))
      /\ tree[Indexes[j].name] \in Seq(Entry)
  BY <1>4, <1>6, <1>7, SeesTree
<1>9. Lag(c, j) = {}
  BY <1>1, <1>4, StillIdle, StillNoLag
<1>10. found \in SUBSET Rid /\ \A rid : <<Here(t).arg, rid>> \in Elements(tree[Indexes[j].name]) => rid \in found
  BY <1>7, <1>8, HitsFacts
<1>11. ASSUME NEW z \in V, PkOf(z[2]) = c.todo[1].arg PROVE z[1] \in found
  <2>1. PkOf(z[2]) = Key(j, z[2])
    BY <1>6 DEF PkOf, Key
  <2> HIDE DEF V, c
  <2>2. <<Key(j, z[2]), z[1]>> \in Entries(j, V \ Lag(c, j))
    BY <1>9 DEF Entries
  <2>. QED  BY <1>3, <1>8, <1>10, <1>11, <2>1, <2>2
<1>12. call' = [call EXCEPT ![t] = c2]
  <2> HIDE DEF x, y
  <2>1. CallsReplaced(t, x, y)
    BY <1>1, CallReplaced
  <2>2. call' = [call EXCEPT ![t] = Call(c.stage, c.stmt, x, c.got, y, c.rid, c.begun)]
    BY <1>2, <2>1 DEF CallsReplaced
  <2>3. c2 = Call(c.stage, c.stmt, x, c.got, y, c.rid, c.begun)
    BY <1>1 DEF KeySearched, Checking, x, y
  <2>. QED  BY <2>2, <2>3
<1> HIDE DEF c, d, V, F, H, found, x, y, c2
<1>13. c2 \in CallType /\ TxnOK(c2, d, V, F, tree, H, Len(heap))
  BY <1>1, <1>3, <1>4, <1>7, <1>10, <1>11, SearchForKeyOK DEF c2
<1>14. CallStep(t, c2)
  BY <1>1, <1>12 DEF CallStep
<1>. QED  BY <1>13, <1>14, CallStepOK DEF d, V, F, H

\* The rows of a locked page are those the transaction sees there.
LEMMA LockedPageRows ==
    ASSUME ExecInv, NEW t \in Txn, Active(t), NEW p \in 1..Len(heap), HeapPage(p) \in held_by_txn[t]
    PROVE  /\ p \in 1..MaxPages /\ heap[p] \in Page /\ OnPage(heap[p], p) \subseteq Content(View(t))
           /\ \A x \in Content(View(t)) : x[1][1] = p => x \in OnPage(heap[p], p)
<1>1. View(t)[p] = heap[p] /\ p \in 1..MaxPages /\ heap[p] \in Page
  BY SeesPage
<1>2. View(t) \in Seq(Page) /\ Len(View(t)) = Len(heap) /\ Len(heap) <= MaxPages
  <2>1. heap \in Seq(Page) /\ heap_file \in Seq(Page) /\ Len(heap_file) = Len(heap) /\ Len(heap) <= MaxPages
    BY InvParts
  <2>. QED  BY <2>1, SeenFacts DEF View
<1>3. OnPage(View(t)[p], p) \subseteq Content(View(t))
  BY <1>2, ContentFacts
<1>4. ASSUME NEW x \in Content(View(t)), x[1][1] = p PROVE x \in OnPage(heap[p], p)
  <2>1. x \in OnPage(View(t)[x[1][1]], x[1][1])
    BY <1>2, ContentFacts
  <2>. QED  BY <1>1, <1>4, <2>1
<1>. QED  BY <1>1, <1>3, <1>4

LEMMA GetStep ==
    ASSUME ExecInv, NEW t \in Txn, Get(t)
    PROVE  ExecInv'
<1> DEFINE c == call[t]
           d == dirtied[t]
           V == Content(View(t))
           F == Content(heap_file)
           H == held_by_txn[t]
           rid == Here(t).arg
           z == <<rid, RowAt(heap, rid)>>
           x == Tail(c.todo)
           y == Append(c.got, z)
           c2 == RowsFetched(c, Append(c.got, z))
<1>1. Doing(t, "get") /\ UNCHANGED <<lmvars, dbvars>> /\ call \in [Txn -> CallType]
  BY InvParts DEF Get
<1>3. status[t] = "running" /\ c.todo # <<>> /\ Here(t) = c.todo[1] /\ Here(t).page \in H /\ c.todo[1].do = "get"
  BY <1>1, DoingFacts
<1>4. /\ Active(t) /\ c \in CallType /\ TxnOK(c, d, V, F, tree, H, Len(heap)) /\ Left(c) >= 1 /\ Functional(V)
  BY <1>3, RunningFacts, InvParts
<1>5. c.stage = "fetch"
  BY <1>3, <1>4, StageOfAccess
<1>6. rid \in {w[1] : w \in V} /\ c.todo[1] = GetRow(rid)
  <2>1. FetchShape(c, V, H, Len(heap))
    BY <1>4 DEF TxnOK
  <2>2. 1 \in 1..Left(c)
    BY <1>4, CallFields
  <2>3. FetchAccess(c, 1, V, H, Len(heap))
    BY <1>5, <2>1, <2>2, FetchParts
  <2>. QED  BY <1>3, <2>3 DEF FetchAccess
<1>7. PICK w \in V : w[1] = rid
  BY <1>6
<1> DEFINE p == w[1][1]
           s == w[1][2]
<1>8. Here(t).page = HeapPage(p) /\ HeapPage(p) \in H
  BY <1>3, <1>6, <1>7 DEF GetRow, Access
<1>9. p \in 1..Len(heap)
  <2>1. heap \in Seq(Page) /\ heap_file \in Seq(Page) /\ Len(heap_file) = Len(heap) /\ Len(heap) <= MaxPages
    BY InvParts
  <2>2. View(t) \in Seq(Page) /\ Len(View(t)) = Len(heap)
    BY <2>1, SeenFacts DEF View
  <2>. QED  BY <2>1, <2>2, ContentFacts
<1>10. w \in OnPage(heap[p], p) /\ heap[p] \in Page /\ p \in 1..MaxPages
  BY <1>4, <1>8, <1>9, LockedPageRows
<1>11. s \in Lives(heap[p]) /\ w[1] = <<p, s>> /\ w[2] = heap[p].slots[s].row /\ w \in Found
  BY <1>10, OnPageFacts
<1>12. IsLive(heap, rid) /\ RowAt(heap, rid) = w[2] /\ z = w
  <2>1. DOMAIN heap = 1..Len(heap)
    BY InvParts
  <2>2. w = <<w[1], w[2]>>
    BY <1>11 DEF Found
  <2>. QED  BY <1>7, <1>9, <1>11, <2>1, <2>2 DEF IsLive, RowAt, Lives
<1>13. call' = [call EXCEPT ![t] = [call[t] EXCEPT !.todo = x, !.got = y]]
  BY <1>1, <1>12 DEF Get, CallType
<1>14. call' = [call EXCEPT ![t] = c2]
  <2> HIDE DEF x, y
  <2>1. Replaced(call[t], x, y)
    BY <1>4, PartsReplaced
  <2>2. call' = [call EXCEPT ![t] = Call(c.stage, c.stmt, x, y, c.hits, c.rid, c.begun)]
    BY <1>13, <2>1 DEF Replaced
  <2>3. c2 = Call(c.stage, c.stmt, x, y, c.hits, c.rid, c.begun)
    BY <1>5 DEF RowsFetched, Fetching, x, y
  <2>. QED  BY <2>2, <2>3
<1>15. z \in V /\ z[1] = c.todo[1].arg /\ HeapPage(z[1][1]) \in H
  BY <1>3, <1>7, <1>8, <1>12
<1> HIDE DEF c, d, V, F, H, rid, z, x, y, c2, p, s
<1>16. c2 \in CallType /\ TxnOK(c2, d, V, F, tree, H, Len(heap))
  BY <1>3, <1>4, <1>5, <1>15, GetOK DEF c2
<1>17. CallStep(t, c2)
  BY <1>1, <1>14 DEF CallStep
<1>. QED  BY <1>16, <1>17, CallStepOK DEF d, V, F, H

LEMMA ScanStep ==
    ASSUME ExecInv, NEW t \in Txn, Scan(t)
    PROVE  ExecInv'
<1> DEFINE c == call[t]
           d == dirtied[t]
           V == Content(View(t))
           F == Content(heap_file)
           H == held_by_txn[t]
           p == Here(t).arg
           rows == PageRows(heap, p)
           x == Tail(c.todo)
           y == c.got \o rows
           c2 == PageFetched(c, rows)
<1>1. Doing(t, "scan") /\ UNCHANGED <<lmvars, dbvars>> /\ call \in [Txn -> CallType] /\ heap \in Seq(Page)
  BY InvParts DEF Scan
<1>2. call' = [call EXCEPT ![t].todo = x, ![t].got = y]
  BY <1>1 DEF Scan, CallType
<1>3. status[t] = "running" /\ c.todo # <<>> /\ Here(t) = c.todo[1] /\ Here(t).page \in H /\ c.todo[1].do = "scan"
  BY <1>1, DoingFacts
<1>4. /\ Active(t) /\ c \in CallType /\ TxnOK(c, d, V, F, tree, H, Len(heap)) /\ Left(c) >= 1
  BY <1>3, RunningFacts, InvParts
<1>5. c.stage = "fetch"
  BY <1>3, <1>4, StageOfAccess
<1>6. p \in 1..Len(heap) /\ c.todo[1] = ScanPage(p)
  <2>1. FetchShape(c, V, H, Len(heap))
    BY <1>4 DEF TxnOK
  <2>2. 1 \in 1..Left(c)
    BY <1>4, CallFields
  <2>3. FetchAccess(c, 1, V, H, Len(heap))
    BY <1>5, <2>1, <2>2, FetchParts
  <2>. QED  BY <1>3, <2>3 DEF FetchAccess
<1>7. Here(t).page = HeapPage(p) /\ HeapPage(p) \in H /\ p = c.todo[1].arg
  BY <1>3, <1>6 DEF ScanPage, Access
<1>8. p \in 1..MaxPages /\ heap[p] \in Page /\ OnPage(heap[p], p) \subseteq V
  BY <1>4, <1>6, <1>7, LockedPageRows
<1>9. rows \in Seq(Found) /\ RidsDiffer(rows) /\ \A g \in 1..Len(rows) : rows[g] \in OnPage(heap[p], p)
  BY <1>1, <1>8, PageRowsFacts
<1>10. \A g \in 1..Len(rows) : rows[g] \in V /\ rows[g][1][1] = c.todo[1].arg
  BY <1>7, <1>8, <1>9, OnPageFacts
<1>11. call' = [call EXCEPT ![t] = c2]
  <2> HIDE DEF x, y
  <2>1. CallsReplaced(t, x, y)
    BY <1>1, CallReplaced
  <2>2. call' = [call EXCEPT ![t] = Call(c.stage, c.stmt, x, y, c.hits, c.rid, c.begun)]
    BY <1>2, <2>1 DEF CallsReplaced
  <2>3. c2 = Call(c.stage, c.stmt, x, y, c.hits, c.rid, c.begun)
    BY <1>5 DEF PageFetched, RowsFetched, Fetching, x, y
  <2>. QED  BY <2>2, <2>3
<1>12. HeapPage(c.todo[1].arg) \in H
  BY <1>7
<1> HIDE DEF c, d, V, F, H, p, rows, x, y, c2
<1>13. c2 \in CallType /\ TxnOK(c2, d, V, F, tree, H, Len(heap))
  BY <1>3, <1>4, <1>5, <1>9, <1>10, <1>12, ScanOK DEF c2
<1>14. CallStep(t, c2)
  BY <1>1, <1>11 DEF CallStep
<1>. QED  BY <1>13, <1>14, CallStepOK DEF d, V, F, H

\* A statement returns, from wherever it is.
LEMMA ReturnStep ==
    ASSUME ExecInv, NEW t \in Txn, status[t] = "running", call[t].todo = <<>>,
           call[t].stage = "mutate" => call[t].begun = Len(MatchedOf(call[t])),
           call' = [call EXCEPT ![t] = NoCall], UNCHANGED <<lmvars, dbvars>>
    PROVE  ExecInv'
<1> DEFINE c == call[t]
           d == dirtied[t]
           V == Content(View(t))
           F == Content(heap_file)
           H == held_by_txn[t]
<1>1. c \in CallType /\ TxnOK(c, d, V, F, tree, H, Len(heap))
  BY RunningFacts
<1>2. Left(c) = 0
  BY <1>1, CallFields
<1>3. c.stage = "mutate" => c.begun = Len(MatchedOf(c))
  OBVIOUS
<1>4. CallStep(t, NoCall)
  BY DEF CallStep
<1> HIDE DEF c, d, V, F, H
<1>5. TxnOK(NoCall, d, V, F, tree, H, Len(heap))
  BY <1>1, <1>2, <1>3, ReturnOK
<1>. QED  BY <1>4, <1>5, NoCallFacts, CallStepOK DEF d, V, F, H

LEMMA MatchedIs ==
    ASSUME NEW t \in Txn
    PROVE  /\ Matched(t) = MatchedOf(call[t])
           /\ call \in [Txn -> CallType] => NewRows(t) = [i \in 1..Len(MatchedOf(call[t])) |-> NewOf(call[t], i)]
<1>1. Matched(t) = MatchedOf(call[t])
  BY DEF Matched, MatchedOf
<1>2. ASSUME call \in [Txn -> CallType] PROVE NewRows(t) = [i \in 1..Len(MatchedOf(call[t])) |-> NewOf(call[t], i)]
  <2>1. call[t] \in CallType
    BY <1>2
  <2>2. DOMAIN MatchedOf(call[t]) = 1..Len(MatchedOf(call[t]))
    BY <2>1, MatchedFacts
  <2>. QED  BY <1>1, <2>2 DEF NewRows, NewOf
<1>. QED  BY <1>1, <1>2

LEMMA ReturnSelectStep ==
    ASSUME ExecInv, NEW t \in Txn, ReturnSelect(t)
    PROVE  ExecInv'
<1>1. /\ status[t] = "running" /\ call[t].stage = "fetch" /\ call[t].todo = <<>>
      /\ call' = [call EXCEPT ![t] = NoCall] /\ UNCHANGED <<lmvars, dbvars>>
  BY DEF ReturnSelect, Fetched, InStage, Returns
<1>. QED  BY <1>1, ReturnStep

LEMMA ReturnAffectedStep ==
    ASSUME ExecInv, NEW t \in Txn, ReturnAffected(t)
    PROVE  ExecInv'
<1>1. /\ status[t] = "running" /\ call[t].stage = "mutate" /\ call[t].todo = <<>> /\ call[t].begun = Len(Matched(t))
      /\ call' = [call EXCEPT ![t] = NoCall] /\ UNCHANGED <<lmvars, dbvars>>
  BY DEF ReturnAffected, InStage, Returns
<1>. QED  BY <1>1, MatchedIs, ReturnStep

LEMMA StartDeleteStep ==
    ASSUME ExecInv, NEW t \in Txn, StartDelete(t)
    PROVE  ExecInv'
<1> DEFINE c == call[t]
           d == dirtied[t]
           V == Content(View(t))
           F == Content(heap_file)
           H == held_by_txn[t]
           x == "mutate"
           c2 == Mutating(c, NoAccess)
<1>1. /\ status[t] = "running" /\ c.stage = "fetch" /\ c.todo = <<>> /\ c.stmt.kind = "delete"
      /\ call' = [call EXCEPT ![t].stage = x] /\ UNCHANGED <<lmvars, dbvars>>
  BY DEF StartDelete, Fetched, InStage
<1>2. c \in CallType /\ TxnOK(c, d, V, F, tree, H, Len(heap)) /\ call \in [Txn -> CallType]
  BY <1>1, RunningFacts, InvParts
<1>3. call' = [call EXCEPT ![t] = c2]
  <2> HIDE DEF x
  <2>1. CallsReplaced(t, x, x)
    BY <1>2, CallReplaced
  <2>2. call' = [call EXCEPT ![t] = Call(x, c.stmt, c.todo, c.got, c.hits, c.rid, c.begun)]
    BY <1>1, <2>1 DEF CallsReplaced
  <2>3. c2 = Call(x, c.stmt, c.todo, c.got, c.hits, c.rid, c.begun)
    BY <1>1 DEF Mutating, NoAccess, x
  <2>. QED  BY <2>2, <2>3
<1> HIDE DEF c, d, V, F, H, x, c2
<1>4. c2 \in CallType /\ TxnOK(c2, d, V, F, tree, H, Len(heap))
  BY <1>1, <1>2, StartDeleteOK DEF c2
<1>5. CallStep(t, c2)
  BY <1>1, <1>3 DEF CallStep
<1>. QED  BY <1>4, <1>5, CallStepOK DEF d, V, F, H

LEMMA CheckUpdateStep ==
    ASSUME ExecInv, NEW t \in Txn, CheckUpdate(t)
    PROVE  ExecInv'
<1> DEFINE c == call[t]
           d == dirtied[t]
           V == Content(View(t))
           F == Content(heap_file)
           H == held_by_txn[t]
           x == "check"
           y == IF Pk = <<>> THEN <<>>
                ELSE [i \in DOMAIN NewRows(t) |-> SearchTree(Pk[1].name, PkOf(NewRows(t)[i]))]
           c2 == Checking(c, SearchAll(c), c.hits)
<1>1. /\ status[t] = "running" /\ c.stage = "fetch" /\ c.todo = <<>> /\ c.stmt.kind = "update"
      /\ UNCHANGED <<lmvars, dbvars>>
  BY DEF CheckUpdate, Fetched, InStage
<1>2. c \in CallType /\ TxnOK(c, d, V, F, tree, H, Len(heap)) /\ call \in [Txn -> CallType]
  BY <1>1, RunningFacts, InvParts
<1>3. CASE BatchRejected(t)
  <2>1. call' = [call EXCEPT ![t] = NoCall]
    BY <1>3 DEF CheckUpdate, Returns
  <2>. QED  BY <1>1, <2>1, ReturnStep
<1>4. CASE ~BatchRejected(t)
  <2>1. call' = [call EXCEPT ![t].stage = x, ![t].todo = y]
    BY <1>4 DEF CheckUpdate
  <2>2. NewRows(t) = [i \in 1..Len(MatchedOf(c)) |-> NewOf(c, i)]
    BY <1>2, MatchedIs
  <2>3. y = SearchAll(c)
    <3> DEFINE B(i) == SearchTree(Pk[1].name, PkOf(NewRows(t)[i]))
               C(i) == SearchTree(Pk[1].name, PkOf(NewOf(c, i)))
    <3>1. DOMAIN NewRows(t) = 1..Len(MatchedOf(c))
      BY <2>2
    <3>2. \A i \in 1..Len(MatchedOf(c)) : B(i) = C(i)
      BY <2>2
    <3>3. y = IF Pk = <<>> THEN <<>> ELSE [i \in DOMAIN NewRows(t) |-> B(i)]
      OBVIOUS
    <3>4. SearchAll(c) = IF Pk = <<>> THEN <<>> ELSE [i \in 1..Len(MatchedOf(c)) |-> C(i)]
      BY DEF SearchAll
    <3> HIDE DEF B, C, y, c
    <3>. QED  BY <3>1, <3>2, <3>3, <3>4
  <2>4. Pk # <<>> => NewKeysDiffer(c)
    <3> SUFFICES ASSUME Pk # <<>>, NEW m \in 1..Len(MatchedOf(c)), NEW k \in 1..Len(MatchedOf(c)),
                        PkOf(NewOf(c, m)) = PkOf(NewOf(c, k)), m # k
                 PROVE  FALSE
      BY DEF NewKeysDiffer
    <3>1. Len(MatchedOf(c)) \in Nat
      BY <1>2, MatchedFacts
    <3>2. m < k \/ k < m
      <4> HIDE DEF c
      <4>. QED  BY <3>1
    <3>3. /\ DOMAIN NewRows(t) = 1..Len(MatchedOf(c))
          /\ NewRows(t)[m] = NewOf(c, m) /\ NewRows(t)[k] = NewOf(c, k)
      BY <2>2
    <3> HIDE DEF c
    <3>. QED  BY <1>4, <3>2, <3>3 DEF BatchRejected
  <2>5. call' = [call EXCEPT ![t] = c2]
    <3> HIDE DEF x, y
    <3>1. CallsReplaced(t, x, y)
      BY <1>2, CallReplaced
    <3>2. call' = [call EXCEPT ![t] = Call(x, c.stmt, y, c.got, c.hits, c.rid, c.begun)]
      BY <2>1, <3>1 DEF CallsReplaced
    <3>3. c2 = Call(x, c.stmt, y, c.got, c.hits, c.rid, c.begun)
      BY <2>3 DEF Checking, x
    <3>. QED  BY <3>2, <3>3
  <2> HIDE DEF c, d, V, F, H, x, y, c2
  <2>6. c2 \in CallType /\ TxnOK(c2, d, V, F, tree, H, Len(heap))
    BY <1>1, <1>2, <2>4, CheckUpdateOK DEF c2
  <2>7. CallStep(t, c2)
    BY <1>1, <2>5 DEF CallStep
  <2>. QED  BY <2>6, <2>7, CallStepOK DEF d, V, F, H
<1>. QED  BY <1>3, <1>4

LEMMA StartUpdateStep ==
    ASSUME ExecInv, NEW t \in Txn, StartUpdate(t)
    PROVE  ExecInv'
<1> DEFINE c == call[t]
           d == dirtied[t]
           V == Content(View(t))
           F == Content(heap_file)
           H == held_by_txn[t]
           x == "mutate"
           c2 == Mutating(c, NoAccess)
<1>1. /\ status[t] = "running" /\ c.stage = "check" /\ c.todo = <<>> /\ c.stmt.kind = "update"
      /\ UNCHANGED <<lmvars, dbvars>>
  BY DEF StartUpdate, Checked, InStage
<1>2. c \in CallType /\ TxnOK(c, d, V, F, tree, H, Len(heap)) /\ call \in [Txn -> CallType] /\ Functional(V)
  BY <1>1, RunningFacts, InvParts
<1>3. CASE Taken(t)
  <2>1. call' = [call EXCEPT ![t] = NoCall]
    BY <1>3 DEF StartUpdate, Returns
  <2>. QED  BY <1>1, <2>1, ReturnStep
<1>4. CASE ~Taken(t)
  <2>1. call' = [call EXCEPT ![t].stage = x]
    BY <1>4 DEF StartUpdate
  <2>2. c.hits \subseteq {MatchedOf(c)[m][1] : m \in 1..Len(MatchedOf(c))}
    <3>1. Matched(t) = MatchedOf(c) /\ DOMAIN MatchedOf(c) = 1..Len(MatchedOf(c))
      BY <1>2, MatchedIs, MatchedFacts
    <3>2. c.hits \ {r[1] : r \in ToSet(MatchedOf(c))} = {}
      BY <1>4, <3>1 DEF Taken
    <3> HIDE DEF c
    <3>3. ToSet(MatchedOf(c)) = {MatchedOf(c)[m] : m \in 1..Len(MatchedOf(c))}
      BY <3>1 DEF ToSet
    <3>. QED  BY <3>2, <3>3
  <2>3. call' = [call EXCEPT ![t] = c2]
    <3> HIDE DEF x
    <3>1. CallsReplaced(t, x, x)
      BY <1>2, CallReplaced
    <3>2. call' = [call EXCEPT ![t] = Call(x, c.stmt, c.todo, c.got, c.hits, c.rid, c.begun)]
      BY <2>1, <3>1 DEF CallsReplaced
    <3>3. c2 = Call(x, c.stmt, c.todo, c.got, c.hits, c.rid, c.begun)
      BY <1>1 DEF Mutating, NoAccess, x
    <3>. QED  BY <3>2, <3>3
  <2> HIDE DEF c, d, V, F, H, x, c2
  <2>4. c2 \in CallType /\ TxnOK(c2, d, V, F, tree, H, Len(heap))
    BY <1>1, <1>2, <2>2, StartUpdateOK DEF c2
  <2>5. CallStep(t, c2)
    BY <1>1, <2>3 DEF CallStep
  <2>. QED  BY <2>4, <2>5, CallStepOK DEF d, V, F, H
<1>. QED  BY <1>3, <1>4

LEMMA StartInsertStep ==
    ASSUME ExecInv, NEW t \in Txn, StartInsert(t)
    PROVE  ExecInv'
<1> DEFINE c == call[t]
           d == dirtied[t]
           V == Content(View(t))
           F == Content(heap_file)
           H == held_by_txn[t]
           x == "mutate"
           y == InsertEverywhere(c.stmt.row)
           c2 == Mutating(c, InsertEverywhere(c.stmt.row))
<1>1. /\ status[t] = "running" /\ c.stage = "check" /\ c.todo = <<>> /\ c.stmt.kind = "insert"
      /\ UNCHANGED <<lmvars, dbvars>>
  BY DEF StartInsert, Checked, InStage
<1>2. c \in CallType /\ TxnOK(c, d, V, F, tree, H, Len(heap)) /\ call \in [Txn -> CallType]
  BY <1>1, RunningFacts, InvParts
<1>3. CASE c.hits # {} \/ ~c.stmt.fits
  <2>1. call' = [call EXCEPT ![t] = NoCall]
    BY <1>3 DEF StartInsert, Returns
  <2>. QED  BY <1>1, <2>1, ReturnStep
<1>4. CASE ~(c.hits # {} \/ ~c.stmt.fits)
  <2>1. call' = [call EXCEPT ![t].stage = x, ![t].todo = y] /\ c.hits = {}
    BY <1>4 DEF StartInsert
  <2>2. call' = [call EXCEPT ![t] = c2]
    <3> HIDE DEF x, y
    <3>1. CallsReplaced(t, x, y)
      BY <1>2, CallReplaced
    <3>2. call' = [call EXCEPT ![t] = Call(x, c.stmt, y, c.got, c.hits, c.rid, c.begun)]
      BY <2>1, <3>1 DEF CallsReplaced
    <3>3. c2 = Call(x, c.stmt, y, c.got, c.hits, c.rid, c.begun)
      BY DEF Mutating, x, y
    <3>. QED  BY <3>2, <3>3
  <2> HIDE DEF c, d, V, F, H, x, y, c2
  <2>4. c2 \in CallType /\ TxnOK(c2, d, V, F, tree, H, Len(heap))
    BY <1>1, <1>2, <2>1, StartInsertOK DEF c2
  <2>5. CallStep(t, c2)
    BY <1>1, <2>2 DEF CallStep
  <2>. QED  BY <2>4, <2>5, CallStepOK DEF d, V, F, H
<1>. QED  BY <1>3, <1>4

LEMMA NextRowStep ==
    ASSUME ExecInv, NEW t \in Txn, NextRow(t)
    PROVE  ExecInv'
<1> DEFINE c == call[t]
           d == dirtied[t]
           V == Content(View(t))
           F == Content(heap_file)
           H == held_by_txn[t]
           b == c.begun + 1
           y == DeleteEverywhere(Matched(t)[b]) \o
                (IF c.stmt.kind = "update" THEN InsertEverywhere(NewRows(t)[b]) ELSE <<>>)
           c2 == AtRow(c, b)
<1>1. /\ status[t] = "running" /\ c.stage = "mutate" /\ c.todo = <<>> /\ c.begun < Len(Matched(t))
      /\ call' = [call EXCEPT ![t].begun = b, ![t].todo = y] /\ UNCHANGED <<lmvars, dbvars>>
  BY DEF NextRow, InStage
<1>2. c \in CallType /\ TxnOK(c, d, V, F, tree, H, Len(heap)) /\ call \in [Txn -> CallType]
  BY <1>1, RunningFacts, InvParts
<1>3. Left(c) = 0 /\ c.begun \in Nat /\ Len(MatchedOf(c)) \in Nat
  BY <1>1, <1>2, CallFields, MatchedFacts
<1>4. Matched(t) = MatchedOf(c) /\ NewRows(t) = [i \in 1..Len(MatchedOf(c)) |-> NewOf(c, i)]
  BY <1>2, MatchedIs
<1>5. b \in 1..Len(MatchedOf(c)) /\ c.begun < Len(MatchedOf(c))
  <2>1. c.begun < Len(MatchedOf(c))
    BY <1>1, <1>4
  <2> HIDE DEF c
  <2>. QED  BY <1>3, <2>1
<1>6. call' = [call EXCEPT ![t] = c2]
  <2>0. NewRows(t)[b] = NewOf(c, b)
    BY <1>4, <1>5
  <2> DEFINE z == DeleteEverywhere(MatchedOf(c)[b]) \o
                  (IF c.stmt.kind = "update" THEN InsertEverywhere(NewOf(c, b)) ELSE <<>>)
  <2>1. y = z
    BY <1>4, <2>0
  <2>2. c2 = Call(c.stage, c.stmt, z, c.got, c.hits, c.rid, b)
    BY DEF AtRow
  <2> HIDE DEF b, y, z
  <2>3. CallsReplaced(t, b, y)
    BY <1>2, CallReplaced
  <2>4. call' = [call EXCEPT ![t] = Call(c.stage, c.stmt, y, c.got, c.hits, c.rid, b)]
    BY <1>1, <2>3 DEF CallsReplaced
  <2>. QED  BY <2>1, <2>2, <2>4
<1>7. b = c.begun + 1
  OBVIOUS
<1> HIDE DEF c, d, V, F, H, b, y, c2
<1>8. c2 \in CallType /\ TxnOK(c2, d, V, F, tree, H, Len(heap))
  BY <1>1, <1>2, <1>3, <1>5, <1>7, NextRowOK DEF c2
<1>9. CallStep(t, c2)
  BY <1>1, <1>6 DEF CallStep
<1>. QED  BY <1>8, <1>9, CallStepOK DEF d, V, F, H

\* The change that is next, by its kind.
AtTreeDelete(c, j) ==
    /\ j = EraseAt(c) + N - Left(c) + 1
    /\ c.todo[1] = TreeDelete(Indexes[j].name, <<Key(j, Old(c)[2]), Old(c)[1]>>)
AtTreeInsert(c, j) ==
    /\ j = N - Left(c) + 1
    /\ c.todo[1] = TreeInsert(Indexes[j].name, Key(j, New(c)))

LEMMA HeadByKind ==
    ASSUME NEW c \in CallType, NEW d, NEW V, NEW F, NEW T, NEW H, NEW n, TxnOK(c, d, V, F, T, H, n), c.todo # <<>>
    PROVE  /\ c.todo[1].do = "delete" =>
                 c.stage = "mutate" /\ Erasing(c) /\ Left(c) = EraseAt(c) /\ c.todo[1] = DeleteRow(Old(c)[1])
           /\ c.todo[1].do = "tree_delete" =>
                 c.stage = "mutate" /\ Erasing(c) /\ Left(c) > EraseAt(c) /\ \E j \in 1..N : AtTreeDelete(c, j)
           /\ c.todo[1].do = "tree_insert" =>
                 c.stage = "mutate" /\ Adding(c) /\ Left(c) <= N /\ \E j \in 1..N : AtTreeInsert(c, j)
           /\ c.todo[1].do \in {"insert", "put"} =>
                 /\ c.stage = "mutate" /\ Adding(c) /\ Left(c) = N + 1
                 /\ c.todo[1].mode = LM!kExclusive /\ c.todo[1].arg = New(c)
           /\ c.todo[1].do = "put" => \E p \in 1..n : c.todo[1].page = HeapPage(p)
<1>1. c.todo[1].do \in {"delete", "tree_delete", "tree_insert", "insert", "put"} => c.stage = "mutate"
  BY StageOfAccess
<1>2. MutateShape(c, n)
  BY DEF TxnOK
<1>3. \A i, e : TreeDelete(i, e).do = "tree_delete" /\ TreeInsert(i, e).do = "tree_insert"
  BY DEF TreeDelete, TreeInsert, Access
<1>4. \A x : DeleteRow(x).do = "delete"
  BY DEF DeleteRow, Access
<1>5. ASSUME c.stage = "mutate"
      PROVE  \/ Erasing(c) /\ Left(c) > EraseAt(c) /\ \E j \in 1..N : AtTreeDelete(c, j)
             \/ Erasing(c) /\ Left(c) = EraseAt(c) /\ c.todo[1] = DeleteRow(Old(c)[1])
             \/ /\ Adding(c) /\ Left(c) = N + 1
                /\ c.todo[1].do \in {"insert", "put"} /\ c.todo[1].mode = LM!kExclusive /\ c.todo[1].arg = New(c)
                /\ c.todo[1].do = "put" => \E p \in 1..n : c.todo[1].page = HeapPage(p)
             \/ Adding(c) /\ Left(c) <= N /\ \E j \in 1..N : AtTreeInsert(c, j)
  BY <1>2, <1>5, MutateHead, Zenon DEF AtTreeDelete, AtTreeInsert
<1>6. /\ \A j : AtTreeDelete(c, j) => c.todo[1].do = "tree_delete"
      /\ \A j : AtTreeInsert(c, j) => c.todo[1].do = "tree_insert"
      /\ c.todo[1] = DeleteRow(Old(c)[1]) => c.todo[1].do = "delete"
  BY <1>3, <1>4 DEF AtTreeDelete, AtTreeInsert
<1>. QED  BY <1>1, <1>5, <1>6

\* The call goes on to its next access.
LEMMA DoneFacts ==
    ASSUME NEW t \in Txn, call \in [Txn -> CallType], call[t].todo # <<>>, Done(t),
           NEW c2, c2 = [call[t] EXCEPT !.todo = Tail(@)]
    PROVE  /\ call' = [call EXCEPT ![t] = c2] /\ c2 \in CallType /\ Advances(call[t], c2) /\ c2.rid = call[t].rid
<1>1. call[t] \in CallType
  OBVIOUS
<1>2. Advances(call[t], c2) /\ c2.rid = call[t].rid
  BY <1>1, NextAccess
<1>3. call' = [call EXCEPT ![t] = c2]
  BY DEF Done
<1>. QED  BY <1>2, <1>3 DEF Advances

LEMMA DeleteFromTreeStep ==
    ASSUME ExecInv, NEW t \in Txn, DeleteFromTree(t)
    PROVE  ExecInv'
<1> DEFINE c == call[t]
           d == dirtied[t]
           V == Content(View(t))
           F == Content(heap_file)
           H == held_by_txn[t]
           c2 == [call[t] EXCEPT !.todo = Tail(@)]
<1>1. /\ Doing(t, "tree_delete") /\ Done(t) /\ dirtied' = [dirtied EXCEPT ![t] = @ \cup {Here(t).page}]
      /\ tree' = [tree EXCEPT ![Here(t).page[2]] = Removed(@, Here(t).arg)]
      /\ UNCHANGED <<lmvars, heap, heap_file, tree_file>>
  BY DEF DeleteFromTree, Dirty
<1>2. /\ status[t] = "running" /\ c.todo # <<>> /\ Here(t) = c.todo[1] /\ c.todo[1].do = "tree_delete" /\ Here(t).page \in H
      /\ Here(t).mode = LM!kExclusive => locks[Here(t).page].exclusive_holder = t
  BY <1>1, DoingFacts
<1>3. /\ Active(t) /\ c \in CallType /\ TxnOK(c, d, V, F, tree, H, Len(heap)) /\ Functional(V)
      /\ call \in [Txn -> CallType] /\ tree \in [IndexId -> Seq(Entry)]
  BY <1>2, RunningFacts, InvParts
<1>4. c.stage = "mutate" /\ Erasing(c) /\ Left(c) > EraseAt(c) /\ \E j \in 1..N : AtTreeDelete(c, j)
  BY <1>2, <1>3, HeadByKind
<1>5. PICK j \in 1..N : AtTreeDelete(c, j)
  BY <1>4
<1> DEFINE e == <<Key(j, Old(c)[2]), Old(c)[1]>>
           i == Indexes[j].name
           new == Removed(tree[i], e)
<1>6. /\ j = EraseAt(c) + N - Left(c) + 1 /\ Here(t).page = IndexRoot(j) /\ Here(t).arg = e
      /\ Here(t).page[2] = i /\ Here(t).mode = LM!kExclusive /\ i \in IndexId
  <2>1. j = EraseAt(c) + N - Left(c) + 1 /\ Here(t) = TreeDelete(i, e)
    BY <1>2, <1>5 DEF AtTreeDelete
  <2>2. Here(t).page = IndexRoot(j) /\ Here(t).arg = e /\ Here(t).mode = LM!kExclusive
    <3> HIDE DEF e
    <3>. QED  BY <2>1 DEF TreeDelete, Access, IndexRoot
  <2>. QED  BY <2>1, <2>2, PageKeyFacts, IndexIdFacts DEF IndexRoot
<1>7. locks[IndexRoot(j)].exclusive_holder = t /\ IndexRoot(j) \in H
  BY <1>2, <1>6
<1>8. /\ Elements(tree[i]) = Entries(j, V \ Lag(c, j))
      /\ tree[i] \in Seq(Entry) /\ Injective(tree[i])
  BY <1>3, <1>7, SeesTree
<1>9. tree' = [tree EXCEPT ![i] = new]
  BY <1>1, <1>6
<1>10. call' = [call EXCEPT ![t] = c2] /\ c2 \in CallType /\ Advances(c, c2) /\ c2.rid = c.rid
  BY <1>1, <1>2, <1>3, DoneFacts
<1>11. dirtied' = [dirtied EXCEPT ![t] = @ \cup {IndexRoot(j)}]
  BY <1>1, <1>6
<1> HIDE DEF c, d, V, F, H, c2, e, i, new
<1>12. new \in Seq(Entry) /\ Injective(new) /\ Elements(new) = Elements(tree[i]) \ {e}
  BY <1>8, RemovedFacts DEF new
<1>13. tree'[i] = new
  BY <1>3, <1>6, <1>9
<1>14. ASSUME NEW k \in 1..N, k # j PROVE tree'[Indexes[k].name] = tree[Indexes[k].name]
  <2>1. Indexes[k].name # i /\ Indexes[k].name \in IndexId
    BY <1>14, IndexFacts, IndexIdFacts DEF i
  <2>. QED  BY <1>3, <1>9, <2>1
<1>15. Elements(tree'[Indexes[j].name]) = Elements(tree[Indexes[j].name]) \ {<<Key(j, Old(c)[2]), Old(c)[1]>>}
  BY <1>12, <1>13 DEF i, e
<1>16. Elements(tree[Indexes[j].name]) = Entries(j, V \ Lag(c, j))
  BY <1>8 DEF i
<1>17. TxnOK(c2, d \cup {IndexRoot(j)}, V, F, tree', H, Len(heap))
  <2>1. EntryRemoved(c, j, V, tree, tree')
    BY <1>14, <1>15, <1>16 DEF EntryRemoved
  <2>2. j = EraseAt(c) + N - Left(c) + 1
    BY <1>6
  <2>. QED  BY <1>3, <1>4, <1>10, <2>1, <2>2, TreeDeleteOK
<1>18. TreeStep(t, j, new, c2)
  BY <1>1, <1>9, <1>10, <1>11 DEF TreeStep, i
<1>. QED  BY <1>7, <1>10, <1>12, <1>17, <1>18, TreeStepOK DEF d, V, F, H

\* The row that is next to be listed by index j is there, and not listed yet.
LEMMA ArrivingNow ==
    ASSUME NEW c \in CallType, NEW d, NEW V, NEW F, NEW T, NEW H, NEW n, TxnOK(c, d, V, F, T, H, n), Functional(V),
           Adding(c), Left(c) <= N, NEW j \in 1..N, j = N - Left(c) + 1
    PROVE  /\ c.rid \in Rid /\ New(c) \in Row
           /\ <<Key(j, New(c)), c.rid>> \in Entry
           /\ <<Key(j, New(c)), c.rid>> \notin Entries(j, V \ Lag(c, j))
<1> DEFINE w == <<c.rid, New(c)>>
<1>1. N - j + 1 <= Left(c)
  <2>1. N \in Nat /\ Left(c) \in Nat
    BY CallNumbers
  <2>. QED  BY <2>1
<1>2. Arriving(c, j) = {w}
  BY <1>1 DEF Arriving
<1>3. Arriving(c, j) \subseteq V /\ w \in Lag(c, j)
  BY <1>2 DEF TxnOK, TreesOK, Lag
<1>4. w \in V
  BY <1>2, <1>3
<1>5. w \in Found /\ \A x \in V : x[1] = w[1] => x = w
  BY <1>4 DEF Functional
<1>6. c.rid \in Rid /\ New(c) \in Row
  BY <1>5 DEF Found
<1>7. Key(j, New(c)) \in Value
  BY <1>6, KeyFacts
<1>8. <<Key(j, New(c)), c.rid>> \notin Entries(j, V \ Lag(c, j))
  <2> SUFFICES ASSUME NEW x \in V \ Lag(c, j), <<Key(j, New(c)), c.rid>> = <<Key(j, x[2]), x[1]>> PROVE FALSE
    BY DEF Entries
  <2>1. x[1] = w[1]
    OBVIOUS
  <2> HIDE DEF w
  <2>. QED  BY <1>3, <1>5, <2>1
<1>. QED  BY <1>6, <1>7, <1>8 DEF Entry

LEMMA InsertIntoTreeStep ==
    ASSUME ExecInv, NEW t \in Txn, InsertIntoTree(t)
    PROVE  ExecInv'
<1> DEFINE c == call[t]
           d == dirtied[t]
           V == Content(View(t))
           F == Content(heap_file)
           H == held_by_txn[t]
           c2 == [call[t] EXCEPT !.todo = Tail(@)]
<1>1. /\ Doing(t, "tree_insert") /\ Done(t) /\ dirtied' = [dirtied EXCEPT ![t] = @ \cup {Here(t).page}]
      /\ tree' = [tree EXCEPT ![Here(t).page[2]] = Append(@, <<Here(t).arg, c.rid>>)]
      /\ UNCHANGED <<lmvars, heap, heap_file, tree_file>>
  BY DEF InsertIntoTree, Dirty
<1>2. /\ status[t] = "running" /\ c.todo # <<>> /\ Here(t) = c.todo[1] /\ c.todo[1].do = "tree_insert" /\ Here(t).page \in H
      /\ Here(t).mode = LM!kExclusive => locks[Here(t).page].exclusive_holder = t
  BY <1>1, DoingFacts
<1>3. /\ Active(t) /\ c \in CallType /\ TxnOK(c, d, V, F, tree, H, Len(heap)) /\ Functional(V)
      /\ call \in [Txn -> CallType] /\ tree \in [IndexId -> Seq(Entry)]
  BY <1>2, RunningFacts, InvParts
<1>4. c.stage = "mutate" /\ Adding(c) /\ Left(c) <= N /\ \E j \in 1..N : AtTreeInsert(c, j)
  BY <1>2, <1>3, HeadByKind
<1>5. PICK j \in 1..N : AtTreeInsert(c, j)
  BY <1>4
<1> DEFINE e == <<Key(j, New(c)), c.rid>>
           i == Indexes[j].name
           new == Append(tree[i], e)
<1>6. /\ j = N - Left(c) + 1 /\ Here(t).page = IndexRoot(j) /\ Here(t).arg = Key(j, New(c))
      /\ Here(t).page[2] = i /\ Here(t).mode = LM!kExclusive /\ i \in IndexId
  <2>1. j = N - Left(c) + 1 /\ Here(t) = TreeInsert(i, Key(j, New(c)))
    BY <1>2, <1>5 DEF AtTreeInsert
  <2>2. Here(t).page = IndexRoot(j) /\ Here(t).arg = Key(j, New(c)) /\ Here(t).mode = LM!kExclusive
    BY <2>1 DEF TreeInsert, Access, IndexRoot
  <2>. QED  BY <2>1, <2>2, PageKeyFacts, IndexIdFacts DEF IndexRoot
<1>7. locks[IndexRoot(j)].exclusive_holder = t /\ IndexRoot(j) \in H
  BY <1>2, <1>6
<1>8. /\ Elements(tree[i]) = Entries(j, V \ Lag(c, j))
      /\ tree[i] \in Seq(Entry) /\ Injective(tree[i])
  BY <1>3, <1>7, SeesTree
<1>9. tree' = [tree EXCEPT ![i] = new]
  BY <1>1, <1>6
<1>10. call' = [call EXCEPT ![t] = c2] /\ c2 \in CallType /\ Advances(c, c2) /\ c2.rid = c.rid
  BY <1>1, <1>2, <1>3, DoneFacts
<1>11. dirtied' = [dirtied EXCEPT ![t] = @ \cup {IndexRoot(j)}]
  BY <1>1, <1>6
<1>12. e \in Entry /\ e \notin Entries(j, V \ Lag(c, j))
  <2>1. j = N - Left(c) + 1
    BY <1>6
  <2> HIDE DEF c, d, V, F, H
  <2>. QED  BY <1>3, <1>4, <2>1, ArrivingNow
<1> HIDE DEF c, d, V, F, H, c2, e, i, new
<1>13. new \in Seq(Entry) /\ Injective(new) /\ Elements(new) = Elements(tree[i]) \cup {e}
  <2>1. e \in Entry /\ e \notin Elements(tree[i])
    BY <1>8, <1>12
  <2>. QED  BY <1>8, <2>1, AppendedFacts DEF new
<1>14. tree'[i] = new
  BY <1>3, <1>6, <1>9
<1>15. ASSUME NEW k \in 1..N, k # j PROVE tree'[Indexes[k].name] = tree[Indexes[k].name]
  <2>1. Indexes[k].name # i /\ Indexes[k].name \in IndexId
    BY <1>15, IndexFacts, IndexIdFacts DEF i
  <2>. QED  BY <1>3, <1>9, <2>1
<1>16. Elements(tree'[Indexes[j].name]) = Elements(tree[Indexes[j].name]) \cup {<<Key(j, New(c)), c.rid>>}
  BY <1>13, <1>14 DEF i, e
<1>17. TxnOK(c2, d \cup {IndexRoot(j)}, V, F, tree', H, Len(heap))
  <2>1. EntryAdded(c, j, V, tree, tree')
    BY <1>8, <1>15, <1>16 DEF EntryAdded, i
  <2>2. j = N - Left(c) + 1
    BY <1>6
  <2>. QED  BY <1>3, <1>4, <1>10, <2>1, <2>2, TreeInsertOK
<1>18. TreeStep(t, j, new, c2)
  BY <1>1, <1>9, <1>10, <1>11 DEF TreeStep, i
<1>. QED  BY <1>7, <1>10, <1>13, <1>17, <1>18, TreeStepOK DEF d, V, F, H

LEMMA DeleteStep ==
    ASSUME ExecInv, NEW t \in Txn, Delete(t)
    PROVE  ExecInv'
<1> DEFINE c == call[t]
           d == dirtied[t]
           V == Content(View(t))
           F == Content(heap_file)
           H == held_by_txn[t]
           c2 == [call[t] EXCEPT !.todo = Tail(@)]
           w == Old(c)
           p == w[1][1]
           s == w[1][2]
           new == [heap[p] EXCEPT !.slots[s].live = FALSE]
<1>1. /\ Doing(t, "delete") /\ Done(t) /\ dirtied' = [dirtied EXCEPT ![t] = @ \cup {Here(t).page}]
      /\ heap' = [heap EXCEPT ![Here(t).arg[1]].slots[Here(t).arg[2]].live = FALSE]
      /\ UNCHANGED <<lmvars, heap_file, tree, tree_file>>
  BY DEF Delete, Dirty
<1>2. /\ status[t] = "running" /\ c.todo # <<>> /\ Here(t) = c.todo[1] /\ c.todo[1].do = "delete" /\ Here(t).page \in H
      /\ Here(t).mode = LM!kExclusive => locks[Here(t).page].exclusive_holder = t
  BY <1>1, DoingFacts
<1>3. /\ Active(t) /\ c \in CallType /\ TxnOK(c, d, V, F, tree, H, Len(heap)) /\ Functional(V)
      /\ call \in [Txn -> CallType]
  BY <1>2, RunningFacts, InvParts
<1>4. c.stage = "mutate" /\ Erasing(c) /\ Left(c) = EraseAt(c) /\ c.todo[1] = DeleteRow(Old(c)[1])
  BY <1>2, <1>3, HeadByKind
<1>5. Here(t).page = HeapPage(p) /\ Here(t).arg = w[1] /\ Here(t).mode = LM!kExclusive
  BY <1>2, <1>4 DEF DeleteRow, Access
<1>6. locks[HeapPage(p)].exclusive_holder = t /\ HeapPage(p) \in H
  BY <1>2, <1>5
<1>7. call' = [call EXCEPT ![t] = c2] /\ c2 \in CallType /\ Advances(c, c2) /\ c2.rid = c.rid
  BY <1>1, <1>2, <1>3, DoneFacts
<1>8. w \in V /\ TxnOK(c2, d \cup {HeapPage(p)}, V \ {w}, F, tree, H, Len(heap))
  <2> HIDE DEF c, d, V, F, H, c2, p
  <2>. QED  BY <1>3, <1>4, <1>7, DeleteOK
<1>9. p \in 1..Len(heap)
  <2>1. heap \in Seq(Page) /\ heap_file \in Seq(Page) /\ Len(heap_file) = Len(heap) /\ Len(heap) <= MaxPages
    BY InvParts
  <2>2. View(t) \in Seq(Page) /\ Len(View(t)) = Len(heap)
    BY <2>1, SeenFacts DEF View
  <2> HIDE DEF w
  <2>. QED  BY <1>8, <2>1, <2>2, ContentFacts
<1> HIDE DEF w
<1>10. w \in OnPage(heap[p], p) /\ heap[p] \in Page /\ p \in 1..MaxPages
  BY <1>3, <1>6, <1>8, <1>9, LockedPageRows
<1>11. s \in Lives(heap[p]) /\ w[1] = <<p, s>> /\ w[2] = heap[p].slots[s].row /\ w \in Found
  BY <1>10, OnPageFacts
<1>12. w = <<<<p, s>>, heap[p].slots[s].row>>
  <2>1. w = <<w[1], w[2]>>
    BY <1>11 DEF Found
  <2>. QED  BY <1>11, <2>1
<1>13. heap' = [heap EXCEPT ![p] = new]
  <2> HIDE DEF c, d, V, F, H, c2
  <2>. QED  BY <1>1, <1>5
<1>14. new \in Page /\ Changes(heap[p], new, p, {w}, {})
  <2>1. new \in Page /\ Changes(heap[p], new, p, {<<<<p, s>>, heap[p].slots[s].row>>}, {})
    <3> HIDE DEF p, s
    <3>. QED  BY <1>10, <1>11, PageDelete
  <2> HIDE DEF p, s, new
  <2>. QED  BY <1>12, <2>1
<1>15. After(V, {w}, {}) = V \ {w}
  <2> HIDE DEF V
  <2>. QED  BY DEF After
<1> HIDE DEF c, d, V, F, H, c2, p, s, new
<1>16. PageStep(t, p, new, c2)
  BY <1>1, <1>5, <1>7, <1>13 DEF PageStep
<1>17. TxnOK(c2, d \cup {HeapPage(p)}, After(V, {w}, {}), F, tree, H, Len(heap))
  BY <1>8, <1>15
<1>. QED  BY <1>6, <1>7, <1>9, <1>14, <1>16, <1>17, PageStepOK DEF d, V, F, H

LEMMA ChoosePageStep ==
    ASSUME ExecInv, NEW t \in Txn, ChoosePage(t)
    PROVE  ExecInv'
<1> DEFINE c == call[t]
           d == dirtied[t]
           V == Content(View(t))
           F == Content(heap_file)
           H == held_by_txn[t]
           n == Len(heap)
           x == <<Access("put", HeapPage(Len(heap)), LM!kExclusive, Here(t).arg)>> \o Tail(c.todo)
           c2 == ChosenPage(c, Len(heap))
<1>1. /\ status[t] = "running" /\ c.stage = "mutate" /\ c.todo # <<>> /\ Here(t).do = "insert" /\ heap # <<>>
      /\ call' = [call EXCEPT ![t].todo = x] /\ UNCHANGED <<lmvars, dbvars>>
  BY DEF ChoosePage, InStage
<1>2. /\ c \in CallType /\ TxnOK(c, d, V, F, tree, H, Len(heap)) /\ call \in [Txn -> CallType]
      /\ Here(t) = c.todo[1]
  BY <1>1, RunningFacts, InvParts
<1>3. n \in 1..MaxPages
  <2>1. heap \in Seq(Page) /\ n \in Nat /\ n <= MaxPages /\ MaxPages \in Nat
    BY InvParts
  <2>2. n # 0
    BY <1>1, <2>1, SeqFacts
  <2> HIDE DEF n
  <2>. QED  BY <2>1, <2>2
<1>4. Adding(c) /\ Left(c) = N + 1 /\ c.todo[1].arg = New(c)
  BY <1>1, <1>2, HeadByKind
<1>5. call' = [call EXCEPT ![t] = c2]
  <2>1. c2 = Call(c.stage, c.stmt, x, c.got, c.hits, c.rid, c.begun)
    BY <1>2 DEF ChosenPage
  <2> HIDE DEF x
  <2>2. CallsReplaced(t, x, x)
    BY <1>2, CallReplaced
  <2>3. call' = [call EXCEPT ![t] = Call(c.stage, c.stmt, x, c.got, c.hits, c.rid, c.begun)]
    BY <1>1, <2>2 DEF CallsReplaced
  <2>. QED  BY <2>1, <2>3
<1>6. c2 = ChosenPage(c, n) /\ TxnOK(c, d, V, F, tree, H, n)
  BY <1>2
<1> HIDE DEF c, d, V, F, H, n, x, c2
<1>7. c2 \in CallType /\ TxnOK(c2, d, V, F, tree, H, n)
  BY <1>1, <1>2, <1>3, <1>4, <1>6, ChoosePageOK
<1>8. CallStep(t, c2)
  BY <1>1, <1>5 DEF CallStep
<1>. QED  BY <1>7, <1>8, CallStepOK DEF d, V, F, H, n

\* The row to be put is a row.
LEMMA NewIsRow ==
    ASSUME NEW c \in CallType, NEW n, MutateShape(c, n), c.stage = "mutate", Adding(c)
    PROVE  New(c) \in Row
<1>1. CASE c.stmt.kind = "insert"
  <2>1. c.stmt \in Stmt
    BY <1>1, CallFields
  <2>. QED  BY <1>1, <2>1, StmtFacts DEF New
<1>2. CASE c.stmt.kind # "insert"
  <2>1. c.stmt.kind = "update" /\ c.begun >= 1
    BY <1>2 DEF Adding
  <2>2. c.begun \in 0..Len(MatchedOf(c)) /\ Len(MatchedOf(c)) \in Nat
    BY MatchedFacts DEF MutateShape
  <2>3. c.begun \in 1..Len(MatchedOf(c))
    BY <2>1, <2>2
  <2>. QED  BY <1>2, <2>1, <2>3, NewFacts DEF New
<1>. QED  BY <1>1, <1>2

\* The call after its row was put at rid.
RowPut(c, rid) == Call(c.stage, c.stmt, Tail(c.todo), c.got, c.hits, rid, c.begun)

LEMMA RowPutFacts ==
    ASSUME NEW c \in CallType, c.todo # <<>>, NEW rid \in Rid, NEW c2, c2 = RowPut(c, rid)
    PROVE  c2 \in CallType /\ Advances(c, c2) /\ c2.rid = rid
<1> DEFINE x == Tail(c.todo)
           e == [c EXCEPT !.todo = x]
<1>1. Advances(c, e)
  BY NextAccess
<1>2. Replaced(c, x, x)
  BY PartsReplaced
<1>3. c2 = Call(c.stage, c.stmt, x, c.got, c.hits, rid, c.begun)
  BY DEF RowPut
<1> HIDE DEF x
<1>4. e = Call(c.stage, c.stmt, x, c.got, c.hits, c.rid, c.begun)
  BY <1>2 DEF Replaced
<1> HIDE DEF e
<1>5. e.todo = x /\ e.stage = c.stage /\ e.stmt = c.stmt /\ e.got = c.got /\ e.begun = c.begun
  BY <1>4, CallParts
<1>6. c2.todo = x /\ c2.stage = c.stage /\ c2.stmt = c.stmt /\ c2.got = c.got /\ c2.begun = c.begun /\ c2.rid = rid
  BY <1>3, CallParts
<1>7. x \in Seq(AccessType)
  BY <1>1, <1>5, CallFields DEF Advances
<1>8. c2 \in CallType
  <2>1. /\ c.stage \in {"none", "fetch", "check", "mutate"} /\ c.stmt \in Stmt \cup {[kind |-> "none"]}
        /\ c.got \in Seq(Found) /\ c.hits \in SUBSET Rid /\ c.begun \in Nat
    BY CallFields
  <2>. QED  BY <1>3, <1>7, <2>1, CallParts
<1>9. Advances(c, c2)
  <2>1. Left(c2) = Left(e)
    BY <1>5, <1>6 DEF Left
  <2>. QED  BY <1>1, <1>5, <1>6, <1>8, <2>1 DEF Advances
<1>. QED  BY <1>6, <1>8, <1>9

LEMMA PutRowStep ==
    ASSUME ExecInv, NEW t \in Txn, PutRow(t)
    PROVE  ExecInv'
<1> DEFINE c == call[t]
           d == dirtied[t]
           V == Content(View(t))
           F == Content(heap_file)
           H == held_by_txn[t]
           p == Here(t).page[2]
           row == Here(t).arg
           s == Len(heap[p].slots) + 1
           x == Tail(c.todo)
           y == <<p, s>>
           new == With(heap[p], row)
           c2 == RowPut(c, y)
<1>1. /\ Doing(t, "put") /\ dirtied' = [dirtied EXCEPT ![t] = @ \cup {Here(t).page}] /\ HasRoom(heap[p])
      /\ heap' = [heap EXCEPT ![p] = new]
      /\ call' = [call EXCEPT ![t].todo = x, ![t].rid = y]
      /\ UNCHANGED <<lmvars, heap_file, tree, tree_file>>
  BY DEF PutRow, Dirty
<1>2. /\ status[t] = "running" /\ c.todo # <<>> /\ Here(t) = c.todo[1] /\ c.todo[1].do = "put" /\ Here(t).page \in H
      /\ Here(t).mode = LM!kExclusive => locks[Here(t).page].exclusive_holder = t
  BY <1>1, DoingFacts
<1>3. /\ Active(t) /\ c \in CallType /\ TxnOK(c, d, V, F, tree, H, Len(heap)) /\ Functional(V)
      /\ call \in [Txn -> CallType] /\ Len(heap) \in Nat
  BY <1>2, RunningFacts, InvParts
<1>4. /\ c.stage = "mutate" /\ Adding(c) /\ Left(c) = N + 1 /\ Here(t).mode = LM!kExclusive /\ row = New(c)
      /\ \E q \in 1..Len(heap) : Here(t).page = HeapPage(q)
  BY <1>2, <1>3, HeadByKind
<1>5. p \in 1..Len(heap) /\ Here(t).page = HeapPage(p)
  BY <1>4, PageKeyFacts
<1>6. row \in Row
  <2>1. MutateShape(c, Len(heap))
    BY <1>3 DEF TxnOK
  <2>. QED  BY <1>3, <1>4, <2>1, NewIsRow
<1>7. locks[HeapPage(p)].exclusive_holder = t /\ HeapPage(p) \in H
  BY <1>2, <1>4, <1>5
<1>8. /\ p \in 1..MaxPages /\ heap[p] \in Page
      /\ \A z \in V : z[1][1] = p => z \in OnPage(heap[p], p)
  BY <1>3, <1>5, <1>7, LockedPageRows
<1>9. Len(heap[p].slots) < SlotsPerPage
  BY <1>1 DEF HasRoom
<1>10. /\ new \in Page /\ s \in 1..SlotsPerPage
       /\ Changes(heap[p], new, p, {}, {<<<<p, s>>, row>>})
       /\ \A z \in OnPage(heap[p], p) : z[1] # <<p, s>>
  <2>1. s = Len(heap[p].slots) + 1
    OBVIOUS
  <2> HIDE DEF p, s, row
  <2>. QED  BY <1>6, <1>8, <1>9, <2>1, PagePut
<1>11. y \in Rid
  <2> HIDE DEF p, s
  <2>. QED  BY <1>8, <1>10 DEF Rid
<1>12. \A z \in V : z[1] # y
  <2> SUFFICES ASSUME NEW z \in V, z[1] = y PROVE FALSE
    OBVIOUS
  <2>1. z[1][1] = p
    <3> HIDE DEF p, s
    <3>. QED  OBVIOUS
  <2>. QED  BY <1>8, <1>10, <2>1
<1>13. call' = [call EXCEPT ![t] = c2]
  <2>1. c2 = Call(c.stage, c.stmt, x, c.got, c.hits, y, c.begun)
    BY DEF RowPut
  <2> HIDE DEF x, y, c2
  <2>2. CallsReplaced(t, x, y)
    BY <1>3, CallReplaced
  <2>3. call' = [call EXCEPT ![t] = Call(c.stage, c.stmt, x, c.got, c.hits, y, c.begun)]
    BY <1>1, <2>2 DEF CallsReplaced
  <2>. QED  BY <2>1, <2>3
<1>14. dirtied' = [dirtied EXCEPT ![t] = @ \cup {HeapPage(p)}]
  BY <1>1, <1>5
<1>15. {<<<<p, s>>, row>>} = {<<y, New(c)>>}
  BY <1>4
<1> HIDE DEF c, d, V, F, H, p, row, s, x, y, new, c2
<1>16. c2 \in CallType /\ Advances(c, c2) /\ c2.rid = y
  BY <1>2, <1>3, <1>11, RowPutFacts DEF c2
<1>17. TxnOK(c2, d \cup {HeapPage(p)}, V \cup {<<c2.rid, New(c)>>}, F, tree, H, Len(heap))
  <2>1. \A z \in V : z[1] # c2.rid
    BY <1>12, <1>16
  <2>2. Len(heap) <= Len(heap)
    BY <1>3
  <2>. QED  BY <1>3, <1>4, <1>16, <2>1, <2>2, PutOK
<1> DEFINE B == {<<<<p, s>>, row>>}
<1>18. After(V, {}, B) = V \cup {<<c2.rid, New(c)>>}
  BY <1>15, <1>16 DEF After
<1>19. TxnOK(c2, d \cup {HeapPage(p)}, After(V, {}, B), F, tree, H, Len(heap))
  BY <1>17, <1>18
<1>20. PageStep(t, p, new, c2)
  BY <1>1, <1>13, <1>14 DEF PageStep
<1>21. Changes(heap[p], new, p, {}, B)
  BY <1>10
<1> HIDE DEF B
<1>. QED  BY <1>5, <1>7, <1>10, <1>16, <1>19, <1>20, <1>21, PageStepOK DEF d, V, F, H

LEMMA PutRowOnNewPageStep ==
    ASSUME ExecInv, NEW t \in Txn, PutRowOnNewPage(t)
    PROVE  ExecInv'
<1> DEFINE c == call[t]
           d == dirtied[t]
           V == Content(View(t))
           F == Content(heap_file)
           H == held_by_txn[t]
           p == Len(heap) + 1
           H2 == H \cup {HeapPage(p)}
           row == Here(t).arg
           x == Tail(c.todo)
           y == <<p, 1>>
           c2 == RowPut(c, y)
<1>1. /\ dirtied' = [dirtied EXCEPT ![t] = @ \cup {HeapPage(p)}] /\ p <= MaxPages
      /\ heap' = Append(heap, FirstOnPage(row)) /\ heap_file' = Append(heap_file, Unformatted)
      /\ LM!Grant(t, HeapPage(p), LM!kExclusive)
      /\ call' = [call EXCEPT ![t].todo = x, ![t].rid = y]
      /\ UNCHANGED <<tree, tree_file>>
  BY DEF PutRowOnNewPage, Dirty, FirstOnPage
<1>2. status[t] = "running" /\ c.todo # <<>> /\ Here(t).do \in {"insert", "put"}
  BY DEF PutRowOnNewPage, Doing, InStage
<1>3. /\ Active(t) /\ c \in CallType /\ TxnOK(c, d, V, F, tree, H, Len(heap)) /\ Functional(V)
      /\ call \in [Txn -> CallType] /\ Len(heap) \in Nat /\ MaxPages \in Nat /\ Here(t) = c.todo[1]
      /\ (Pk # <<>> => KeysDiffer(F))
  BY <1>2, RunningFacts, InvParts
<1>4. c.stage = "mutate" /\ Adding(c) /\ Left(c) = N + 1 /\ row = New(c)
  BY <1>2, <1>3, HeadByKind
<1>5. row \in Row
  <2>1. MutateShape(c, Len(heap))
    BY <1>3 DEF TxnOK
  <2>. QED  BY <1>3, <1>4, <2>1, NewIsRow
<1>6. p \in 1..MaxPages /\ p \in Nat /\ Len(heap) <= p /\ y \in Rid
  <2>1. p \in 1..MaxPages /\ p \in Nat /\ Len(heap) <= p
    BY <1>1, <1>3
  <2> HIDE DEF p
  <2>2. 1 \in 1..SlotsPerPage
    BY Constants
  <2>. QED  BY <2>1, <2>2 DEF Rid
<1>7. \A z \in V : z[1] # y
  <2> SUFFICES ASSUME NEW z \in V, z[1] = y PROVE FALSE
    OBVIOUS
  <2>1. heap \in Seq(Page) /\ heap_file \in Seq(Page) /\ Len(heap_file) = Len(heap) /\ Len(heap) <= MaxPages
    BY InvParts
  <2>2. View(t) \in Seq(Page) /\ Len(View(t)) = Len(heap)
    BY <2>1, SeenFacts DEF View
  <2>3. z[1][1] \in 1..Len(heap)
    BY <2>1, <2>2, ContentFacts
  <2>4. z[1][1] = p
    <3> HIDE DEF p
    <3>. QED  OBVIOUS
  <2>. QED  BY <1>3, <2>3, <2>4
<1>8. call' = [call EXCEPT ![t] = c2]
  <2>1. c2 = Call(c.stage, c.stmt, x, c.got, c.hits, y, c.begun)
    BY DEF RowPut
  <2> HIDE DEF x, y, c2
  <2>2. CallsReplaced(t, x, y)
    BY <1>3, CallReplaced
  <2>3. call' = [call EXCEPT ![t] = Call(c.stage, c.stmt, x, c.got, c.hits, y, c.begun)]
    BY <1>1, <2>2 DEF CallsReplaced
  <2>. QED  BY <2>1, <2>3
<1>9. d \subseteq H
  <2>1. LP!IInv /\ WritersHoldLocks /\ dirtied \in [Txn -> SUBSET PageKey]
    BY InvParts
  <2>. QED  BY <1>3, <2>1, DirtyHeld
<1>10. {<<<<p, 1>>, row>>} = {<<y, New(c)>>}
  BY <1>4
<1>11. NewPageStep(t, p, row, c2)
  BY <1>1, <1>2, <1>8 DEF NewPageStep
<1> DEFINE B == {<<<<p, 1>>, row>>}
<1>12. B = {<<y, New(c)>>} /\ p = Len(heap) + 1
  BY <1>10
<1> HIDE DEF c, d, V, F, H, H2, p, row, x, y, c2, B
<1>13. c2 \in CallType /\ Advances(c, c2) /\ c2.rid = y
  BY <1>2, <1>3, <1>6, RowPutFacts DEF c2
<1>14. TxnOK(c, d, V, F, tree, H2, Len(heap))
  <2>1. H \subseteq H2 /\ Len(heap) <= Len(heap)
    BY <1>3 DEF H2
  <2>. QED  BY <1>3, <1>9, <2>1, Frame
<1>15. TxnOK(c2, d \cup {HeapPage(p)}, V \cup {<<c2.rid, New(c)>>}, F, tree, H2, p)
  <2>1. \A z \in V : z[1] # c2.rid
    BY <1>7, <1>13
  <2>. QED  BY <1>3, <1>4, <1>6, <1>13, <1>14, <2>1, PutOK
<1>16. TxnOK(c2, d \cup {HeapPage(p)}, V \cup B, F, tree, H \cup {HeapPage(p)}, p)
  BY <1>12, <1>13, <1>15 DEF H2
<1>. QED  BY <1>1, <1>5, <1>11, <1>12, <1>13, <1>16, NewPageStepOK DEF d, V, F, H, B
-----------------------------------------------------------------------------
(* The invariant. *)
LEMMA StutterStep ==
    ASSUME ExecInv, UNCHANGED vars
    PROVE  ExecInv'
<1>1. /\ call' = call /\ locks' = locks /\ held_by_txn' = held_by_txn /\ status' = status
      /\ request' = request /\ heap' = heap /\ heap_file' = heap_file /\ tree' = tree /\ tree_file' = tree_file
      /\ dirtied' = dirtied
  BY DEF vars, lmvars, dbvars
<1>2. LP!IInv'
  BY <1>1, InvParts, LockTableStep DEF lmvars
<1>3. Typed' /\ WritersHoldLocks' /\ CleanPages' /\ FilesOK'
  BY <1>1 DEF ExecInv, Typed, WritersHoldLocks, CleanPages, FilesOK, Active
<1>4. TxnsOK'
  BY <1>1 DEF ExecInv, TxnsOK, Active, View
<1>. QED  BY <1>2, <1>3, <1>4 DEF ExecInv

\* No step of a transaction breaks the invariant.
LEMMA ExecInvKept ==
    ASSUME ClientAborts, ExecInv, [Next]_vars
    PROVE  ExecInv'
<1>1. ASSUME NEW t \in Txn, NEW stmt \in Stmt, Execute(t, stmt) PROVE ExecInv'
  BY <1>1, ExecuteStep
<1>2. ASSUME NEW t \in Txn, LockPage(t) \/ RecheckLock(t) PROVE ExecInv'
  BY <1>2, LockPageStep, RecheckLockStep
<1>3. ASSUME NEW t \in Txn, SearchForRows(t) \/ SearchForKey(t) \/ Get(t) \/ Scan(t) PROVE ExecInv'
  BY <1>3, SearchForRowsStep, SearchForKeyStep, GetStep, ScanStep
<1>4. ASSUME NEW t \in Txn, ReturnSelect(t) \/ StartDelete(t) \/ CheckUpdate(t) \/ StartUpdate(t) \/ StartInsert(t)
      PROVE  ExecInv'
  BY <1>4, ReturnSelectStep, StartDeleteStep, CheckUpdateStep, StartUpdateStep, StartInsertStep
<1>5. ASSUME NEW t \in Txn, NextRow(t) \/ Delete(t) \/ DeleteFromTree(t) \/ InsertIntoTree(t) PROVE ExecInv'
  BY <1>5, NextRowStep, DeleteStep, DeleteFromTreeStep, InsertIntoTreeStep
<1>6. ASSUME NEW t \in Txn, ChoosePage(t) \/ PutRow(t) \/ PutRowOnNewPage(t) PROVE ExecInv'
  BY <1>6, ChoosePageStep, PutRowStep, PutRowOnNewPageStep
<1>7. ASSUME NEW t \in Txn, ReturnAffected(t) \/ Commit(t) \/ Abort(t) PROVE ExecInv'
  BY <1>7, ReturnAffectedStep, CommitOK, AbortOK
<1>8. ASSUME NEW t \in Txn, Step(t) PROVE ExecInv'
  BY <1>1, <1>2, <1>3, <1>4, <1>5, <1>6, <1>7, <1>8 DEF Step
<1>9. ASSUME UNCHANGED vars PROVE ExecInv'
  BY <1>9, StutterStep
<1>. QED  BY <1>8, <1>9 DEF Next, Quiescent

\* The rows a run begins with, where it puts them.
Placed(rows) == {<<<<1, s>>, rows[s]>> : s \in 1..Len(rows)}

LEMMA FirstRowsFacts ==
    ASSUME NEW rows \in FirstRows
    PROVE  /\ rows \in Seq(Row) /\ Len(rows) \in Nat /\ Len(rows) <= SlotsPerPage /\ DOMAIN rows = 1..Len(rows)
           /\ \A s \in 1..Len(rows) : rows[s] \in Row /\ <<1, s>> \in Rid
           /\ Pk # <<>> => \A i, j \in 1..Len(rows) : PkOf(rows[i]) = PkOf(rows[j]) => i = j
<1>1. /\ rows \in Seq(Row) /\ Len(rows) <= SlotsPerPage
      /\ Pk # <<>> => \A i, j \in DOMAIN rows : PkOf(rows[i]) = PkOf(rows[j]) => i = j
  BY StatementAssumption DEF StatementAssumption
<1>2. Len(rows) \in Nat /\ DOMAIN rows = 1..Len(rows) /\ \A s \in 1..Len(rows) : rows[s] \in Row
  BY <1>1, SeqFacts
<1>3. ASSUME NEW s \in 1..Len(rows) PROVE <<1, s>> \in Rid
  <2>1. 1 \in 1..MaxPages /\ s \in 1..SlotsPerPage
    BY <1>1, <1>2, Constants
  <2>. QED  BY <2>1 DEF Rid
<1>. QED  BY <1>1, <1>2, <1>3

LEMMA FirstHeapFacts ==
    ASSUME NEW rows \in FirstRows
    PROVE  /\ FirstHeap(rows) \in Seq(Page) /\ Len(FirstHeap(rows)) <= MaxPages
           /\ Content(FirstHeap(rows)) = Placed(rows)
<1>1. /\ rows \in Seq(Row) /\ Len(rows) \in Nat /\ Len(rows) <= SlotsPerPage /\ DOMAIN rows = 1..Len(rows)
      /\ \A s \in 1..Len(rows) : rows[s] \in Row
  BY FirstRowsFacts
<1>2. CASE rows = <<>>
  <2> DEFINE h == <<>>
  <2>1. FirstHeap(rows) = h
    BY <1>2 DEF FirstHeap
  <2>2. h \in Seq(Page) /\ Len(h) = 0
    OBVIOUS
  <2>3. Len(rows) = 0
    BY <1>1, <1>2, SeqFacts
  <2> HIDE DEF h
  <2>4. \A x : x \notin Content(h)
    <3>1. 1..Len(h) = {}
      BY <2>2
    <3>. QED  BY <2>2, <3>1, ContentByPage
  <2>5. Placed(rows) = {}
    BY <2>3 DEF Placed
  <2>. QED  BY <2>1, <2>2, <2>4, <2>5, Constants
<1>3. CASE rows # <<>>
  <2> DEFINE z == [i \in DOMAIN rows |-> Slot(rows[i])]
             pg == [formatted |-> TRUE, slots |-> z]
             h == <<pg>>
  <2>1. FirstHeap(rows) = h
    BY <1>3 DEF FirstHeap
  <2>2. \A s \in 1..Len(rows) : Slot(rows[s]) \in SlotType /\ Slot(rows[s]).live /\ Slot(rows[s]).row = rows[s]
    BY <1>1 DEF Slot, SlotType
  <2>3. DOMAIN z = 1..Len(rows) /\ \A s \in 1..Len(rows) : z[s] = Slot(rows[s])
    BY <1>1
  <2>4. z \in Seq(SlotType) /\ Len(z) = Len(rows)
    BY <1>1, <2>2, <2>3
  <2> HIDE DEF z
  <2>5. pg \in Page /\ pg.slots = z
    BY <1>1, <2>4 DEF Page
  <2> HIDE DEF pg
  <2>6. h \in Seq(Page) /\ Len(h) = 1 /\ h[1] = pg
    BY <2>5
  <2>7. Lives(pg) = 1..Len(rows)
    BY <2>2, <2>3, <2>5 DEF Lives
  <2>8. OnPage(pg, 1) = Placed(rows)
    <3>1. \A s \in 1..Len(rows) : pg.slots[s].row = rows[s]
      BY <2>2, <2>3, <2>5
    <3>. QED  BY <2>7, <3>1 DEF OnPage, Placed
  <2> HIDE DEF h
  <2>9. \A x : x \in Content(h) <=> x \in Placed(rows)
    <3>1. 1..1 = {1}
      OBVIOUS
    <3>. QED  BY <2>6, <2>8, <3>1, ContentByPage
  <2>. QED  BY <2>1, <2>6, <2>9, Constants
<1>. QED  BY <1>2, <1>3

\* An index is found by its name.
LEMMA FindIndexFacts ==
    ASSUME NEW j \in 1..N
    PROVE  FindIndex(Cat, Indexes[j].name)[1] = Indexes[j]
<1> DEFINE hits == {i \in DOMAIN Cat.indexes : Cat.indexes[i].name = Indexes[j].name}
<1>1. /\ Cat.indexes \in Seq(ToSet(Cat.indexes))
      /\ \A i, k \in DOMAIN Cat.indexes : Cat.indexes[i].name = Cat.indexes[k].name => i = k
  BY CatalogAssumption DEF CatalogAssumption
<1>2. hits \in SUBSET Nat
  BY <1>1, SeqFacts
<1>3. PICK k \in DOMAIN Cat.indexes : Indexes[j] = Cat.indexes[k]
  BY IndexFacts
<1>4. FindIndex(Cat, Indexes[j].name) = First(Cat.indexes, hits)
  BY DEF FindIndex
<1>5. k \in hits /\ \A i \in hits : i \in DOMAIN Cat.indexes /\ Cat.indexes[i].name = Indexes[j].name
  BY <1>3
<1>6. PICK i \in hits : First(Cat.indexes, hits)[1] = Cat.indexes[i]
  <2> HIDE DEF hits
  <2>. QED  BY <1>2, <1>5, FirstFacts
<1>7. i = k
  <2> HIDE DEF hits
  <2>. QED  BY <1>1, <1>3, <1>5, <1>6
<1>. QED  BY <1>3, <1>4, <1>6, <1>7

LEMMA FirstTreeFacts ==
    ASSUME NEW rows \in FirstRows
    PROVE  /\ FirstTree(rows) \in [IndexId -> Seq(Entry)]
           /\ \A i \in IndexId : Injective(FirstTree(rows)[i])
           /\ \A j \in 1..N : Elements(FirstTree(rows)[Indexes[j].name]) = Entries(j, Placed(rows))
<1>1. /\ rows \in Seq(Row) /\ Len(rows) \in Nat /\ DOMAIN rows = 1..Len(rows)
      /\ \A s \in 1..Len(rows) : rows[s] \in Row /\ <<1, s>> \in Rid
  BY FirstRowsFacts
<1> DEFINE E(j) == [s \in 1..Len(rows) |-> <<Key(j, rows[s]), <<1, s>>>>]
<1>2. ASSUME NEW j \in 1..N
      PROVE  FirstTree(rows)[Indexes[j].name] = E(j)
  <2>1. Indexes[j].name \in IndexId
    BY IndexIdFacts
  <2>2. FindIndex(Cat, Indexes[j].name)[1] = Indexes[j]
    BY FindIndexFacts
  <2>. QED  BY <1>1, <2>1, <2>2 DEF FirstTree, Key
<1>3. ASSUME NEW j \in 1..N
      PROVE  /\ E(j) \in Seq(Entry) /\ Injective(E(j)) /\ Elements(E(j)) = Entries(j, Placed(rows))
  <2> DEFINE B(s) == <<Key(j, rows[s]), <<1, s>>>>
  <2>1. \A s \in 1..Len(rows) : B(s) \in Entry
    BY <1>1, KeyFacts DEF Entry
  <2>2. E(j) = [s \in 1..Len(rows) |-> B(s)]
    OBVIOUS
  <2>3. \A s, r \in 1..Len(rows) : B(s) = B(r) => s = r
    OBVIOUS
  <2>4. Entries(j, Placed(rows)) = {B(s) : s \in 1..Len(rows)}
    <3>1. \A s : LET x == <<<<1, s>>, rows[s]>> IN <<Key(j, x[2]), x[1]>> = B(s)
      OBVIOUS
    <3>2. ASSUME NEW e, e \in Entries(j, Placed(rows)) PROVE e \in {B(s) : s \in 1..Len(rows)}
      <4>1. PICK x \in Placed(rows) : e = <<Key(j, x[2]), x[1]>>
        BY <3>2 DEF Entries
      <4>2. PICK s \in 1..Len(rows) : x = <<<<1, s>>, rows[s]>>
        BY <4>1 DEF Placed
      <4>3. e = B(s)
        BY <3>1, <4>1, <4>2
      <4> HIDE DEF B
      <4>. QED  BY <4>3
    <3>3. ASSUME NEW s \in 1..Len(rows) PROVE B(s) \in Entries(j, Placed(rows))
      <4> DEFINE x == <<<<1, s>>, rows[s]>>
      <4>1. x \in Placed(rows) /\ <<Key(j, x[2]), x[1]>> = B(s)
        BY <3>1 DEF Placed
      <4> HIDE DEF x, B
      <4>. QED  BY <4>1 DEF Entries
    <3> HIDE DEF B
    <3>. QED  BY <3>2, <3>3
  <2> HIDE DEF B, E
  <2>5. E(j) \in Seq(Entry) /\ DOMAIN E(j) = 1..Len(rows) /\ \A s \in 1..Len(rows) : E(j)[s] = B(s)
    BY <1>1, <2>1, <2>2
  <2>. QED  BY <2>3, <2>4, <2>5 DEF Injective, Elements
<1> HIDE DEF E
<1>4. ASSUME NEW i \in IndexId PROVE FirstTree(rows)[i] \in Seq(Entry) /\ Injective(FirstTree(rows)[i])
  <2>1. PICK j \in 1..N : i = Indexes[j].name
    BY IndexIdFacts
  <2>. QED  BY <1>2, <1>3, <2>1
<1>5. FirstTree(rows) \in [IndexId -> Seq(Entry)]
  <2>1. FirstTree(rows) = [i \in IndexId |-> FirstTree(rows)[i]]
    BY DEF FirstTree
  <2>. QED  BY <1>4, <2>1
<1>. QED  BY <1>2, <1>3, <1>4, <1>5

\* A transaction that has done nothing.
LEMMA NothingDone ==
    ASSUME NEW F, NEW T, NEW n
    PROVE  TxnOK(NoCall, {}, F, F, T, {}, n)
<1>1. /\ NoCall.stage = "none" /\ NoCall.got = <<>> /\ Left(NoCall) = 0 /\ ~Erasing(NoCall) /\ ~Adding(NoCall)
      /\ Len(NoCall.got) = 0
  BY NoCallFacts
<1>2. FetchShape(NoCall, F, {}, n) /\ CheckShape(NoCall) /\ MutateShape(NoCall, n)
  BY <1>1 DEF FetchShape, CheckShape, MutateShape
<1>3. RowsOK(NoCall, F, {})
  BY <1>1 DEF RowsOK, RidsDiffer
<1>4. TreesOK(NoCall, {}, F, F, T) /\ HeapOK(NoCall, {})
  BY <1>1 DEF TreesOK, HeapOK, Lag, Leaving, Arriving
<1>5. KeysOK(NoCall, F, {})
  BY <1>1 DEF KeysOK
<1>. QED  BY <1>2, <1>3, <1>4, <1>5 DEF TxnOK

\* The invariant to begin with.
LEMMA ExecInvInitially == Init => ExecInv
<1> SUFFICES ASSUME Init PROVE ExecInv
  OBVIOUS
<1>1. PICK rows \in FirstRows : heap = FirstHeap(rows) /\ tree = FirstTree(rows)
  BY DEF Init
<1>2. /\ heap_file = heap /\ tree_file = tree /\ LM!Init
      /\ dirtied = [t \in Txn |-> {}] /\ call = [t \in Txn |-> NoCall]
  BY DEF Init
<1>3. /\ heap \in Seq(Page) /\ Len(heap) <= MaxPages /\ Content(heap) = Placed(rows)
      /\ tree \in [IndexId -> Seq(Entry)] /\ (\A i \in IndexId : Injective(tree[i]))
      /\ \A j \in 1..N : Elements(tree[Indexes[j].name]) = Entries(j, Placed(rows))
  BY <1>1, FirstHeapFacts, FirstTreeFacts
<1>4. held_by_txn = [t \in Txn |-> {}]
  BY <1>2 DEF LM!Init
<1>5. Typed
  <2>1. NoCall \in CallType
    BY NoCallFacts
  <2>2. call \in [Txn -> CallType] /\ dirtied \in [Txn -> SUBSET PageKey]
    BY <1>2, <2>1
  <2>. QED  BY <1>2, <1>3, <2>2 DEF Typed
<1>6. LP!IInv
  BY <1>2, SameLocks, Constants, LP!InvInitially
<1>7. WritersHoldLocks /\ CleanPages
  BY <1>2 DEF WritersHoldLocks, CleanPages
<1>8. FilesOK
  <2>1. ASSUME Pk # <<>>, NEW x \in Placed(rows), NEW y \in Placed(rows), PkOf(x[2]) = PkOf(y[2]) PROVE x = y
    BY <2>1, FirstRowsFacts DEF Placed
  <2>2. Pk # <<>> => KeysDiffer(Placed(rows))
    BY <2>1 DEF KeysDiffer
  <2>. QED  BY <1>2, <1>3, <2>2 DEF FilesOK
<1>9. ASSUME NEW t \in Txn
      PROVE  TxnOK(call[t], dirtied[t], Content(View(t)), Content(heap_file), tree, held_by_txn[t], Len(heap))
  <2>1. call[t] = NoCall /\ dirtied[t] = {} /\ held_by_txn[t] = {}
    BY <1>2, <1>4
  <2>2. View(t) = heap_file
    BY <1>2, <1>3, <2>1, SeqFacts DEF View, Seen
  <2>. QED  BY <2>1, <2>2, NothingDone
<1>10. TxnsOK
  BY <1>9 DEF TxnsOK
<1>. QED  BY <1>5, <1>6, <1>7, <1>8, <1>10 DEF ExecInv
-----------------------------------------------------------------------------
(* The theorems. *)

\* The inductive invariant: as long as the client answers
\* TransactionAbortedException with ROLLBACK, the files agree with each other
\* and every open transaction may rely on what it has read, whatever the
\* other ones do.
THEOREM ExecutorInvariant == ASSUME ClientAborts PROVE Spec => []ExecInv
<1>1. ExecInv /\ [Next]_vars => ExecInv'
  BY ExecInvKept
<1>. QED  BY <1>1, ExecInvInitially, PTL DEF Spec

\* FetchCandidateRows never finds an index entry without its row.
THEOREM EntriesHaveRows == ASSUME ClientAborts PROVE Spec => []NeverOutOfSync
<1>1. ExecInv => NeverOutOfSync
  <2> SUFFICES ASSUME ExecInv, NEW t \in Txn PROVE call[t].stage # "out_of_sync"
    BY DEF NeverOutOfSync
  <2>1. call[t] \in CallType
    BY InvParts
  <2>. QED  BY <2>1 DEF CallType
<1>. QED  BY <1>1, ExecutorInvariant, PTL

\* No two committed rows have one primary key.
THEOREM KeysStayUnique == ASSUME ClientAborts PROVE Spec => []PrimaryKeyUnique
<1>1. ExecInv => PrimaryKeyUnique
  <2> SUFFICES ASSUME ExecInv, Pk # <<>>, NEW a \in Rids(heap_file), NEW b \in Rids(heap_file),
                      PkOf(RowAt(heap_file, a)) = PkOf(RowAt(heap_file, b))
               PROVE  a = b
    BY DEF PrimaryKeyUnique
  <2> DEFINE x == <<a, RowAt(heap_file, a)>>
             y == <<b, RowAt(heap_file, b)>>
  <2>1. x \in Content(heap_file) /\ y \in Content(heap_file)
    BY DEF Content
  <2>2. KeysDiffer(Content(heap_file))
    BY InvParts
  <2>3. x = y
    <3>1. PkOf(x[2]) = PkOf(y[2])
      OBVIOUS
    <3> HIDE DEF x, y
    <3>. QED  BY <2>1, <2>2, <3>1 DEF KeysDiffer
  <2>. QED  BY <2>3
<1>. QED  BY <1>1, ExecutorInvariant, PTL

\* The committed rows and entries, table by table and index by index.
LEMMA CommittedParts ==
    /\ Committed.rows[Table] = [rid \in Rids(heap_file) |-> RowAt(heap_file, rid)]
    /\ \A t \in DOMAIN Other.rows : t # Table => Committed.rows[t] = Other.rows[t]
    /\ \A i \in IndexId : Committed.index[i] = tree_file[i]
    /\ \A i \in DOMAIN Other.index : i \notin IndexId => Committed.index[i] = Other.index[i]
<1> DEFINE R == [t \in DOMAIN Other.rows \cup {Table} |->
                   IF t = Table THEN [rid \in Rids(heap_file) |-> RowAt(heap_file, rid)] ELSE Other.rows[t]]
           I == [i \in DOMAIN Other.index \cup IndexId |-> IF i \in IndexId THEN tree_file[i] ELSE Other.index[i]]
<1>1. Committed.rows = R /\ Committed.index = I
  BY DEF Committed
<1>2. /\ R[Table] = [rid \in Rids(heap_file) |-> RowAt(heap_file, rid)]
      /\ \A t \in DOMAIN Other.rows : t # Table => R[t] = Other.rows[t]
  OBVIOUS
<1>3. /\ \A i \in IndexId : I[i] = tree_file[i]
      /\ \A i \in DOMAIN Other.index : i \notin IndexId => I[i] = Other.index[i]
  OBVIOUS
<1> HIDE DEF R, I
<1>. QED  BY <1>1, <1>2, <1>3

\* The table of an index has its name.
LEMMA TableOf ==
    ASSUME NEW name, FindTable(Cat, name) # <<>>
    PROVE  FindTable(Cat, name)[1].name = name
<1>1. Cat.tables \in Seq(ToSet(Cat.tables))
  BY CatalogAssumption DEF CatalogAssumption
<1>2. DOMAIN Cat.tables \in SUBSET Nat
  BY <1>1, SeqFacts
<1>. QED  BY <1>2, FoundTable

LEMMA OwnIndexAgrees ==
    ASSUME ExecInv, NEW j \in 1..N
    PROVE  IndexAgrees(Committed, Cat, Indexes[j])
<1> DEFINE e == tree_file[Indexes[j].name]
           r == [rid \in Rids(heap_file) |-> RowAt(heap_file, rid)]
<1>1. Indexes[j].table_name = Table
  BY IndexFacts
<1>2. FindTable(Cat, Table)[1] = Info /\ Info.name = Table
  BY Constants, TableOf DEF Info
<1>3. Indexes[j].name \in IndexId
  BY IndexIdFacts
<1>4. Committed.index[Indexes[j].name] = e /\ Committed.rows[Table] = r
  BY <1>3, CommittedParts
<1>5. Elements(e) = Entries(j, Content(heap_file)) /\ Injective(e)
  BY <1>3, InvParts DEF FilesOK
<1>6. Entries(j, Content(heap_file)) = {<<r[rid][ColumnIndex(Info, Indexes[j].column_name)], rid>> : rid \in DOMAIN r}
  <2> DEFINE B(rid) == <<r[rid][ColumnIndex(Info, Indexes[j].column_name)], rid>>
  <2>1. DOMAIN r = Rids(heap_file) /\ \A rid \in Rids(heap_file) : r[rid] = RowAt(heap_file, rid)
    OBVIOUS
  <2>2. ASSUME NEW rid \in Rids(heap_file)
        PROVE  LET x == <<rid, RowAt(heap_file, rid)>>
               IN  x \in Content(heap_file) /\ <<Key(j, x[2]), x[1]>> = B(rid)
    BY <2>1 DEF Content, Key, KeyOf
  <2>3. \A x \in Content(heap_file) : \E rid \in Rids(heap_file) : x = <<rid, RowAt(heap_file, rid)>>
    BY DEF Content
  <2> HIDE DEF B, r
  <2>4. ASSUME NEW rid \in Rids(heap_file) PROVE B(rid) \in Entries(j, Content(heap_file))
    BY <2>2 DEF Entries
  <2>5. ASSUME NEW y \in Entries(j, Content(heap_file)) PROVE \E rid \in Rids(heap_file) : y = B(rid)
    <3>1. PICK x \in Content(heap_file) : y = <<Key(j, x[2]), x[1]>>
      BY DEF Entries
    <3>2. PICK rid \in Rids(heap_file) : x = <<rid, RowAt(heap_file, rid)>>
      BY <2>3
    <3>. QED  BY <2>2, <3>1, <3>2
  <2>6. Entries(j, Content(heap_file)) = {B(rid) : rid \in Rids(heap_file)}
    BY <2>4, <2>5
  <2>. QED  BY <2>1, <2>6 DEF B
<1> HIDE DEF e, r
<1>7. \A i, k \in DOMAIN e : e[i] = e[k] => i = k
  BY <1>5 DEF Injective
<1>8. {e[i] : i \in DOMAIN e} = {<<r[rid][ColumnIndex(Info, Indexes[j].column_name)], rid>> : rid \in DOMAIN r}
  BY <1>5, <1>6 DEF Elements
<1>. QED  BY <1>1, <1>2, <1>4, <1>7, <1>8 DEF IndexAgrees

LEMMA OtherIndexAgrees ==
    ASSUME NEW i \in DOMAIN Cat.indexes, Cat.indexes[i].table_name # Table
    PROVE  IndexAgrees(Committed, Cat, Cat.indexes[i])
<1> DEFINE x == Cat.indexes[i]
<1>1. /\ FindTable(Cat, x.table_name) # <<>> /\ x.table_name \in DOMAIN Other.rows /\ x.name \in DOMAIN Other.index
      /\ IndexAgrees(Other, Cat, x)
  BY CatalogAssumption DEF CatalogAssumption
<1>2. x.name \notin IndexId
  <2> SUFFICES ASSUME x.name \in IndexId PROVE FALSE
    OBVIOUS
  <2>1. PICK j \in 1..N : x.name = Indexes[j].name
    BY IndexIdFacts
  <2>2. PICK k \in DOMAIN Cat.indexes : Indexes[j] = Cat.indexes[k] /\ Cat.indexes[k].table_name = Table
    BY IndexFacts
  <2>3. i = k
    BY <2>1, <2>2, CatalogAssumption DEF CatalogAssumption
  <2>. QED  BY <2>2, <2>3
<1>3. Committed.index[x.name] = Other.index[x.name] /\ Committed.rows[x.table_name] = Other.rows[x.table_name]
  BY <1>1, <1>2, CommittedParts
<1>4. FindTable(Cat, x.table_name)[1].name = x.table_name
  BY <1>1, TableOf
<1> HIDE DEF x
<1>5. IndexAgrees(Committed, Cat, x)
  BY <1>1, <1>3, <1>4 DEF IndexAgrees
<1>. QED  BY <1>5 DEF x

LEMMA FilesAgree == ExecInv => IndexesAgree
<1> SUFFICES ASSUME ExecInv, NEW i \in DOMAIN Cat.indexes PROVE IndexAgrees(Committed, Cat, Cat.indexes[i])
  BY DEF IndexesAgree, AllIndexesAgree
<1>1. CASE Cat.indexes[i].table_name = Table
  <2>1. PICK j \in 1..N : Indexes[j] = Cat.indexes[i]
    BY <1>1, IndexFacts
  <2>2. IndexAgrees(Committed, Cat, Indexes[j])
    BY OwnIndexAgrees
  <2>. QED  BY <2>1, <2>2
<1>2. CASE Cat.indexes[i].table_name # Table
  BY <1>2, OtherIndexAgrees
<1>. QED  BY <1>1, <1>2

\* The committed entries of every index are those of the committed rows, one
\* for each.
THEOREM IndexesFollowRows == ASSUME ClientAborts PROVE Spec => []IndexesAgree
  BY FilesAgree, ExecutorInvariant, PTL
-----------------------------------------------------------------------------
(* Queries: the plan finds the rows of the answer. *)

\* A catalog whose lists are sequences, and the rows and entries of a database.
Sound(db, cat) ==
    /\ cat.tables \in Seq(ToSet(cat.tables)) /\ cat.indexes \in Seq(ToSet(cat.indexes))
    /\ AllIndexesAgree(db, cat)

\* The rows of a table with a value in a column.
RowsWith(db, table, column, value) ==
    {rid \in DOMAIN db.rows[table.name] : db.rows[table.name][rid][ColumnIndex(table, column)] = value}

LEMMA SoundTable ==
    ASSUME NEW db, NEW cat, Sound(db, cat), NEW name, FindTable(cat, name) # <<>>
    PROVE  FindTable(cat, name)[1].name = name
<1>1. DOMAIN cat.tables \in SUBSET Nat
  BY SeqFacts DEF Sound
<1>. QED  BY <1>1, FoundTable

LEMMA IndexOnColumn ==
    ASSUME NEW db, NEW cat, Sound(db, cat), NEW name, NEW column, FindIndexOnColumn(cat, name, column) # <<>>
    PROVE  \E i \in DOMAIN cat.indexes : /\ FindIndexOnColumn(cat, name, column)[1] = cat.indexes[i]
                                         /\ cat.indexes[i].table_name = name /\ cat.indexes[i].column_name = column
<1> DEFINE s == cat.indexes
           S == {i \in DOMAIN cat.indexes : cat.indexes[i].table_name = name}
           on == IndexesOnTable(cat, name)
           hits == {i \in DOMAIN on : on[i].column_name = column}
<1>1. s \in Seq(ToSet(s))
  BY DEF Sound
<1>2. Len(s) \in Nat /\ DOMAIN s = 1..Len(s)
  BY <1>1, SeqFacts
<1>3. on = Keep(s, S)
  BY <1>2, IndexesOnTableIsKeep
<1>4. FindIndexOnColumn(cat, name, column) = First(on, hits)
  BY DEF FindIndexOnColumn
<1>5. on \in Seq(ToSet(s)) /\ \E f : Picks(on, s, Len(s), S, f)
  <2> HIDE DEF s, S, on
  <2>. QED  BY <1>1, <1>3, KeepFacts
<1>6. PICK f : Picks(on, s, Len(s), S, f)
  BY <1>5
<1>7. DOMAIN on = 1..Len(on) /\ Len(on) \in Nat
  <2> HIDE DEF s, on
  <2>. QED  BY <1>5, SeqFacts
<1>8. hits \in SUBSET Nat
  BY <1>7
<1>9. PICK k \in hits : First(on, hits)[1] = on[k]
  <2> HIDE DEF hits, on
  <2>. QED  BY <1>4, <1>8, FirstFacts
<1>10. k \in 1..Len(on) /\ on[k].column_name = column
  BY <1>7, <1>9
<1>11. f[k] \in DOMAIN s /\ f[k] \in S /\ on[k] = s[f[k]]
  <2> HIDE DEF s, S, on
  <2>. QED  BY <1>2, <1>6, <1>10 DEF Picks
<1>. QED  BY <1>4, <1>9, <1>10, <1>11

\* A search of the index on a column returns the rows with the value.
LEMMA IndexHits ==
    ASSUME NEW db, NEW cat, Sound(db, cat), NEW name, NEW column, NEW key,
           FindTable(cat, name) # <<>>, FindIndexOnColumn(cat, name, column) # <<>>
    PROVE  Hits(db.index[FindIndexOnColumn(cat, name, column)[1].name], key) =
             RowsWith(db, FindTable(cat, name)[1], column, key)
<1> DEFINE x == FindIndexOnColumn(cat, name, column)[1]
           table == FindTable(cat, name)[1]
           e == db.index[x.name]
           r == db.rows[table.name]
           C == ColumnIndex(table, column)
<1>1. PICK i \in DOMAIN cat.indexes : x = cat.indexes[i] /\ x.table_name = name /\ x.column_name = column
  BY IndexOnColumn
<1>2. IndexAgrees(db, cat, x)
  BY <1>1 DEF Sound, AllIndexesAgree
<1>3. {e[k] : k \in DOMAIN e} = {<<r[rid][C], rid>> : rid \in DOMAIN r}
  BY <1>1, <1>2 DEF IndexAgrees
<1>4. Hits(e, key) = {rid \in DOMAIN r : r[rid][C] = key}
  <2> HIDE DEF e, r, C
  <2>1. ASSUME NEW y \in Hits(e, key) PROVE y \in {rid \in DOMAIN r : r[rid][C] = key}
    <3>1. PICK k \in DOMAIN e : e[k][1] = key /\ y = e[k][2]
      BY DEF Hits
    <3>2. PICK rid \in DOMAIN r : e[k] = <<r[rid][C], rid>>
      BY <1>3, <3>1
    <3>. QED  BY <3>1, <3>2
  <2>2. ASSUME NEW rid \in DOMAIN r, r[rid][C] = key PROVE rid \in Hits(e, key)
    <3>1. PICK k \in DOMAIN e : e[k] = <<r[rid][C], rid>>
      BY <1>3
    <3>2. e[k][1] = key /\ e[k][2] = rid
      BY <2>2, <3>1
    <3>. QED  BY <3>2 DEF Hits
  <2>. QED  BY <2>1, <2>2
<1>. QED  BY <1>4 DEF RowsWith

\* The driving predicate and the residual ones are the whole clause.
LEMMA DrivenAndResidual ==
    ASSUME NEW R, NEW preds \in Seq(R), NEW i \in DOMAIN preds, NEW table, NEW row
    PROVE  MatchesAll(table, row, preds) <=>
             EvaluatePredicate(table, row, preds[i]) /\ MatchesAll(table, row, Without(preds, i))
<1> DEFINE n == Len(preds)
           P(p) == EvaluatePredicate(table, row, p)
           a == SubSeq(preds, 1, i - 1)
           b == SubSeq(preds, i + 1, n)
           w == Without(preds, i)
<1>1. n \in Nat /\ DOMAIN preds = 1..n /\ i \in 1..n
  BY SeqFacts
<1>2. a \in Seq(R) /\ Len(a) = i - 1 /\ \A k \in 1..i - 1 : a[k] = preds[k]
  <2> DEFINE m == i - 1
  <2>1. m \in Nat /\ \A k \in 1..m : preds[k] \in R
    BY <1>1, ElementOfSeq
  <2> HIDE DEF m
  <2>2. /\ SubSeq(preds, 1, m) \in Seq(R)
        /\ Len(SubSeq(preds, 1, m)) = IF 1 <= m THEN m - 1 + 1 ELSE 0
        /\ \A k \in 1..m - 1 + 1 : SubSeq(preds, 1, m)[k] = preds[1 + k - 1]
    BY <2>1, SubSeqProperties
  <2>3. Len(SubSeq(preds, 1, m)) = m /\ \A k \in 1..m : SubSeq(preds, 1, m)[k] = preds[k]
    BY <2>1, <2>2
  <2>. QED  BY <2>2, <2>3 DEF m
<1>3. b \in Seq(R) /\ Len(b) = n - i /\ \A k \in 1..n - i : b[k] = preds[k + i]
  <2> DEFINE m == i + 1
  <2>1. m \in Nat /\ n \in Nat /\ i \in Nat /\ i <= n /\ \A k \in m..n : preds[k] \in R
    BY <1>1, ElementOfSeq
  <2>2. i = m - 1
    BY <2>1
  <2> HIDE DEF m, n
  <2>3. /\ SubSeq(preds, m, n) \in Seq(R)
        /\ Len(SubSeq(preds, m, n)) = IF m <= n THEN n - m + 1 ELSE 0
        /\ \A k \in 1..n - m + 1 : SubSeq(preds, m, n)[k] = preds[m + k - 1]
    BY <2>1, SubSeqProperties
  <2>4. Len(SubSeq(preds, m, n)) = n - i
    BY <2>1, <2>2, <2>3
  <2>5. \A k \in 1..n - i : k \in 1..n - m + 1 /\ m + k - 1 = k + i
    BY <2>1, <2>2
  <2>6. \A k \in 1..n - i : SubSeq(preds, m, n)[k] = preds[k + i]
    BY <2>3, <2>5
  <2>. QED  BY <2>3, <2>4, <2>6 DEF m, n
<1>4. w = a \o b
  BY DEF Without
<1> HIDE DEF n, P, a, b, w
<1>5. i \in Nat /\ 1 <= i /\ i <= n
  BY <1>1
<1>6. w \in Seq(R) /\ Len(w) = n - 1
  <2>1. w \in Seq(R) /\ Len(w) = Len(a) + Len(b)
    BY <1>2, <1>3, <1>4, ConcatProperties
  <2>. QED  BY <1>1, <1>2, <1>3, <1>5, <2>1
<1>7. \A k \in 1..n - 1 : /\ k <= i - 1 => w[k] = preds[k]
                          /\ k > i - 1 => w[k] = preds[k + 1]
  <2>1. \A k \in 1..Len(a) + Len(b) : (a \o b)[k] = IF k <= Len(a) THEN a[k] ELSE b[k - Len(a)]
    BY <1>2, <1>3, ConcatProperties
  <2>2. Len(a) + Len(b) = n - 1
    BY <1>1, <1>2, <1>3, <1>5
  <2> TAKE k \in 1..n - 1
  <2>3. w[k] = IF k <= i - 1 THEN a[k] ELSE b[k - (i - 1)]
    BY <1>2, <1>4, <2>1, <2>2
  <2>4. CASE k <= i - 1
    <3>1. k \in 1..i - 1
      BY <1>1, <1>5, <2>4
    <3>. QED  BY <1>2, <1>5, <2>3, <2>4, <3>1
  <2>5. CASE k > i - 1
    <3>1. k - (i - 1) \in 1..n - i /\ k - (i - 1) + i = k + 1 /\ ~(k <= i - 1)
      BY <1>1, <1>5, <2>5
    <3>2. b[k - (i - 1)] = preds[k - (i - 1) + i]
      BY <1>3, <3>1
    <3>. QED  BY <2>3, <3>1, <3>2
  <2>. QED  BY <1>1, <1>5, <2>4, <2>5
<1>8. \A k \in 1..n - 1 : \/ k \in 1..n /\ w[k] = preds[k]
                          \/ k + 1 \in 1..n /\ w[k] = preds[k + 1]
  BY <1>1, <1>5, <1>7
<1>9. \A k \in 1..n : \/ k = i
                      \/ k \in 1..n - 1 /\ w[k] = preds[k]
                      \/ k - 1 \in 1..n - 1 /\ w[k - 1] = preds[k]
  <2> TAKE k \in 1..n
  <2>1. CASE k < i
    <3>1. k \in 1..n - 1 /\ k <= i - 1
      BY <1>1, <1>5, <2>1
    <3>. QED  BY <1>7, <3>1
  <2>2. CASE k > i
    <3>1. k - 1 \in 1..n - 1 /\ k - 1 > i - 1 /\ k - 1 + 1 = k
      BY <1>1, <1>5, <2>2
    <3>. QED  BY <1>7, <3>1
  <2>. QED  BY <1>1, <1>5, <2>1, <2>2
<1>10. DOMAIN w = 1..n - 1
  BY <1>6, SeqFacts
<1>11. (\A k \in 1..n : P(preds[k])) <=> P(preds[i]) /\ \A k \in 1..n - 1 : P(w[k])
  BY <1>1, <1>8, <1>9
<1>. QED  BY <1>1, <1>10, <1>11 DEF MatchesAll, P, w

\* Some of the predicates.
LEMMA KeptPredicates ==
    ASSUME NEW R, NEW preds \in Seq(R), NEW S, NEW table, NEW row
    PROVE  MatchesAll(table, row, Keep(preds, S)) <=>
             \A i \in DOMAIN preds : i \in S => EvaluatePredicate(table, row, preds[i])
<1> DEFINE w == Keep(preds, S)
<1>1. Len(preds) \in Nat /\ DOMAIN preds = 1..Len(preds)
  BY SeqFacts
<1>2. w \in Seq(R) /\ \E f : Picks(w, preds, Len(preds), S, f)
  BY KeepFacts
<1>3. PICK f : Picks(w, preds, Len(preds), S, f)
  BY <1>2
<1> HIDE DEF w
<1>4. DOMAIN w = 1..Len(w)
  BY <1>2, SeqFacts
<1>5. (\A k \in 1..Len(w) : EvaluatePredicate(table, row, w[k])) <=>
        \A i \in 1..Len(preds) : i \in S => EvaluatePredicate(table, row, preds[i])
  BY <1>3 DEF Picks
<1>. QED  BY <1>1, <1>4, <1>5 DEF MatchesAll, w

\* The access that PlanTableAccess plans finds the rows that match.
LEMMA AccessIsExact ==
    ASSUME NEW db, NEW cat, Sound(db, cat), NEW name, FindTable(cat, name) # <<>>, NEW R, NEW preds \in Seq(R)
    PROVE  FetchMatching(db, FindTable(cat, name)[1], PlanTableAccess(cat, name, preds)) =
             MatchingRows(db, FindTable(cat, name)[1], preds)
<1> DEFINE table == FindTable(cat, name)[1]
           r == db.rows[name]
           access == PlanTableAccess(cat, name, preds)
           drivers == {i \in DOMAIN preds : Drives(cat, name, preds, i)}
           first == CHOOSE i \in drivers : \A j \in drivers : i <= j
           col == preds[first].column.column
           key == preds[first].value.value
<1>1. table.name = name
  BY SoundTable
<1>2. MatchingRows(db, table, preds) = {rid \in DOMAIN r : MatchesAll(table, r[rid], preds)}
  BY <1>1 DEF MatchingRows
<1>3. CASE drivers = {}
  <2>1. access = [table |-> name, method |-> "SeqScan", residual |-> preds]
    BY <1>3 DEF PlanTableAccess
  <2>2. access.table = name /\ access.method = "SeqScan" /\ access.residual = preds
    BY <2>1
  <2> HIDE DEF access
  <2>. QED  BY <1>2, <2>2 DEF FetchMatching, CandidateRids, access
<1>4. CASE drivers # {}
  <2>1. access = [table |-> name, method |-> "IndexScan",
                  index |-> FindIndexOnColumn(cat, name, col)[1].name,
                  key |-> key, residual |-> Without(preds, first)]
    BY <1>4 DEF PlanTableAccess
  <2>2. first \in drivers
    <3>1. drivers \in SUBSET Nat
      BY SeqFacts
    <3> HIDE DEF drivers
    <3>2. \E i \in drivers : \A j \in drivers : i <= j
      BY <1>4, <3>1, LeastNatural
    <3>. QED  BY <3>2
  <2> HIDE DEF first
  <2>3. first \in DOMAIN preds /\ preds[first].op = "=" /\ FindIndexOnColumn(cat, name, col) # <<>>
    BY <2>2 DEF Drives
  <2>4. /\ access.table = name /\ access.method # "SeqScan" /\ access.key = key
        /\ access.index = FindIndexOnColumn(cat, name, col)[1].name /\ access.residual = Without(preds, first)
    <3> HIDE DEF key, col
    <3>. QED  BY <2>1
  <2>5. CandidateRids(db, access) = RowsWith(db, table, col, key)
    <3> HIDE DEF access, col, key
    <3>. QED  BY <2>3, <2>4, IndexHits DEF CandidateRids
  <2>6. CandidateRids(db, access) = {rid \in DOMAIN r : r[rid][ColumnIndex(table, col)] = key}
    <3> HIDE DEF access, col, key, table
    <3>. QED  BY <1>1, <2>5 DEF RowsWith
  <2>7. \A row : EvaluatePredicate(table, row, preds[first]) <=> row[ColumnIndex(table, col)] = key
    BY <2>3 DEF EvaluatePredicate, Compare
  <2> HIDE DEF access, col, key, table, r
  <2>8. FetchMatching(db, table, access) =
          {rid \in CandidateRids(db, access) : MatchesAll(table, r[rid], Without(preds, first))}
    BY <2>4 DEF FetchMatching, r
  <2>9. \A row : MatchesAll(table, row, preds) <=>
                   row[ColumnIndex(table, col)] = key /\ MatchesAll(table, row, Without(preds, first))
    BY <2>3, <2>7, DrivenAndResidual
  <2>10. FetchMatching(db, table, access) = MatchingRows(db, table, preds)
    BY <1>2, <2>6, <2>8, <2>9
  <2>. QED  BY <2>10 DEF table, access
<1>. QED  BY <1>3, <1>4

LEMMA SingleTableIsExact ==
    ASSUME NEW db, NEW cat, Sound(db, cat), NEW stmt, FindTable(cat, stmt.from) # <<>>, stmt.where \in Seq(ToSet(stmt.where))
    PROVE  ExecuteSelectSingleTable(db, cat, stmt) = SingleTableAnswer(db, cat, stmt)
<1>1. FetchMatching(db, FindTable(cat, stmt.from)[1], PlanTableAccess(cat, stmt.from, stmt.where)) =
        MatchingRows(db, FindTable(cat, stmt.from)[1], stmt.where)
  BY AccessIsExact
<1>. QED  BY <1>1 DEF ExecuteSelectSingleTable, SingleTableAnswer

\* The rows of the inner table for an outer row with a value in its join
\* column: found in the index or by a scan, they are the same.
InnerFound(db, cat, outer, inner, stmt, value) ==
    InnerRids(db, inner, PlanJoin(cat, outer, inner, stmt), value) =
        {rid \in RowsWith(db, inner, JoinColumn(outer, inner, stmt.join[1], "inner"), value) :
            MatchesAll(inner, db.rows[inner.name][rid], PredicatesOf(outer, inner, stmt.where, "inner"))}

LEMMA InnerIsExact ==
    ASSUME NEW db, NEW cat, Sound(db, cat), NEW outer, NEW name, FindTable(cat, name) # <<>>, NEW stmt, NEW value
    PROVE  InnerFound(db, cat, outer, FindTable(cat, name)[1], stmt, value)
<1> DEFINE inner  == FindTable(cat, name)[1]
           plan   == PlanJoin(cat, outer, inner, stmt)
           column == JoinColumn(outer, inner, stmt.join[1], "inner")
           preds  == PredicatesOf(outer, inner, stmt.where, "inner")
           found  == FindIndexOnColumn(cat, inner.name, column)
           M == IF plan.inner_index # <<>> THEN Hits(db.index[plan.inner_index[1]], value)
                ELSE {rid \in DOMAIN db.rows[inner.name] :
                         db.rows[inner.name][rid][ColumnIndex(inner, plan.inner_join_column)] = value}
<1>1. inner.name = name
  BY SoundTable
<1>2. /\ plan.inner_join_column = column /\ plan.inner_residual = preds
      /\ plan.inner_index = IF found = <<>> THEN <<>> ELSE <<found[1].name>>
  BY DEF PlanJoin
<1>3. InnerRids(db, inner, plan, value) = {rid \in M : MatchesAll(inner, db.rows[inner.name][rid], plan.inner_residual)}
  BY DEF InnerRids
<1> HIDE DEF plan, column, preds
<1>4. M = RowsWith(db, inner, column, value)
  <2>1. CASE found = <<>>
    <3>1. plan.inner_index = <<>>
      BY <1>2, <2>1
    <3>. QED  BY <1>2, <3>1 DEF RowsWith
  <2>2. CASE found # <<>>
    <3>1. plan.inner_index = <<found[1].name>>
      BY <1>2, <2>2
    <3>2. plan.inner_index # <<>> /\ plan.inner_index[1] = found[1].name
      BY <3>1
    <3>3. M = Hits(db.index[found[1].name], value)
      BY <3>2
    <3>4. found = FindIndexOnColumn(cat, name, column)
      BY <1>1
    <3> HIDE DEF M, found
    <3>. QED  BY <2>2, <3>3, <3>4, IndexHits
  <2>. QED  BY <2>1, <2>2
<1> HIDE DEF M, inner
<1>. QED  BY <1>2, <1>3, <1>4 DEF inner, plan, column, preds, InnerFound

\* A pair of rows in a result, and what its rows have to satisfy.
Pair(db, outer, inner, stmt, o, i) ==
    <<<<o, i>>, ProjectJoin(outer, inner, db.rows[outer.name][o], db.rows[inner.name][i], stmt)>>
ValueIn(db, outer, inner, col, o, i) ==
    IF ResolveColumnSide(outer, inner, col) = "outer"
    THEN db.rows[outer.name][o][ColumnIndex(outer, col.column)]
    ELSE db.rows[inner.name][i][ColumnIndex(inner, col.column)]
Meet(db, outer, inner, stmt, o, i) ==
    /\ ValueIn(db, outer, inner, stmt.join[1].left, o, i) = ValueIn(db, outer, inner, stmt.join[1].right, o, i)
    /\ \A p \in DOMAIN stmt.where :
          Compare(stmt.where[p].op, ValueIn(db, outer, inner, stmt.where[p].column, o, i), stmt.where[p].value.value)
OuterMeets(db, outer, inner, stmt, o) ==
    MatchesAll(outer, db.rows[outer.name][o], PredicatesOf(outer, inner, stmt.where, "outer"))
InnerMeets(db, outer, inner, stmt, o, i) ==
    /\ db.rows[inner.name][i][ColumnIndex(inner, JoinColumn(outer, inner, stmt.join[1], "inner"))] =
          db.rows[outer.name][o][ColumnIndex(outer, JoinColumn(outer, inner, stmt.join[1], "outer"))]
    /\ MatchesAll(inner, db.rows[inner.name][i], PredicatesOf(outer, inner, stmt.where, "inner"))

\* The two sides check together what the ON and the WHERE clause say.
LEMMA SidesMeet ==
    ASSUME NEW db, NEW outer, NEW inner, NEW stmt, stmt.where \in Seq(ToSet(stmt.where)), ~JoinRejected(outer, inner, stmt),
           NEW o, NEW i
    PROVE  Meet(db, outer, inner, stmt, o, i) <=>
             OuterMeets(db, outer, inner, stmt, o) /\ InnerMeets(db, outer, inner, stmt, o, i)
<1> DEFINE Side(col) == ResolveColumnSide(outer, inner, col)
           join == stmt.join[1]
           O == db.rows[outer.name][o]
           I == db.rows[inner.name][i]
           W(p) == Compare(stmt.where[p].op, ValueIn(db, outer, inner, stmt.where[p].column, o, i), stmt.where[p].value.value)
           S(side) == {p \in DOMAIN stmt.where : Side(stmt.where[p].column) = side}
<1>1. /\ {Side(join.left), Side(join.right)} = {"outer", "inner"}
      /\ \A p \in DOMAIN stmt.where : Side(stmt.where[p].column) # "error"
  BY DEF JoinRejected
<1>2. \A col : Side(col) \in {"outer", "inner", "error"}
  BY DEF ResolveColumnSide
<1>3. \/ Side(join.left) = "outer" /\ Side(join.right) = "inner"
      \/ Side(join.left) = "inner" /\ Side(join.right) = "outer"
  <2> HIDE DEF Side, join
  <2>. QED  BY <1>1
<1>4. ValueIn(db, outer, inner, join.left, o, i) = ValueIn(db, outer, inner, join.right, o, i) <=>
        I[ColumnIndex(inner, JoinColumn(outer, inner, join, "inner"))] =
        O[ColumnIndex(outer, JoinColumn(outer, inner, join, "outer"))]
  BY <1>3 DEF ValueIn, JoinColumn
<1>5. ASSUME NEW p \in DOMAIN stmt.where
      PROVE  /\ p \in S("outer") \/ p \in S("inner")
             /\ p \in S("outer") => (W(p) <=> EvaluatePredicate(outer, O, stmt.where[p]))
             /\ p \in S("inner") => (W(p) <=> EvaluatePredicate(inner, I, stmt.where[p]))
  <2>1. p \in S("outer") \/ p \in S("inner")
    BY <1>1, <1>2
  <2>2. p \in S("outer") => ValueIn(db, outer, inner, stmt.where[p].column, o, i) = O[ColumnIndex(outer, stmt.where[p].column.column)]
    BY DEF ValueIn
  <2>3. p \in S("inner") => ValueIn(db, outer, inner, stmt.where[p].column, o, i) = I[ColumnIndex(inner, stmt.where[p].column.column)]
    BY DEF ValueIn
  <2> HIDE DEF S, O, I
  <2>. QED  BY <2>1, <2>2, <2>3 DEF EvaluatePredicate
<1>6. \A side : PredicatesOf(outer, inner, stmt.where, side) = Keep(stmt.where, S(side))
  BY DEF PredicatesOf
<1> HIDE DEF S, O, I, W, Side, join
<1>7. /\ MatchesAll(outer, O, Keep(stmt.where, S("outer"))) <=>
           \A p \in DOMAIN stmt.where : p \in S("outer") => EvaluatePredicate(outer, O, stmt.where[p])
      /\ MatchesAll(inner, I, Keep(stmt.where, S("inner"))) <=>
           \A p \in DOMAIN stmt.where : p \in S("inner") => EvaluatePredicate(inner, I, stmt.where[p])
  BY KeptPredicates
<1>8. (\A p \in DOMAIN stmt.where : W(p)) <=>
        /\ MatchesAll(outer, O, PredicatesOf(outer, inner, stmt.where, "outer"))
        /\ MatchesAll(inner, I, PredicatesOf(outer, inner, stmt.where, "inner"))
  BY <1>5, <1>6, <1>7
<1>. QED  BY <1>4, <1>8 DEF Meet, OuterMeets, InnerMeets, W, O, I, join

LEMMA JoinIsExact ==
    ASSUME NEW db, NEW cat, Sound(db, cat), NEW stmt, stmt.where \in Seq(ToSet(stmt.where)),
           FindTable(cat, stmt.from) # <<>>, FindTable(cat, stmt.join[1].table) # <<>>,
           ~JoinRejected(FindTable(cat, stmt.from)[1], FindTable(cat, stmt.join[1].table)[1], stmt)
    PROVE  ExecuteSelectJoin(db, cat, stmt) = JoinAnswer(db, cat, stmt)
<1> DEFINE outer == FindTable(cat, stmt.from)[1]
           inner == FindTable(cat, stmt.join[1].table)[1]
           plan  == PlanJoin(cat, outer, inner, stmt)
           A == DOMAIN db.rows[outer.name]
           B == DOMAIN db.rows[inner.name]
           P(o, i) == Pair(db, outer, inner, stmt, o, i)
           M(o, i) == Meet(db, outer, inner, stmt, o, i)
           FM == FetchMatching(db, outer, plan.outer)
           IR(o) == InnerRids(db, inner, plan, db.rows[outer.name][o][ColumnIndex(outer, plan.outer_join_column)])
<1>1. ExecuteSelectJoin(db, cat, stmt) = UNION {{P(o, i) : i \in IR(o)} : o \in FM}
  BY DEF ExecuteSelectJoin, Pair
<1>2. JoinAnswer(db, cat, stmt) = {P(x[1], x[2]) : x \in {x \in A \X B : M(x[1], x[2])}}
  BY DEF JoinAnswer, Pair, Meet, ValueIn
<1>3. /\ plan.outer = PlanTableAccess(cat, outer.name, PredicatesOf(outer, inner, stmt.where, "outer"))
      /\ plan.outer_join_column = JoinColumn(outer, inner, stmt.join[1], "outer")
  BY DEF PlanJoin
<1>4. outer.name = stmt.from
  BY SoundTable
<1>5. PredicatesOf(outer, inner, stmt.where, "outer") \in Seq(ToSet(stmt.where))
  <2> DEFINE S == {i \in DOMAIN stmt.where : ResolveColumnSide(outer, inner, stmt.where[i].column) = "outer"}
  <2>1. PredicatesOf(outer, inner, stmt.where, "outer") = Keep(stmt.where, S)
    BY DEF PredicatesOf
  <2> HIDE DEF S, outer, inner
  <2>. QED  BY <2>1, KeepFacts
<1>6. FM = {o \in A : OuterMeets(db, outer, inner, stmt, o)}
  <2> DEFINE preds == PredicatesOf(outer, inner, stmt.where, "outer")
  <2>1. FM = MatchingRows(db, outer, preds)
    <3> HIDE DEF preds, plan
    <3>1. FetchMatching(db, FindTable(cat, stmt.from)[1], PlanTableAccess(cat, stmt.from, preds)) =
            MatchingRows(db, FindTable(cat, stmt.from)[1], preds)
      <4>1. preds \in Seq(ToSet(stmt.where))
        BY <1>5 DEF preds
      <4>. QED  BY <4>1, AccessIsExact
    <3>2. plan.outer = PlanTableAccess(cat, stmt.from, preds)
      BY <1>3, <1>4 DEF preds
    <3>. QED  BY <3>1, <3>2
  <2>. QED  BY <2>1 DEF MatchingRows, OuterMeets
<1>7. ASSUME NEW o PROVE IR(o) = {i \in B : InnerMeets(db, outer, inner, stmt, o, i)}
  <2> DEFINE v == db.rows[outer.name][o][ColumnIndex(outer, plan.outer_join_column)]
             column == JoinColumn(outer, inner, stmt.join[1], "inner")
             preds  == PredicatesOf(outer, inner, stmt.where, "inner")
  <2>1. IR(o) = {rid \in RowsWith(db, inner, column, v) : MatchesAll(inner, db.rows[inner.name][rid], preds)}
    <3>1. InnerFound(db, cat, outer, inner, stmt, v)
      <4> HIDE DEF outer, v
      <4>. QED  BY InnerIsExact
    <3>. QED  BY <3>1 DEF InnerFound
  <2>2. v = db.rows[outer.name][o][ColumnIndex(outer, JoinColumn(outer, inner, stmt.join[1], "outer"))]
    BY <1>3
  <2> HIDE DEF IR, outer, inner, plan, v
  <2>. QED  BY <2>1, <2>2 DEF RowsWith, InnerMeets
<1>8. \A o, i : M(o, i) <=> OuterMeets(db, outer, inner, stmt, o) /\ InnerMeets(db, outer, inner, stmt, o, i)
  BY SidesMeet
<1> HIDE DEF outer, inner, plan, A, B, P, M, FM, IR
<1>9. ASSUME NEW y \in UNION {{P(o, i) : i \in IR(o)} : o \in FM}
      PROVE  y \in {P(x[1], x[2]) : x \in {x \in A \X B : M(x[1], x[2])}}
  <2>1. PICK o \in FM : \E i \in IR(o) : y = P(o, i)
    OBVIOUS
  <2>2. PICK i \in IR(o) : y = P(o, i)
    BY <2>1
  <2>3. o \in A /\ i \in B /\ M(o, i)
    BY <1>6, <1>7, <1>8, <2>1, <2>2
  <2> DEFINE x == <<o, i>>
  <2>4. x \in A \X B /\ x[1] = o /\ x[2] = i
    BY <2>3
  <2> HIDE DEF x
  <2>. QED  BY <2>2, <2>3, <2>4
<1>10. ASSUME NEW x \in A \X B, M(x[1], x[2])
       PROVE  P(x[1], x[2]) \in UNION {{P(o, i) : i \in IR(o)} : o \in FM}
  <2>1. x[1] \in A /\ x[2] \in B
    OBVIOUS
  <2>2. x[1] \in FM /\ x[2] \in IR(x[1])
    BY <1>6, <1>7, <1>8, <1>10, <2>1
  <2>. QED  BY <2>2
<1>. QED  BY <1>1, <1>2, <1>9, <1>10

\* The planner is right: on rows and indexes that agree, the plan of a query
\* that is not rejected finds what the query asks for.
LEMMA SelectIsExact ==
    ASSUME NEW db, NEW cat, Sound(db, cat), NEW stmt, stmt.where \in Seq(ToSet(stmt.where)), ~SelectRejected(cat, stmt)
    PROVE  ExecuteSelect(db, cat, stmt) = Answer(db, cat, stmt)
<1>1. FindTable(cat, stmt.from) # <<>>
  BY DEF SelectRejected
<1>2. CASE stmt.join = <<>>
  BY <1>1, <1>2, SingleTableIsExact DEF ExecuteSelect, Answer
<1>3. CASE stmt.join # <<>>
  <2>1. /\ FindTable(cat, stmt.join[1].table) # <<>>
        /\ ~JoinRejected(FindTable(cat, stmt.from)[1], FindTable(cat, stmt.join[1].table)[1], stmt)
    BY <1>3 DEF SelectRejected
  <2>. QED  BY <1>1, <1>3, <2>1, JoinIsExact DEF ExecuteSelect, Answer
<1>. QED  BY <1>2, <1>3

\* Whatever the transactions have left in the files, every query that is not
\* rejected returns the rows SQL says.
THEOREM PlansAreExact == ASSUME ClientAborts PROVE Spec => []QueriesAreExact
<1>1. IndexesAgree => QueriesAreExact
  <2> SUFFICES ASSUME IndexesAgree, NEW q \in Query, ~SelectRejected(Cat, q)
               PROVE  ExecuteSelect(Committed, Cat, q) = Answer(Committed, Cat, q)
    BY DEF QueriesAreExact
  <2>1. Sound(Committed, Cat)
    BY CatalogAssumption DEF Sound, IndexesAgree, CatalogAssumption
  <2>2. q.where \in Seq(ToSet(q.where))
    BY StatementAssumption DEF StatementAssumption
  <2> DEFINE db == Committed
  <2> HIDE DEF db
  <2>. QED  BY <2>1, <2>2, SelectIsExact
<1>. QED  BY <1>1, IndexesFollowRows, PTL
=============================================================================
