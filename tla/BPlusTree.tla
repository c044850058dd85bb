----------------------------- MODULE BPlusTree -----------------------------
(***************************************************************************)
(* The B+-tree index of flintdb (src/src/index/btree.{h,cpp}): insertion   *)
(* with splits, deletion with merges and redistribution, search and the    *)
(* scan of the leaf chain, over non-unique keys.                           *)
(*                                                                         *)
(* Insert and Delete hold page 0, the root pointer, exclusively until      *)
(* their transaction ends, Search and RangeScanAll hold it shared, so an   *)
(* operation is one step.  The recursive functions take the pages and      *)
(* return them changed.  A merge leaves a page behind that the code never  *)
(* uses again; here its number may be given out again.                     *)
(***************************************************************************)
EXTENDS Naturals, Sequences, SequencesExt, FiniteSetsExt

CONSTANTS Key,               \* keys, a set of integers
          Rid,               \* row ids
          kLeafMaxKeys,      \* capacity of a leaf page
          kInternalMaxKeys   \* capacity of an internal page

ASSUME TreeAssumption ==
    /\ Key \subseteq Nat
    /\ kLeafMaxKeys \in Nat \ {0, 1} /\ kInternalMaxKeys \in Nat \ {0, 1}

VARIABLES pages,    \* page id -> node, for the pages in use
          root,     \* root_page_id, in the header page
          entries   \* history: the (key, rid) pairs inserted and not deleted

vars == <<pages, root, entries>>

INVALID_PAGE_ID  == 0     \* page 0 is the header, never a node
kLeafMinKeys     == kLeafMaxKeys \div 2
kInternalMinKeys == kInternalMaxKeys \div 2

Leaf(ks, vs, nxt)  == [leaf |-> TRUE, keys |-> ks, values |-> vs, next_leaf |-> nxt]
Internal(ks, cs)   == [leaf |-> FALSE, keys |-> ks, children |-> cs]

From(s, i)  == SubSeq(s, i + 1, Len(s))   \* s without its first i elements
First(s, i) == SubSeq(s, 1, i)

\* BufferPool::NewPage
NewPage(pg) == CHOOSE n \in 1..Cardinality(DOMAIN pg) + 1 : n \notin DOMAIN pg

Put(pg, pid, node) == [p \in DOMAIN pg \cup {pid} |-> IF p = pid THEN node ELSE pg[p]]

\* std::upper_bound over sorted keys, counted from 0.
UpperBound(keys, key) == Cardinality({i \in DOMAIN keys : keys[i] <= key})
-----------------------------------------------------------------------------
\* Where a split of the sequence ks after i elements separates two values.
IsBoundary(ks, i) == i \in 1..Len(ks) - 1 /\ ks[i] # ks[i + 1]

\* Faulty variant: a run of equal keys may be cut in two.
SplitAtMiddle(ks, naive_mid) == naive_mid

FindSplitBoundary(ks, naive_mid) ==
    LET forward  == {i \in naive_mid..Len(ks) : IsBoundary(ks, i)}
        backward == {i \in 1..naive_mid : IsBoundary(ks, i)}
    IN  IF forward # {} THEN Min(forward)
        ELSE IF backward # {} THEN Max(backward)
        ELSE naive_mid

\* The boundary nearest to ideal, the larger one of two; ideal if there is none.
FindRebalanceSplit(ks, min_split, max_split, ideal) ==
    LET start      == Max({min_split, Min({ideal, max_split})})
        safe       == {i \in min_split..max_split : IsBoundary(ks, i)}
        Offset(i)  == IF i >= start THEN i - start ELSE start - i
        nearest    == {i \in safe : \A j \in safe : Offset(i) <= Offset(j)}
    IN  IF safe = {} THEN start ELSE Max(nearest)
-----------------------------------------------------------------------------
NoSplit == [key |-> 0, right |-> INVALID_PAGE_ID]

InsertIntoLeaf(pg, pid, key, rid) ==
    LET leaf == pg[pid]
        pos  == UpperBound(leaf.keys, key)
        ks   == InsertAt(leaf.keys, pos + 1, key)
        vs   == InsertAt(leaf.values, pos + 1, rid)
        mid  == FindSplitBoundary(ks, Len(ks) \div 2)
        rpid == NewPage(pg)
    IN  IF Len(ks) <= kLeafMaxKeys
        THEN [pages |-> Put(pg, pid, Leaf(ks, vs, leaf.next_leaf)), split |-> NoSplit]
        ELSE [pages |-> Put(Put(pg, pid, Leaf(First(ks, mid), First(vs, mid), rpid)),
                            rpid, Leaf(From(ks, mid), From(vs, mid), leaf.next_leaf)),
              split |-> [key |-> ks[mid + 1], right |-> rpid]]

\* The child at idx was split; the middle key moves up if this node overflows.
InsertIntoInternal(pg, pid, idx, split) ==
    LET node == pg[pid]
        ks   == InsertAt(node.keys, idx + 1, split.key)
        cs   == InsertAt(node.children, idx + 2, split.right)
        mid  == FindSplitBoundary(ks, Len(ks) \div 2)
        rpid == NewPage(pg)
    IN  IF Len(ks) <= kInternalMaxKeys
        THEN [pages |-> Put(pg, pid, Internal(ks, cs)), split |-> NoSplit]
        ELSE [pages |-> Put(Put(pg, pid, Internal(First(ks, mid), First(cs, mid + 1))),
                            rpid, Internal(From(ks, mid + 1), From(cs, mid + 1))),
              split |-> [key |-> ks[mid + 1], right |-> rpid]]

RECURSIVE InsertRecursive(_, _, _, _)
InsertRecursive(pg, pid, key, rid) ==
    IF pg[pid].leaf THEN InsertIntoLeaf(pg, pid, key, rid)
    ELSE LET idx  == UpperBound(pg[pid].keys, key)
             down == InsertRecursive(pg, pg[pid].children[idx + 1], key, rid)
         IN  IF down.split = NoSplit THEN down
             ELSE InsertIntoInternal(down.pages, pid, idx, down.split)
-----------------------------------------------------------------------------
\* Faulty variant: the merged leaf keeps its pointer to the one that is gone.
MergeLeavesUnlinked(pg, parent, l) ==
    LET left == pg[parent.children[l]]  right == pg[parent.children[l + 1]]
    IN  [pages  |-> Put(pg, parent.children[l],
                        Leaf(left.keys \o right.keys, left.values \o right.values, left.next_leaf)),
         parent |-> Internal(RemoveAt(parent.keys, l), RemoveAt(parent.children, l + 1))]

\* Children l and l + 1 of parent become one leaf.
MergeLeaves(pg, parent, l) ==
    LET left == pg[parent.children[l]]  right == pg[parent.children[l + 1]]
    IN  [pages  |-> Put(pg, parent.children[l],
                        Leaf(left.keys \o right.keys, left.values \o right.values, right.next_leaf)),
         parent |-> Internal(RemoveAt(parent.keys, l), RemoveAt(parent.children, l + 1))]

\* Faulty variant: the separator is not brought up to date.
RedistributeLeavesOnly(pg, parent, l, ideal) ==
    LET left  == pg[parent.children[l]]  right == pg[parent.children[l + 1]]
        ks    == left.keys \o right.keys
        vs    == left.values \o right.values
        at    == FindRebalanceSplit(ks, Len(ks) - kLeafMaxKeys, kLeafMaxKeys, ideal)
    IN  [pages  |-> Put(Put(pg, parent.children[l], Leaf(First(ks, at), First(vs, at), left.next_leaf)),
                        parent.children[l + 1], Leaf(From(ks, at), From(vs, at), right.next_leaf)),
         parent |-> parent]

\* Their entries are divided anew, on a change of value.
RedistributeLeaves(pg, parent, l, ideal) ==
    LET left  == pg[parent.children[l]]  right == pg[parent.children[l + 1]]
        ks    == left.keys \o right.keys
        vs    == left.values \o right.values
        at    == FindRebalanceSplit(ks, Len(ks) - kLeafMaxKeys, kLeafMaxKeys, ideal)
    IN  [pages  |-> Put(Put(pg, parent.children[l], Leaf(First(ks, at), First(vs, at), left.next_leaf)),
                        parent.children[l + 1], Leaf(From(ks, at), From(vs, at), right.next_leaf)),
         parent |-> Internal(ReplaceAt(parent.keys, l, ks[at + 1]), parent.children)]

\* The left sibling is preferred.
FixLeaf(pg, parent, c) ==
    LET l        == IF c > 1 THEN c - 1 ELSE c
        combined == Len(pg[parent.children[l]].keys) + Len(pg[parent.children[l + 1]].keys)
        ideal    == IF c > 1 THEN combined - kLeafMinKeys ELSE kLeafMinKeys
    IN  IF combined <= kLeafMaxKeys THEN MergeLeaves(pg, parent, l)
        ELSE RedistributeLeaves(pg, parent, l, ideal)

\* Faulty variant: the separator moves down and is not replaced.
BorrowFromLeftOnly(pg, parent, c) ==
    LET left == pg[parent.children[c - 1]]  child == pg[parent.children[c]]
    IN  [pages  |-> Put(Put(pg, parent.children[c - 1], Internal(Front(left.keys), Front(left.children))),
                        parent.children[c],
                        Internal(<<parent.keys[c - 1]>> \o child.keys, <<Last(left.children)>> \o child.children)),
         parent |-> parent]

\* The last child of the left sibling moves over, through the separator.
BorrowFromLeft(pg, parent, c) ==
    LET left == pg[parent.children[c - 1]]  child == pg[parent.children[c]]
    IN  [pages  |-> Put(Put(pg, parent.children[c - 1], Internal(Front(left.keys), Front(left.children))),
                        parent.children[c],
                        Internal(<<parent.keys[c - 1]>> \o child.keys, <<Last(left.children)>> \o child.children)),
         parent |-> Internal(ReplaceAt(parent.keys, c - 1, Last(left.keys)), parent.children)]

BorrowFromRight(pg, parent, c) ==
    LET right == pg[parent.children[c + 1]]  child == pg[parent.children[c]]
    IN  [pages  |-> Put(Put(pg, parent.children[c + 1], Internal(Tail(right.keys), Tail(right.children))),
                        parent.children[c],
                        Internal(Append(child.keys, parent.keys[c]), Append(child.children, Head(right.children)))),
         parent |-> Internal(ReplaceAt(parent.keys, c, Head(right.keys)), parent.children)]

\* Children l and l + 1 become one node, the separator between their keys.
MergeInternal(pg, parent, l) ==
    LET left == pg[parent.children[l]]  right == pg[parent.children[l + 1]]
    IN  [pages  |-> Put(pg, parent.children[l],
                        Internal(Append(left.keys, parent.keys[l]) \o right.keys,
                                 left.children \o right.children)),
         parent |-> Internal(RemoveAt(parent.keys, l), RemoveAt(parent.children, l + 1))]

FixInternal(pg, parent, c) ==
    LET Spare(i) == i \in DOMAIN parent.children /\ Len(pg[parent.children[i]].keys) > kInternalMinKeys
    IN  IF Spare(c - 1) THEN BorrowFromLeft(pg, parent, c)
        ELSE IF Spare(c + 1) THEN BorrowFromRight(pg, parent, c)
        ELSE MergeInternal(pg, parent, IF c > 1 THEN c - 1 ELSE c)

FixUnderflow(pg, parent, c) ==
    IF pg[parent.children[c]].leaf THEN FixLeaf(pg, parent, c) ELSE FixInternal(pg, parent, c)
-----------------------------------------------------------------------------
NotFound(pg) == [pages |-> pg, found |-> FALSE, underflow |-> FALSE]

DeleteFromLeaf(pg, pid, is_root, key, rid) ==
    LET leaf == pg[pid]
        at   == {i \in DOMAIN leaf.keys : leaf.keys[i] = key /\ leaf.values[i] = rid}
        ks   == RemoveAt(leaf.keys, Min(at))
        vs   == RemoveAt(leaf.values, Min(at))
    IN  IF at = {} THEN NotFound(pg)
        ELSE [pages |-> Put(pg, pid, Leaf(ks, vs, leaf.next_leaf)), found |-> TRUE,
              underflow |-> ~is_root /\ Len(ks) < kLeafMinKeys]

RECURSIVE DeleteRecursive(_, _, _, _, _)
DeleteRecursive(pg, pid, is_root, key, rid) ==
    IF pg[pid].leaf THEN DeleteFromLeaf(pg, pid, is_root, key, rid)
    ELSE LET c     == UpperBound(pg[pid].keys, key) + 1
             down  == DeleteRecursive(pg, pg[pid].children[c], FALSE, key, rid)
             fixed == IF down.underflow THEN FixUnderflow(down.pages, pg[pid], c)
                      ELSE [pages |-> down.pages, parent |-> pg[pid]]
         IN  IF ~down.found THEN NotFound(pg)
             ELSE [pages |-> Put(fixed.pages, pid, fixed.parent), found |-> TRUE,
                   underflow |-> ~is_root /\ Len(fixed.parent.keys) < kInternalMinKeys]
-----------------------------------------------------------------------------
Pointers(node) ==
    IF node.leaf THEN {node.next_leaf} \ {INVALID_PAGE_ID} ELSE ToSet(node.children)

RECURSIVE Reachable(_, _)
Reachable(pg, S) ==
    LET T == S \cup UNION {Pointers(pg[p]) : p \in S}
    IN  IF T = S THEN S ELSE Reachable(pg, T)

\* The new pages and root, without the pages nothing points to any more.
Install(pg, r) ==
    /\ root' = r
    /\ pages' = [p \in Reachable(pg, {r} \ {INVALID_PAGE_ID}) |-> pg[p]]

Init == pages = <<>> /\ root = INVALID_PAGE_ID /\ entries = {}

InsertFirst(key, rid) ==
    /\ root = INVALID_PAGE_ID
    /\ Install(Put(pages, NewPage(pages), Leaf(<<key>>, <<rid>>, INVALID_PAGE_ID)), NewPage(pages))

InsertBelowRoot(key, rid) ==
    /\ root # INVALID_PAGE_ID
    /\ LET r        == InsertRecursive(pages, root, key, rid)
           new_root == NewPage(r.pages)
       IN  IF r.split = NoSplit THEN Install(r.pages, root)
           ELSE Install(Put(r.pages, new_root, Internal(<<r.split.key>>, <<root, r.split.right>>)), new_root)

\* The executor inserts a row's id once.
Insert(key, rid) ==
    /\ <<key, rid>> \notin entries
    /\ InsertFirst(key, rid) \/ InsertBelowRoot(key, rid)
    /\ entries' = entries \cup {<<key, rid>>}

\* Faulty variant: the root stays when it has one child left.
RootKept(pg) == IF pg[root].leaf /\ pg[root].keys = <<>> THEN INVALID_PAGE_ID ELSE root

\* Root collapse.
RootAfterDelete(pg) ==
    LET r == pg[root]
    IN  IF r.leaf /\ r.keys = <<>> THEN INVALID_PAGE_ID
        ELSE IF ~r.leaf /\ Len(r.children) = 1 THEN r.children[1]
        ELSE root

Delete(key, rid) ==
    /\ root # INVALID_PAGE_ID
    /\ LET d == DeleteRecursive(pages, root, TRUE, key, rid)
       IN  Install(d.pages, IF d.found THEN RootAfterDelete(d.pages) ELSE root)
    /\ entries' = entries \ {<<key, rid>>}

Next ==
    \/ \E k \in Key, r \in Rid : Insert(k, r)
    \/ \E k \in Key, r \in Rid : Delete(k, r)

Spec == Init /\ [][Next]_vars
-----------------------------------------------------------------------------
RECURSIVE LeafFor(_, _)
LeafFor(pid, key) ==
    IF pages[pid].leaf THEN pid
    ELSE LeafFor(pages[pid].children[UpperBound(pages[pid].keys, key) + 1], key)

\* The rids of one leaf only: the one the key is routed to.
Search(key) ==
    IF root = INVALID_PAGE_ID THEN <<>>
    ELSE LET leaf == pages[LeafFor(root, key)]
             hits == SetToSortSeq({i \in DOMAIN leaf.keys : leaf.keys[i] = key}, <)
         IN  [n \in DOMAIN hits |-> leaf.values[hits[n]]]

RECURSIVE Leftmost(_)
Leftmost(pid) == IF pages[pid].leaf THEN pid ELSE Leftmost(Head(pages[pid].children))

RECURSIVE Chain(_)
Chain(pid) ==
    IF pid = INVALID_PAGE_ID THEN <<>>
    ELSE [i \in DOMAIN pages[pid].keys |-> <<pages[pid].keys[i], pages[pid].values[i]>>]
         \o Chain(pages[pid].next_leaf)

RangeScanAll == IF root = INVALID_PAGE_ID THEN <<>> ELSE Chain(Leftmost(root))

\* lower and upper are sets: the bounds inherited from the parents, if any.
RECURSIVE ValidateSubtree(_, _, _)
ValidateSubtree(pid, lower, upper) ==
    LET node == pages[pid]
        n    == Len(node.keys)
    IN  /\ \A i \in 1..n - 1 : node.keys[i] <= node.keys[i + 1]
        /\ IF node.leaf
           THEN /\ n <= kLeafMaxKeys
                /\ \A i \in 1..n : (\A b \in lower : b <= node.keys[i]) /\ (\A b \in upper : node.keys[i] < b)
           ELSE /\ n <= kInternalMaxKeys /\ Len(node.children) = n + 1
                /\ \A i \in 1..n + 1 :
                      ValidateSubtree(node.children[i], IF i = 1 THEN lower ELSE {node.keys[i - 1]},
                                                        IF i = n + 1 THEN upper ELSE {node.keys[i]})

ValidateInvariants == root # INVALID_PAGE_ID => ValidateSubtree(root, {}, {})

RECURSIVE LeafDepths(_)
LeafDepths(pid) ==
    IF pages[pid].leaf THEN {1}
    ELSE {d + 1 : d \in UNION {LeafDepths(c) : c \in ToSet(pages[pid].children)}}
-----------------------------------------------------------------------------
\* What btree.h promises of the structure after any sequence of insertions
\* and deletions: no page over capacity, keys sorted, and every key within
\* the bounds the separators above it route by.
WellFormed == ValidateInvariants

\* Search returns every rid stored under the key (btree.h:126), none that was
\* deleted and none twice, although it looks into one leaf only.
SearchIsExact ==
    \A k \in Key : /\ ToSet(Search(k)) = {r \in Rid : <<k, r>> \in entries}
                   /\ IsInjective(Search(k))

\* The leaf chain, kept through splits and merges, lists every entry once and
\* in key order.
ScanIsExact ==
    /\ ToSet(RangeScanAll) = entries
    /\ IsInjective(RangeScanAll)
    /\ \A i \in 1..Len(RangeScanAll) - 1 : RangeScanAll[i][1] <= RangeScanAll[i + 1][1]

\* All leaves are at one depth, so Height, which looks at the leftmost path,
\* is the height of the tree; and every internal node has two children, so
\* FixUnderflow finds the sibling it takes for granted (btree.cpp:774).
Balanced ==
    root # INVALID_PAGE_ID =>
        /\ Cardinality(LeafDepths(root)) = 1
        /\ \A p \in DOMAIN pages : ~pages[p].leaf => Len(pages[p].children) >= 2
=============================================================================
