---------------------------- MODULE MCBPlusTree ----------------------------
(* Small instances of the B+-tree for TLC. *)
EXTENDS BPlusTree, TLC

CONSTANTS r1, r2

Keys6 == 1..6
TwoRids == {r1, r2}

\* The tree without its page numbers, which nothing depends on.
RECURSIVE Shape(_)
Shape(pid) ==
    IF pages[pid].leaf THEN <<pages[pid].keys, pages[pid].values>>
    ELSE <<pages[pid].keys, [i \in DOMAIN pages[pid].children |-> Shape(pages[pid].children[i])]>>

TreeView == <<entries, RangeScanAll, IF root = INVALID_PAGE_ID THEN <<>> ELSE Shape(root)>>

\* Row ids are only compared for equality.
RidSymmetry == Permutations(Rid)
=============================================================================
