----------------------------- MODULE MCHeapFile -----------------------------
(* Small instances of the heap file for TLC. *)
EXTENDS HeapFile

Txn2 == 1..2
=============================================================================
