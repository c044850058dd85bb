--------------------------- MODULE MCLockManager ---------------------------
(* Small instances of the lock table for TLC. *)
EXTENDS LockManager, TLC

CONSTANTS p1, p2

MCTxn  == 1..3
MCPage == {p1, p2}
=============================================================================
