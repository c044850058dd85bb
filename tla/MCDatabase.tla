----------------------------- MODULE MCDatabase -----------------------------
(* Small instances of the database for TLC. *)
EXTENDS Database, TLC

CONSTANTS p1, p2

Txn1 == 1..1
Txn2 == 1..2
Page1 == {p1}
Page2 == {p1, p2}

\* Pages are interchangeable; transactions are not (wait-die compares ids).
PageSymmetry == Permutations(PageKey)
=============================================================================
