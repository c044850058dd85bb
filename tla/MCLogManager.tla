---------------------------- MODULE MCLogManager ----------------------------
(* Small instances of the write-ahead log for TLC. *)
EXTENDS LogManager, TLC

CONSTANTS t1, t2, t3, body

Threads2 == {t1, t2}
Threads3 == {t1, t2, t3}
OneBody  == {body}

\* Threads are interchangeable.
ThreadSymmetry == Permutations(Thread)
=============================================================================
