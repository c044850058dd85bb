\* Three committers over four records; fsync may fail, the machine may stop.
SPECIFICATION Spec
CONSTANTS
    t1 = t1
    t2 = t2
    t3 = t3
    body = body
    Thread <- Threads3
    Body <- OneBody
    MaxLsn = 4
    WriteMayFail = FALSE
    UseCheckpoint = FALSE
SYMMETRY ThreadSymmetry
INVARIANTS TypeOK FlushedIsDurable
