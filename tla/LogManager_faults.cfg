\* Three threads, failing writes and fsyncs, checkpoints and crashes.  No
\* symmetry: it is not sound for liveness.
SPECIFICATION FairSpec
CONSTANTS
    t1 = t1
    t2 = t2
    t3 = t3
    body = body
    Thread <- Threads3
    Body <- OneBody
    MaxLsn = 3
    WriteMayFail = TRUE
    UseCheckpoint = TRUE
INVARIANTS LsnOrder OneFlusher WaiterHasFlusher
PROPERTIES FlushCompletes
