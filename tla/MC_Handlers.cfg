\* Three concurrent requests of every kind, one fault of each sort, one process exit.
CONSTANTS
    Reqs = {r1, r2, r3}
    Shapes <- AllShapes
    EmptyDoc = ""
    OpTypes = {1}
    Attempts = 2
    MaxDbFaults = 1
    MaxRedisFaults = 1
    MaxLostCommits = 1
    MaxExits = 1
SPECIFICATION Spec
\* The model serves a fixed set of requests and stops once all are answered.
CHECK_DEADLOCK FALSE
INVARIANT TypeOK TxnRowsReferenceRows LockReleasedBeforeResponse LockedMeansContended ErrorBodyComplete CriticalSectionsExclusive
