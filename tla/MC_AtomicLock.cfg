\* Two call trees, two keys, nested calls, one SetNX fault, one Del fault, one crash.
CONSTANTS
    Procs = {p1, p2}
    Keys = {k1, k2}
    KeyTypes = {"DEFAULT"}
    Configs <- DefOnly
    MaxCalls = 2
    MaxSetFaults = 1
    MaxDelFaults = 1
    MaxCrashes = 1
    LeaseOutlivesWork = TRUE
SPECIFICATION Spec
INVARIANT TypeOK NoSelfAcquire
PROPERTY EveryExecuteReturns LockEventuallyFree ImplementsDistLock
