\* A Del whose reply is lost leaves the key in LockState; a later Execute on it is taken as reentrant.
CONSTANTS
    Procs = {p1, p2}
    Keys = {k1, k2}
    KeyTypes = {"DEFAULT"}
    Configs <- DefOnly
    MaxCalls = 3
    MaxSetFaults = 0
    MaxDelFaults = 1
    MaxCrashes = 0
    LeaseOutlivesWork = TRUE
SPECIFICATION Spec
INVARIANT MutualExclusion
