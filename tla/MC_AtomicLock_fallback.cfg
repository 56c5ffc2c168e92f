\* A lock class absent from the config falls back to configs["default"], which is not configured.
CONSTANTS
    Procs = {p1, p2}
    Keys = {k1, k2}
    KeyTypes = {"DEFAULT", "OTHER"}
    Configs <- DefOnly
    MaxCalls = 2
    MaxSetFaults = 0
    MaxDelFaults = 0
    MaxCrashes = 1
    LeaseOutlivesWork = TRUE
SPECIFICATION Spec
PROPERTY EveryExecuteReturns
