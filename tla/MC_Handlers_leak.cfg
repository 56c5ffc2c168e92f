\* One request creates an account and the INSERT fails in the database.
CONSTANTS
    Reqs = {r1}
    Shapes <- Creates
    EmptyDoc = ""
    OpTypes = {1}
    Attempts = 2
    MaxDbFaults = 1
    MaxRedisFaults = 0
    MaxLostCommits = 0
    MaxExits = 0
SPECIFICATION Spec
CHECK_DEADLOCK FALSE
INVARIANT NoDriverTextToClient
