\* The owner's Commit fails (deadline passed after the work) and its error is dropped.
CONSTANTS
    Chains = {c1}
    Handling = {"propagate"}
    MaxDepth = 3
    MaxCalls = 3
    MaxStmts = 2
SPECIFICATION Spec
INVARIANT AckedImpliesCommitted
