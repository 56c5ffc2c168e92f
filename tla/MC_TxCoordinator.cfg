\* Callers that return nested errors (services, handlers, Save/Get closures).
CONSTANTS
    Chains = {c1}
    Handling = {"propagate"}
    MaxDepth = 3
    MaxCalls = 3
    MaxStmts = 3
SPECIFICATION Spec
INVARIANT TypeOK NoCommitAfterFailure
PROPERTY TxEventuallyEnds
