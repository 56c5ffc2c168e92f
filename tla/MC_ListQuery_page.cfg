CONSTANTS
    IntWidth = 8
    Numerals <- MCNumerals
    SortTokens <- MCSortTokens
    MaxSortLen = 3
    AllowedFields <- MCAllowedFields
    Table <- MCTable
SPECIFICATION Spec
\* Parsing and listing end: a request whose parameters are rejected stops
\* before GetAllWithCount.
CHECK_DEADLOCK FALSE
INVARIANT PageAsDocumented
