\* Strings of up to six characters; slices of up to two numerals; start-up
\* environments that differ from a working one in at most two keys.
CONSTANTS
    Caps = {"A"}
    LowerOf <- MCLowerOf
    Others = {" ", "_", "-", "1"}
    MaxLen = 6
    Numerals <- MCNumerals
    MaxSlice = 2
    IntWidth = 8
    Int32Width = 6
    ConfigKeys <- MCConfigKeys
    VaryKeys <- MCVaryKeys
    ConfigValues <- MCConfigValues
    DefaultEnv <- MCDefaultEnv
    Millisecond = 32
SPECIFICATION Spec
\* Every behaviour is one call on one argument, and a parse followed by the
\* format of its numbers; a call returns and nothing follows it.
CHECK_DEADLOCK FALSE
INVARIANT  LoadAcceptsExactly
