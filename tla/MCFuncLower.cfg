SPECIFICATION Spec
CONSTANTS
    Names = {"p", "x", "i", "y", "v"}
    Param = "p"
    Functions <- MCFunctions
    MaxAsks = 5
INVARIANTS
    TypeOK
    BlocksWellFormed
    OperandsEmittedFirst
    NeverUndefined
    SameEffects
