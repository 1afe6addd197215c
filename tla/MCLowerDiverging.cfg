SPECIFICATION Spec
CONSTANTS
    Names = {"p", "x", "i", "y", "v"}
    Param = "p"
    Functions <- DivergingFunctions
    MaxAsks = 2
INVARIANT OperandsAreValues
