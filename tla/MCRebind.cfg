SPECIFICATION Spec
CONSTANTS
    Names = {"x", "y", "r", "s"}
    AnyName = "x"
    Programs <- RebindPrograms
INVARIANT MustDeferPaired
