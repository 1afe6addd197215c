SPECIFICATION Spec
CONSTANTS
    Names = {"x", "y", "r", "s"}
    AnyName = "x"
    Programs <- WalkPrograms
INVARIANTS
    TypeOK
    ExclusiveExcludesOthers
    MustDeferPaired
PROPERTIES
    InvalidationRespectsBorrows
    NoSpuriousBorrowError
