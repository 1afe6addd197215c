SPECIFICATION FullSpec
CONSTANTS
    Names <- MCNames
    Builtins = {"i32"}
    Modules <- MCModules
    NoName = "none"
CHECK_DEADLOCK FALSE
INVARIANTS
    TypeOK
    ActiveCalls
    CyclesReportedOnce
    TablesMeanDeclarations
    RepresentationsAgree
PROPERTIES
    OnceResolved
    Termination
