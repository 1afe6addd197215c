SPECIFICATION CRSpec
CONSTANTS
    Names = {"x", "y", "r", "s"}
    AnyName = "x"
    Nowhere = "nowhere"
    MaxIterations = 2
    Programs <- AcceptedForms
INVARIANTS
    RunTypeOK
    NoUseAfterMove
    NoStaleReference
    ResourcesDischarged
