SPECIFICATION Spec
CONSTANTS
    Names <- MCNames
    Digits <- MCDigits
    Programs <- MCPrograms
    Sources <- MCSources
INVARIANTS
    FrontTypeOK
    ProgramsAccepted
    NothingDropped
    RoundTrip
PROPERTIES
    Ends
CHECK_DEADLOCK FALSE
