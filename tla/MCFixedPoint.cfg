SPECIFICATION Spec
CONSTANTS
    Names <- MCNames
    Digits <- MCDigits
    Programs <- MCPrograms
    Sources <- MCRefs
INVARIANTS
    FixedPoint
CHECK_DEADLOCK FALSE
