SPECIFICATION LexSpec
CONSTANTS
    Names <- MCNames
    Digits <- MCDigits
    Sources <- MCSources
INVARIANTS
    LexTypeOK
    StringsNest
    NewlinesSeparate
PROPERTIES
    OnceOver
    LexerEnds
CHECK_DEADLOCK FALSE
