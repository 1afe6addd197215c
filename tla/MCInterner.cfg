SPECIFICATION InternSpec
CONSTANTS
    Strings <- MCStrings
    Length <- MCLength
    NoString = NoString
    Nul = Nul
    Junk = Junk
    HashValues = {0, 3}
    InitialCapacity = 4
    MaxBlocks = 1
    Word = 64
    Header = 3
    DefaultSize = 4
    Sizes = {0, 1, 2, 5}
    Aligns = {1, 4}
    Bases = {0, 7, 14, 23}
INVARIANTS
    TypeOK
    BlocksApart
    TextsIntact
    IdsReachable
PROPERTY ImplementsNumbering
