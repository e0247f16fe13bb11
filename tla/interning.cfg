SPECIFICATION FairSpec
CONSTANTS
    Spellings <- MCSpellings
    Lower <- MCLower
    Length <- MCLength
    Hash <- MCHash
    StringBytes = 5
    HashSlots = 3
    MaxPages = 4
    NoName = "no name"
INVARIANTS
    TypeOK
    SymbolsHaveNames
PROPERTIES
    ImplementsNames
    RegistrationEnds
