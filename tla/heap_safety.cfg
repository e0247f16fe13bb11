CONSTANTS
    NumBuckets = 3
    PageSize = 2
    MaxStack = 2
    MaxCount = 1
    MaxOffset = 1
    Handles = {h1}
    Operations = {}
SPECIFICATION Spec
VIEW View
INVARIANTS
    TypeOK LiveMemoryKept FreeListSound FlagsCleared ScansOnlyObjects
    CostsCountLiveCells SecondTryFits BreaksOnlyWhenPinned
