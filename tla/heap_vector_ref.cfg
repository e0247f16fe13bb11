CONSTANTS
    NumBuckets = 3
    PageSize = 3
    MaxStack = 2
    MaxCount = 2
    MaxOffset = 1
    Handles = {}
    Operations = {"vector-ref"}
SPECIFICATION Spec
VIEW View
INVARIANTS LiveMemoryKept
