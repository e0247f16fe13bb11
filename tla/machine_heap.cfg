CONSTANTS
    NumBuckets = 2
    PageSize = 3
    MaxStack = 3
    MaxCount = 1
    MaxOffset = 0
    Handles = {}
    Operations = {}
    MaxLocals = 2
SPECIFICATION MachineSpec
VIEW View
INVARIANTS ReachableIsKept ScansOnlyObjects
