CONSTANTS
    NumBuckets = 2
    PageSize = 3
    MaxStack = 2
    MaxCount = 2
    MaxOffset = 1
    Handles = {h1}
    Operations = {}
SPECIFICATION Spec
VIEW View
PROPERTIES
    ImplementsObjectHeap AllocationSparesLive
