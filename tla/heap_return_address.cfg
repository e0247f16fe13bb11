CONSTANTS
    NumBuckets = 2
    PageSize = 2
    MaxStack = 2
    MaxCount = 1
    MaxOffset = 1
    Handles = {h1}
    Operations = {"call"}
SPECIFICATION Spec
INVARIANTS InnerReferencesLeadInside
