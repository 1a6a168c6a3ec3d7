SPECIFICATION Spec
CONSTANTS
    LargestBase = 4096
    LargestLength = 20480
    Sizes <- OnePageSizes
    Foreign <- OutsidePointers
INVARIANT PointerInRegion
CHECK_DEADLOCK FALSE
