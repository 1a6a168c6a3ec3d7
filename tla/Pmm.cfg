SPECIFICATION Spec
CONSTANTS
    LargestBase = 4096
    LargestLength = 32768
    Sizes <- OnePageSizes
    Foreign <- OutsidePointers
INVARIANTS TypeOK Accounting NoSharing ScrubbedPool
PROPERTIES DataKept Refinement
CHECK_DEADLOCK FALSE
