SPECIFICATION BootSpec
CONSTANTS
    MemoryMaps <- SmallMaps
    HhdmOffset = 1000
    Stray = {0, 7}
    PAGE = 2
    Direct = 1000
INVARIANTS LargestIsLargest SecondIsLargestBefore ArgsDescribeEntries BitmapInPlace PagesApart
CHECK_DEADLOCK FALSE
