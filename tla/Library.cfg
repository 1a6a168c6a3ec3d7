SPECIFICATION LibrarySpec
CONSTANTS
    Formats <- KernelFormats
    Ints <- SmallInts
    Words <- SmallWords
    HexCells = 2
    MaxLines = 4
    Top = 4
    Bytes = 3
INVARIANTS LineIsRight StaysInside StringsDoTheirWork
CHECK_DEADLOCK FALSE
