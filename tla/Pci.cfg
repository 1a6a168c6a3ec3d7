SPECIFICATION Spec
CONSTANTS
    Buses = 3
    ListBuses = 2
    Slots = 2
    Funcs = 3
    Word = 128
    Machines <- SmallMachines
INVARIANTS FindsFirst ListsAll RegionsRight
PROPERTY SearchReturns
CHECK_DEADLOCK FALSE
