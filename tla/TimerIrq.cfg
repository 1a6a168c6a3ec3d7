SPECIFICATION FairIrqSpec
CONSTANTS
    NProcs = 3
    MAX_PROCS = 2
    SchedTickFreq = 2
    CreateOutcomes = {"made", "null", "fault"}
    RestoreOutcomes = {"jumps", "faults"}
INVARIANTS AckedOnce ProcessesInterruptible
PROPERTIES TicksServed
CHECK_DEADLOCK FALSE
