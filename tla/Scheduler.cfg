SPECIFICATION Spec
CONSTANTS
    NProcs = 4
    MAX_PROCS = 3
    SchedTickFreq = 2
    CreateOutcomes = {"made", "null", "fault"}
    RestoreOutcomes = {"jumps", "faults"}
INVARIANTS TypeOK OneRunning ListSound BoundedWait
PROPERTIES DueTickSwitches
CHECK_DEADLOCK FALSE
