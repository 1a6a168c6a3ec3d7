SPECIFICATION Spec
CONSTANTS
    KBD_BUF_SIZE = 4
    maxlen = 4
    MaxKeys = 6
INVARIANTS InOrder NulMeansRace NothingLost LineIsEdited ShiftFollowsKeys
PROPERTY CharFollowsKeys
CHECK_DEADLOCK FALSE
