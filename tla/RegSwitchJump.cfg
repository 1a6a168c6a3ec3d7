SPECIFICATION Spec
CONSTANT Overwritten = { {} }
INVARIANT RestoreJumps
CHECK_DEADLOCK FALSE
