SPECIFICATION Spec
CONSTANT Overwritten = { {} }
INVARIANT SaveKeepsProcess
CHECK_DEADLOCK FALSE
