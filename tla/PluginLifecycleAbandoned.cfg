SPECIFICATION Spec
CONSTANT MaxOperations = 2
INVARIANT StartingIsDriven
CHECK_DEADLOCK FALSE
