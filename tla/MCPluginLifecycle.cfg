SPECIFICATION FairSpec
CONSTANT MaxOperations = 2
INVARIANTS TypeOK NoInvisibleProcess ActiveHasProcess ShutdownLeavesNothing
PROPERTIES NoResurrection ShutdownCompletes
CHECK_DEADLOCK FALSE
