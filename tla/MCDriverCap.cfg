CONSTANT MaxRegions = 7
SPECIFICATION Spec
CHECK_DEADLOCK FALSE
INVARIANT CapOneStopsAfterM1
