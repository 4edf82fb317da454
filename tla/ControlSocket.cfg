CONSTANT Names = {smooth, pv}
CONSTANT MaxFilters = 3
CONSTANT Commands = 4
SPECIFICATION Spec
INVARIANT FramesSeeReadyFilters
INVARIANT NoFilterSkipped
CHECK_DEADLOCK FALSE
