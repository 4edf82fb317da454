CONSTANTS
  Size = 2
  Sessions <- TwoUnits
SPECIFICATION Spec
CHECK_DEADLOCK FALSE
INVARIANT FlushEmpties
