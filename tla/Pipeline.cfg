CONSTANTS
  f1 = f1
  f2 = f2
  f3 = f3
  w1 = w1
  w2 = w2
  NULL = NULL
  Frames <- ThreeFrames
  Workers <- TwoWorkers
  MaxClones = 1
  Setups <- ManySetups
SPECIFICATION Spec
CHECK_DEADLOCK FALSE
INVARIANT DamageContained
INVARIANT StatusIsPool
INVARIANT InOrder
INVARIANT NoneLost
PROPERTY SessionEnds
