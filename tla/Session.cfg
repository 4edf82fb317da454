CONSTANTS
  Size = 2
  Sessions <- ManySessions
SPECIFICATION Spec
CHECK_DEADLOCK FALSE
INVARIANT TypeOK
INVARIANT FramesConserved
INVARIANT PartWhole
INVARIANT InterruptObeyed
PROPERTY SessionEnds
