CONSTANTS
  f1 = f1
  f2 = f2
  Pointers <- PointersMC
  Ids <- IdsMC
  Size = 7
  NULL = NULL
SPECIFICATION QueuesSpec
INVARIANT IndicesAgree
INVARIANT IsHeap
INVARIANT StaleSlotHarmless
PROPERTY ImplementsFifo
PROPERTY GetsSmallest
PROPERTY ImplementsPriorityPool
