CONSTANT Sessions <- ManySessions
CONSTANT Size = 1
SPECIFICATION Spec
INVARIANT PairsWhole
INVARIANT NothingOverwritten
INVARIANT RotorsOwned
