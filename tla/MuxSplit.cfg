CONSTANT Sessions <- SplitSessions
CONSTANT Size = 1
SPECIFICATION Spec
INVARIANT LimitHonoured
