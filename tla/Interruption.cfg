CONSTANT w1 = w1
CONSTANT w2 = w2
CONSTANT Workers = {w1, w2}
CONSTANT Size = 2
CONSTANT Sessions <- ManySessions
SPECIFICATION Spec
PROPERTY InterruptEnds
CHECK_DEADLOCK FALSE
