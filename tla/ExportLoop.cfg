CONSTANT Jobs <- ManyJobs
SPECIFICATION Spec
INVARIANT SelectionEncoded
INVARIANT InStep
INVARIANT AudioContiguous
INVARIANT RangeRespected
PROPERTY AllRangesTried
