CONSTANT Jobs <- ManyJobs
CONSTANT Buffers = 3
SPECIFICATION Spec
CHECK_DEADLOCK FALSE
 
INVARIANT NoNeedlessCorrection
INVARIANT AudioFromShift
PROPERTY SessionEnds
