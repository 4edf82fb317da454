CONSTANTS
  f1 = f1
  f2 = f2
  t1 = t1
  t2 = t2
  t3 = t3
  NoFrame = NoFrame
  Frames <- FramesMC
  Threads <- ThreadsMC
  Broadcast = TRUE
SPECIFICATION Spec
CHECK_DEADLOCK FALSE
INVARIANT TypeOK
INVARIANT WaitingExact
INVARIANT NoFrameLeftBehind
INVARIANT OneOwner
PROPERTY SleepersReleased
