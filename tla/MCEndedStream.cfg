SPECIFICATION Spec
CONSTANT MaxFrames = 3
CHECK_DEADLOCK FALSE
INVARIANT ClosedLiveStreamIsClassified
