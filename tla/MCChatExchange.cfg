\* Three frames: a stream that fails, ends, parks or is left before, at and
\* after its usage frame.  An exchange ends, so the model may stop.
SPECIFICATION Spec
CONSTANT MaxFrames = 3
CHECK_DEADLOCK FALSE
INVARIANTS
  RowIsFinal
  RowTellsFirstCause
  ClientAbortIsBilled
  OkMeansDelivered
PROPERTIES
  UpstreamIsReleased
  HoldSettles
