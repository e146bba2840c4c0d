\* Three calls are a miss, a concurrent miss and a hit of either, over two
\* bodies; a lifetime of two lets a row expire between any two of them, and
\* the clock ends in the middle of the second.
SPECIFICATION Spec
CONSTANTS
  Calls = {c1, c2, c3}
  Bodies = {b1, b2}
  Legacy = Legacy
  TTL = 2
  MaxClock = 3
CHECK_DEADLOCK FALSE
SYMMETRY Interchangeable
INVARIANTS
  ReplayIsLatestLive
  HitsAreCounted
PROPERTIES
  NoNeedlessCall
