\* Six pieces hold two events, or one whose lines end in CRLF; reads of one
\* or two pieces cut every CRLF and leave some whole.  A text ends.
SPECIFICATION FramingSpec
CONSTANTS
  CR = CR
  LF = LF
  DataField = DataField
  EventField = EventField
  Values = {v, end}
  Sentinel = end
  NoName = NoName
  MaxText = 6
  MaxRead = 2
CHECK_DEADLOCK FALSE
INVARIANTS
  EventsOfTheText
  FramesReconstruct
