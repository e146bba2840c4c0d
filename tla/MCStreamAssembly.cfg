\* Four chunks reach a call in two fragments and its usage, or two choices
\* that end apart.  A stream ends, so the model may stop.
SPECIFICATION Spec
CONSTANTS
  Chunks <- MCChunks
  JsonObjects <- MCJsonObjects
  Usages = {"u"}
  NoUsage = NoUsage
  Malformed = Malformed
  Done = Done
  MaxChunks = 4
CHECK_DEADLOCK FALSE
INVARIANTS
  CachedIsWhatWasStreamed
  WholeAnswersAreCached
PROPERTY ImplementsContract
