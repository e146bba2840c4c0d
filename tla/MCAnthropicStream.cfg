\* Five chunks: a role, two calls with an argument each, or text and one
\* call whose arguments come in two pieces.  A stream ends.
SPECIFICATION Spec
CONSTANTS
  ToolIds = {"t", "v"}
  Texts = {"a"}
  Fragments = {"{", "}", "{}"}
  JsonObjects <- MCJsonObjects
  Tokens = {1, 2}
  StopReasons = {"end_turn", "max_tokens", "tool_use", "refusal", "pause_turn"}
  NoUsage = NoUsage
  Done = Done
  MaxChunks = 5
  MaxBlocks = 2
CHECK_DEADLOCK FALSE
INVARIANTS
  NoSuccessBeforeFailure
  BilledUsageIsFinal
  EndedStreamIsAnAnswer
PROPERTY ImplementsContract
