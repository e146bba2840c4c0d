\* Two prompts, two label moves by the page or by another administrator,
\* two cost groups, two requests in an overview load.
SPECIFICATION Spec
CONSTANTS
  OverviewParts = 2
  Groups = {"model", "key"}
  Slugs = {"a", "b"}
  MaxMoves = 2
CHECK_DEADLOCK FALSE
INVARIANTS
  NeverBehindAConfirmedMove
  NoticeTellsTheMove
  ControlsAreOfTheDetail
  PanelShowsItsLoad
  OnePromptPerLoad
PROPERTIES
  LoadingEnds
