\* Two seeds, which may overlap, fail or be killed; two runs over two
\* cases, the second with a rubric; two writes of the admin, so that a label
\* can move between the freeze and the calls and a version can be added.
SPECIFICATION GateSpec
CONSTANTS
  Seeds = {s1, s2}
  Absent = Absent
  Reserved = Reserved
  Stale = Stale
  NumCases = 2
  RubricCases = {2}
  RunOptions <- MCRunOptions
  JudgeVerdicts <- MCJudgeVerdicts
  PassesNeeded = 1
  MaxPassDrop = 0
  MaxScoreDrop = 0
  Interval = 1
  MaxAdminWrites = 2
CHECK_DEADLOCK FALSE
SYMMETRY MCSymmetry
INVARIANTS
  SeedCertifies
  SeedHandsOverKey
  RunIsOfOneVersion
  RunsAddUp
  VerdictIsOnRecord
PROPERTIES
  PaceIsKept
