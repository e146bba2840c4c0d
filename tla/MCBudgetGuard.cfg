\* Budgets 1 and 2, an estimate of 1, costs 0 and 2: a key fits two
\* reservations, never three, and a cost may fall short of its estimate
\* or exceed it.
SPECIFICATION Spec
CONSTANTS
  k1 = k1
  k2 = k2
  r1 = r1
  r2 = r2
  r3 = r3
  NoKey = NoKey
  Keys <- MCKeys
  Requests <- MCRequests
  Budgets = {1, 2}
  Estimates = {1}
  Costs = {0, 2}
  MemoTtl = 1
  MaxMonths = 1
SYMMETRY MCSymmetry
INVARIANTS
  MemoNeverUnderstates
PROPERTIES
  AdmissionWithinBudget
  ImplementsLedger
