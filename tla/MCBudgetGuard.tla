--------------------------- MODULE MCBudgetGuard ----------------------------
(* Instance of BudgetGuard for TLC: two keys sharing three requests, so    *)
(* that one key can hold two reservations while the other moves, and costs *)
(* below, at and above the estimate.                                       *)
EXTENDS BudgetGuard, TLC

CONSTANTS k1, k2, r1, r2, r3

MCKeys == {k1, k2}
MCRequests == {r1, r2, r3}
MCSymmetry == Permutations(MCKeys) \cup Permutations(MCRequests)
=============================================================================
