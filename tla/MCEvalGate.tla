----------------------------- MODULE MCEvalGate -----------------------------
(* Instance of EvalGate for TLC: two overlapping seeds, then two runs.     *)
(* The first is single, paced and may use the cache, or is paired; the     *)
(* second takes its baseline from the rows the first left, of the same     *)
(* dataset content or of another.                                          *)
EXTENDS EvalGate

MCRunOptions ==
  <<{Options("single", TRUE, "h1", TRUE), Options("paired", FALSE, "h1", FALSE)},
    {Options("history", FALSE, h, FALSE) : h \in {"h1", "h2"}}>>

MCJudgeVerdicts == {[pass |-> TRUE, score |-> 2], [pass |-> TRUE, score |-> 0],
                    [pass |-> FALSE, score |-> 0]}

MCSymmetry == Permutations(Seeds)
=============================================================================
