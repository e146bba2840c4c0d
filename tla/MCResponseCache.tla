-------------------------- MODULE MCResponseCache --------------------------
(* Calls and bodies are interchangeable.                                   *)
EXTENDS ResponseCache, TLC

Interchangeable == Permutations(Calls) \cup Permutations(Bodies)
=============================================================================
