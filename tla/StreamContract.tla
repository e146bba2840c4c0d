--------------------------- MODULE StreamContract ---------------------------
(***************************************************************************)
(* What a provider adapter's stream() promises the pipeline, whatever the  *)
(* provider speaks (providers/types.ts): chunks, at most one of which      *)
(* carries usage, which is the last; then exactly one [DONE]; and a stream *)
(* that has delivered [DONE] does not fail any more.  CompatibleStream and *)
(* AnthropicStream implement it.                                           *)
(***************************************************************************)
EXTENDS Naturals

VARIABLES
  count,   (* chunks delivered so far                              *)
  metered, (* the chunk with the terminal usage was delivered      *)
  ending   (* open, done ([DONE] delivered) or failed              *)

stream == <<count, metered, ending>>

StreamInit == count = 0 /\ metered = FALSE /\ ending = "open"

Deliver(usage) ==
  /\ ending = "open" /\ ~metered
  /\ count' = count + 1
  /\ metered' = usage
  /\ UNCHANGED ending

DeliverDone ==
  /\ ending = "open" /\ metered
  /\ ending' = "done"
  /\ UNCHANGED <<count, metered>>

Fail ==
  /\ ending = "open"
  /\ ending' = "failed"
  /\ UNCHANGED <<count, metered>>

StreamNext == \/ \E usage \in BOOLEAN : Deliver(usage)
              \/ DeliverDone
              \/ Fail

StreamSpec == StreamInit /\ [][StreamNext]_stream
=============================================================================
