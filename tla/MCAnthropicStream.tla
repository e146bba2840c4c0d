------------------------- MODULE MCAnthropicStream --------------------------
(* Instance of AnthropicStream for TLC: the argument texts that parse.     *)
EXTENDS AnthropicStream

MCJsonObjects == {<<"{}">>, <<"{", "}">>}
=============================================================================
