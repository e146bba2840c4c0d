-------------------------- MODULE MCStreamAssembly --------------------------
(* Instance of StreamAssembly for TLC: two choices, one call with its      *)
(* arguments cut in two, and chunks that break each rule of the adapter or *)
(* of the assembler.                                                       *)
EXTENDS StreamAssembly

Delta == [role |-> "none", content |-> <<>>, reasoning |-> <<>>, tools |-> <<>>, odd |-> FALSE]

Says(text) == [Delta EXCEPT !.content = <<text>>]
Role(text) == [Says(text) EXCEPT !.role = "assistant"]
Calls(id, args) ==
  [Delta EXCEPT !.role = "assistant",
                !.tools = <<[index |-> 0, id |-> id, name |-> id, args |-> args, odd |-> FALSE]>>]

Choice(index, delta, finish) ==
  [index |-> index, delta |-> delta, finish |-> finish, extra |-> "none"]

Chunk(choices) == [id |-> "A", extra |-> "none", usage |-> NoUsage, choices |-> choices]

FinalUsage(choices) == [Chunk(choices) EXCEPT !.usage = "u"]

Start    == Choice(0, Role("a"), "none")
Stop     == Choice(0, Says("b"), "stop")
Other    == Choice(1, Role("c"), "length")
Tagged(x) == [Choice(0, [Delta EXCEPT !.reasoning = <<"r">>], "none") EXCEPT !.extra = x]

MCChunks ==
  { Chunk(<<Start>>), Chunk(<<Stop>>), Chunk(<<Stop, Other>>), Chunk(<<Start, Start>>),
    Chunk(<<Tagged("x")>>), Chunk(<<Tagged("y")>>),
    Chunk(<<Choice(0, [Delta EXCEPT !.odd = TRUE], "none")>>),
    Chunk(<<Choice(1, [Delta EXCEPT !.role = "user"], "none")>>),
    Chunk(<<Choice(0, Calls("t", <<"{">>), "none")>>),
    Chunk(<<Choice(0, Calls("none", <<"}">>), "tool_calls")>>),
    Chunk(<<Choice(0, Calls("v", <<"}">>), "tool_calls")>>),
    [Chunk(<<Stop>>) EXCEPT !.id = "B"],
    [Chunk(<<Stop>>) EXCEPT !.extra = "x"],
    [Chunk(<<Start>>) EXCEPT !.extra = "y"],
    FinalUsage(<<>>), FinalUsage(<<Stop>>), FinalUsage(<<Start>>) }

MCJsonObjects == {<<"{", "}">>}
=============================================================================
