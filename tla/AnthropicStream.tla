-------------------------- MODULE AnthropicStream ---------------------------
(***************************************************************************)
(* streamAnthropic and translateEvents (providers/anthropic-stream.ts):    *)
(* the native event stream of the Messages endpoint, translated event by   *)
(* event into chunks of the OpenAI format.  Every event out of order or    *)
(* out of contract ends the generator with an error.                       *)
(*                                                                         *)
(* An event is an action, its fields are the action's parameters.  A ping  *)
(* changes nothing and is a stutter.  Chunks have the shape StreamAssembler *)
(* reads, so that the two can be put together.                             *)
(***************************************************************************)
EXTENDS Naturals, Sequences, SequencesExt

CONSTANTS
  ToolIds,      (* ids of tool_use blocks                                  *)
  Texts,        (* pieces of text                                          *)
  Fragments,    (* pieces of a call's JSON input                           *)
  JsonObjects,  (* the concatenations of pieces that parse as an object    *)
  Tokens,       (* token counts the upstream reports                       *)
  StopReasons,  (* stop_reason strings, mapped ones and others             *)
  NoUsage,      (* usage null                                              *)
  Done,         (* the payload [DONE]                                      *)
  MaxChunks,    (* bound: chunks translated before the terminal ones       *)
  MaxBlocks     (* bound: content blocks of a message                      *)

ASSUME AnthropicConstants ==
  /\ Tokens \subseteq Nat
  /\ JsonObjects \subseteq Seq(Fragments)
  /\ "none" \notin ToolIds /\ "null" \notin StopReasons
  /\ NoUsage \notin [prompt : Nat, completion : Nat, total : Nat]
  /\ MaxChunks \in Nat /\ MaxBlocks \in Nat

VARIABLES
  phase,      (* connecting, streaming, the three terminal yields, done;   *)
              (* or failed, or abandoned by the pipeline                   *)
  started,    (* identity is set: message_start was accepted               *)
  input,      (* inputTokens                                               *)
  output,     (* cumulativeOutputTokens                                    *)
  block,      (* openBlock                                                 *)
  nextBlockIndex,
  toolIds,    (* toolIds, whose number is toolCallCount                    *)
  sawMessageDelta,
  finish,     (* finishReason; set exactly when sawTerminalStopReason is   *)
  sawMessageStop,
  delivered,  (* chunks yielded, in order                                  *)
  peak        (* history: the largest output count an event reported       *)

message == <<started, input, output, block, nextBlockIndex, toolIds>>
terminal == <<sawMessageDelta, finish, sawMessageStop>>
vars == <<phase, message, terminal, delivered, peak>>

NoBlock == [kind |-> "none", index |-> 0, tool |-> 0, args |-> <<>>]

Finishes == {"none", "stop", "length", "tool_calls", "content_filter"}

TypeOK ==
  /\ phase \in {"connecting", "streaming", "yieldFinish", "yieldUsage", "yieldDone", "done",
                "failed", "abandoned"}
  /\ started \in BOOLEAN
  /\ input \in Nat /\ output \in Nat
  /\ block \in [kind : {"none", "text", "tool_use"}, index : Nat, tool : Nat,
                args : Seq(Fragments)]
  /\ nextBlockIndex \in Nat
  /\ toolIds \subseteq ToolIds /\ IsFiniteSet(toolIds)
  /\ sawMessageDelta \in BOOLEAN
  /\ finish \in Finishes
  /\ sawMessageStop \in BOOLEAN
  /\ peak \in Nat

Init ==
  /\ phase = "connecting"
  /\ started = FALSE /\ input = 0 /\ output = 0
  /\ block = NoBlock /\ nextBlockIndex = 0 /\ toolIds = {}
  /\ sawMessageDelta = FALSE /\ finish = "none" /\ sawMessageStop = FALSE
  /\ delivered = <<>>
  /\ peak = 0

-----------------------------------------------------------------------------
(* The frames.                                                             *)

Choice(delta, reason) == [index |-> 0, delta |-> delta, finish |-> reason, extra |-> "none"]

Chunk(choices, usage) == [id |-> "message", extra |-> "none", usage |-> usage, choices |-> choices]

Delta == [role |-> "none", content |-> <<>>, reasoning |-> <<>>, tools |-> <<>>, odd |-> FALSE]

DeltaFrame(delta) == Chunk(<<Choice(delta, "none")>>, NoUsage)

RoleFrame == DeltaFrame([Delta EXCEPT !.role = "assistant"])

ContentFrame(text) == DeltaFrame([Delta EXCEPT !.content = <<text>>])

ToolFrame(tool, id, args) ==
  DeltaFrame([Delta EXCEPT !.tools =
    <<[index |-> tool, id |-> id, name |-> id, args |-> args, odd |-> FALSE]>>])

FinishFrame(reason) == Chunk(<<Choice(Delta, reason)>>, NoUsage)

UsageFrame(in, out) == Chunk(<<>>, [prompt |-> in, completion |-> out, total |-> in + out])

(* Every frame is one of these, and [DONE] is not.                         *)
ToolDeltas ==
  LET Names == ToolIds \cup {"none"}
  IN [index : Nat, id : Names, name : Names, args : Seq(Fragments), odd : {FALSE}]

Deltas ==
  [role : {"none", "assistant"}, content : Seq(Texts), reasoning : {<<>>},
   tools : Seq(ToolDeltas), odd : {FALSE}]

Frames ==
  [id : {"message"}, extra : {"none"},
   usage : [prompt : Nat, completion : Nat, total : Nat] \cup {NoUsage},
   choices : Seq([index : {0}, delta : Deltas, finish : Finishes, extra : {"none"}])]

ASSUME DoneIsNoFrame == Done \notin Frames

Yield(chunk) ==
  /\ Len(delivered) < MaxChunks
  /\ delivered' = Append(delivered, chunk)

-----------------------------------------------------------------------------
(* The request.                                                            *)

Connect ==
  /\ phase = "connecting"
  /\ phase' = "streaming"
  /\ UNCHANGED <<message, terminal, delivered, peak>>

(* A missing key, a failed request, a wrong content type or no body.       *)
RefuseUpstream ==
  /\ phase = "connecting"
  /\ phase' = "failed"
  /\ UNCHANGED <<message, terminal, delivered, peak>>

-----------------------------------------------------------------------------
(* The events.  Each guard is the negation of that event's fail() calls.   *)

Reading == phase = "streaming" /\ ~sawMessageStop

HigherOf(a, b) == IF a >= b THEN a ELSE b

CanStart == Reading /\ ~started

MessageStart(in, out) ==
  /\ CanStart
  /\ started' = TRUE /\ input' = in /\ output' = out
  /\ peak' = out
  /\ Yield(RoleFrame)
  /\ UNCHANGED <<phase, block, nextBlockIndex, toolIds, terminal>>

CanOpen(index) ==
  /\ Reading /\ started /\ ~sawMessageDelta
  /\ block = NoBlock /\ index = nextBlockIndex

TextBlockStart(index) ==
  /\ CanOpen(index) /\ index < MaxBlocks
  /\ block' = [NoBlock EXCEPT !.kind = "text", !.index = index]
  /\ nextBlockIndex' = nextBlockIndex + 1
  /\ UNCHANGED <<phase, started, input, output, toolIds, terminal, delivered, peak>>

CanOpenTool(index, id) == CanOpen(index) /\ id \notin toolIds

ToolBlockStart(index, id) ==
  /\ CanOpenTool(index, id) /\ index < MaxBlocks
  /\ block' = [kind |-> "tool_use", index |-> index, tool |-> Cardinality(toolIds), args |-> <<>>]
  /\ toolIds' = toolIds \cup {id}
  /\ nextBlockIndex' = nextBlockIndex + 1
  /\ Yield(ToolFrame(Cardinality(toolIds), id, <<>>))
  /\ UNCHANGED <<phase, started, input, output, terminal, peak>>

CanContinue(index, kind) ==
  Reading /\ started /\ block.kind = kind /\ index = block.index

TextDelta(index, text) ==
  /\ CanContinue(index, "text")
  /\ Yield(ContentFrame(text))
  /\ UNCHANGED <<phase, message, terminal, peak>>

InputJsonDelta(index, fragment) ==
  /\ CanContinue(index, "tool_use")
  /\ block' = [block EXCEPT !.args = Append(@, fragment)]
  /\ Yield(ToolFrame(block.tool, "none", <<fragment>>))
  /\ UNCHANGED <<phase, started, input, output, nextBlockIndex, toolIds, terminal, peak>>

(* Mutant of CanStop: the accumulated input is not validated.              *)
CanStopAnyInput(index) == Reading /\ block # NoBlock /\ index = block.index

CanStop(index) ==
  /\ Reading /\ block # NoBlock /\ index = block.index
  /\ block.kind = "tool_use" => block.args \in JsonObjects

BlockStop(index) ==
  /\ CanStop(index)
  /\ block' = NoBlock
  /\ UNCHANGED <<phase, started, input, output, nextBlockIndex, toolIds, terminal, delivered, peak>>

(* mapStreamStopReason; "none" for an unmapped or incoherent reason.       *)
MapStopReason(stop) ==
  IF (stop = "tool_use") # (toolIds # {}) THEN "none"
  ELSE CASE stop \in {"end_turn", "stop_sequence"}                  -> "stop"
         [] stop \in {"max_tokens", "model_context_window_exceeded"} -> "length"
         [] stop = "tool_use"                                       -> "tool_calls"
         [] stop = "refusal"                                        -> "content_filter"
         [] OTHER                                                   -> "none"

(* Mutant of CanConclude: the output count may go back.                    *)
CanConcludeDecreasing(out, stop) ==
  /\ Reading /\ started /\ block = NoBlock /\ finish = "none"
  /\ stop = "null" \/ MapStopReason(stop) # "none"

CanConclude(out, stop) ==
  /\ Reading /\ started /\ block = NoBlock /\ finish = "none"
  /\ out >= output
  /\ stop = "null" \/ MapStopReason(stop) # "none"

MessageDelta(out, stop) ==
  /\ CanConclude(out, stop)
  /\ output' = out
  /\ peak' = HigherOf(peak, out)
  /\ sawMessageDelta' = TRUE
  /\ finish' = IF stop = "null" THEN finish ELSE MapStopReason(stop)
  /\ UNCHANGED <<phase, started, input, block, nextBlockIndex, toolIds, sawMessageStop, delivered>>

CanEnd == Reading /\ started /\ block = NoBlock /\ finish # "none"

(* Mutant of MessageStop: the finish frame does not wait for the end of    *)
(* the upstream.                                                           *)
MessageStopAtOnce ==
  /\ CanEnd
  /\ sawMessageStop' = TRUE
  /\ delivered' = Append(delivered, FinishFrame(finish))
  /\ UNCHANGED <<phase, message, sawMessageDelta, finish, peak>>

MessageStop ==
  /\ CanEnd
  /\ sawMessageStop' = TRUE
  /\ UNCHANGED <<phase, message, sawMessageDelta, finish, delivered, peak>>

-----------------------------------------------------------------------------
(* Every other event, and every other end.                                 *)

Reject(legal) ==
  /\ phase = "streaming" /\ ~legal
  /\ phase' = "failed"
  /\ UNCHANGED <<message, terminal, delivered, peak>>

Indexes == 0 .. MaxBlocks

Refused ==
  \/ Reject(CanStart)
  \/ \E index \in Indexes, id \in ToolIds :
       \/ Reject(CanOpen(index)) \/ Reject(CanOpenTool(index, id)) \/ Reject(CanStop(index))
       \/ Reject(CanContinue(index, "text")) \/ Reject(CanContinue(index, "tool_use"))
  \/ \E out \in Tokens, stop \in StopReasons \cup {"null"} : Reject(CanConclude(out, stop))
  \/ Reject(CanEnd)
  \/ Reject(FALSE)

(* Mutant of EndOfEvents: [DONE] without the finish and usage chunks.      *)
EndOfEventsUnmetered ==
  /\ phase = "streaming"
  /\ phase' = IF sawMessageStop THEN "yieldDone" ELSE "failed"
  /\ UNCHANGED <<message, terminal, delivered, peak>>

(* The bytes end cleanly; the terminal chunks follow only a message_stop.  *)
EndOfEvents ==
  /\ phase = "streaming"
  /\ phase' = IF sawMessageStop THEN "yieldFinish" ELSE "failed"
  /\ UNCHANGED <<message, terminal, delivered, peak>>

TerminalYield(now, payload, next) ==
  /\ phase = now
  /\ phase' = next
  /\ delivered' = Append(delivered, payload)
  /\ UNCHANGED <<message, terminal, peak>>

(* The pipeline returns the generator, or its signal aborts the read.      *)
Abandon ==
  /\ phase \in {"streaming", "yieldFinish", "yieldUsage", "yieldDone"}
  /\ phase' = "abandoned"
  /\ UNCHANGED <<message, terminal, delivered, peak>>

Next ==
  \/ Connect \/ RefuseUpstream
  \/ \E in, out \in Tokens : MessageStart(in, out)
  \/ \E index \in Indexes : TextBlockStart(index) \/ BlockStop(index)
  \/ \E index \in Indexes, id \in ToolIds : ToolBlockStart(index, id)
  \/ \E index \in Indexes, text \in Texts : TextDelta(index, text)
  \/ \E index \in Indexes, fragment \in Fragments : InputJsonDelta(index, fragment)
  \/ \E out \in Tokens, stop \in StopReasons \cup {"null"} : MessageDelta(out, stop)
  \/ MessageStop
  \/ Refused
  \/ EndOfEvents
  \/ TerminalYield("yieldFinish", FinishFrame(finish), "yieldUsage")
  \/ TerminalYield("yieldUsage", UsageFrame(input, output), "yieldDone")
  \/ TerminalYield("yieldDone", Done, "done")
  \/ Abandon

Spec == Init /\ [][Next]_vars

-----------------------------------------------------------------------------
(* Properties.                                                             *)

Carries(c) == c.usage # NoUsage

Count == IF phase = "done" THEN Len(delivered) - 1 ELSE Len(delivered)

Contract == INSTANCE StreamContract WITH
  count   <- Count,
  metered <- \E i \in 1 .. Count : Carries(delivered[i]),
  ending  <- CASE phase = "done"                    -> "done"
               [] phase \in {"failed", "abandoned"} -> "failed"
               [] OTHER                             -> "open"

(* Whatever events arrive, the pipeline sees the contract of a stream:     *)
(* usage once and last, then one [DONE], and no failure after it.          *)
ImplementsContract == Contract!StreamSpec

Ends(c) == Carries(c) \/ \E i \in DOMAIN c.choices : c.choices[i].finish # "none"

(* A stream that fails by what its upstream sent, or left out, showed the  *)
(* client no sign of success: neither a finish_reason nor usage.           *)
NoSuccessBeforeFailure ==
  phase = "failed" => \A i \in DOMAIN delivered : ~Ends(delivered[i])

(* The usage that is billed is the message_start's input and the largest   *)
(* output count the upstream ever reported: counts are cumulative.         *)
BilledUsageIsFinal ==
  \A i \in 1 .. Count :
    Carries(delivered[i]) =>
      delivered[i].usage = [prompt |-> input, completion |-> peak, total |-> input + peak]

Assembler == INSTANCE StreamAssembler

Observe(a, payload) ==
  IF payload = Done THEN Assembler!ObserveDone(a) ELSE Assembler!ObservePayload(a, payload)

Assembled == Assembler!Finish(FoldLeft(Observe, Assembler!NewAssembler, delivered))

(* A stream that reached [DONE] is a whole answer, and the assembler that  *)
(* watched it can cache it: its calls are numbered from 0, have distinct   *)
(* ids and arguments that parse, and the finish_reason says tool_calls     *)
(* exactly when there are calls.                                           *)
EndedStreamIsAnAnswer ==
  phase = "done" =>
    /\ Assembled # Assembler!NoResponse
    /\ LET tools == Assembled.choices[0].tools
       IN /\ DOMAIN tools = 0 .. Cardinality(toolIds) - 1
          /\ {tools[i].id : i \in DOMAIN tools} = toolIds
          /\ Assembled.choices[0].finish = "tool_calls" <=> toolIds # {}
=============================================================================
