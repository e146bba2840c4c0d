----------------------- MODULE AnthropicStreamProofs ------------------------
(***************************************************************************)
(* The Anthropic translator for every set of ids, texts, fragments and     *)
(* token counts: its types, what a failed stream showed, what is billed,   *)
(* that it implements the stream contract, and that a stream it ends is a  *)
(* whole answer to the assembler.                                          *)
(***************************************************************************)
EXTENDS AnthropicStream, FiniteSetTheorems, SequenceTheorems, WellFoundedInduction, TLAPS

Usage == [prompt : Nat, completion : Nat, total : Nat]

(* The frames of the events, and those of the terminal triple.             *)
ToolFrames ==
  {ToolFrame(tool, id, args) :
     tool \in Nat, id \in ToolIds \cup {"none"}, args \in Seq(Fragments)}
EventFrames ==
  {RoleFrame} \cup {ContentFrame(text) : text \in Texts}
  \cup ToolFrames
FinishFrames == {FinishFrame(f) : f \in Finishes \ {"none"}}
UsageFrames == {UsageFrame(i, o) : i \in Nat, o \in Nat}
Payloads == EventFrames \cup FinishFrames \cup UsageFrames \cup {Done}

LEMMA ToolFrameIsEventFrame ==
  ASSUME NEW tool \in Nat, NEW id \in ToolIds \cup {"none"}, NEW args \in Seq(Fragments)
  PROVE  ToolFrame(tool, id, args) \in EventFrames
<1> DEFINE Arguments == Seq(Fragments)
           Ids == ToolIds \cup {"none"}
<1>1. tool \in Nat /\ id \in Ids /\ args \in Arguments
  OBVIOUS
<1>2. ToolFrames = {ToolFrame(t, i, a) : t \in Nat, i \in Ids, a \in Arguments}
  BY DEF ToolFrames
<1> HIDE DEF Arguments, Ids
<1>3. ToolFrame(tool, id, args) \in ToolFrames
  BY <1>1, <1>2
<1> QED
  BY <1>3 DEF EventFrames

LEMMA DeltaFrameIsPlain == \A d : ~Carries(DeltaFrame(d)) /\ ~Ends(DeltaFrame(d))
BY DEF DeltaFrame, Chunk, Choice, Carries, Ends

LEMMA EventFrameIsPlain ==
  ASSUME NEW c \in EventFrames
  PROVE  ~Carries(c) /\ ~Ends(c)
<1>1. CASE c = RoleFrame
  BY <1>1, DeltaFrameIsPlain DEF RoleFrame
<1>2. ASSUME NEW text \in Texts, c = ContentFrame(text) PROVE ~Carries(c) /\ ~Ends(c)
  BY <1>2, DeltaFrameIsPlain DEF ContentFrame
<1>3. ASSUME NEW tool \in Nat, NEW id \in ToolIds \cup {"none"}, NEW args \in Seq(Fragments),
             c = ToolFrame(tool, id, args)
      PROVE  ~Carries(c) /\ ~Ends(c)
  BY <1>3, DeltaFrameIsPlain DEF ToolFrame
<1> QED
  BY <1>1, <1>2, <1>3 DEF EventFrames, ToolFrames

LEMMA FinishFrameIsUnmetered ==
  ASSUME NEW c \in FinishFrames
  PROVE  ~Carries(c)
BY DEF FinishFrames, FinishFrame, Chunk, Carries

LEMMA UsageFrameIsUsage ==
  ASSUME NEW i \in Nat, NEW o \in Nat
  PROVE  UsageFrame(i, o) \in UsageFrames
BY DEF UsageFrames

LEMMA UsageFrameCarries ==
  ASSUME NEW i \in Nat, NEW o \in Nat
  PROVE  /\ Carries(UsageFrame(i, o))
         /\ UsageFrame(i, o).usage = [prompt |-> i, completion |-> o, total |-> i + o]
<1>1. [prompt |-> i, completion |-> o, total |-> i + o] \in Usage
  BY DEF Usage
<1> QED
  BY <1>1, AnthropicConstants DEF UsageFrame, Chunk, Carries, Usage

-----------------------------------------------------------------------------
(* Types.                                                                  *)

LEMMA MappedReason == \A stop : MapStopReason(stop) \in Finishes
BY DEF MapStopReason, Finishes

LEMMA NoBlockTyped ==
  /\ NoBlock \in [kind : {"none", "text", "tool_use"}, index : Nat, tool : Nat, args : Seq(Fragments)]
  /\ \A index \in Nat :
       [NoBlock EXCEPT !.kind = "text", !.index = index]
         \in [kind : {"none", "text", "tool_use"}, index : Nat, tool : Nat, args : Seq(Fragments)]
<1>1. <<>> \in Seq(Fragments)
  OBVIOUS
<1> QED
  BY <1>1 DEF NoBlock

(* The translator's variables keep their types for any upstream.           *)
THEOREM TypeCorrect == Spec => []TypeOK
<1>1. Init => TypeOK
  <2>1. "none" \in Finishes /\ IsFiniteSet({})
    BY FS_EmptySet DEF Finishes
  <2> QED
    BY <2>1, NoBlockTyped DEF Init, TypeOK
<1>2. TypeOK /\ [Next]_vars => TypeOK'
  <2> SUFFICES ASSUME TypeOK, [Next]_vars
               PROVE  TypeOK'
    OBVIOUS
  <2> USE DEF TypeOK, message, terminal
  <2>1. CASE Connect \/ RefuseUpstream
    BY <2>1 DEF Connect, RefuseUpstream
  <2>2. ASSUME NEW in \in Tokens, NEW out \in Tokens, MessageStart(in, out)
        PROVE  TypeOK'
    BY <2>2, AnthropicConstants DEF MessageStart
  <2>3. ASSUME NEW index \in Indexes, TextBlockStart(index)
        PROVE  TypeOK'
    <3>1. index \in Nat
      BY AnthropicConstants DEF Indexes
    <3>2. [NoBlock EXCEPT !.kind = "text", !.index = index]
            \in [kind : {"none", "text", "tool_use"}, index : Nat, tool : Nat, args : Seq(Fragments)]
      BY <3>1, NoBlockTyped
    <3> QED
      BY <2>3, <3>2 DEF TextBlockStart
  <2>4. ASSUME NEW index \in Indexes, BlockStop(index)
        PROVE  TypeOK'
    BY <2>4, NoBlockTyped DEF BlockStop
  <2>5. ASSUME NEW index \in Indexes, NEW id \in ToolIds, ToolBlockStart(index, id)
        PROVE  TypeOK'
    <3>1. Cardinality(toolIds) \in Nat /\ IsFiniteSet(toolIds \cup {id})
      BY FS_CardinalityType, FS_AddElement
    <3>2. index \in Nat /\ <<>> \in Seq(Fragments)
      BY AnthropicConstants DEF Indexes
    <3> QED
      BY <2>5, <3>1, <3>2 DEF ToolBlockStart
  <2>6. ASSUME NEW index \in Indexes, NEW text \in Texts, TextDelta(index, text)
        PROVE  TypeOK'
    BY <2>6 DEF TextDelta
  <2>7. ASSUME NEW index \in Indexes, NEW fragment \in Fragments, InputJsonDelta(index, fragment)
        PROVE  TypeOK'
    <3>1. Append(block.args, fragment) \in Seq(Fragments)
      OBVIOUS
    <3>2. block' = [block EXCEPT !.args = Append(block.args, fragment)]
      BY <2>7 DEF InputJsonDelta
    <3>3. block' \in [kind : {"none", "text", "tool_use"}, index : Nat, tool : Nat,
                      args : Seq(Fragments)]
      BY <3>1, <3>2
    <3> QED
      BY <2>7, <3>3 DEF InputJsonDelta
  <2>8. ASSUME NEW out \in Tokens, NEW stop \in StopReasons \cup {"null"}, MessageDelta(out, stop)
        PROVE  TypeOK'
    BY <2>8, AnthropicConstants, MappedReason DEF MessageDelta, HigherOf
  <2>9. CASE MessageStop
    BY <2>9 DEF MessageStop
  <2>10. CASE Refused
    BY <2>10 DEF Refused, Reject
  <2>11. CASE EndOfEvents
    BY <2>11 DEF EndOfEvents
  <2>12. ASSUME NEW now, NEW payload, NEW next \in {"yieldUsage", "yieldDone", "done"},
                TerminalYield(now, payload, next)
         PROVE  TypeOK'
    BY <2>12 DEF TerminalYield
  <2>13. CASE Abandon
    BY <2>13 DEF Abandon
  <2>14. CASE UNCHANGED vars
    BY <2>14 DEF vars
  <2>15. TypeOK' \/ Next
    BY <2>14
  <2>16. ASSUME Next PROVE TypeOK'
    BY <2>1, <2>2, <2>3, <2>4, <2>5, <2>6, <2>7, <2>8, <2>9, <2>10, <2>11, <2>12, <2>13, <2>16,
       Zenon DEF Next
  <2> QED
    BY <2>15, <2>16
<1> QED
  BY <1>1, <1>2, PTL DEF Spec

-----------------------------------------------------------------------------
(* What was delivered.                                                     *)

Metered == \E i \in 1 .. Count : Carries(delivered[i])

(* Until the bytes have ended, and for ever when the upstream failed, only *)
(* event frames were delivered; the count that will be billed is the       *)
(* largest one; a usage frame is delivered last and only once.             *)
Inv ==
  /\ TypeOK
  /\ delivered \in Seq(Payloads)
  /\ output = peak
  /\ sawMessageStop => finish # "none"
  /\ phase = "yieldFinish" => sawMessageStop
  /\ phase \in {"connecting", "streaming", "yieldFinish", "failed"} => delivered \in Seq(EventFrames)
  /\ phase = "yieldUsage" => \A i \in 1 .. Len(delivered) : ~Carries(delivered[i])
  /\ phase \in {"yieldDone", "done"} => Count > 0 /\ Carries(delivered[Count])
  /\ phase = "done" => Len(delivered) > 0
  /\ BilledUsageIsFinal

(* Reading an event changes no more than this ...                          *)
Bookkeeping ==
  /\ output' = peak' /\ (sawMessageStop' => finish' # "none")
  /\ phase' = "yieldFinish" => sawMessageStop'

Reads ==
  /\ phase \in {"connecting", "streaming"}
  /\ phase' \in {"streaming", "yieldFinish", "failed"}
  /\ UNCHANGED delivered
  /\ Bookkeeping

Translates ==
  /\ phase = "streaming" /\ phase' = "streaming"
  /\ \E c \in EventFrames : delivered' = Append(delivered, c)
  /\ Bookkeeping

Terminates ==
  \/ TerminalYield("yieldFinish", FinishFrame(finish), "yieldUsage")
  \/ TerminalYield("yieldUsage", UsageFrame(input, output), "yieldDone")
  \/ TerminalYield("yieldDone", Done, "done")

(* ... and every step is of one of four kinds.                             *)
LEMMA StepKinds ==
  ASSUME Inv, Next
  PROVE  Reads \/ Translates \/ Terminates \/ Abandon
<1> USE DEF message, terminal, Bookkeeping
<1>1. output = peak /\ (sawMessageStop => finish # "none") /\ output \in Nat
  BY DEF Inv, TypeOK
<1>2. ASSUME Connect \/ RefuseUpstream
      PROVE  Reads
  BY <1>1, <1>2 DEF Connect, RefuseUpstream, Reads
<1>3. ASSUME NEW in \in Tokens, NEW out \in Tokens, MessageStart(in, out)
      PROVE  Translates
  <2>1. RoleFrame \in EventFrames
    BY DEF EventFrames
  <2> QED
    BY <1>1, <1>3, <2>1 DEF MessageStart, CanStart, Reading, Yield, Translates
<1>4. ASSUME NEW index \in Indexes, TextBlockStart(index) \/ BlockStop(index)
      PROVE  Reads
  BY <1>1, <1>4 DEF TextBlockStart, CanOpen, BlockStop, CanStop, Reading, Reads
<1>5. ASSUME NEW index \in Indexes, NEW id \in ToolIds, ToolBlockStart(index, id)
      PROVE  Translates
  <2>1. Cardinality(toolIds) \in Nat /\ <<>> \in Seq(Fragments)
    BY FS_CardinalityType DEF Inv, TypeOK
  <2>2. ToolFrame(Cardinality(toolIds), id, <<>>) \in EventFrames
    BY <2>1, ToolFrameIsEventFrame
  <2> QED
    BY <1>1, <1>5, <2>2 DEF ToolBlockStart, CanOpenTool, CanOpen, Reading, Yield, Translates
<1>6. ASSUME NEW index \in Indexes, NEW text \in Texts, TextDelta(index, text)
      PROVE  Translates
  <2>1. ContentFrame(text) \in EventFrames
    BY DEF EventFrames
  <2> QED
    BY <1>1, <1>6, <2>1 DEF TextDelta, CanContinue, Reading, Yield, Translates
<1>7. ASSUME NEW index \in Indexes, NEW fragment \in Fragments, InputJsonDelta(index, fragment)
      PROVE  Translates
  <2>1. block.tool \in Nat /\ <<fragment>> \in Seq(Fragments)
    BY DEF Inv, TypeOK
  <2>2. ToolFrame(block.tool, "none", <<fragment>>) \in EventFrames
    BY <2>1, ToolFrameIsEventFrame
  <2> QED
    BY <1>1, <1>7, <2>2 DEF InputJsonDelta, CanContinue, Reading, Yield, Translates
<1>8. ASSUME NEW out \in Tokens, NEW stop \in StopReasons \cup {"null"}, MessageDelta(out, stop)
      PROVE  Reads
  <2>1. out \in Nat /\ out >= output /\ ~sawMessageStop /\ phase = "streaming"
    BY <1>8, AnthropicConstants DEF MessageDelta, CanConclude, Reading
  <2>2. peak' = out /\ output' = out
    BY <1>1, <1>8, <2>1 DEF MessageDelta, HigherOf
  <2> QED
    BY <1>8, <2>1, <2>2 DEF MessageDelta, Reads
<1>9. ASSUME MessageStop
      PROVE  Reads
  BY <1>1, <1>9 DEF MessageStop, CanEnd, Reading, Reads
<1>10. ASSUME Refused
       PROVE  Reads
  BY <1>1, <1>10 DEF Refused, Reject, Reads
<1>11. ASSUME EndOfEvents
       PROVE  Reads
  BY <1>1, <1>11 DEF EndOfEvents, Reads
<1> QED
  BY <1>2, <1>3, <1>4, <1>5, <1>6, <1>7, <1>8, <1>9, <1>10, <1>11, Zenon DEF Next, Terminates

-----------------------------------------------------------------------------
(* What a step does to the transcript.                                     *)

LEMMA PlainFrames ==
  ASSUME NEW s \in Seq(EventFrames)
  PROVE  \A i \in 1 .. Len(s) : ~Carries(s[i]) /\ ~Ends(s[i])
BY EventFrameIsPlain

LEMMA ReadsPreserves ==
  ASSUME Inv, TypeOK', Reads
  PROVE  Inv' /\ Count' = Count /\ ~Metered /\ ~Metered'
<1>1. delivered \in Seq(EventFrames) /\ delivered' = delivered /\ phase # "done" /\ phase' # "done"
  BY DEF Inv, Reads
<1>2. Count = Len(delivered) /\ Count' = Len(delivered)
  BY <1>1 DEF Count
<1>3. \A i \in 1 .. Len(delivered) : ~Carries(delivered[i])
  BY <1>1, PlainFrames
<1>4. BilledUsageIsFinal' /\ ~Metered /\ ~Metered'
  BY <1>1, <1>2, <1>3 DEF BilledUsageIsFinal, Metered, Carries
<1> QED
  BY <1>1, <1>2, <1>4 DEF Inv, Reads, Bookkeeping

LEMMA TranslatesPreserves ==
  ASSUME Inv, TypeOK', Translates
  PROVE  Inv' /\ Count' = Count + 1 /\ ~Metered /\ ~Metered'
<1>1. PICK c \in EventFrames : delivered' = Append(delivered, c)
  BY DEF Translates
<1>2. delivered \in Seq(EventFrames) /\ phase = "streaming" /\ phase' = "streaming"
  BY DEF Inv, Translates
<1>3. delivered' \in Seq(EventFrames) /\ Len(delivered') = Len(delivered) + 1
  BY <1>1, <1>2
<1>4. Count = Len(delivered) /\ Count' = Len(delivered) + 1 /\ Len(delivered) \in Nat
  BY <1>2, <1>3 DEF Count
<1>5. /\ \A i \in 1 .. Len(delivered) : ~Carries(delivered[i])
      /\ \A i \in 1 .. Len(delivered') : ~Carries(delivered'[i])
  BY <1>2, <1>3, PlainFrames
<1>6. BilledUsageIsFinal' /\ ~Metered /\ ~Metered'
  BY <1>3, <1>4, <1>5 DEF BilledUsageIsFinal, Metered, Carries
<1>7. delivered' \in Seq(Payloads)
  BY <1>3 DEF Payloads
<1> QED
  BY <1>2, <1>3, <1>4, <1>6, <1>7 DEF Inv, Translates, Bookkeeping

(* The finish frame: still nothing to bill.                                *)
LEMMA FinishPreserves ==
  ASSUME Inv, TypeOK', TerminalYield("yieldFinish", FinishFrame(finish), "yieldUsage")
  PROVE  Inv' /\ Count' = Count + 1 /\ ~Metered /\ ~Metered'
<1>1. /\ delivered \in Seq(EventFrames) /\ delivered \in Seq(Payloads)
      /\ phase = "yieldFinish" /\ phase' = "yieldUsage" /\ finish \in Finishes \ {"none"}
      /\ delivered' = Append(delivered, FinishFrame(finish))
      /\ UNCHANGED <<input, output, peak, sawMessageStop, finish>>
  BY DEF Inv, TypeOK, TerminalYield, message, terminal
<1>2. FinishFrame(finish) \in FinishFrames
  BY <1>1 DEF FinishFrames
<1>3. FinishFrame(finish) \in Payloads /\ ~Carries(FinishFrame(finish))
  BY <1>2, FinishFrameIsUnmetered DEF Payloads
<1>4. /\ delivered' \in Seq(Payloads) /\ Len(delivered') = Len(delivered) + 1
      /\ \A i \in 1 .. Len(delivered) : delivered'[i] = delivered[i]
      /\ delivered'[Len(delivered) + 1] = FinishFrame(finish)
  BY <1>1, <1>3
<1>5. Count = Len(delivered) /\ Count' = Len(delivered) + 1 /\ Len(delivered) \in Nat
  BY <1>1, <1>4 DEF Count
<1>6. \A i \in 1 .. Len(delivered) : ~Carries(delivered[i])
  BY <1>1, PlainFrames
<1>7. \A i \in 1 .. Len(delivered) + 1 : i \in 1 .. Len(delivered) \/ i = Len(delivered) + 1
  BY <1>5
<1>8. \A i \in 1 .. Len(delivered') : ~Carries(delivered'[i])
  BY <1>3, <1>4, <1>6, <1>7
<1>9. BilledUsageIsFinal' /\ ~Metered /\ ~Metered'
  BY <1>4, <1>5, <1>6, <1>8 DEF BilledUsageIsFinal, Metered, Carries
<1>10. (\A i \in 1 .. Len(delivered) : ~Carries(delivered[i]))'
  BY <1>8 DEF Carries
<1> QED
  BY <1>1, <1>4, <1>5, <1>9, <1>10 DEF Inv

(* The usage frame: what is billed is the largest count reported.          *)
LEMMA UsagePreserves ==
  ASSUME Inv, TypeOK', TerminalYield("yieldUsage", UsageFrame(input, output), "yieldDone")
  PROVE  Inv' /\ Count' = Count + 1 /\ ~Metered /\ Metered'
<1> DEFINE frame == UsageFrame(input, output)
<1>1. /\ delivered \in Seq(Payloads) /\ input \in Nat /\ output \in Nat /\ output = peak
      /\ phase = "yieldUsage" /\ phase' = "yieldDone"
      /\ delivered' = Append(delivered, frame)
      /\ UNCHANGED <<input, output, peak, sawMessageStop, finish>>
      /\ \A i \in 1 .. Len(delivered) : ~Carries(delivered[i])
  BY DEF Inv, TypeOK, TerminalYield, message, terminal
<1>2. frame \in Payloads /\ Carries(frame)
  <2>1. Carries(frame)
    BY <1>1, UsageFrameCarries
  <2>2. frame \in UsageFrames
    BY <1>1, UsageFrameIsUsage
  <2> QED
    BY <2>1, <2>2 DEF Payloads
<1>3. frame.usage = [prompt |-> input', completion |-> peak', total |-> input' + peak']
  BY <1>1, UsageFrameCarries
<1> HIDE DEF frame
<1>4. /\ delivered' \in Seq(Payloads) /\ Len(delivered') = Len(delivered) + 1
      /\ \A i \in 1 .. Len(delivered) : delivered'[i] = delivered[i]
      /\ delivered'[Len(delivered) + 1] = frame
  BY <1>1, <1>2
<1>5. Count = Len(delivered) /\ Count' = Len(delivered) + 1 /\ Len(delivered) \in Nat
  BY <1>1, <1>4 DEF Count
<1>6. \A i \in 1 .. Count' : i \in 1 .. Len(delivered) \/ i = Count'
  BY <1>5
<1>7. \A i \in 1 .. Count' : Carries(delivered'[i]) => delivered'[i] = frame
  BY <1>1, <1>4, <1>5, <1>6
<1>8. BilledUsageIsFinal'
  BY <1>3, <1>7 DEF BilledUsageIsFinal, Carries
<1>9. Carries(delivered[Count])' /\ (Count > 0)'
  BY <1>2, <1>4, <1>5 DEF Carries
<1>10. ~Metered /\ Metered'
  BY <1>1, <1>5, <1>9 DEF Metered, Carries
<1> QED
  BY <1>1, <1>4, <1>5, <1>8, <1>9, <1>10 DEF Inv

(* [DONE] is not counted as a chunk.                                       *)
LEMMA DonePreserves ==
  ASSUME Inv, TypeOK', TerminalYield("yieldDone", Done, "done")
  PROVE  Inv' /\ Count' = Count /\ Metered /\ Metered'
<1>1. /\ delivered \in Seq(Payloads) /\ output = peak
      /\ phase = "yieldDone" /\ phase' = "done"
      /\ delivered' = Append(delivered, Done)
      /\ UNCHANGED <<input, output, peak, sawMessageStop, finish>>
      /\ Count > 0 /\ Carries(delivered[Count]) /\ BilledUsageIsFinal
  BY DEF Inv, TerminalYield, message, terminal
<1>2. Done \in Payloads
  BY DEF Payloads
<1>3. /\ delivered' \in Seq(Payloads) /\ Len(delivered') = Len(delivered) + 1
      /\ \A i \in 1 .. Len(delivered) : delivered'[i] = delivered[i]
  BY <1>1, <1>2
<1>4. Count = Len(delivered) /\ Count' = Len(delivered) /\ Len(delivered) \in Nat
  BY <1>1, <1>3 DEF Count
<1>5. \A i \in 1 .. Count' : delivered'[i] = delivered[i]
  BY <1>3, <1>4
<1>6. BilledUsageIsFinal'
  BY <1>1, <1>4, <1>5 DEF BilledUsageIsFinal, Carries
<1>7. Carries(delivered[Count])' /\ (Count > 0)' /\ Len(delivered') > 0
  BY <1>1, <1>3, <1>4, <1>5 DEF Carries
<1>8. Metered /\ Metered'
  BY <1>1, <1>4, <1>7 DEF Metered, Carries
<1> QED
  BY <1>1, <1>3, <1>4, <1>6, <1>7, <1>8 DEF Inv

LEMMA AbandonPreserves ==
  ASSUME Inv, TypeOK', Abandon
  PROVE  Inv' /\ Count' = Count /\ Metered' = Metered
<1>1. /\ UNCHANGED <<delivered, input, output, peak, sawMessageStop, finish>>
      /\ phase # "done" /\ phase' = "abandoned"
  BY DEF Abandon, message, terminal
<1>2. Count' = Count
  BY <1>1 DEF Count
<1>3. BilledUsageIsFinal' /\ Metered' = Metered
  BY <1>1, <1>2 DEF Inv, BilledUsageIsFinal, Metered, Carries
<1> QED
  BY <1>1, <1>2, <1>3 DEF Inv

LEMMA StutterPreserves ==
  ASSUME Inv, UNCHANGED vars
  PROVE  Inv' /\ Count' = Count /\ Metered' = Metered
<1>1. UNCHANGED <<phase, started, input, output, block, nextBlockIndex, toolIds, finish,
                  sawMessageDelta, sawMessageStop, delivered, peak>>
  BY DEF vars, message, terminal
<1>2. Count' = Count
  BY <1>1 DEF Count
<1>3. BilledUsageIsFinal' /\ Metered' = Metered
  BY <1>1, <1>2 DEF Inv, BilledUsageIsFinal, Metered, Carries
<1>4. TypeOK'
  BY <1>1 DEF Inv, TypeOK
<1> QED
  BY <1>1, <1>2, <1>3, <1>4 DEF Inv

-----------------------------------------------------------------------------
(* The theorems.                                                           *)

LEMMA Invariant == Spec => []Inv
<1>1. Init /\ TypeOK => Inv
  <2> SUFFICES ASSUME Init, TypeOK
               PROVE  Inv
    OBVIOUS
  <2>1. /\ delivered = <<>> /\ phase = "connecting" /\ output = 0 /\ peak = 0
        /\ finish = "none" /\ ~sawMessageStop
    BY DEF Init
  <2>2. Count = 0 /\ delivered \in Seq(Payloads) /\ delivered \in Seq(EventFrames)
    BY <2>1 DEF Count
  <2>3. BilledUsageIsFinal
    BY <2>2 DEF BilledUsageIsFinal
  <2> QED
    BY <2>1, <2>2, <2>3 DEF Inv
<1>2. Inv /\ TypeOK' /\ [Next]_vars => Inv'
  BY StepKinds, ReadsPreserves, TranslatesPreserves, FinishPreserves, UsagePreserves,
     DonePreserves, AbandonPreserves, StutterPreserves DEF Terminates
<1> QED
  BY <1>1, <1>2, TypeCorrect, PTL DEF Spec

(* A failed upstream never showed the client a finish_reason or usage.     *)
THEOREM FailureIsUnannounced == Spec => []NoSuccessBeforeFailure
<1>1. Inv => NoSuccessBeforeFailure
  <2> SUFFICES ASSUME Inv, phase = "failed", NEW i \in DOMAIN delivered
               PROVE  ~Ends(delivered[i])
    BY DEF NoSuccessBeforeFailure
  <2>1. delivered \in Seq(EventFrames)
    BY DEF Inv
  <2> QED
    BY <2>1, PlainFrames
<1> QED
  BY <1>1, Invariant, PTL

(* The usage frame bills the input of message_start and the largest output *)
(* count any event reported.                                               *)
THEOREM LargestCountIsBilled == Spec => []BilledUsageIsFinal
<1>1. Inv => BilledUsageIsFinal
  BY DEF Inv
<1> QED
  BY <1>1, Invariant, PTL

(* For every event stream: usage once and last, then one [DONE], and no    *)
(* failure after it.                                                       *)
THEOREM ContractImplemented == Spec => ImplementsContract
<1>1. Init => Contract!StreamInit
  <2> SUFFICES ASSUME Init
               PROVE  Contract!StreamInit
    OBVIOUS
  <2>1. delivered = <<>> /\ phase = "connecting"
    BY DEF Init
  <2>2. Count = 0
    BY <2>1 DEF Count
  <2> QED
    BY <2>1, <2>2 DEF Contract!StreamInit
<1>2. Inv /\ TypeOK' /\ [Next]_vars => [Contract!StreamNext]_Contract!stream
  <2> SUFFICES ASSUME Inv, TypeOK', [Next]_vars
               PROVE  [Contract!StreamNext]_Contract!stream
    OBVIOUS
  <2> USE DEF Contract!StreamNext, Contract!stream
  <2>1. CASE Reads
    <3>1. Count' = Count /\ ~Metered /\ ~Metered'
      BY <2>1, ReadsPreserves
    <3> QED
      BY <2>1, <3>1 DEF Reads, Contract!Fail, Metered
  <2>2. CASE Translates
    <3>1. Count' = Count + 1 /\ ~Metered /\ ~Metered'
      BY <2>2, TranslatesPreserves
    <3>2. Contract!Deliver(FALSE)
      BY <2>2, <3>1 DEF Translates, Contract!Deliver, Metered
    <3> QED
      BY <3>2
  <2>3. CASE TerminalYield("yieldFinish", FinishFrame(finish), "yieldUsage")
    <3>1. Count' = Count + 1 /\ ~Metered /\ ~Metered'
      BY <2>3, FinishPreserves
    <3>2. Contract!Deliver(FALSE)
      BY <2>3, <3>1 DEF TerminalYield, Contract!Deliver, Metered
    <3> QED
      BY <3>2
  <2>4. CASE TerminalYield("yieldUsage", UsageFrame(input, output), "yieldDone")
    <3>1. Count' = Count + 1 /\ ~Metered /\ Metered'
      BY <2>4, UsagePreserves
    <3>2. Contract!Deliver(TRUE)
      BY <2>4, <3>1 DEF TerminalYield, Contract!Deliver, Metered
    <3> QED
      BY <3>2
  <2>5. CASE TerminalYield("yieldDone", Done, "done")
    <3>1. Count' = Count /\ Metered /\ Metered'
      BY <2>5, DonePreserves
    <3>2. Contract!DeliverDone
      BY <2>5, <3>1 DEF TerminalYield, Contract!DeliverDone, Metered
    <3> QED
      BY <3>2
  <2>6. CASE Abandon
    <3>1. Count' = Count /\ Metered' = Metered
      BY <2>6, AbandonPreserves
    <3>2. Contract!Fail
      BY <2>6, <3>1 DEF Abandon, Contract!Fail, Metered
    <3> QED
      BY <3>2
  <2>7. CASE UNCHANGED vars
    <3>1. Count' = Count /\ Metered' = Metered /\ phase' = phase
      BY <2>7, StutterPreserves DEF vars
    <3> QED
      BY <3>1 DEF Metered
  <2> QED
    BY <2>1, <2>2, <2>3, <2>4, <2>5, <2>6, <2>7, StepKinds DEF Terminates
<1> QED
  BY <1>1, <1>2, Invariant, TypeCorrect, PTL DEF Spec, ImplementsContract, Contract!StreamSpec

-----------------------------------------------------------------------------
(* The fold of a transcript, and what one payload more does to it.  The    *)
(* fold is a recursive function of sets of positions: it exists, and there *)
(* is one, by a smallest counterexample.                                   *)

(* A set of positions has a last one.                                      *)
Top(t) == CHOOSE x \in t : \A y \in t : x >= y

LEMMA TopIsLast ==
  ASSUME NEW n \in Nat, NEW t \in SUBSET (1 .. n), t # {}
  PROVE  Top(t) \in t /\ \A y \in t : Top(t) >= y
<1> DEFINE T == {m \in Nat : n - m \in t}
           R == OpToRel(<, Nat)
<1>1. T \subseteq Nat /\ T # {}
  <2>1. PICK j \in t : TRUE OBVIOUS
  <2>2. n - j \in Nat /\ n - (n - j) = j OBVIOUS
  <2> QED BY <2>1, <2>2
<1>2. PICK m \in T : \A k \in T : <<k, m>> \notin R
  <2> HIDE DEF T, R
  <2> QED BY <1>1, NatLessThanWellFounded, WFMin DEF R
<1>3. \A k \in T : ~(k < m) BY <1>1, <1>2 DEF OpToRel
<1>4. \A y \in t : n - m >= y
  <2>1. ASSUME NEW y \in t PROVE n - m >= y
    <3>1. n - y \in T BY n - (n - y) = y
    <3> QED BY <1>3, <3>1
  <2> QED BY <2>1
<1> QED BY <1>2, <1>4 DEF Top

(* The fold as the community modules take it: a function of the sets of    *)
(* positions, each observed from its first to its last.                    *)
IsFold(g, s, S) ==
  g = [t \in SUBSET S |-> IF t = {} THEN Assembler!NewAssembler
                          ELSE Observe(g[t \ {Top(t)}], s[Top(t)])]

Watched(s) == FoldLeft(Observe, Assembler!NewAssembler, s)

LEMMA WatchedDef ==
  ASSUME NEW s
  PROVE  Watched(s) = (CHOOSE g : IsFold(g, s, DOMAIN s))[DOMAIN s]
BY Zenon DEF Watched, FoldLeft, MapThenFoldSet, IsFold, Top, Max

(* Of the subsets of a finite set, one is smallest.                        *)
LEMMA SmallestSet ==
  ASSUME NEW S, IsFiniteSet(S), NEW T, T \subseteq SUBSET S, T # {}
  PROVE  \E m \in T : \A t \in T : t \subseteq m => t = m
<1>1. IsWellFoundedOn(StrictSubsetOrdering(S), SUBSET S)
  BY FS_StrictSubsetOrderingWellFounded, FS_FiniteSubsetsOfFinite
<1>2. \E m \in T : \A t \in T : <<t, m>> \notin StrictSubsetOrdering(S) BY <1>1, WFMin
<1> QED BY <1>2 DEF StrictSubsetOrdering

(* There is one such function.                                             *)
LEMMA FoldUnique ==
  ASSUME NEW n \in Nat, NEW s, NEW g, NEW h, IsFold(g, s, 1 .. n), IsFold(h, s, 1 .. n)
  PROVE  g = h
<1> DEFINE Bad == {t \in SUBSET (1 .. n) : g[t] # h[t]}
<1>1. CASE Bad = {} BY <1>1 DEF IsFold
<1>2. CASE Bad # {}
  <2>1. \E m \in Bad : \A t \in Bad : t \subseteq m => t = m
    <3> DEFINE P == 1 .. n
    <3>1. Bad \subseteq SUBSET P /\ IsFiniteSet(P) BY FS_Interval
    <3> HIDE DEF Bad, P
    <3> QED BY <1>2, <3>1, SmallestSet
  <2>2. PICK m \in Bad : \A t \in Bad : t \subseteq m => t = m BY <2>1
  <2>3. m # {} BY <2>2 DEF IsFold
  <2> DEFINE r == m \ {Top(m)}
  <2>4. r \subseteq m /\ r # m /\ r \in SUBSET (1 .. n) BY <2>2, <2>3, TopIsLast
  <2>5. g[r] = h[r] BY <2>2, <2>4
  <2>6. g[m] = Observe(g[r], s[Top(m)]) /\ h[m] = Observe(h[r], s[Top(m)])
    BY <2>2, <2>3 DEF IsFold
  <2> QED BY <2>2, <2>5, <2>6
<1> QED BY <1>1, <1>2

(* A fold of a sequence is one of a beginning of it.                       *)
SameAt(s, q, M) == \A i \in M : q[i] = s[i]
HasTops(M) == \A t \in SUBSET M : t # {} => Top(t) \in t

LEMMA FoldRestricts ==
  ASSUME NEW N, NEW M, M \subseteq N, HasTops(M),
         NEW s, NEW q, NEW g, IsFold(g, s, N), SameAt(s, q, M)
  PROVE  \E h : IsFold(h, q, M) /\ SameAt(g, h, SUBSET M)
<1> DEFINE h == [t \in SUBSET M |-> g[t]]
<1>1. ASSUME NEW t \in SUBSET M
      PROVE  h[t] = IF t = {} THEN Assembler!NewAssembler
                    ELSE Observe(h[t \ {Top(t)}], q[Top(t)])
  <2>1. t \in SUBSET N /\ t \ {Top(t)} \in SUBSET M OBVIOUS
  <2>2. g[t] = IF t = {} THEN Assembler!NewAssembler ELSE Observe(g[t \ {Top(t)}], s[Top(t)])
    BY <2>1 DEF IsFold
  <2>3. t # {} => q[Top(t)] = s[Top(t)] BY DEF SameAt, HasTops
  <2> QED BY <2>1, <2>2, <2>3
<1>2. h = [t \in SUBSET M |-> h[t]] /\ \A t \in SUBSET M : h[t] = g[t] OBVIOUS
<1> HIDE DEF h
<1>3. IsFold(h, q, M) BY <1>1, <1>2, Zenon DEF IsFold
<1> QED BY <1>2, <1>3 DEF SameAt

(* One element more.                                                       *)
LEMMA FoldExtends ==
  ASSUME NEW n \in Nat, NEW s, NEW g, IsFold(g, s, 1 .. n)
  PROVE  \E h : IsFold(h, s, 1 .. n + 1)
<1> DEFINE N == n + 1
           low(t) == t \ {N}
           h == [t \in SUBSET (1 .. N) |-> IF N \in t THEN Observe(g[low(t)], s[N]) ELSE g[t]]
<1>1. ASSUME NEW t \in SUBSET (1 .. N), N \in t
      PROVE  Top(t) = N /\ low(t) \in SUBSET (1 .. n)
  <2>1. N \in Nat /\ t # {} /\ t \subseteq 1 .. N BY <1>1
  <2>2. Top(t) \in t /\ Top(t) >= N BY <1>1, <2>1, TopIsLast
  <2>3. Top(t) \in 1 .. N BY <2>1, <2>2
  <2>4. Top(t) = N BY <2>1, <2>2, <2>3
  <2>5. \A x \in low(t) : x \in 1 .. n BY <2>1
  <2> QED BY <2>4, <2>5
<1>2. ASSUME NEW t \in SUBSET (1 .. N), N \notin t
      PROVE  t \in SUBSET (1 .. n) /\ (t # {} => Top(t) \in t)
  <2>1. t \in SUBSET (1 .. n) BY <1>2
  <2> QED BY <2>1, TopIsLast
<1>3. ASSUME NEW t \in SUBSET (1 .. N)
      PROVE  h[t] = IF t = {} THEN Assembler!NewAssembler
                    ELSE Observe(h[t \ {Top(t)}], s[Top(t)])
  <2>1. CASE N \in t
    <3>1. h[t] = Observe(g[low(t)], s[N]) /\ t # {} BY <2>1
    <3>2. h[low(t)] = g[low(t)] OBVIOUS
    <3> QED BY <1>1, <2>1, <3>1, <3>2
  <2>2. CASE N \notin t
    <3>1. h[t] = g[t] BY <2>2
    <3>2. g[t] = IF t = {} THEN Assembler!NewAssembler ELSE Observe(g[t \ {Top(t)}], s[Top(t)])
      BY <1>2, <2>2 DEF IsFold
    <3>3. h[t \ {Top(t)}] = g[t \ {Top(t)}] BY <2>2
    <3> QED BY <3>1, <3>2, <3>3
  <2> QED BY <2>1, <2>2
<1>4. h = [t \in SUBSET (1 .. N) |-> h[t]] OBVIOUS
<1> HIDE DEF h
<1>5. IsFold(h, s, 1 .. N) BY <1>3, <1>4, Zenon DEF IsFold
<1> QED BY <1>5

(* So every sequence has its fold: take the least length that has none.    *)
LEMMA FoldExists ==
  ASSUME NEW n \in Nat, NEW s
  PROVE  \E g : IsFold(g, s, 1 .. n)
<1> DEFINE Bad == {m \in Nat : ~ \E g : IsFold(g, s, 1 .. m)}
           R == OpToRel(<, Nat)
<1> SUFFICES ASSUME Bad # {} PROVE FALSE
  OBVIOUS
<1>1. PICK m \in Bad : \A k \in Bad : <<k, m>> \notin R
  <2>1. Bad \subseteq Nat OBVIOUS
  <2> HIDE DEF Bad, R
  <2> QED BY <2>1, NatLessThanWellFounded, WFMin DEF R
<1>2. \A k \in Bad : ~(k < m) BY <1>1 DEF OpToRel
<1>3. CASE m = 0
  <2> DEFINE h == [t \in SUBSET (1 .. 0) |-> Assembler!NewAssembler]
  <2>1. \A t \in SUBSET (1 .. 0) : t = {} OBVIOUS
  <2>2. IsFold(h, s, 1 .. 0) BY <2>1, Zenon DEF IsFold
  <2> QED BY <1>1, <1>3, <2>2
<1>4. CASE m # 0
  <2>1. m - 1 \in Nat /\ m - 1 < m BY <1>4
  <2>2. PICK g : IsFold(g, s, 1 .. m - 1) BY <1>2, <2>1
  <2>3. \E h : IsFold(h, s, 1 .. (m - 1) + 1) BY <2>1, <2>2, FoldExtends
  <2>4. (m - 1) + 1 = m OBVIOUS
  <2>5. \E h : IsFold(h, s, 1 .. m) BY <2>3, <2>4
  <2> QED BY <1>1, <2>5
<1> QED BY <1>3, <1>4

LEMMA FoldIs ==
  ASSUME NEW n \in Nat, NEW s, DOMAIN s = 1 .. n, NEW g, IsFold(g, s, 1 .. n)
  PROVE  Watched(s) = g[1 .. n]
<1> DEFINE f == CHOOSE h : IsFold(h, s, DOMAIN s)
<1>1. IsFold(f, s, DOMAIN s) OBVIOUS
<1>2. f = g BY <1>1, FoldUnique
<1> QED BY <1>2, WatchedDef

(* What the assembler knows after one payload more.                        *)
LEMMA WatchedNothing == Watched(<<>>) = Assembler!NewAssembler
<1>1. DOMAIN <<>> = 1 .. 0 OBVIOUS
<1>2. PICK g : IsFold(g, <<>>, 1 .. 0) BY FoldExists
<1>3. g[1 .. 0] = Assembler!NewAssembler
  <2>1. 1 .. 0 = {} OBVIOUS
  <2> QED BY <1>2, <2>1 DEF IsFold
<1> QED BY <1>1, <1>2, <1>3, FoldIs

LEMMA WatchedOneMore ==
  ASSUME NEW X, NEW s \in Seq(X), NEW payload \in X
  PROVE  Watched(Append(s, payload)) = Observe(Watched(s), payload)
<1> DEFINE n == Len(s)
           q == Append(s, payload)
<1>1. /\ n \in Nat /\ DOMAIN s = 1 .. n /\ DOMAIN q = 1 .. n + 1
      /\ q[n + 1] = payload /\ \A i \in 1 .. n : s[i] = q[i]
  BY AppendProperties
<1> HIDE DEF n, q
<1>2. PICK g : IsFold(g, q, 1 .. n + 1) BY <1>1, FoldExists
<1>3. PICK h : IsFold(h, s, 1 .. n) /\ \A t \in SUBSET (1 .. n) : h[t] = g[t]
  <2> DEFINE N == 1 .. n + 1
             M == 1 .. n
  <2>1. HasTops(M) BY <1>1, TopIsLast DEF HasTops
  <2>2. M \subseteq N BY <1>1
  <2>3. IsFold(g, q, N) /\ SameAt(q, s, M) BY <1>1, <1>2 DEF SameAt
  <2> HIDE DEF M, N
  <2>4. \E h : IsFold(h, s, M) /\ SameAt(g, h, SUBSET M)
    BY <2>1, <2>2, <2>3, FoldRestricts
  <2> QED BY <2>4 DEF M, SameAt
<1>4. Watched(q) = g[1 .. n + 1] BY <1>1, <1>2, FoldIs
<1>5. Watched(s) = h[1 .. n] BY <1>1, <1>3, FoldIs
<1>6. h[1 .. n] = g[1 .. n] BY <1>3
<1>7. Top(1 .. n + 1) = n + 1 /\ (1 .. n + 1) \ {n + 1} = 1 .. n
  <2>1. n + 1 \in Nat /\ n + 1 \in 1 .. n + 1 BY <1>1
  <2>2. Top(1 .. n + 1) \in 1 .. n + 1 /\ Top(1 .. n + 1) >= n + 1 BY <2>1, TopIsLast
  <2>3. (1 .. n + 1) \ {n + 1} = 1 .. n BY <1>1
  <2> QED BY <1>1, <2>2, <2>3
<1>8. g[1 .. n + 1] = Observe(g[1 .. n], payload)
  <2>1. n + 1 \in 1 .. n + 1 BY <1>1
  <2>2. g[1 .. n + 1] = Observe(g[(1 .. n + 1) \ {Top(1 .. n + 1)}], q[Top(1 .. n + 1)])
    BY <1>2, <2>1 DEF IsFold
  <2> QED BY <1>1, <1>7, <2>2
<1>9. Watched(q) = Observe(Watched(s), payload) BY <1>4, <1>5, <1>6, <1>8
<1> QED BY <1>9 DEF q

-----------------------------------------------------------------------------
(* The assembler's own fold, over the calls of one entry: a frame has at   *)
(* most one.                                                               *)

IsToolFold(g, tools, ts, S) ==
  g = [t \in SUBSET S |-> IF t = {} THEN [ok |-> TRUE, tools |-> tools]
                          ELSE Assembler!ObserveTool(g[t \ {Top(t)}], ts[Top(t)])]

LEMMA ObserveToolsDef ==
  ASSUME NEW tools, NEW ts
  PROVE  Assembler!ObserveTools(tools, ts)
           = (CHOOSE g : IsToolFold(g, tools, ts, DOMAIN ts))[DOMAIN ts]
BY Zenon DEF Assembler!ObserveTools, Assembler!FoldLeft, Assembler!MapThenFoldSet, IsToolFold, Top, Assembler!Max

LEMMA NoToolObserved ==
  ASSUME NEW tools
  PROVE  Assembler!ObserveTools(tools, <<>>) = [ok |-> TRUE, tools |-> tools]
<1> DEFINE start == [ok |-> TRUE, tools |-> tools]
           h == [t \in SUBSET {} |-> start]
           g == CHOOSE f : IsToolFold(f, tools, <<>>, {})
<1> HIDE DEF start
<1>1. h = [t \in SUBSET {} |-> IF t = {} THEN start
                               ELSE Assembler!ObserveTool(h[t \ {Top(t)}], <<>>[Top(t)])]
  OBVIOUS
<1> HIDE DEF h
<1>2. IsToolFold(h, tools, <<>>, {}) BY <1>1, Zenon DEF IsToolFold, start
<1>3. IsToolFold(g, tools, <<>>, {}) BY <1>2
<1> HIDE DEF g
<1>4. g[{}] = start BY <1>3 DEF IsToolFold, start
<1>5. DOMAIN <<>> = {} OBVIOUS
<1> QED BY <1>4, <1>5, ObserveToolsDef DEF g, start

LEMMA OneToolObserved ==
  ASSUME NEW tools, NEW x
  PROVE  Assembler!ObserveTools(tools, <<x>>)
           = Assembler!ObserveTool([ok |-> TRUE, tools |-> tools], x)
<1> DEFINE start == [ok |-> TRUE, tools |-> tools]
           end == Assembler!ObserveTool(start, x)
           h == [t \in SUBSET {1} |-> IF t = {} THEN start ELSE end]
           g == CHOOSE f : IsToolFold(f, tools, <<x>>, {1})
<1>1. Top({1}) = 1 BY DEF Top
<1> HIDE DEF start, end
<1>2. ASSUME NEW t \in SUBSET {1}
      PROVE  h[t] = IF t = {} THEN start
                    ELSE Assembler!ObserveTool(h[t \ {Top(t)}], <<x>>[Top(t)])
  <2>1. CASE t = {} BY <2>1
  <2>2. CASE t = {1}
    <3>1. t \ {Top(t)} = {} /\ <<x>>[Top(t)] = x /\ t # {} BY <1>1, <2>2
    <3>2. h[{}] = start /\ h[t] = end BY <2>2
    <3> QED BY <3>1, <3>2 DEF end
  <2> QED BY <2>1, <2>2
<1>3. h = [t \in SUBSET {1} |-> h[t]] OBVIOUS
<1> HIDE DEF h
<1>4. IsToolFold(h, tools, <<x>>, {1}) BY <1>2, <1>3, Zenon DEF IsToolFold, start
<1>5. IsToolFold(g, tools, <<x>>, {1}) BY <1>4
<1> HIDE DEF g
<1>6. g[{1}] = end
  <2>1. g[{}] = start BY <1>5 DEF IsToolFold, start
  <2>2. g[{1}] = Assembler!ObserveTool(g[{1} \ {1}], <<x>>[1])
    BY <1>1, <1>5 DEF IsToolFold
  <2>3. {1} \ {1} = {} /\ <<x>>[1] = x OBVIOUS
  <2> QED BY <2>1, <2>2, <2>3 DEF end
<1>7. DOMAIN <<x>> = {1} OBVIOUS
<1> QED BY <1>6, <1>7, ObserveToolsDef DEF g, end, start

-----------------------------------------------------------------------------
(* What the assembler makes of each frame.  BOOLEAN literals stay inside   *)
(* the definitions: as arguments the solver cannot type them.              *)

(* The frame of one entry of the only choice.                              *)
EntryFrame(delta, reason) == Chunk(<<Choice(delta, reason)>>, NoUsage)

(* [DONE] is told from the frames.                                         *)
LEMMA FrameIsNotDone ==
  ASSUME NEW delta \in Deltas, NEW reason \in Finishes
  PROVE  EntryFrame(delta, reason) # Done
<1> DEFINE Entries == [index : {0}, delta : Deltas, finish : Finishes, extra : {"none"}]
<1>1. Choice(delta, reason) \in Entries BY DEF Choice
<1> HIDE DEF Entries
<1>2. <<Choice(delta, reason)>> \in Seq(Entries) BY <1>1
<1>3. EntryFrame(delta, reason) \in Frames BY <1>2 DEF EntryFrame, Chunk, Frames, Entries
<1> QED BY <1>3, DoneIsNoFrame

LEMMA UsageFrameIsNotDone ==
  ASSUME NEW in \in Nat, NEW out \in Nat
  PROVE  UsageFrame(in, out) # Done
<1> DEFINE Entries == [index : {0}, delta : Deltas, finish : Finishes, extra : {"none"}]
<1>1. <<>> \in Seq(Entries) /\ in + out \in Nat OBVIOUS
<1> HIDE DEF Entries
<1>2. UsageFrame(in, out) \in Frames BY <1>1 DEF UsageFrame, Chunk, Frames, Entries
<1> QED BY <1>2, DoneIsNoFrame

LEMMA FrameDeltas ==
  /\ Delta \in Deltas
  /\ [Delta EXCEPT !.role = "assistant"] \in Deltas
  /\ \A text \in Texts : [Delta EXCEPT !.content = <<text>>] \in Deltas
  /\ \A k \in Nat, id \in ToolIds \cup {"none"}, args \in Seq(Fragments) :
       [Delta EXCEPT !.tools = <<[index |-> k, id |-> id, name |-> id, args |-> args, odd |-> FALSE]>>]
         \in Deltas
<1>1. <<>> \in Seq(Texts) /\ <<>> \in Seq(ToolDeltas) OBVIOUS
<1>2. Delta \in Deltas BY <1>1 DEF Delta, Deltas
<1>3. [Delta EXCEPT !.role = "assistant"] \in Deltas BY <1>2 DEF Delta, Deltas
<1>4. ASSUME NEW text \in Texts PROVE [Delta EXCEPT !.content = <<text>>] \in Deltas
  <2>1. <<text>> \in Seq(Texts) OBVIOUS
  <2> QED BY <1>2, <2>1 DEF Delta, Deltas
<1>5. ASSUME NEW k \in Nat, NEW id \in ToolIds \cup {"none"}, NEW args \in Seq(Fragments)
      PROVE  [Delta EXCEPT !.tools = <<[index |-> k, id |-> id, name |-> id, args |-> args, odd |-> FALSE]>>]
               \in Deltas
  <2> DEFINE x == [index |-> k, id |-> id, name |-> id, args |-> args, odd |-> FALSE]
             Arguments == Seq(Fragments)
  <2>1. x \in ToolDeltas
    <3>1. args \in Arguments OBVIOUS
    <3> HIDE DEF Arguments
    <3> QED BY <3>1 DEF ToolDeltas, Arguments
  <2> HIDE DEF x
  <2>2. <<x>> \in Seq(ToolDeltas) BY <2>1
  <2>3. [Delta EXCEPT !.tools = <<x>>] \in Deltas BY <1>1, <2>2 DEF Delta, Deltas
  <2> QED BY <2>3 DEF x
<1> QED BY <1>2, <1>3, <1>4, <1>5

(* An assembler that could follow a stream of one choice so far.           *)
Followed(id, usage, choices) ==
  [eligible |-> TRUE, id |-> id, extra |-> "none", usage |-> usage, done |-> FALSE,
   choices |-> choices]

Told(reason, content, tools) ==
  [role |-> "assistant", content |-> content, reasoning |-> <<>>, finish |-> reason,
   extra |-> "none", tools |-> tools]

Alone(s) == [index \in {0} |-> s]

(* s, with its calls, is the only choice so far, or a new one.             *)
Only(choices, s, tools) ==
  /\ (choices = <<>> /\ s = Assembler!NewChoice) \/ choices = Alone(s)
  /\ s.finish = "none" /\ s.extra = "none" /\ s.tools = tools

(* delta fits the calls so far and makes them these.                       *)
Makes(tools, delta, after) ==
  delta \in Deltas /\ Assembler!ObserveTools(tools, delta.tools) = [ok |-> TRUE, tools |-> after]

LEMMA ChoiceObserved ==
  ASSUME NEW id, id \in {"none", "message"}, NEW s, NEW choices, NEW tools, Only(choices, s, tools),
         NEW delta, NEW after, Makes(tools, delta, after), NEW reason \in Finishes
  PROVE  Observe(Followed(id, NoUsage, choices), EntryFrame(delta, reason))
           = Followed("message", NoUsage, Alone(Assembler!Grow(s, Choice(delta, reason))))
<1> DEFINE a == Followed(id, NoUsage, choices)
           x == Choice(delta, reason)
           c == EntryFrame(delta, reason)
<1>0. delta \in Deltas /\ Assembler!ObserveTools(s.tools, delta.tools).ok = TRUE BY DEF Makes, Only
<1>1. x.index = 0 /\ x.delta = delta /\ x.finish = reason /\ x.extra = "none" BY DEF Choice
<1>2. c # Done BY <1>0, FrameIsNotDone
<1>3. /\ DOMAIN c.choices = {1} /\ c.choices[1] = x
      /\ c.id = "message" /\ c.extra = "none" /\ c.usage = NoUsage
  BY DEF EntryFrame, Chunk
<1>4. /\ a.eligible = TRUE /\ a.done = FALSE /\ a.usage = NoUsage /\ a.id = id /\ a.extra = "none"
      /\ a.choices = choices
  BY DEF Followed
<1>5. Assembler!StateOf(a, 0) = s
  <2>1. DOMAIN <<>> = {} /\ DOMAIN Alone(s) = {0} /\ Alone(s)[0] = s BY DEF Alone
  <2> QED BY <1>4, <2>1 DEF Assembler!StateOf, Only
<1>6. Assembler!Indexes(c) = {0} BY <1>1, <1>3 DEF Assembler!Indexes
<1>7. ~delta.odd /\ delta.role \in {"none", "assistant"} BY <1>0 DEF Deltas
<1> HIDE DEF a, c, x
<1>8. Assembler!ChoiceFits(s, x)
  BY <1>0, <1>1, <1>7 DEF Assembler!ChoiceFits, Assembler!Compatible, Only
<1>9. Assembler!Representable(a, c)
  BY <1>1, <1>3, <1>4, <1>5, <1>8 DEF Assembler!Representable, Assembler!Compatible
<1>10. (CHOOSE i \in DOMAIN c.choices : c.choices[i].index = 0) = 1
  BY <1>1, <1>3
<1>11. DOMAIN a.choices \cup {0} = {0}
  BY <1>4 DEF Alone, Only
<1>12. [index \in DOMAIN a.choices \cup Assembler!Indexes(c) |->
          IF index \in Assembler!Indexes(c)
          THEN Assembler!Grow(Assembler!StateOf(a, index),
                 c.choices[CHOOSE i \in DOMAIN c.choices : c.choices[i].index = index])
          ELSE a.choices[index]] = Alone(Assembler!Grow(s, x))
  <2> DEFINE at(index) ==
               IF index \in Assembler!Indexes(c)
               THEN Assembler!Grow(Assembler!StateOf(a, index),
                      c.choices[CHOOSE i \in DOMAIN c.choices : c.choices[i].index = index])
               ELSE a.choices[index]
  <2>1. at(0) = Assembler!Grow(s, x)
    BY <1>3, <1>5, <1>6, <1>10
  <2> HIDE DEF at
  <2>2. [index \in {0} |-> at(index)] = Alone(Assembler!Grow(s, x))
    BY <2>1 DEF Alone
  <2>3. DOMAIN a.choices \cup Assembler!Indexes(c) = {0}
    BY <1>6, <1>11
  <2> QED
    BY <2>2, <2>3 DEF at
<1>13. Assembler!Known(a.extra, c.extra) = "none" BY <1>3, <1>4 DEF Assembler!Known
<1>14. Assembler!ObservePayload(a, c)
        = [a EXCEPT !.id = "message", !.extra = "none", !.usage = NoUsage,
                    !.choices = Alone(Assembler!Grow(s, x))]
  BY <1>3, <1>9, <1>12, <1>13 DEF Assembler!ObservePayload
<1>15. Assembler!ObservePayload(a, c) = Followed("message", NoUsage, Alone(Assembler!Grow(s, x)))
  BY <1>14 DEF a, Followed
<1> QED BY <1>2, <1>15 DEF Observe, a, c, x

LEMMA NothingAdded == <<>> \o <<>> = <<>>
BY ConcatEmptySeq

Speaking(content, tools) == Followed("message", NoUsage, Alone(Told("none", content, tools)))

LEMMA NewFollowed ==
  Assembler!NewAssembler = Followed("none", NoUsage, <<>>)
BY DEF Assembler!NewAssembler, Followed

LEMMA RoleObserved ==
  Observe(Assembler!NewAssembler, RoleFrame) = Speaking(<<>>, <<>>)
<1> DEFINE delta == [Delta EXCEPT !.role = "assistant"]
           x == Choice(delta, "none")
           s == Assembler!NewChoice
<1>1. delta \in Deltas /\ "none" \in Finishes BY FrameDeltas DEF Finishes
<1>2. /\ delta.role = "assistant" /\ delta.content = <<>> /\ delta.reasoning = <<>>
      /\ delta.tools = <<>>
  BY DEF Delta
<1>3. /\ s.role = "none" /\ s.content = <<>> /\ s.reasoning = <<>> /\ s.finish = "none"
      /\ s.extra = "none" /\ s.tools = <<>>
  BY DEF Assembler!NewChoice
<1>4. x.delta = delta /\ x.finish = "none" /\ x.extra = "none" BY DEF Choice
<1>5. Assembler!ObserveTools(s.tools, delta.tools) = [ok |-> TRUE, tools |-> <<>>]
  BY <1>2, <1>3, NoToolObserved
<1>6. RoleFrame = EntryFrame(delta, "none") BY DEF RoleFrame, DeltaFrame, EntryFrame
<1>7. s = Assembler!NewChoice OBVIOUS
<1> HIDE DEF s, delta, x
<1>8. Assembler!Grow(s, x) = Told("none", <<>>, <<>>)
  BY <1>2, <1>3, <1>4, <1>5, NothingAdded DEF Assembler!Grow, Assembler!Known, Told
<1>10. Only(<<>>, s, <<>>) /\ Makes(<<>>, delta, <<>>)
  BY <1>1, <1>3, <1>5, <1>7 DEF Only, Makes
<1>9. Observe(Followed("none", NoUsage, <<>>), EntryFrame(delta, "none"))
        = Followed("message", NoUsage, Alone(Assembler!Grow(s, Choice(delta, "none"))))
  <2>1. "none" \in Finishes BY <1>1
  <2> QED BY <1>10, <2>1, ChoiceObserved
<1> QED BY <1>6, <1>8, <1>9, NewFollowed DEF Speaking, x

More(content, delta) == content \o delta.content

(* What one more chunk of the only choice adds.                            *)
LEMMA DeltaObserved ==
  ASSUME NEW content, NEW tools, NEW delta, NEW after, Makes(tools, delta, after),
         delta.role = "none", NEW reason \in Finishes
  PROVE  Observe(Speaking(content, tools), EntryFrame(delta, reason))
           = Followed("message", NoUsage,
                      Alone(Told(reason, More(content, delta), after)))
<1> DEFINE x == Choice(delta, reason)
           s == Told("none", content, tools)
<1>1. delta.reasoning = <<>> /\ Assembler!ObserveTools(tools, delta.tools).tools = after
  BY DEF Deltas, Makes
<1>2. /\ s.role = "assistant" /\ s.content = content /\ s.reasoning = <<>> /\ s.finish = "none"
      /\ s.extra = "none" /\ s.tools = tools
  BY DEF Told
<1>3. x.delta = delta /\ x.finish = reason /\ x.extra = "none" BY DEF Choice
<1>4. Speaking(content, tools) = Followed("message", NoUsage, Alone(s)) BY DEF Speaking
<1> HIDE DEF s, x
<1>5. Assembler!Grow(s, x) = Told(reason, More(content, delta), after)
  BY <1>1, <1>2, <1>3, NothingAdded DEF Assembler!Grow, Assembler!Known, Told, More
<1>7. Only(Alone(s), s, tools) /\ Makes(tools, delta, after)
  BY <1>2 DEF Only
<1>6. Observe(Followed("message", NoUsage, Alone(s)), EntryFrame(delta, reason))
        = Followed("message", NoUsage, Alone(Assembler!Grow(s, Choice(delta, reason))))
  BY <1>7, ChoiceObserved
<1> QED BY <1>4, <1>5, <1>6 DEF x

LEMMA TextObserved ==
  ASSUME NEW content, NEW tools, NEW text \in Texts
  PROVE  Observe(Speaking(content, tools), ContentFrame(text))
           = Speaking(More(content, [Delta EXCEPT !.content = <<text>>]), tools)
<1> DEFINE delta == [Delta EXCEPT !.content = <<text>>]
<1>1. delta \in Deltas /\ "none" \in Finishes BY FrameDeltas DEF Finishes
<1>2. delta.role = "none" /\ delta.content = <<text>> /\ delta.tools = <<>> BY DEF Delta
<1>3. ContentFrame(text) = EntryFrame(delta, "none")
  BY DEF ContentFrame, DeltaFrame, EntryFrame
<1>4. Makes(tools, delta, tools)
  BY <1>1, <1>2, NoToolObserved DEF Makes
<1> HIDE DEF delta
<1>5. Observe(Speaking(content, tools), EntryFrame(delta, "none"))
        = Followed("message", NoUsage, Alone(Told("none", More(content, delta), tools)))
  BY <1>1, <1>2, <1>4, DeltaObserved
<1> QED BY <1>3, <1>5 DEF Speaking, delta

LEMMA FinishObserved ==
  ASSUME NEW content, NEW tools, NEW reason \in Finishes
  PROVE  Observe(Speaking(content, tools), FinishFrame(reason))
           = Followed("message", NoUsage, Alone(Told(reason, More(content, Delta), tools)))
<1>1. Delta \in Deltas BY FrameDeltas
<1>2. Delta.role = "none" /\ Delta.content = <<>> /\ Delta.tools = <<>> BY DEF Delta
<1>3. Makes(tools, Delta, tools)
  BY <1>1, <1>2, NoToolObserved DEF Makes
<1>4. Observe(Speaking(content, tools), EntryFrame(Delta, reason))
        = Followed("message", NoUsage, Alone(Told(reason, More(content, Delta), tools)))
  BY <1>2, <1>3, DeltaObserved
<1>5. FinishFrame(reason) = EntryFrame(Delta, reason) BY DEF FinishFrame, EntryFrame
<1> QED BY <1>2, <1>4, <1>5

(* A call that begins takes the next index, and a fragment goes to its     *)
(* own call.                                                               *)
CallDelta(k, id, args) ==
  [Delta EXCEPT !.tools = <<[index |-> k, id |-> id, name |-> id, args |-> args, odd |-> FALSE]>>]

Begun(tools, k, id) ==
  [i \in DOMAIN tools \cup {k} |-> IF i = k THEN [id |-> id, name |-> id, args |-> <<>>] ELSE tools[i]]

Continued(tools, k, fragment) ==
  [i \in DOMAIN tools |->
     IF i = k THEN [tools[i] EXCEPT !.args = @ \o <<fragment>>] ELSE tools[i]]

LEMMA CallObserved ==
  ASSUME NEW content, NEW tools, NEW k \in Nat, k \notin DOMAIN tools, NEW id \in ToolIds
  PROVE  Observe(Speaking(content, tools), ToolFrame(k, id, <<>>))
           = Speaking(More(content, CallDelta(k, id, <<>>)), Begun(tools, k, id))
<1> DEFINE x == [index |-> k, id |-> id, name |-> id, args |-> <<>>, odd |-> FALSE]
           delta == [Delta EXCEPT !.tools = <<x>>]
<1>1. delta \in Deltas /\ "none" \in Finishes
  <2>1. <<>> \in Seq(Fragments) OBVIOUS
  <2> QED BY <2>1, FrameDeltas DEF Finishes
<1>2. delta.role = "none" /\ delta.content = <<>> /\ delta.tools = <<x>> BY DEF Delta
<1>3. ToolFrame(k, id, <<>>) = EntryFrame(delta, "none")
  BY DEF ToolFrame, DeltaFrame, EntryFrame
<1>4. x.index = k /\ x.id = id /\ x.name = id /\ x.args = <<>> /\ x.odd = FALSE /\ id # "none"
  BY AnthropicConstants
<1> HIDE DEF x
<1>5. Assembler!ToolFits(tools, x) BY <1>4 DEF Assembler!ToolFits
<1>6. Assembler!Call(tools, x) = [id |-> id, name |-> id, args |-> <<>>]
  BY <1>4 DEF Assembler!Call
<1>7. Assembler!ObserveTool([ok |-> TRUE, tools |-> tools], x)
        = [ok |-> TRUE, tools |-> Begun(tools, k, id)]
  BY <1>4, <1>5, <1>6 DEF Assembler!ObserveTool, Begun
<1>8. Makes(tools, delta, Begun(tools, k, id))
  BY <1>1, <1>2, <1>7, OneToolObserved DEF Makes
<1> HIDE DEF delta
<1>10. Observe(Speaking(content, tools), EntryFrame(delta, "none"))
        = Followed("message", NoUsage, Alone(Told("none", More(content, delta), Begun(tools, k, id))))
  BY <1>1, <1>2, <1>8, DeltaObserved
<1> QED BY <1>2, <1>3, <1>10 DEF Speaking, CallDelta, delta, x

LEMMA FragmentObserved ==
  ASSUME NEW content, NEW tools, NEW k \in Nat, k \in DOMAIN tools, NEW fragment \in Fragments
  PROVE  Observe(Speaking(content, tools), ToolFrame(k, "none", <<fragment>>))
           = Speaking(More(content, CallDelta(k, "none", <<fragment>>)), Continued(tools, k, fragment))
<1> DEFINE x == [index |-> k, id |-> "none", name |-> "none", args |-> <<fragment>>, odd |-> FALSE]
           delta == [Delta EXCEPT !.tools = <<x>>]
<1>1. delta \in Deltas /\ "none" \in Finishes
  <2>1. <<fragment>> \in Seq(Fragments) OBVIOUS
  <2> QED BY <2>1, FrameDeltas DEF Finishes
<1>2. delta.role = "none" /\ delta.content = <<>> /\ delta.tools = <<x>> BY DEF Delta
<1>3. ToolFrame(k, "none", <<fragment>>) = EntryFrame(delta, "none")
  BY DEF ToolFrame, DeltaFrame, EntryFrame
<1>4. /\ x.index = k /\ x.id = "none" /\ x.name = "none" /\ x.args = <<fragment>> /\ x.odd = FALSE
  OBVIOUS
<1> HIDE DEF x
<1>5. Assembler!ToolFits(tools, x) BY <1>4 DEF Assembler!ToolFits
<1>6. Assembler!Call(tools, x) = [tools[k] EXCEPT !.args = @ \o <<fragment>>]
  BY <1>4 DEF Assembler!Call
<1>7. DOMAIN tools \cup {k} = DOMAIN tools OBVIOUS
<1>8. Assembler!ObserveTool([ok |-> TRUE, tools |-> tools], x)
        = [ok |-> TRUE, tools |-> Continued(tools, k, fragment)]
  BY <1>4, <1>5, <1>6, <1>7 DEF Assembler!ObserveTool, Continued
<1>9. Makes(tools, delta, Continued(tools, k, fragment))
  BY <1>1, <1>2, <1>8, OneToolObserved DEF Makes
<1> HIDE DEF delta
<1>10. Observe(Speaking(content, tools), EntryFrame(delta, "none"))
        = Followed("message", NoUsage, Alone(Told("none", More(content, delta), Continued(tools, k, fragment))))
  BY <1>1, <1>2, <1>9, DeltaObserved
<1> QED BY <1>2, <1>3, <1>10 DEF Speaking, CallDelta, delta, x

LEMMA UsageObserved ==
  ASSUME NEW s, NEW in \in Nat, NEW out \in Nat
  PROVE  Observe(Followed("message", NoUsage, Alone(s)), UsageFrame(in, out))
           = Followed("message", [prompt |-> in, completion |-> out, total |-> in + out], Alone(s))
<1> DEFINE a == Followed("message", NoUsage, Alone(s))
           c == UsageFrame(in, out)
           u == [prompt |-> in, completion |-> out, total |-> in + out]
<1>1. c # Done BY UsageFrameIsNotDone
<1>2. c.choices = <<>> /\ c.id = "message" /\ c.extra = "none" /\ c.usage = u
  BY DEF UsageFrame, Chunk
<1>3. /\ a.eligible = TRUE /\ a.done = FALSE /\ a.usage = NoUsage /\ a.id = "message" /\ a.extra = "none"
      /\ a.choices = Alone(s)
  BY DEF Followed
<1> HIDE DEF a, c, u
<1>4. DOMAIN c.choices = {} BY <1>2
<1>5. Assembler!Indexes(c) = {} BY <1>4 DEF Assembler!Indexes
<1>6. Assembler!Representable(a, c)
  BY <1>2, <1>3, <1>4 DEF Assembler!Representable, Assembler!Compatible
<1>7. Assembler!Known(a.extra, c.extra) = "none" BY <1>2, <1>3 DEF Assembler!Known
<1>8. [index \in DOMAIN a.choices \cup Assembler!Indexes(c) |->
          IF index \in Assembler!Indexes(c)
          THEN Assembler!Grow(Assembler!StateOf(a, index),
                 c.choices[CHOOSE i \in DOMAIN c.choices : c.choices[i].index = index])
          ELSE a.choices[index]] = Alone(s)
  BY <1>3, <1>5 DEF Alone
<1>9. Assembler!ObservePayload(a, c)
        = [a EXCEPT !.id = "message", !.extra = "none", !.usage = u, !.choices = Alone(s)]
  BY <1>2, <1>6, <1>7, <1>8 DEF Assembler!ObservePayload
<1>10. Assembler!ObservePayload(a, c) = Followed("message", u, Alone(s))
  BY <1>9 DEF a, Followed
<1> QED BY <1>1, <1>10 DEF Observe, a, c, u

LEMMA DoneObserved ==
  ASSUME NEW s, NEW usage
  PROVE  Observe(Followed("message", usage, Alone(s)), Done)
           = [Followed("message", usage, Alone(s)) EXCEPT !.done = TRUE]
BY DEF Observe, Assembler!ObserveDone, Followed

-----------------------------------------------------------------------------
(* The assembler beside the translator.                                    *)

Calls == [id : ToolIds, name : ToolIds, args : Seq(Fragments)]

(* The calls the assembler knows are those of the blocks: numbered in      *)
(* their order, one for each id, with the arguments of a block that was    *)
(* accepted, or of the open one so far.                                    *)
CallsOfBlocks(tools) ==
  /\ DOMAIN tools = 0 .. Cardinality(toolIds) - 1
  /\ {tools[i].id : i \in DOMAIN tools} = toolIds
  /\ \A i \in DOMAIN tools :
       /\ tools[i] \in Calls
       /\ IF block.kind = "tool_use" /\ block.tool = i
          THEN tools[i].args = block.args ELSE tools[i].args \in JsonObjects
  /\ block.kind = "tool_use" => block.tool \in DOMAIN tools

(* Both keep one order: no block is open once a message_delta was read,    *)
(* and the finish_reason names calls exactly when there are some.          *)
OrderInv ==
  /\ phase = "connecting" => ~started
  /\ ~started => toolIds = {} /\ block = NoBlock /\ ~sawMessageDelta
  /\ block.kind = "none" => block = NoBlock
  /\ sawMessageDelta => block = NoBlock
  /\ finish # "none" => sawMessageDelta /\ (finish = "tool_calls" <=> toolIds # {})
  /\ sawMessageStop => finish # "none"
  /\ phase \in {"yieldFinish", "yieldUsage", "yieldDone", "done"} => sawMessageStop

FinalUsage == [prompt |-> input, completion |-> output, total |-> input + output]

Answered(usage, content, tools) == Followed("message", usage, Alone(Told(finish, content, tools)))

(* What the assembler makes of the chunks so far.                          *)
Follows(content, tools) ==
  /\ phase \in {"connecting", "streaming", "yieldFinish"} =>
       Watched(delivered) = IF started THEN Speaking(content, tools) ELSE Assembler!NewAssembler
  /\ phase = "yieldUsage" => Watched(delivered) = Answered(NoUsage, content, tools)
  /\ phase = "yieldDone" => Watched(delivered) = Answered(FinalUsage, content, tools)
  /\ phase = "done" =>
       Watched(delivered) = [Answered(FinalUsage, content, tools) EXCEPT !.done = TRUE]

AnswerInv ==
  /\ OrderInv
  /\ phase \notin {"failed", "abandoned"} =>
       \E content, tools : Follows(content, tools) /\ CallsOfBlocks(tools)

LEMMA ConcludedReason ==
  ASSUME NEW stop, MapStopReason(stop) # "none"
  PROVE  MapStopReason(stop) = "tool_calls" <=> toolIds # {}
BY DEF MapStopReason

LEMMA OrderInitial == Init => OrderInv
BY DEF Init, OrderInv, NoBlock

LEMMA OrderStep == TypeOK /\ OrderInv /\ [Next]_vars => OrderInv'
<1> SUFFICES ASSUME TypeOK, OrderInv, [Next]_vars
             PROVE  OrderInv'
  OBVIOUS
<1> USE DEF OrderInv, message, terminal
<1>1. CASE Connect \/ RefuseUpstream
  BY <1>1 DEF Connect, RefuseUpstream
<1>2. ASSUME NEW in \in Tokens, NEW out \in Tokens, MessageStart(in, out)
      PROVE  OrderInv'
  BY <1>2 DEF MessageStart, CanStart, Reading
<1>3. ASSUME NEW index \in Indexes, TextBlockStart(index)
      PROVE  OrderInv'
  BY <1>3 DEF TextBlockStart, CanOpen, Reading, NoBlock
<1>4. ASSUME NEW index \in Indexes, BlockStop(index)
      PROVE  OrderInv'
  BY <1>4 DEF BlockStop, CanStop, Reading, NoBlock
<1>5. ASSUME NEW index \in Indexes, NEW id \in ToolIds, ToolBlockStart(index, id)
      PROVE  OrderInv'
  BY <1>5 DEF ToolBlockStart, CanOpenTool, CanOpen, Reading
<1>6. ASSUME NEW index \in Indexes, NEW text \in Texts, TextDelta(index, text)
      PROVE  OrderInv'
  BY <1>6 DEF TextDelta, CanContinue, Reading
<1>7. ASSUME NEW index \in Indexes, NEW fragment \in Fragments, InputJsonDelta(index, fragment)
      PROVE  OrderInv'
  <2>1. block.kind = "tool_use" /\ started BY <1>7 DEF InputJsonDelta, CanContinue
  <2>2. block'.kind = "tool_use" BY <1>7, <2>1 DEF InputJsonDelta, TypeOK
  <2>3. block # NoBlock BY <2>1 DEF NoBlock
  <2> QED BY <1>7, <2>1, <2>2, <2>3 DEF InputJsonDelta, CanContinue, Reading
<1>8. ASSUME NEW out \in Tokens, NEW stop \in StopReasons \cup {"null"}, MessageDelta(out, stop)
      PROVE  OrderInv'
  <2>1. stop = "null" \/ (finish' = MapStopReason(stop) /\ MapStopReason(stop) # "none")
    BY <1>8 DEF MessageDelta, CanConclude
  <2>2. finish = "none" /\ started /\ block = NoBlock /\ phase = "streaming" /\ ~sawMessageStop
    BY <1>8 DEF MessageDelta, CanConclude, Reading
  <2> QED BY <1>8, <2>1, <2>2, ConcludedReason DEF MessageDelta
<1>9. CASE MessageStop
  BY <1>9 DEF MessageStop, CanEnd, Reading
<1>10. CASE Refused
  BY <1>10 DEF Refused, Reject
<1>11. CASE EndOfEvents
  BY <1>11 DEF EndOfEvents
<1>12. ASSUME NEW now \in {"yieldFinish", "yieldUsage", "yieldDone"}, NEW payload,
              NEW next \in {"yieldUsage", "yieldDone", "done"}, TerminalYield(now, payload, next)
       PROVE  OrderInv'
  BY <1>12 DEF TerminalYield
<1>13. CASE Abandon
  BY <1>13 DEF Abandon
<1>14. CASE UNCHANGED vars
  BY <1>14 DEF vars
<1> QED
  BY <1>1, <1>2, <1>3, <1>4, <1>5, <1>6, <1>7, <1>8, <1>9, <1>10, <1>11, <1>12, <1>13, <1>14,
     Zenon DEF Next

(* A chunk more is observed by the assembler.                              *)
LEMMA ObservedNext ==
  ASSUME Inv, NEW c \in Payloads, delivered' = Append(delivered, c)
  PROVE  Watched(delivered') = Observe(Watched(delivered), c)
<1>1. delivered \in Seq(Payloads) BY DEF Inv
<1> QED BY <1>1, WatchedOneMore

LEMMA NoCallsYet ==
  ASSUME toolIds = {}, block = NoBlock
  PROVE  CallsOfBlocks(<<>>)
<1>1. Cardinality(toolIds) = 0 BY FS_EmptySet
<1>2. DOMAIN <<>> = {} /\ 0 .. 0 - 1 = {} OBVIOUS
<1> QED BY <1>1, <1>2 DEF CallsOfBlocks, NoBlock

(* A call begins with its block ...                                        *)
LEMMA CallBegins ==
  ASSUME TypeOK, NEW tools, CallsOfBlocks(tools), NEW id \in ToolIds, id \notin toolIds,
         block = NoBlock, toolIds' = toolIds \cup {id}, NEW index, NEW k, k = Cardinality(toolIds),
         block' = [kind |-> "tool_use", index |-> index, tool |-> k, args |-> <<>>]
  PROVE  /\ k \in Nat /\ k \notin DOMAIN tools
         /\ CallsOfBlocks(Begun(tools, k, id))'
<1> DEFINE new == [id |-> id, name |-> id, args |-> <<>>]
           after == Begun(tools, k, id)
<1>1. k \in Nat /\ Cardinality(toolIds') = k + 1
  BY FS_CardinalityType, FS_AddElement DEF TypeOK
<1>2. DOMAIN tools = 0 .. k - 1 /\ k \notin DOMAIN tools BY <1>1 DEF CallsOfBlocks
<1>3. DOMAIN after = 0 .. k BY <1>1, <1>2 DEF Begun
<1>4. after[k] = new /\ \A i \in DOMAIN tools : after[i] = tools[i] /\ i # k
  BY <1>2 DEF Begun
<1>5. new \in Calls /\ new.id = id /\ new.args = <<>>
  <2>1. <<>> \in Seq(Fragments) OBVIOUS
  <2> QED BY <2>1 DEF Calls
<1>6. \A i \in DOMAIN after : i = k \/ i \in DOMAIN tools BY <1>1, <1>2, <1>3
<1>7. k \in DOMAIN after /\ \A i \in DOMAIN tools : i \in DOMAIN after BY <1>1, <1>2, <1>3
<1>8. block.kind = "none" /\ block'.kind = "tool_use" /\ block'.tool = k /\ block'.args = <<>>
  BY DEF NoBlock
<1> HIDE DEF after, new
<1>9. {after[i].id : i \in DOMAIN after} = toolIds'
  <2>1. {tools[i].id : i \in DOMAIN tools} = toolIds BY DEF CallsOfBlocks
  <2> QED BY <1>4, <1>5, <1>6, <1>7, <2>1
<1>10. \A i \in DOMAIN after :
         /\ after[i] \in Calls
         /\ IF block'.kind = "tool_use" /\ block'.tool = i
            THEN after[i].args = block'.args ELSE after[i].args \in JsonObjects
  <2> SUFFICES ASSUME NEW i \in DOMAIN after
               PROVE  /\ after[i] \in Calls
                      /\ IF block'.kind = "tool_use" /\ block'.tool = i
                         THEN after[i].args = block'.args ELSE after[i].args \in JsonObjects
    OBVIOUS
  <2>1. CASE i = k BY <1>4, <1>5, <1>8, <2>1
  <2>2. CASE i \in DOMAIN tools
    <3>1. tools[i] \in Calls /\ tools[i].args \in JsonObjects
      BY <1>8, <2>2 DEF CallsOfBlocks
    <3>2. after[i] = tools[i] /\ block'.tool # i BY <1>4, <1>8, <2>2
    <3> QED BY <3>1, <3>2
  <2> QED BY <1>6, <2>1, <2>2
<1>11. DOMAIN after = 0 .. Cardinality(toolIds') - 1
  <2>1. (k + 1) - 1 = k BY <1>1
  <2> QED BY <1>1, <1>3, <2>1
<1>12. CallsOfBlocks(after)' BY <1>7, <1>8, <1>9, <1>10, <1>11 DEF CallsOfBlocks
<1> QED BY <1>1, <1>2, <1>12 DEF after

(* ... grows with its fragments ...                                        *)
LEMMA CallGrows ==
  ASSUME TypeOK, NEW tools, CallsOfBlocks(tools), NEW fragment \in Fragments,
         block.kind = "tool_use", toolIds' = toolIds, NEW k, k = block.tool,
         block' = [block EXCEPT !.args = Append(@, fragment)]
  PROVE  /\ k \in Nat /\ k \in DOMAIN tools
         /\ CallsOfBlocks(Continued(tools, k, fragment))'
<1> DEFINE after == Continued(tools, k, fragment)
<1>1. k \in DOMAIN tools /\ k \in Nat /\ tools[k].args = block.args /\ block.args \in Seq(Fragments)
  BY DEF CallsOfBlocks, TypeOK
<1>2. /\ block'.kind = "tool_use" /\ block'.tool = k
      /\ block'.args = Append(block.args, fragment)
  BY DEF TypeOK
<1>3. DOMAIN after = DOMAIN tools BY DEF Continued
<1>4. block.args \o <<fragment>> = Append(block.args, fragment)
      /\ Append(block.args, fragment) \in Seq(Fragments)
  BY <1>1, AppendIsConcat
<1>5. after[k] = [tools[k] EXCEPT !.args = Append(block.args, fragment)]
  BY <1>1, <1>4 DEF Continued
<1>6. \A i \in DOMAIN tools : i # k => after[i] = tools[i] BY DEF Continued
<1> HIDE DEF after
<1>7. /\ after[k] \in Calls /\ after[k].id = tools[k].id
      /\ after[k].args = Append(block.args, fragment)
  <2>1. tools[k] \in Calls BY <1>1 DEF CallsOfBlocks
  <2> QED BY <1>4, <1>5, <2>1 DEF Calls
<1>8. \A i \in DOMAIN tools : after[i].id = tools[i].id BY <1>6, <1>7
<1>9. {after[i].id : i \in DOMAIN after} = toolIds'
  <2>1. {tools[i].id : i \in DOMAIN tools} = toolIds BY DEF CallsOfBlocks
  <2> QED BY <1>3, <1>8, <2>1
<1>10. \A i \in DOMAIN after :
         /\ after[i] \in Calls
         /\ IF block'.kind = "tool_use" /\ block'.tool = i
            THEN after[i].args = block'.args ELSE after[i].args \in JsonObjects
  <2> SUFFICES ASSUME NEW i \in DOMAIN after
               PROVE  /\ after[i] \in Calls
                      /\ IF block'.kind = "tool_use" /\ block'.tool = i
                         THEN after[i].args = block'.args ELSE after[i].args \in JsonObjects
    OBVIOUS
  <2>1. CASE i = k BY <1>2, <1>7, <2>1
  <2>2. CASE i # k
    <3>1. tools[i] \in Calls /\ tools[i].args \in JsonObjects
      BY <1>3, <2>2 DEF CallsOfBlocks
    <3>2. after[i] = tools[i] /\ block'.tool # i BY <1>2, <1>3, <1>6, <2>2
    <3> QED BY <3>1, <3>2
  <2> QED BY <2>1, <2>2
<1>11. DOMAIN after = 0 .. Cardinality(toolIds') - 1 BY <1>3 DEF CallsOfBlocks
<1>12. CallsOfBlocks(after)'
  BY <1>1, <1>2, <1>3, <1>9, <1>10, <1>11 DEF CallsOfBlocks
<1> QED BY <1>1, <1>12 DEF after

(* ... and parses when its block is accepted.                              *)
LEMMA CallStands ==
  ASSUME NEW tools, CallsOfBlocks(tools), toolIds' = toolIds,
         block'.kind # "tool_use", block.kind = "tool_use" => block.args \in JsonObjects
  PROVE  CallsOfBlocks(tools)'
BY DEF CallsOfBlocks

LEMMA CallsKept ==
  ASSUME NEW tools, CallsOfBlocks(tools), toolIds' = toolIds, block' = block
  PROVE  CallsOfBlocks(tools)'
BY DEF CallsOfBlocks

Knows == \E content, tools : Follows(content, tools) /\ CallsOfBlocks(tools)

Going == phase \in {"connecting", "streaming", "yieldFinish"}

(* An event that yields nothing.                                           *)
LEMMA QuietStep ==
  ASSUME NEW content, NEW tools, Follows(content, tools), CallsOfBlocks(tools)',
         Going, Going', started' = started, delivered' = delivered
  PROVE  Knows'
<1>1. Follows(content, tools)' BY DEF Follows, Going
<1> QED BY <1>1 DEF Knows

(* An event that yields a chunk.                                           *)
LEMMA SpokenStep ==
  ASSUME Inv, NEW c \in EventFrames, delivered' = Append(delivered, c), Going', started' = TRUE,
         NEW content, NEW tools, Observe(Watched(delivered), c) = Speaking(content, tools),
         CallsOfBlocks(tools)'
  PROVE  Knows'
<1>1. c \in Payloads BY DEF Payloads
<1>2. Watched(delivered') = Speaking(content, tools) BY <1>1, ObservedNext
<1>3. Follows(content, tools)' BY <1>2 DEF Follows, Going
<1> QED BY <1>3 DEF Knows

(* Every step keeps the assembler's view of the translator's blocks.       *)
LEMMA KnowsStep == Inv /\ AnswerInv /\ [Next]_vars => AnswerInv'
<1> SUFFICES ASSUME Inv, AnswerInv, [Next]_vars
             PROVE  AnswerInv'
  OBVIOUS
<1>0. OrderInv'
  <2>1. TypeOK BY DEF Inv
  <2> QED BY <2>1, OrderStep DEF AnswerInv
<1> SUFFICES ASSUME phase' \notin {"failed", "abandoned"}
             PROVE  Knows'
  BY <1>0 DEF AnswerInv, Knows
<1> USE DEF message, terminal
<1>1. phase # "failed" /\ phase # "abandoned"
  BY DEF Next, Connect, RefuseUpstream, MessageStart, TextBlockStart, BlockStop, ToolBlockStart,
         TextDelta, InputJsonDelta, MessageDelta, MessageStop, Refused, Reject, EndOfEvents,
         TerminalYield, Abandon, CanStart, CanOpen, CanOpenTool, CanContinue, CanStop,
         CanConclude, CanEnd, Reading, vars
<1>2. PICK content, tools : Follows(content, tools) /\ CallsOfBlocks(tools)
  BY <1>1 DEF AnswerInv
<1>3. TypeOK /\ OrderInv BY DEF Inv, AnswerInv
<1>4. CASE Connect
  <2>1. Going /\ Going' /\ CallsOfBlocks(tools)'
    BY <1>2, <1>4, CallsKept DEF Connect, Going
  <2> QED BY <1>2, <1>4, <2>1, QuietStep DEF Connect
<1>5. CASE RefuseUpstream \/ Refused \/ Abandon
  BY <1>5 DEF RefuseUpstream, Refused, Reject, Abandon
<1>6. ASSUME NEW in \in Tokens, NEW out \in Tokens, MessageStart(in, out)
      PROVE  Knows'
  <2>1. /\ phase = "streaming" /\ phase' = "streaming" /\ ~started /\ started' = TRUE
        /\ delivered' = Append(delivered, RoleFrame) /\ UNCHANGED <<block, toolIds>>
    BY <1>6 DEF MessageStart, CanStart, Reading, Yield
  <2>2. RoleFrame \in EventFrames BY DEF EventFrames
  <2>3. Observe(Watched(delivered), RoleFrame) = Speaking(<<>>, <<>>)
    BY <1>2, <2>1, RoleObserved DEF Follows
  <2>4. CallsOfBlocks(<<>>)'
    <3>1. CallsOfBlocks(<<>>) BY <1>3, <2>1, NoCallsYet DEF OrderInv
    <3> QED BY <2>1, <3>1, CallsKept
  <2>5. Going' BY <2>1 DEF Going
  <2> QED BY <2>1, <2>2, <2>3, <2>4, <2>5, SpokenStep
<1>7. ASSUME NEW index \in Indexes, TextBlockStart(index)
      PROVE  Knows'
  <2>1. /\ phase = "streaming" /\ phase' = "streaming" /\ block = NoBlock
        /\ block' = [NoBlock EXCEPT !.kind = "text", !.index = index]
        /\ UNCHANGED <<started, delivered, toolIds>>
    BY <1>7 DEF TextBlockStart, CanOpen, Reading
  <2>2. block.kind = "none" /\ block'.kind = "text" BY <2>1 DEF NoBlock
  <2>3. CallsOfBlocks(tools)' BY <1>2, <2>1, <2>2, CallStands
  <2>4. Going /\ Going' BY <2>1 DEF Going
  <2> QED BY <1>2, <2>1, <2>3, <2>4, QuietStep
<1>8. ASSUME NEW index \in Indexes, BlockStop(index)
      PROVE  Knows'
  <2>1. /\ phase = "streaming" /\ phase' = "streaming" /\ block' = NoBlock
        /\ block.kind = "tool_use" => block.args \in JsonObjects
        /\ UNCHANGED <<started, delivered, toolIds>>
    BY <1>8 DEF BlockStop, CanStop, Reading
  <2>2. block'.kind = "none" BY <2>1 DEF NoBlock
  <2>3. CallsOfBlocks(tools)' BY <1>2, <2>1, <2>2, CallStands
  <2>4. Going /\ Going' BY <2>1 DEF Going
  <2> QED BY <1>2, <2>1, <2>3, <2>4, QuietStep
<1>9. ASSUME NEW index \in Indexes, NEW id \in ToolIds, ToolBlockStart(index, id)
      PROVE  Knows'
  <2>1. /\ phase = "streaming" /\ phase' = "streaming" /\ block = NoBlock /\ started /\ started' = started
        /\ id \notin toolIds /\ toolIds' = toolIds \cup {id}
        /\ block' = [kind |-> "tool_use", index |-> index, tool |-> Cardinality(toolIds), args |-> <<>>]
        /\ delivered' = Append(delivered, ToolFrame(Cardinality(toolIds), id, <<>>))
    BY <1>9 DEF ToolBlockStart, CanOpenTool, CanOpen, Reading, Yield
  <2>2. PICK k : k = Cardinality(toolIds) OBVIOUS
  <2>3. k \in Nat /\ k \notin DOMAIN tools /\ CallsOfBlocks(Begun(tools, k, id))'
    BY <1>2, <1>3, <2>1, <2>2, CallBegins
  <2>4. ToolFrame(k, id, <<>>) \in EventFrames
    <3>1. <<>> \in Seq(Fragments) OBVIOUS
    <3> QED BY <2>3, <3>1, ToolFrameIsEventFrame
  <2>5. \E more : Observe(Watched(delivered), ToolFrame(k, id, <<>>)) = Speaking(more, Begun(tools, k, id))
    <3>1. Watched(delivered) = Speaking(content, tools) BY <1>2, <2>1 DEF Follows
    <3> QED BY <2>3, <3>1, CallObserved
  <2>6. Going' /\ started' = TRUE BY <1>3, <2>1 DEF Going, TypeOK
  <2>7. delivered' = Append(delivered, ToolFrame(k, id, <<>>)) BY <2>1, <2>2
  <2> QED BY <2>3, <2>4, <2>5, <2>6, <2>7, SpokenStep
<1>10. ASSUME NEW index \in Indexes, NEW text \in Texts, TextDelta(index, text)
       PROVE  Knows'
  <2>1. /\ phase = "streaming" /\ phase' = "streaming" /\ started /\ started' = started
        /\ UNCHANGED <<block, toolIds>> /\ delivered' = Append(delivered, ContentFrame(text))
    BY <1>10 DEF TextDelta, CanContinue, Reading, Yield
  <2>2. ContentFrame(text) \in EventFrames BY DEF EventFrames
  <2>3. \E more : Observe(Watched(delivered), ContentFrame(text)) = Speaking(more, tools)
    <3>1. Watched(delivered) = Speaking(content, tools) BY <1>2, <2>1 DEF Follows
    <3>2. PICK more : more = More(content, [Delta EXCEPT !.content = <<text>>]) OBVIOUS
    <3>3. Observe(Speaking(content, tools), ContentFrame(text)) = Speaking(more, tools)
      BY <3>2, TextObserved
    <3> QED BY <3>1, <3>3
  <2>4. CallsOfBlocks(tools)' BY <1>2, <2>1, CallsKept
  <2>5. Going' /\ started' = TRUE BY <1>3, <2>1 DEF Going, TypeOK
  <2> QED BY <2>1, <2>2, <2>3, <2>4, <2>5, SpokenStep
<1>11. ASSUME NEW index \in Indexes, NEW fragment \in Fragments, InputJsonDelta(index, fragment)
       PROVE  Knows'
  <2>1. /\ phase = "streaming" /\ phase' = "streaming" /\ started /\ started' = started
        /\ block.kind = "tool_use" /\ toolIds' = toolIds
        /\ block' = [block EXCEPT !.args = Append(@, fragment)]
        /\ delivered' = Append(delivered, ToolFrame(block.tool, "none", <<fragment>>))
    BY <1>11 DEF InputJsonDelta, CanContinue, Reading, Yield
  <2>2. PICK k : k = block.tool OBVIOUS
  <2>3. k \in Nat /\ k \in DOMAIN tools /\ CallsOfBlocks(Continued(tools, k, fragment))'
    BY <1>2, <1>3, <2>1, <2>2, CallGrows
  <2>4. ToolFrame(k, "none", <<fragment>>) \in EventFrames
    <3>1. <<fragment>> \in Seq(Fragments) OBVIOUS
    <3> QED BY <2>3, <3>1, ToolFrameIsEventFrame
  <2>5. \E more : Observe(Watched(delivered), ToolFrame(k, "none", <<fragment>>))
                    = Speaking(more, Continued(tools, k, fragment))
    <3>1. Watched(delivered) = Speaking(content, tools) BY <1>2, <2>1 DEF Follows
    <3> QED BY <2>3, <3>1, FragmentObserved
  <2>6. Going' /\ started' = TRUE BY <1>3, <2>1 DEF Going, TypeOK
  <2>7. delivered' = Append(delivered, ToolFrame(k, "none", <<fragment>>)) BY <2>1, <2>2
  <2> QED BY <2>3, <2>4, <2>5, <2>6, <2>7, SpokenStep
<1>12. ASSUME NEW out \in Tokens, NEW stop \in StopReasons \cup {"null"}, MessageDelta(out, stop)
       PROVE  Knows'
  <2>1. Going /\ Going' /\ UNCHANGED <<started, delivered, block, toolIds>>
    BY <1>12 DEF MessageDelta, CanConclude, Reading, Going
  <2> QED BY <1>2, <2>1, CallsKept, QuietStep
<1>13. CASE MessageStop \/ EndOfEvents
  <2>1. Going /\ Going' /\ UNCHANGED <<started, delivered, block, toolIds>>
    BY <1>13 DEF MessageStop, CanEnd, Reading, EndOfEvents, Going
  <2> QED BY <1>2, <2>1, CallsKept, QuietStep
<1>14. CASE TerminalYield("yieldFinish", FinishFrame(finish), "yieldUsage")
  <2>1. /\ phase = "yieldFinish" /\ phase' = "yieldUsage" /\ finish # "none" /\ finish \in Finishes
        /\ delivered' = Append(delivered, FinishFrame(finish)) /\ started
        /\ UNCHANGED <<finish, block, toolIds>>
    BY <1>3, <1>14 DEF TerminalYield, OrderInv, TypeOK
  <2>2. FinishFrame(finish) \in Payloads BY <2>1 DEF Payloads, FinishFrames
  <2>3. Watched(delivered) = Speaking(content, tools) BY <1>2, <2>1 DEF Follows
  <2>4. PICK more : more = More(content, Delta) OBVIOUS
  <2>5. Watched(delivered') = Answered(NoUsage, more, tools)
    BY <2>1, <2>2, <2>3, <2>4, ObservedNext, FinishObserved DEF Answered
  <2>6. Follows(more, tools)' BY <2>1, <2>5 DEF Follows, Answered
  <2>7. CallsOfBlocks(tools)' BY <1>2, <2>1, CallsKept
  <2> QED BY <2>6, <2>7 DEF Knows
<1>15. CASE TerminalYield("yieldUsage", UsageFrame(input, output), "yieldDone")
  <2>1. /\ phase = "yieldUsage" /\ phase' = "yieldDone" /\ input \in Nat /\ output \in Nat
        /\ delivered' = Append(delivered, UsageFrame(input, output))
        /\ UNCHANGED <<finish, block, toolIds, input, output>>
    BY <1>3, <1>15 DEF TerminalYield, TypeOK
  <2>2. UsageFrame(input, output) \in Payloads BY <2>1, UsageFrameIsUsage DEF Payloads
  <2>3. Watched(delivered) = Answered(NoUsage, content, tools) BY <1>2, <2>1 DEF Follows
  <2>4. Watched(delivered') = Answered(FinalUsage, content, tools)
    BY <2>1, <2>2, <2>3, ObservedNext, UsageObserved DEF Answered, FinalUsage
  <2>5. Follows(content, tools)' BY <2>1, <2>4 DEF Follows, Answered, FinalUsage
  <2>6. CallsOfBlocks(tools)' BY <1>2, <2>1, CallsKept
  <2> QED BY <2>5, <2>6 DEF Knows
<1>16. CASE TerminalYield("yieldDone", Done, "done")
  <2>1. /\ phase = "yieldDone" /\ phase' = "done"
        /\ delivered' = Append(delivered, Done)
        /\ UNCHANGED <<finish, block, toolIds, input, output>>
    BY <1>16 DEF TerminalYield
  <2>2. Done \in Payloads BY DEF Payloads
  <2>3. Watched(delivered) = Answered(FinalUsage, content, tools) BY <1>2, <2>1 DEF Follows
  <2>4. Watched(delivered') = [Answered(FinalUsage, content, tools) EXCEPT !.done = TRUE]
    BY <2>1, <2>2, <2>3, ObservedNext, DoneObserved DEF Answered
  <2>5. Follows(content, tools)' BY <2>1, <2>4 DEF Follows, Answered, FinalUsage
  <2>6. CallsOfBlocks(tools)' BY <1>2, <2>1, CallsKept
  <2> QED BY <2>5, <2>6 DEF Knows
<1>17. CASE UNCHANGED vars
  BY <1>2, <1>17 DEF vars, Knows, Follows, Answered, FinalUsage, CallsOfBlocks
<1> QED
  BY <1>4, <1>5, <1>6, <1>7, <1>8, <1>9, <1>10, <1>11, <1>12, <1>13, <1>14, <1>15, <1>16, <1>17,
     Zenon DEF Next

LEMMA AnswerInvariant == Spec => []AnswerInv
<1>1. Init => AnswerInv
  <2> SUFFICES ASSUME Init PROVE AnswerInv OBVIOUS
  <2>1. phase = "connecting" /\ ~started /\ delivered = <<>> /\ toolIds = {} /\ block = NoBlock
    BY DEF Init
  <2>2. Follows(<<>>, <<>>) BY <2>1, WatchedNothing DEF Follows
  <2>3. CallsOfBlocks(<<>>) BY <2>1, NoCallsYet
  <2> QED BY <2>2, <2>3, OrderInitial DEF AnswerInv
<1> QED BY <1>1, KnowsStep, Invariant, PTL DEF Spec

LEMMA DoneIsAnswer == Inv /\ AnswerInv => EndedStreamIsAnAnswer
<1> SUFFICES ASSUME Inv, AnswerInv, phase = "done" PROVE EndedStreamIsAnAnswer
  BY DEF EndedStreamIsAnAnswer
<1>1. PICK content, tools : Follows(content, tools) /\ CallsOfBlocks(tools)
  BY DEF AnswerInv
<1>2. /\ started /\ block = NoBlock /\ finish # "none" /\ (finish = "tool_calls" <=> toolIds # {})
  BY DEF AnswerInv, OrderInv
<1> DEFINE a == Watched(delivered)
           s == Told(finish, content, tools)
<1>3. a = [Answered(FinalUsage, content, tools) EXCEPT !.done = TRUE] BY <1>1 DEF Follows
<1>4. /\ a.eligible = TRUE /\ a.done = TRUE /\ a.id = "message" /\ a.usage = FinalUsage
      /\ a.choices = Alone(s)
  BY <1>3 DEF Answered, Followed
<1>5. FinalUsage # NoUsage
  <2>1. FinalUsage \in Usage BY DEF FinalUsage, Usage, Inv, TypeOK
  <2> QED BY <2>1, AnthropicConstants DEF Usage
<1>6. /\ s.role = "assistant" /\ s.finish = finish /\ s.tools = tools
      /\ DOMAIN Alone(s) = {0} /\ Alone(s)[0] = s
  BY DEF Told, Alone
<1>7. \A i \in DOMAIN tools : tools[i].args \in JsonObjects
  BY <1>1, <1>2 DEF CallsOfBlocks, NoBlock
<1> HIDE DEF s, a
<1>8. Assembler!Complete(s) BY <1>2, <1>6, <1>7 DEF Assembler!Complete
<1>9. Assembler!Finish(a) = [id |-> a.id, extra |-> a.extra, usage |-> a.usage, choices |-> a.choices]
  BY <1>4, <1>5, <1>6, <1>8 DEF Assembler!Finish
<1>10. Assembled = Assembler!Finish(a) BY DEF Assembled, a, Watched
<1>11. Assembled.id = "message" /\ Assembled.choices[0] = s BY <1>4, <1>6, <1>9, <1>10
<1>12. Assembled # Assembler!NoResponse
  <2>1. Assembler!NoResponse.id = "none" BY DEF Assembler!NoResponse
  <2> QED BY <1>11, <2>1
<1>13. DOMAIN tools = 0 .. Cardinality(toolIds) - 1 /\ {tools[i].id : i \in DOMAIN tools} = toolIds
  BY <1>1 DEF CallsOfBlocks
<1> QED BY <1>2, <1>6, <1>11, <1>12, <1>13 DEF EndedStreamIsAnAnswer

(* For every order of events and every set of ids, texts and fragments: a  *)
(* stream that reached [DONE] is an answer the assembler can cache, with one *)
(* call for each tool_use block and a finish_reason that tells so.         *)
THEOREM EndedIsAnswer == Spec => []EndedStreamIsAnAnswer
BY AnswerInvariant, Invariant, DoneIsAnswer, PTL
=============================================================================
