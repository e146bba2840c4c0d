----------------------------- MODULE SseFraming -----------------------------
(***************************************************************************)
(* parseSseData, parseSseEvents and frameSseData (providers/sse-parse.ts): *)
(* the bytes of an upstream, read in chunks cut anywhere, become events,   *)
(* and an event's payload is framed again for the client.                  *)
(*                                                                         *)
(* A text is a sequence of pieces: the terminators CR and LF, and pieces   *)
(* of lines.  The piece that starts a line is its field with its colon; a  *)
(* piece that is no field name starts a comment or an ignored field.  What *)
(* UTF-8 sequences a chunk cuts is the streaming TextDecoder's affair.     *)
(***************************************************************************)
EXTENDS Naturals, Sequences, SequencesExt

CONSTANTS
  CR, LF,
  DataField,  (* "data: " at the start of a line                           *)
  EventField, (* "event: " at the start of a line                          *)
  Values,     (* any other piece of a line                                 *)
  Sentinel,   (* the value [DONE], or the event name message_stop          *)
  NoName,     (* an event without an event: field                          *)
  MaxText,    (* bound: pieces an upstream sends                           *)
  MaxRead     (* bound: pieces that arrive in one read                     *)

ASSUME SseConstants ==
  /\ CR # LF /\ DataField # EventField
  /\ {CR, LF} \cap ({DataField, EventField} \cup Values) = {}
  /\ {DataField, EventField} \cap Values = {} /\ Sentinel \in Values
  /\ MaxText \in Nat /\ MaxRead \in Nat

LinePieces == {DataField, EventField} \cup Values
Pieces == {CR, LF} \cup LinePieces

VARIABLES
  named,     (* parseSseEvents runs, and not parseSseData                  *)
  reader,    (* reading; done, truncated, cancelled                        *)
  received,  (* history: the text so far, ...                              *)
  buffer,    (* the part of it that is no complete line yet                *)
  dataLines, (* the values of the pending event's data: lines              *)
  sawData,
  eventName,
  yielded    (* the events yielded, in order                               *)

pending == <<dataLines, sawData, eventName>>
framingVars == <<named, reader, received, buffer, pending, yielded>>

FramingInit ==
  /\ named \in BOOLEAN
  /\ reader = "reading"
  /\ received = <<>> /\ buffer = <<>>
  /\ dataLines = <<>> /\ sawData = FALSE /\ eventName = NoName
  /\ yielded = <<>>

-----------------------------------------------------------------------------
(* takeLines.                                                              *)

EndLine(acc, piece) ==
  [lines |-> Append(acc.lines, acc.line), line |-> <<>>, afterCR |-> piece = CR]

ExtendLine(acc, piece) == [acc EXCEPT !.line = Append(@, piece), !.afterCR = FALSE]

TakePiece(acc, piece) ==
  CASE piece = LF /\ acc.afterCR                 -> [acc EXCEPT !.afterCR = FALSE]
    [] piece = CR \/ (piece = LF /\ ~acc.afterCR) -> EndLine(acc, piece)
    [] OTHER                                     -> ExtendLine(acc, piece)

Scan(text) == FoldLeft(TakePiece, [lines |-> <<>>, line |-> <<>>, afterCR |-> FALSE], text)

(* Mutant of TakeLines: a CR at the end of a read ends its line at once.   *)
TakeLinesEagerly(text, atEof) == [lines |-> Scan(text).lines, rest |-> Scan(text).line]

(* A CR at the end of a read may be half of a CRLF: it waits.              *)
TakeLines(text, atEof) ==
  IF text # <<>> /\ Last(text) = CR /\ ~atEof
  THEN [lines |-> Scan(Front(text)).lines, rest |-> Append(Scan(Front(text)).line, CR)]
  ELSE [lines |-> Scan(text).lines, rest |-> Scan(text).line]

-----------------------------------------------------------------------------
(* processLine, on the parser's locals and its output.                     *)

(* dataLines.join("\n"), framed by the lines themselves.                   *)
Event(p) == [event |-> p.eventName, data |-> p.dataLines]

NothingPending(p) == [p EXCEPT !.dataLines = <<>>, !.sawData = FALSE, !.eventName = NoName]

Dispatch(p) ==
  IF p.sawData
  THEN [NothingPending(p) EXCEPT !.yielded = Append(@, Event(p))]
  ELSE NothingPending(p)

ProcessLine(p, line) ==
  CASE line = <<>>                 -> Dispatch(p)
    [] line # <<>> /\ line[1] = DataField ->
         [p EXCEPT !.dataLines = Append(@, Tail(line)), !.sawData = TRUE]
    [] line # <<>> /\ line[1] = EventField /\ named ->
         [p EXCEPT !.eventName = Tail(line)]
    [] OTHER -> p

Parser == [dataLines |-> dataLines, sawData |-> sawData, eventName |-> eventName,
           yielded |-> yielded]

Becomes(p) ==
  /\ dataLines' = p.dataLines /\ sawData' = p.sawData /\ eventName' = p.eventName
  /\ yielded' = p.yielded

-----------------------------------------------------------------------------
(* The loop.  Each yield is where the consumer may stop, but it sees no    *)
(* more of the parser than yielded.                                        *)

Read(text) ==
  /\ reader = "reading"
  /\ Len(received) + Len(text) <= MaxText
  /\ received' = received \o text
  /\ LET taken == TakeLines(buffer \o text, FALSE)
     IN /\ buffer' = taken.rest
        /\ Becomes(FoldLeft(ProcessLine, Parser, taken.lines))
  /\ UNCHANGED <<named, reader>>

(* The narrow exception for a last event without its blank line: a data    *)
(* payload, or an event name, that is exactly the sentinel.                *)
AtSentinel(p) ==
  p.sawData /\ IF named THEN p.eventName = <<Sentinel>> ELSE p.dataLines = <<<<Sentinel>>>>

EndOfBody ==
  /\ reader = "reading"
  /\ LET taken == TakeLines(buffer, TRUE)
         p     == FoldLeft(ProcessLine, Parser, taken.lines)
     IN IF taken.rest # <<>>
        THEN reader' = "truncated" /\ Becomes(p)
        ELSE /\ reader' = "done"
             /\ Becomes(IF AtSentinel(p) THEN [p EXCEPT !.yielded = Append(@, Event(p))] ELSE p)
  /\ buffer' = <<>>
  /\ UNCHANGED <<named, received>>

(* The read rejects, or the consumer returns the generator.                *)
Cancel ==
  /\ reader = "reading"
  /\ reader' = "cancelled"
  /\ UNCHANGED <<named, received, buffer, pending, yielded>>

FramingNext ==
  \/ \E text \in UNION {[1 .. n -> Pieces] : n \in 0 .. MaxRead} : Read(text)
  \/ EndOfBody
  \/ Cancel

FramingSpec == FramingInit /\ [][FramingNext]_framingVars

-----------------------------------------------------------------------------
(* frameSseData: one data: line for each line of the payload, and a blank  *)
(* line.                                                                   *)

(* Mutant of Frame: the payload under a single data: prefix.               *)
FrameUnsplit(payload) ==
  <<DataField>> \o FlattenSeq([n \in DOMAIN payload |-> payload[n] \o <<LF>>]) \o <<LF>>

Frame(payload) ==
  FlattenSeq([n \in DOMAIN payload |-> <<DataField>> \o payload[n] \o <<LF>>]) \o <<LF>>

-----------------------------------------------------------------------------
(* What a text says, told by positions.                                    *)

(* What lies between the last of these cuts before n, and n.               *)
Since(s, cuts, n) == SubSeq(s, 1 + Max({0} \cup {m \in cuts : m < n}), n - 1)

(* The parts of s between cuts that are ended by one of these positions.   *)
Parts(s, cuts, ends) ==
  FlattenSeq([n \in DOMAIN s |-> IF n \in ends THEN <<Since(s, cuts, n)>> ELSE <<>>])

Terminators(text) == {n \in DOMAIN text : text[n] \in {CR, LF}}

(* A terminator ends a line, unless it is the LF of a CRLF.                *)
Ends(text) ==
  {n \in Terminators(text) : ~(text[n] = LF /\ n > 1 /\ text[n - 1] = CR)}

Lines(text) == Parts(text, Terminators(text), Ends(text))

Blank(lines) == {n \in DOMAIN lines : lines[n] = <<>>}

(* The lines that a blank line ends, and those that none has ended.        *)
Groups(lines) == Parts(lines, Blank(lines), Blank(lines))
Unended(lines) == Since(lines, Blank(lines), Len(lines) + 1)

ValuesOf(field, lines) ==
  FlattenSeq([k \in DOMAIN lines |-> IF lines[k][1] = field THEN <<Tail(lines[k])>> ELSE <<>>])

EventOf(lines, names) ==
  [event |-> IF names /\ ValuesOf(EventField, lines) # <<>>
             THEN Last(ValuesOf(EventField, lines)) ELSE NoName,
   data  |-> ValuesOf(DataField, lines)]

(* The events a whole text dispatches: its groups that have data.          *)
Events(text, names) ==
  LET groups == Groups(Lines(text))
  IN FlattenSeq([k \in DOMAIN groups |->
       LET e == EventOf(groups[k], names) IN IF e.data # <<>> THEN <<e>> ELSE <<>>])

(* What is left after the last blank line.                                 *)
Leftover(text, names) == EventOf(Unended(Lines(text)), names)

(* The complete part of the text, as far as a reader can know.             *)
Known == IF reader = "reading" /\ received # <<>> /\ Last(received) = CR
         THEN Front(received) ELSE received

IsSentinel(e) ==
  e.data # <<>> /\ IF named THEN e.event = <<Sentinel>> ELSE e.data = <<<<Sentinel>>>>

-----------------------------------------------------------------------------
(* Properties.                                                             *)

FramingTypeOK ==
  /\ named \in BOOLEAN
  /\ reader \in {"reading", "done", "truncated", "cancelled"}
  /\ received \in Seq(Pieces)
  /\ \A n \in DOMAIN buffer : buffer[n] \in LinePieces \/ (buffer[n] = CR /\ n = Len(buffer))
  /\ dataLines \in Seq(Seq(LinePieces)) /\ sawData \in BOOLEAN
  /\ eventName \in {NoName} \cup Seq(LinePieces)
  /\ \A n \in DOMAIN yielded : yielded[n].data \in Seq(Seq(LinePieces)) \ {<<>>}

(* However the bytes are cut into reads, the events are those of the text, *)
(* each yielded as soon as its blank line is known to be complete; the end *)
(* of the bytes adds nothing but a pending sentinel, and is an error       *)
(* exactly when it falls inside a line.                                    *)
EventsOfTheText ==
  /\ reader # "cancelled" =>
       yielded = Events(Known, named)
                 \o (IF reader = "done" /\ IsSentinel(Leftover(received, named))
                     THEN <<Leftover(received, named)>> ELSE <<>>)
  /\ reader = "truncated" => received # <<>> /\ Last(received) \in LinePieces
  /\ reader = "done" => received = <<>> \/ Last(received) \in {CR, LF}

(* A payload survives being framed for the client: whoever parses the      *)
(* frame finds one event with the same lines.                              *)
FramesReconstruct ==
  \A n \in DOMAIN yielded :
    Events(Frame(yielded[n].data), FALSE) = <<[event |-> NoName, data |-> yielded[n].data]>>
=============================================================================
