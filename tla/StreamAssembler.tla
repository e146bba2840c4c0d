-------------------------- MODULE StreamAssembler ---------------------------
(***************************************************************************)
(* StreamingResponseAssembler (pipeline/stream-assembler.ts) as functions  *)
(* on its private state: what one observed chunk does to it, and the       *)
(* response finish() makes of it.  A transcript it cannot represent makes  *)
(* it ineligible for good; it never disturbs the live stream.              *)
(*                                                                         *)
(* Text and tool arguments are sequences of fragments.  A tool entry's     *)
(* type is told with its id; odd stands for a key or a type of value that  *)
(* observeDelta and observeTool refuse.  Since the indexes of a chunk's    *)
(* choices must differ, their order is immaterial.                         *)
(***************************************************************************)
EXTENDS Naturals, Sequences, SequencesExt

CONSTANTS
  NoUsage,    (* no usage was seen                                         *)
  JsonObjects (* the argument texts that parse as a JSON object            *)

NewChoice == [role |-> "none", content |-> <<>>, reasoning |-> <<>>, finish |-> "none",
              extra |-> "none", tools |-> <<>>]

NewAssembler == [eligible |-> TRUE, id |-> "none", extra |-> "none", usage |-> NoUsage,
                 done |-> FALSE, choices |-> <<>>]

(* Extra fields: a key may come again only with the same value.            *)
Compatible(known, seen) == seen = "none" \/ known = "none" \/ known = seen
Known(known, seen) == IF known = "none" THEN seen ELSE known

Indexes(c) == {c.choices[i].index : i \in DOMAIN c.choices}

StateOf(a, index) == IF index \in DOMAIN a.choices THEN a.choices[index] ELSE NewChoice

-----------------------------------------------------------------------------
(* observeTool: tools maps the index of a call to its id, name and         *)
(* arguments so far.                                                       *)

ToolFits(tools, t) ==
  /\ ~t.odd
  /\ IF t.index \in DOMAIN tools
     THEN t.id \in {"none", tools[t.index].id} /\ t.name \in {"none", tools[t.index].name}
     ELSE t.id # "none" /\ t.name # "none"

Call(tools, t) ==
  IF t.index \in DOMAIN tools
  THEN [tools[t.index] EXCEPT !.args = @ \o t.args]
  ELSE [id |-> t.id, name |-> t.name, args |-> t.args]

ObserveTool(acc, t) ==
  [ok |-> acc.ok /\ ToolFits(acc.tools, t),
   tools |-> [i \in DOMAIN acc.tools \cup {t.index} |->
                IF i = t.index THEN Call(acc.tools, t) ELSE acc.tools[i]]]

ObserveTools(tools, ts) == FoldLeft(ObserveTool, [ok |-> TRUE, tools |-> tools], ts)

-----------------------------------------------------------------------------
(* observePayload.                                                         *)

(* Mutant of ChoiceFits: a choice may go on after its finish_reason.       *)
ChoiceFitsAlways(s, choice) ==
  /\ Compatible(s.extra, choice.extra)
  /\ ~choice.delta.odd
  /\ choice.delta.role \in {"none", "assistant"}
  /\ ObserveTools(s.tools, choice.delta.tools).ok

ChoiceFits(s, choice) ==
  /\ s.finish = "none"
  /\ Compatible(s.extra, choice.extra)
  /\ ~choice.delta.odd
  /\ choice.delta.role \in {"none", "assistant"}
  /\ ObserveTools(s.tools, choice.delta.tools).ok

(* Mutant of Grow: the last piece of text replaces the earlier ones.       *)
GrowLast(s, choice) ==
  [s EXCEPT !.role = Known(choice.delta.role, @),
            !.content = choice.delta.content,
            !.finish = choice.finish,
            !.tools = ObserveTools(@, choice.delta.tools).tools]

Grow(s, choice) ==
  [role      |-> Known(choice.delta.role, s.role),
   content   |-> s.content \o choice.delta.content,
   reasoning |-> s.reasoning \o choice.delta.reasoning,
   finish    |-> choice.finish,
   extra     |-> Known(s.extra, choice.extra),
   tools     |-> ObserveTools(s.tools, choice.delta.tools).tools]

Representable(a, c) ==
  /\ a.eligible /\ ~a.done /\ a.usage = NoUsage
  /\ a.id \in {"none", c.id}
  /\ Compatible(a.extra, c.extra)
  /\ \A i, j \in DOMAIN c.choices : c.choices[i].index = c.choices[j].index => i = j
  /\ \A i \in DOMAIN c.choices : ChoiceFits(StateOf(a, c.choices[i].index), c.choices[i])

ObservePayload(a, c) ==
  IF ~Representable(a, c)
  THEN [a EXCEPT !.eligible = FALSE]
  ELSE [a EXCEPT
          !.id = c.id,
          !.extra = Known(@, c.extra),
          !.usage = c.usage,
          !.choices = [index \in DOMAIN a.choices \cup Indexes(c) |->
             IF index \in Indexes(c)
             THEN Grow(StateOf(a, index),
                       c.choices[CHOOSE i \in DOMAIN c.choices : c.choices[i].index = index])
             ELSE a.choices[index]]]

ObserveDone(a) ==
  IF a.eligible /\ ~a.done THEN [a EXCEPT !.done = TRUE] ELSE [a EXCEPT !.eligible = FALSE]

-----------------------------------------------------------------------------
(* finish.                                                                 *)

(* null; no response is without an id and usage.                           *)
NoResponse == [id |-> "none", extra |-> "none", usage |-> NoUsage, choices |-> <<>>]

Complete(s) ==
  /\ s.role = "assistant" /\ s.finish # "none"
  /\ \A i \in DOMAIN s.tools : s.tools[i].args \in JsonObjects

Finish(a) ==
  IF /\ a.eligible /\ a.done /\ a.id # "none" /\ a.usage # NoUsage
     /\ DOMAIN a.choices # {}
     /\ \A index \in DOMAIN a.choices : Complete(a.choices[index])
  THEN [id |-> a.id, extra |-> a.extra, usage |-> a.usage, choices |-> a.choices]
  ELSE NoResponse
=============================================================================
