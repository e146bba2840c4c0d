--------------------------- MODULE StreamAssembly ---------------------------
(***************************************************************************)
(* A live OpenAI-compatible stream together with the assembler that        *)
(* watches it (streamFrames in pipeline/handler.ts): every payload the     *)
(* adapter delivers is observed before it is forwarded, and when the       *)
(* iterator completes, what finish() returns is offered to the cache,      *)
(* unless the client has gone.  The request allows caching (pg_no_cache    *)
(* unset); delivered is what streamFrames was given to forward.            *)
(***************************************************************************)
EXTENDS CompatibleStream, SequencesExt

CONSTANT JsonObjects

(* A chunk that passed its schema has an identity and lists; a text is a   *)
(* list of pieces.                                                         *)
ASSUME ChunkShapes ==
  LET IsList(s) == s \in Seq(Range(s))
  IN \A c \in Chunks :
       /\ c.id # "none" /\ IsList(c.choices)
       /\ \A i \in DOMAIN c.choices :
            LET delta == c.choices[i].delta
            IN /\ IsList(delta.content) /\ IsList(delta.reasoning) /\ IsList(delta.tools)
               /\ \A n \in DOMAIN delta.tools : IsList(delta.tools[n].args)

VARIABLES
  assembler, (* the StreamingResponseAssembler                             *)
  outcome,   (* open, ok, or client_aborted                                *)
  cached     (* the response handed to upsertCacheEntry                    *)

vars == <<adapter, assembler, outcome, cached>>

Assembler == INSTANCE StreamAssembler

TypeOK ==
  /\ phase \in {"connecting", "streaming", "done", "failed"}
  /\ sawUsage \in BOOLEAN /\ sawDone \in BOOLEAN
  /\ delivered \in Seq(Chunks \cup {Done})
  /\ assembler.eligible \in BOOLEAN /\ assembler.done \in BOOLEAN
  /\ assembler.usage \in Usages \cup {NoUsage}
  /\ \A index \in DOMAIN assembler.choices :
       assembler.choices[index].role \in {"none", "assistant"}
  /\ outcome \in {"open", "ok", "client_aborted"}

Init ==
  /\ AdapterInit
  /\ assembler = Assembler!NewAssembler
  /\ outcome = "open"
  /\ cached = Assembler!NoResponse

ForwardChunk(c) ==
  /\ ReceiveChunk(c)
  /\ assembler' = Assembler!ObservePayload(assembler, c)
  /\ UNCHANGED <<outcome, cached>>

(* The end of the bytes; its [DONE] is observed and forwarded.             *)
End ==
  /\ EndOfBytes
  /\ assembler' = IF phase' = "done" THEN Assembler!ObserveDone(assembler) ELSE assembler
  /\ UNCHANGED <<outcome, cached>>

(* The next pull finds the iterator completed.                             *)
Conclude ==
  /\ phase = "done" /\ outcome = "open"
  /\ outcome' = "ok"
  /\ cached' = Assembler!Finish(assembler)
  /\ UNCHANGED <<adapter, assembler>>

(* The client resets before that: the abort signal fails the request or    *)
(* the read, and the loop is left.                                         *)
ClientReset ==
  /\ outcome = "open"
  /\ outcome' = "client_aborted"
  /\ RefuseUpstream \/ Interrupt \/ (phase \in {"done", "failed"} /\ UNCHANGED adapter)
  /\ UNCHANGED <<assembler, cached>>

Silent == AdapterSilent /\ UNCHANGED <<assembler, outcome, cached>>

Next ==
  \/ \E c \in Chunks : ForwardChunk(c)
  \/ End
  \/ Conclude
  \/ ClientReset
  \/ Silent

Spec == Init /\ [][Next]_vars

-----------------------------------------------------------------------------
(* The client's own view of a transcript, told by positions in it: of the  *)
(* chunks, the entries es of one choice, and of them its tool entries ts.  *)

Transcript == SubSeq(delivered, 1, Count)

(* The elements of s that name this index, in order.                       *)
Of(s, index) == FlattenSeq([n \in DOMAIN s |-> IF s[n].index = index THEN <<s[n]>> ELSE <<>>])

Entries(chunks, index) == FlattenSeq([n \in DOMAIN chunks |-> Of(chunks[n].choices, index)])

Text(es) == FlattenSeq([n \in DOMAIN es |-> es[n].delta.content])

Reasoning(es) == FlattenSeq([n \in DOMAIN es |-> es[n].delta.reasoning])

ToolEntries(es) == FlattenSeq([n \in DOMAIN es |-> es[n].delta.tools])

Arguments(fs) == FlattenSeq([n \in DOMAIN fs |-> fs[n].args])

ChoicesSent(chunks) == UNION {Assembler!Indexes(chunks[n]) : n \in DOMAIN chunks}

ToolsSent(ts) == {ts[n].index : n \in DOMAIN ts}

-----------------------------------------------------------------------------
(* Properties.                                                             *)

SameAnswer(choice, es) ==
  LET ts == ToolEntries(es)
  IN /\ choice.content = Text(es)
     /\ choice.reasoning = Reasoning(es)
     /\ choice.finish = Last(es).finish
     /\ DOMAIN choice.tools = ToolsSent(ts)
     /\ \A tool \in ToolsSent(ts) : choice.tools[tool].args = Arguments(Of(ts, tool))

(* A cached answer is the streamed one: its choices, their text, reasoning *)
(* and tool arguments, finish reasons, identity and usage are what a       *)
(* client adds up from the chunks it received, however they were cut.      *)
CachedIsWhatWasStreamed ==
  cached # Assembler!NoResponse =>
    /\ DOMAIN cached.choices = ChoicesSent(Transcript)
    /\ \A n \in DOMAIN Transcript : Transcript[n].id = cached.id
    /\ cached.usage = Last(Transcript).usage
    /\ \A index \in ChoicesSent(Transcript) :
         SameAnswer(cached.choices[index], Entries(Transcript, index))

AllEqual(S) == \A x, y \in S \ {"none"} : x = y

(* The entries of one call: the first names it, the others agree.          *)
SameCall(fs) ==
  /\ fs[1].id # "none" /\ fs[1].name # "none"
  /\ AllEqual({fs[n].id : n \in DOMAIN fs}) /\ AllEqual({fs[n].name : n \in DOMAIN fs})

(* A choice that was whole: named an assistant, finished by its last entry *)
(* and no earlier one, with calls that kept their names and whose          *)
(* arguments parse.                                                        *)
WholeChoice(es) ==
  LET ts == ToolEntries(es)
  IN /\ \A n \in DOMAIN es :
          /\ es[n].finish # "none" <=> n = Len(es)
          /\ ~es[n].delta.odd /\ es[n].delta.role \in {"none", "assistant"}
     /\ \E n \in DOMAIN es : es[n].delta.role = "assistant"
     /\ AllEqual({es[n].extra : n \in DOMAIN es})
     /\ \A n \in DOMAIN ts : ~ts[n].odd
     /\ \A tool \in ToolsSent(ts) :
          SameCall(Of(ts, tool)) /\ Arguments(Of(ts, tool)) \in JsonObjects

(* A transcript that one response can represent.                           *)
Whole(chunks) ==
  /\ ChoicesSent(chunks) # {}
  /\ AllEqual({chunks[n].id : n \in DOMAIN chunks})
  /\ AllEqual({chunks[n].extra : n \in DOMAIN chunks})
  /\ \A n \in DOMAIN chunks :
       Len(chunks[n].choices) = Cardinality(Assembler!Indexes(chunks[n]))
  /\ \A index \in ChoicesSent(chunks) : WholeChoice(Entries(chunks, index))

(* Exactly the whole answers of streams that ended ok are offered to the   *)
(* cache: nothing unfinished, ambiguous or abandoned, and no legal answer  *)
(* is lost to the way it was cut into chunks.                              *)
WholeAnswersAreCached == cached # Assembler!NoResponse <=> outcome = "ok" /\ Whole(Transcript)
=============================================================================
