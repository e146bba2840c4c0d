-------------------------- MODULE CompatibleStream --------------------------
(***************************************************************************)
(* streamOpenAiCompatible (providers/openai-compatible-stream.ts): the     *)
(* generator that forwards the payloads of an OpenAI, Gemini or DeepSeek   *)
(* stream and fails closed on every transcript it cannot vouch for.        *)
(*                                                                         *)
(* A payload is a validated chunk, one that fails JSON or schema           *)
(* validation (Malformed), or the sentinel (Done).  What SSE framing makes *)
(* of the bytes is parseSseData's affair; it delivers payloads in order    *)
(* and then ends cleanly, truncated or with a transport error.             *)
(***************************************************************************)
EXTENDS Naturals, Sequences

CONSTANTS
  Chunks,    (* validated chunks: id, extra, choices and usage             *)
  Usages,    (* terminal usages                                            *)
  NoUsage,   (* a chunk without usage, or with usage null                  *)
  Malformed, (* a payload that is no chat.completion.chunk                 *)
  Done,      (* the payload [DONE]                                         *)
  MaxChunks  (* bound: chunks an upstream sends                            *)

ASSUME StreamConstants ==
  /\ NoUsage \notin Usages
  /\ \A c \in Chunks : c.usage \in Usages \cup {NoUsage}
  /\ Malformed \notin Chunks \cup {Done} /\ Done \notin Chunks
  /\ MaxChunks \in Nat

VARIABLES
  phase,     (* connecting, streaming, done ([DONE] was yielded) or failed *)
  sawUsage,  (* the local sawUsage                                         *)
  sawDone,   (* the local sawDone                                          *)
  delivered  (* payloads yielded to the pipeline, in order                 *)

adapter == <<phase, sawUsage, sawDone, delivered>>

Carries(c) == c.usage # NoUsage

(* A usage-bearing chunk ends every choice it names.                       *)
Terminal(c) == \A i \in DOMAIN c.choices : c.choices[i].finish # "none"

AdapterInit ==
  /\ phase = "connecting"
  /\ sawUsage = FALSE /\ sawDone = FALSE
  /\ delivered = <<>>

(* fetchWithRetry returned a 200 event stream with a body.                 *)
Connect ==
  /\ phase = "connecting"
  /\ phase' = "streaming"
  /\ UNCHANGED <<sawUsage, sawDone, delivered>>

(* No key, malformed stream_options, a failed or refused request, a wrong  *)
(* content type or no body: nothing was yielded.                           *)
RefuseUpstream ==
  /\ phase = "connecting"
  /\ phase' = "failed"
  /\ UNCHANGED <<sawUsage, sawDone, delivered>>

(* Mutant of Forwardable: chunks may follow the usage chunk.               *)
ForwardableAfterUsage(c) == ~sawDone /\ (Carries(c) => Terminal(c))

Forwardable(c) == ~sawDone /\ ~sawUsage /\ (Carries(c) => Terminal(c))

ReceiveChunk(c) ==
  /\ phase = "streaming" /\ Forwardable(c)
  /\ Len(delivered) < MaxChunks
  /\ sawUsage' = Carries(c)
  /\ delivered' = Append(delivered, c)
  /\ UNCHANGED <<phase, sawDone>>

(* The sentinel is buffered: a clean end of the upstream must prove it     *)
(* last before it is yielded.                                              *)
ReceiveDone ==
  /\ phase = "streaming" /\ sawUsage /\ ~sawDone
  /\ sawDone' = TRUE
  /\ UNCHANGED <<phase, sawUsage, delivered>>

(* The throws of the payload loop.                                         *)
Illegal(p) ==
  CASE p = Done      -> sawDone \/ ~sawUsage
    [] p = Malformed -> TRUE
    [] OTHER         -> ~Forwardable(p)

ReceiveIllegal(p) ==
  /\ phase = "streaming" /\ Illegal(p)
  /\ phase' = "failed"
  /\ UNCHANGED <<sawUsage, sawDone, delivered>>

EndOfBytes ==
  /\ phase = "streaming"
  /\ IF sawDone
     THEN phase' = "done" /\ delivered' = Append(delivered, Done)
     ELSE phase' = "failed" /\ UNCHANGED delivered
  /\ UNCHANGED <<sawUsage, sawDone>>

(* A truncated transcript, a transport error, an abort, or the pipeline    *)
(* returns the generator.                                                  *)
Interrupt ==
  /\ phase = "streaming"
  /\ phase' = "failed"
  /\ UNCHANGED <<sawUsage, sawDone, delivered>>

(* The steps that yield nothing.                                           *)
AdapterSilent ==
  \/ Connect
  \/ RefuseUpstream
  \/ ReceiveDone
  \/ \E p \in Chunks \cup {Malformed, Done} : ReceiveIllegal(p)
  \/ Interrupt

-----------------------------------------------------------------------------
(* The chunks among the delivered payloads.                                *)
Count == IF phase = "done" THEN Len(delivered) - 1 ELSE Len(delivered)

Contract == INSTANCE StreamContract WITH
  count   <- Count,
  metered <- \E i \in 1 .. Count : Carries(delivered[i]),
  ending  <- IF phase \in {"done", "failed"} THEN phase ELSE "open"

(* Whatever an upstream sends and however it ends, the pipeline sees the   *)
(* stream contract: usage once and last, one [DONE] after it, and no       *)
(* failure of a stream whose [DONE] was passed on.                         *)
ImplementsContract == Contract!StreamSpec
=============================================================================
