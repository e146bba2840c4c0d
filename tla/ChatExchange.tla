---------------------------- MODULE ChatExchange ----------------------------
(***************************************************************************)
(* One authenticated POST /v1/chat/completions from the end of its body to *)
(* its row in the requests table (pipeline/handler.ts): the refusals, the  *)
(* two cache-hit replies, the buffered and the streamed provider call, and *)
(* the events that race with them - the response's finish and close        *)
(* events, the upstream timeout and the settling of provider promises.     *)
(*                                                                         *)
(* A JavaScript turn (from one await to the next) is one action.  Exchanges *)
(* share no state but the budget and the cache, which have modules of      *)
(* their own, so one exchange is modelled.                                 *)
(*                                                                         *)
(* Node and Fastify, external: a response ends in exactly one of "finish"  *)
(* (all bytes handed over) and a premature "close"; the onResponse hook    *)
(* runs on the former only; destroying the reply stream of a closed        *)
(* response returns a generator that is suspended at a yield.              *)
(***************************************************************************)
EXTENDS Naturals

CONSTANT MaxFrames   \* bound: frames one upstream stream delivers

ASSUME ExchangeConstants == MaxFrames \in Nat \ {0}

VARIABLES
  pc,             (* where the handler, or streamFrames, is suspended       *)
  mode,           (* which path the handler took                            *)
  noCache,        (* pg_no_cache                                            *)
  socket,         (* the response: open, finished or reset by its client    *)
  listening,      (* the path's response close listener is attached         *)
  responseClosed, (* the flag that listener sets                            *)
  abort,          (* why the AbortController aborted: no, client, timeout   *)
  timer,          (* the upstream timeout                                   *)
  settled,        (* failureCauseSettled, preHeaderCauseSettled             *)
  ready,          (* fallbackLogReady                                       *)
  upstream,       (* the provider call or stream iterator                   *)
  cause,          (* why a stream that sent no header is being discarded    *)
  frames,         (* frames forwarded to the client so far                  *)
  usage,          (* the terminal usage chunk was captured                  *)
  log,            (* PendingRequestLog: status and costMicroUsd             *)
  loggingStarted, (* PendingRequestLog.loggingStarted                       *)
  row,            (* the durable requests row                               *)
  hold,           (* the budget reservation                                 *)
  cached          (* this exchange wrote a cache entry                      *)

connection == <<socket, listening, responseClosed>>
control    == <<abort, timer, settled, ready>>
source     == <<upstream, cause, frames, usage>>
account    == <<loggingStarted, row, hold>>

vars == <<pc, mode, noCache, connection, control, source, log, account, cached>>

Refusals == {"rejected_rate_limited", "rejected_validation", "rejected_unknown_model",
             "rejected_prompt", "rejected_budget", "provider_error"}

Statuses == Refusals \cup {"ok", "client_aborted", "rejected_provider_unavailable"}

(* Costs are told apart by where they come from: absent, the zero of a     *)
(* cache hit, the chars/4 estimate, or the provider's usage.               *)
CostKinds == {"none", "zero", "estimated", "exact"}

NoRow == [status |-> "none", cost |-> "none"]

Hits == {"hitBuffered", "hitStream"}

TypeOK ==
  /\ pc \in {"arrived", "provider", "firstFrame", "discard", "pumping", "parked",
             "closing", "throwing", "answered", "failed", "silent"}
  /\ mode \in {"none", "refusal", "unavailable", "lookupFailed", "buffered", "stream"} \cup Hits
  /\ noCache \in BOOLEAN
  /\ socket \in {"open", "finished", "reset"}
  /\ listening \in BOOLEAN /\ responseClosed \in BOOLEAN
  /\ abort \in {"no", "client", "timeout"}
  /\ timer \in {"off", "armed"}
  /\ settled \in BOOLEAN /\ ready \in BOOLEAN
  /\ upstream \in {"idle", "open", "done", "closed"}
  /\ cause \in {"none", "client", "timeout", "provider", "request"}
  /\ frames \in 0 .. MaxFrames /\ usage \in BOOLEAN
  /\ log \in [status : Statuses, cost : CostKinds]
  /\ loggingStarted \in BOOLEAN
  /\ row \in [status : Statuses, cost : CostKinds] \cup {NoRow}
  /\ hold \in {"none", "held", "released", "debt"}
  /\ cached \in BOOLEAN

Init ==
  /\ pc = "arrived" /\ mode = "none" /\ noCache \in BOOLEAN
  /\ socket = "open" /\ listening = FALSE /\ responseClosed = FALSE
  /\ abort = "no" /\ timer = "off" /\ settled = FALSE /\ ready = FALSE
  /\ upstream = "idle" /\ cause = "none" /\ frames = 0 /\ usage = FALSE
  /\ log = [status |-> "rejected_validation", cost |-> "none"]
  /\ loggingStarted = FALSE /\ row = NoRow /\ hold = "none"
  /\ cached = FALSE

-----------------------------------------------------------------------------
(* Durable accounting.                                                     *)

(* logRequest with the log entry l: at most once; the insert either        *)
(* releases the reservation or, when it throws, turns it into debt.        *)
LogRequest(l) ==
  IF loggingStarted
  THEN UNCHANGED account
  ELSE /\ loggingStarted' = TRUE
       /\ \/ /\ row' = l
             /\ hold' = IF hold = "held" THEN "released" ELSE hold
          \/ /\ row' = row
             /\ hold' = IF hold = "held" THEN "debt" ELSE hold

(* Mutants of LogWhen: a log before its account is complete; no log        *)
(* outside onResponse.                                                     *)
LogAtOnce(condition, l) == LogRequest(l)
LogInOnResponseOnly(condition, l) == UNCHANGED account

LogWhen(condition, l) == IF condition THEN LogRequest(l) ELSE UNCHANGED account

(* The close listeners leave; logIfResponseClosed, cleanup.                *)
ListenUnless(condition) == listening' = (listening /\ ~condition)

-----------------------------------------------------------------------------
(* The turn that starts the handler.                                       *)

(* Any guard before the reservation refuses: rate limit, body or header    *)
(* validation, unknown model, prompt resolution, budget.                   *)
Refuse(status) ==
  /\ pc = "arrived" /\ socket = "open"
  /\ pc' = "answered" /\ mode' = "refusal"
  /\ log' = [log EXCEPT !.status = status]
  /\ UNCHANGED <<noCache, connection, control, source, account, cached>>

(* The client resets while its body is still uploading: the parser error   *)
(* takes the route's error handler, and nothing can be answered.           *)
ResetDuringUpload ==
  /\ pc = "arrived" /\ socket = "open"
  /\ socket' = "reset"
  /\ pc' = "failed" /\ mode' = "refusal"
  /\ UNCHANGED <<noCache, listening, responseClosed, control, source, log, account, cached>>

(* sendCacheHit: zero cost, its own close listener, a reply that is only   *)
(* complete at "finish".                                                   *)
ReplayHit(path) ==
  /\ pc = "arrived" /\ socket = "open" /\ ~noCache
  /\ pc' = "answered" /\ mode' = path
  /\ hold' = "held"
  /\ log' = [status |-> "ok", cost |-> "zero"]
  /\ listening' = TRUE
  /\ UNCHANGED <<noCache, socket, responseClosed, control, source, loggingStarted, row, cached>>

(* The cache read or the pricing read of a hit throws after the            *)
(* reservation: sendRouteError answers 500; no close listener exists.      *)
LookupThrows ==
  /\ pc = "arrived" /\ socket = "open" /\ ~noCache
  /\ pc' = "failed" /\ mode' = "lookupFailed"
  /\ hold' = "held"
  /\ log' = [log EXCEPT !.status = "provider_error"]
  /\ UNCHANGED <<noCache, connection, control, source, loggingStarted, row, cached>>

(* No adapter is registered for the routed provider: 501, no listener.     *)
AdapterMissing ==
  /\ pc = "arrived" /\ socket = "open"
  /\ pc' = "answered" /\ mode' = "unavailable"
  /\ hold' = "held"
  /\ log' = [log EXCEPT !.status = "rejected_provider_unavailable"]
  /\ UNCHANGED <<noCache, connection, control, source, loggingStarted, row, cached>>

(* The provider call starts: listeners, timeout, then complete() or the    *)
(* first next() of stream().                                               *)
Dispatch(path, wait) ==
  /\ pc = "arrived" /\ socket = "open"
  /\ pc' = wait /\ mode' = path
  /\ hold' = "held"
  /\ listening' = TRUE /\ timer' = "armed" /\ upstream' = "open"
  /\ UNCHANGED <<noCache, socket, responseClosed, abort, settled, ready, cause, frames,
                 usage, log, loggingStarted, row, cached>>

-----------------------------------------------------------------------------
(* The buffered call settles.                                              *)

FailureStatus(why) ==
  CASE why = "client"  -> "client_aborted"
    [] why = "request" -> "rejected_validation"
    [] OTHER           -> "provider_error"

(* Mutant of FailureCost: applyStreamMeter(..., undefined, 0) is dropped.  *)
FailureCostUnmetered(why) == log.cost

FailureCost(why) == IF why = "client" THEN "estimated" ELSE log.cost

(* The first cause: an abort that already happened wins over the error.    *)
FirstCause(kind) == IF abort = "no" THEN kind ELSE abort

ProviderFails(kind) ==
  LET why == FirstCause(kind)
      gone == why = "client" \/ responseClosed
      l == [status |-> FailureStatus(why),
            cost |-> FailureCost(why)]
  IN /\ pc = "provider"
     /\ log' = l
     /\ ready' = TRUE /\ settled' = (why # "client")
     /\ timer' = "off" /\ upstream' = "done"
     /\ LogWhen(gone, l)
     /\ ListenUnless(gone)
     /\ pc' = IF gone THEN "silent" ELSE "answered"
     /\ UNCHANGED <<mode, noCache, socket, responseClosed, abort, cause, frames, usage, cached>>

(* complete() resolves, perhaps concurrently with an abort: metered, then  *)
(* cached (a failing upsert is swallowed), then sent unless the client is  *)
(* known to be gone.                                                       *)
ProviderAnswers(cost) ==
  LET gone == abort = "client"
      l == [status |-> IF gone THEN "client_aborted" ELSE "ok", cost |-> cost]
  IN /\ pc = "provider"
     /\ log' = l
     /\ ready' = TRUE
     /\ timer' = "off" /\ upstream' = "done"
     /\ cached' \in {FALSE, ~noCache}
     /\ LogWhen(gone, l)
     /\ ListenUnless(gone)
     /\ pc' = IF gone THEN "silent" ELSE "answered"
     /\ UNCHANGED <<mode, noCache, socket, responseClosed, abort, settled, cause, frames, usage>>

(* meterUsage throws on the answer, or applyStreamMeter on the failure of  *)
(* a call whose client left: the route's error handler answers 500 and     *)
(* relabels the log; fallbackLogReady is still unset.                      *)
MeterThrows ==
  /\ pc = "provider"
  /\ log' = [log EXCEPT !.status = "provider_error"]
  /\ timer' = "off" /\ upstream' = "done"
  /\ pc' = "failed"
  /\ UNCHANGED <<mode, noCache, connection, abort, settled, ready, cause, frames, usage,
                 account, cached>>

-----------------------------------------------------------------------------
(* The streamed call before its headers.                                   *)

(* The first frame arrived or failed with an abort already decided, or it  *)
(* failed by itself: the cause is frozen and the iterator is returned.     *)
StartDiscard(why) ==
  /\ cause' = why
  /\ settled' = TRUE
  /\ timer' = "off"
  /\ pc' = "discard"
  /\ UNCHANGED <<mode, noCache, socket, responseClosed, abort, ready, frames, usage,
                 upstream, log, account, cached>>

FirstFrameFails(kind) ==
  /\ pc = "firstFrame"
  /\ StartDiscard(FirstCause(kind))
  /\ UNCHANGED listening

FirstFrameTooLate ==
  /\ pc = "firstFrame" /\ abort # "no"
  /\ StartDiscard(abort)
  /\ ListenUnless(abort = "client")

(* The awaited iterator.return() is done: log at once when the client is   *)
(* gone, otherwise answer with the error envelope.                         *)
Discarded ==
  LET gone == cause = "client" \/ responseClosed
      l == [status |-> FailureStatus(cause),
            cost |-> FailureCost(cause)]
  IN /\ pc = "discard"
     /\ upstream' = "closed"
     /\ log' = l
     /\ ready' = (cause # "client")
     /\ LogWhen(gone, l)
     /\ ListenUnless(gone)
     /\ pc' = IF gone THEN "silent" ELSE "answered"
     /\ UNCHANGED <<mode, noCache, socket, responseClosed, abort, timer, settled, cause,
                    frames, usage, cached>>

(* applyStreamMeter throws for a client that left before the headers: the  *)
(* route's error handler relabels the log of a reply nobody can receive,   *)
(* and the logRequest after the meter is never reached.                    *)
DiscardMeterThrows ==
  /\ pc = "discard" /\ cause = "client"
  /\ upstream' = "closed"
  /\ log' = [log EXCEPT !.status = "provider_error"]
  /\ pc' = "failed"
  /\ UNCHANGED <<mode, noCache, connection, control, cause, frames, usage, account, cached>>

-----------------------------------------------------------------------------
(* streamFrames.                                                           *)

(* The start of the finally block: timeout cleared, listeners removed.     *)
LeaveLoop ==
  /\ timer' = "off"
  /\ listening' = FALSE

(* A frame is observed and yielded: the generator is asked for more at     *)
(* once, or stays suspended at the yield until the client drains.          *)
Forward(terminal) ==
  /\ frames < MaxFrames
  /\ frames' = frames + 1
  /\ usage' = (usage \/ terminal)
  /\ pc' \in {"pumping", "parked"}
  /\ UNCHANGED <<mode, noCache, connection, control, upstream, cause, log, account, cached>>

(* The first frame commits the 200 and its headers.                        *)
FirstFrame(terminal) ==
  /\ pc = "firstFrame" /\ abort = "no"
  /\ Forward(terminal)

NextFrame(terminal) ==
  /\ pc = "pumping" /\ abort # "client" /\ socket = "open"
  /\ Forward(terminal)

(* A stream that timed out before its client left: the frame is yielded to *)
(* a destroyed reply, whose queued return() runs the finally block.        *)
LastYield ==
  /\ pc = "pumping" /\ abort # "client" /\ socket = "reset"
  /\ LeaveLoop
  /\ pc' = "closing"
  /\ UNCHANGED <<mode, noCache, socket, responseClosed, abort, settled, ready, source, log,
                 account, cached>>

(* Backpressure ends: Readable pulls the generator again.                  *)
Drain ==
  /\ pc = "parked" /\ socket = "open"
  /\ pc' = "pumping"
  /\ UNCHANGED <<mode, noCache, connection, control, source, log, account, cached>>

StreamCost == IF usage THEN "exact" ELSE "estimated"

(* The upstream generator completed, which adapters do only after usage.   *)
UpstreamCompletes ==
  LET gone == abort = "client"
      l == [status |-> IF gone THEN "client_aborted" ELSE "ok", cost |-> StreamCost]
  IN /\ pc = "pumping" /\ usage
     /\ upstream' = "done"
     /\ log' = l
     /\ cached' \in (IF gone THEN {FALSE} ELSE {FALSE, ~noCache})
     /\ LeaveLoop
     /\ LogWhen(gone, l)
     /\ pc' = IF gone THEN "silent" ELSE "answered"
     /\ UNCHANGED <<mode, noCache, socket, responseClosed, abort, settled, ready, cause,
                    frames, usage>>

(* next() rejects - abort, transport or contract failure - or yields a     *)
(* frame after the client went away: metered, then the iterator is closed. *)
UpstreamFails ==
  /\ pc = "pumping"
  /\ log' = [status |-> IF abort = "client" THEN "client_aborted" ELSE "provider_error",
             cost |-> StreamCost]
  /\ LeaveLoop
  /\ pc' = "closing"
  /\ UNCHANGED <<mode, noCache, socket, responseClosed, abort, settled, ready, source,
                 account, cached>>

(* applyStreamMeter throws, and again in the catch block: the status was   *)
(* never decided and the generator will reject once it is closed.          *)
StreamMeterThrows ==
  /\ pc = "pumping"
  /\ LeaveLoop
  /\ pc' = "throwing"
  /\ UNCHANGED <<mode, noCache, socket, responseClosed, abort, settled, ready, source, log,
                 account, cached>>

(* closeIterator settled; only an abort by the client logs from here.  A   *)
(* generator that rejects makes Fastify destroy the response.              *)
IteratorClosed ==
  /\ pc \in {"closing", "throwing"}
  /\ upstream' = "closed"
  /\ LogWhen(abort = "client", log)
  /\ IF abort = "client" \/ pc = "throwing"
     THEN pc' = "silent"
     ELSE pc' = "answered"
  /\ socket' = IF pc = "throwing" THEN "reset" ELSE socket
  /\ UNCHANGED <<mode, noCache, listening, responseClosed, control, cause, frames, usage, log,
                 cached>>

-----------------------------------------------------------------------------
(* The response and the clock.                                             *)

(* The last byte is handed over: "finish" removes the listeners and        *)
(* Fastify runs onResponse.                                                *)
ResponseFinishes ==
  /\ pc \in {"answered", "failed"} /\ socket = "open"
  /\ socket' = "finished"
  /\ listening' = FALSE
  /\ LogRequest(log)
  /\ UNCHANGED <<pc, mode, noCache, responseClosed, control, source, log, cached>>

(* A premature close of a response nobody listens to.                      *)
ResetUnheard ==
  /\ pc # "arrived" /\ socket = "open" /\ ~listening
  /\ socket' = "reset"
  /\ UNCHANGED <<pc, mode, noCache, listening, responseClosed, control, source, log,
                 account, cached>>

(* The close listener of a cache hit: relabel and log.                     *)
ResetHit ==
  LET l == [log EXCEPT !.status = "client_aborted"]
  IN /\ mode \in Hits /\ socket = "open" /\ listening
     /\ socket' = "reset" /\ listening' = FALSE
     /\ log' = l
     /\ LogRequest(l)
     /\ UNCHANGED <<pc, mode, noCache, responseClosed, control, source, cached>>

(* Mutants of AbortForClient: the guards dropped; the disconnect ignored.  *)
AbortRelabels == "client"
AbortIgnored == abort

(* abortForClientDisconnect does nothing after a settled or timed-out end. *)
AbortForClient == IF settled THEN abort ELSE FirstCause("client")

(* onResponseClose of the buffered path.                                   *)
ResetBuffered ==
  LET l == IF AbortForClient = "client" /\ abort # "client"
           THEN [log EXCEPT !.status = "client_aborted"] ELSE log
  IN /\ mode = "buffered" /\ socket = "open" /\ listening
     /\ socket' = "reset" /\ responseClosed' = TRUE /\ listening' = FALSE
     /\ abort' = AbortForClient
     /\ log' = l
     /\ LogWhen(ready, l)
     /\ UNCHANGED <<pc, mode, noCache, timer, settled, ready, source, cached>>

(* onResponseClose of the streamed path; Fastify then destroys the reply   *)
(* stream, so a generator parked at a yield runs its finally block.        *)
ResetStream ==
  /\ mode = "stream" /\ socket = "open" /\ listening
  /\ socket' = "reset" /\ responseClosed' = TRUE /\ listening' = FALSE
  /\ abort' = AbortForClient
  /\ LogWhen(ready, log)
  /\ IF pc = "parked"
     THEN pc' = "closing" /\ timer' = "off"
     ELSE UNCHANGED <<pc, timer>>
  /\ UNCHANGED <<mode, noCache, settled, ready, source, log, cached>>

Reset == ResetUnheard \/ ResetHit \/ ResetBuffered \/ ResetStream

(* Mutant of TimeoutFires: the timer clears itself but aborts nothing.     *)
TimeoutForgets ==
  /\ timer = "armed"
  /\ timer' = "off"
  /\ UNCHANGED <<pc, mode, noCache, connection, abort, settled, ready, source, log, account,
                 cached>>

TimeoutFires ==
  /\ timer = "armed"
  /\ timer' = "off"
  /\ abort' = FirstCause("timeout")
  /\ UNCHANGED <<pc, mode, noCache, connection, settled, ready, source, log, account, cached>>

-----------------------------------------------------------------------------
ErrorKinds == {"provider", "request"}

Start ==
  \/ \E status \in Refusals : Refuse(status)
  \/ ResetDuringUpload
  \/ \E path \in Hits : ReplayHit(path)
  \/ LookupThrows
  \/ AdapterMissing
  \/ Dispatch("buffered", "provider")
  \/ Dispatch("stream", "firstFrame")

Buffered ==
  \/ \E kind \in ErrorKinds : ProviderFails(kind)
  \/ \E cost \in {"exact", "estimated"} : ProviderAnswers(cost)
  \/ MeterThrows

BeforeHeaders ==
  \/ \E kind \in ErrorKinds : FirstFrameFails(kind)
  \/ FirstFrameTooLate
  \/ \E terminal \in BOOLEAN : FirstFrame(terminal)
  \/ Discarded \/ DiscardMeterThrows

Pumping ==
  \/ \E terminal \in BOOLEAN : NextFrame(terminal)
  \/ LastYield
  \/ UpstreamCompletes
  \/ UpstreamFails
  \/ StreamMeterThrows

Next ==
  \/ Start \/ Buffered \/ BeforeHeaders \/ Pumping
  \/ Drain \/ IteratorClosed
  \/ ResponseFinishes \/ Reset
  \/ TimeoutFires

(* An armed timer fires, an aborted provider promise settles, an iterator  *)
(* that is returned closes, and the client uploads, reads and drains what  *)
(* it is owed or goes away.  Nothing else is promised: a provider may      *)
(* otherwise stay silent for ever.                                         *)
Aborted == abort # "no"

Fairness ==
  /\ WF_vars(Start)
  /\ WF_vars(TimeoutFires)
  /\ WF_vars(Aborted /\ (Buffered \/ BeforeHeaders \/ Pumping))
  /\ WF_vars(Discarded \/ DiscardMeterThrows)
  /\ WF_vars(IteratorClosed)
  /\ WF_vars(pc = "parked" /\ (Drain \/ Reset))
  /\ WF_vars(pc \in {"answered", "failed"} /\ (ResponseFinishes \/ Reset))

Spec == Init /\ [][Next]_vars /\ Fairness

-----------------------------------------------------------------------------
(* Properties.                                                             *)

(* Whichever of finish, close and the settling promise comes first, the    *)
(* row is written only when the account of the exchange is complete: no    *)
(* later turn computes a status or a cost that differs from the row.       *)
RowIsFinal == row # NoRow => row = log

(* The first cause wins: until headers of a stream are sent, a row says    *)
(* client_aborted exactly when the disconnect came before every other end, *)
(* and an upstream timeout is never relabelled as one.                     *)
RowTellsFirstCause ==
  row # NoRow =>
    /\ row.status = "client_aborted" => socket = "reset" /\ (mode \in Hits \/ abort = "client")
    /\ abort = "client" /\ frames = 0 => row.status = "client_aborted"
    /\ abort = "timeout" => row.status \in {"ok", "provider_error"}

(* An exchange recorded as client_aborted still carries a cost: the        *)
(* provider's usage, the prompt estimate, or the zero of a cache hit.      *)
ClientAbortIsBilled == row.status = "client_aborted" => row.cost # "none"

(* A row says ok only of a response whose last byte was handed over.  The  *)
(* one exception: an answer that outran the upstream timeout's abort and   *)
(* whose client then left keeps its ok.                                    *)
OkMeansDelivered ==
  row.status = "ok" => socket = "finished" \/ (mode = "buffered" /\ abort = "timeout")

(* Every provider call or stream is answered, failed, aborted or returned, *)
(* and its timer is cleared: no exchange keeps paying for an upstream that *)
(* nobody reads.                                                           *)
UpstreamIsReleased == upstream = "open" ~> upstream # "open" /\ timer = "off"

(* The paths on which a reset of the response is heard by nobody who would *)
(* log it: no listener was attached (501, failed lookup), it was removed   *)
(* (the end of a stream, a stream ended by its timeout, its provider or a  *)
(* metering that threw), it found fallbackLogReady unset and the handler   *)
(* answered anyway, or it left the logging to a handler whose meter threw. *)
Unheard ==
  /\ socket = "reset"
  /\ \/ mode \in {"unavailable", "lookupFailed"}
     \/ mode = "buffered" /\ (pc = "failed" \/ abort = "timeout")
     \/ mode = "stream" /\ pc = "failed"
     \/ mode = "stream" /\ frames > 0 /\ abort # "client"

(* A budget reservation is settled - released by a durable row or turned   *)
(* into debt - unless the client reset on one of the unheard paths, where  *)
(* it is held until the process restarts.                                  *)
HoldSettles == hold = "held" ~> hold # "held" \/ Unheard

-----------------------------------------------------------------------------
(* What the documents promise and the code does not do.                    *)

(* "Client disconnect mid-stream: abort upstream request, log row with     *)
(* status = 'client_aborted', cost = tokens billed so far if the provider  *)
(* reported usage, else estimate flag."  (IMPLEMENTATION_GUIDE.md)         *)
DisconnectMidStreamIsBilled ==
  row # NoRow /\ mode = "stream" /\ frames > 0 /\ abort = "client" =>
    row.status = "client_aborted" /\ row.cost # "none"

(* "A server response close is classified as client_aborted unless Node    *)
(* reports writableFinished [...] Apply the same signal to cached replay   *)
(* and live streams."  (PROGRESS.md)                                       *)
ClosedLiveStreamIsClassified ==
  mode = "stream" /\ pc = "answered" /\ socket = "reset" => row # NoRow \/ hold = "debt"
=============================================================================
