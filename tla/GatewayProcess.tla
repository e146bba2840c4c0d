--------------------------- MODULE GatewayProcess ---------------------------
(***************************************************************************)
(* The gateway as a process (gateway index.ts, server.ts, shutdown.ts,     *)
(* db/migrate.ts, db/lifecycle.ts) and its calls to providers              *)
(* (providers/retry.ts): it boots on a database that another process, the  *)
(* pricing seed (scripts/seed-pricing.ts), migrates too, serves, and is    *)
(* stopped by signals, failures or a kill, then boots again.               *)
(***************************************************************************)
EXTENDS Naturals, Sequences, FiniteSets, TLC

CONSTANTS
  Migrations,    (* how many files the newest image has, in filename order *)
  Exchanges,     (* chat exchanges over all boots                          *)
  MaxBoots       (* bound on the boots of each process                     *)

ASSUME ProcessConstants == Migrations \in Nat /\ IsFiniteSet(Exchanges) /\ MaxBoots \in Nat

VARIABLES
  schema,        (* the migrations whose statements the database ran       *)
  applied,       (* the rows of _migrations                                *)
  pending,       (* per process, the files it has yet to apply             *)
  pc,            (* per process                                            *)
  boots,
  shutdown,      (* the shared close promise of registerSignalShutdown     *)
  closing,       (* how the onClose hook ended                             *)
  exitCode,
  exchange,      (* in memory: where each exchange stands                  *)
  rows,          (* request rows committed                                 *)
  mainFile       (* those checkpointed out of the WAL                      *)

database == <<schema, applied, rows, mainFile>>
vars == <<database, pending, pc, boots, shutdown, closing, exitCode, exchange>>

Processes == {"gateway", "seeder"}
RetryDelays == 2          (* RETRY_BASE_DELAYS_MS.length                   *)

(* left: its connection is gone.  An exchange ends "logged", "refused" if   *)
(* its insert failed, "unlogged" if no row was or could be inserted, or    *)
(* "lost" with its process.                                                *)
NewExchange == [at |-> "new", life |-> 0, attempts |-> 0, aborted |-> FALSE, left |-> FALSE]
Calling == {"fetching", "releasing", "backoff"}
InFlight == {e \in Exchanges : exchange[e].at \in Calling \cup {"settled"}}

(* The attempts are forgotten with the call, the abort with the exchange.  *)
Reaches(record, place) ==
  [record EXCEPT !.at = place,
                 !.attempts = IF place \in Calling THEN @ ELSE 0,
                 !.aborted = IF place \in Calling \cup {"settled"} THEN @ ELSE FALSE]

Init ==
  /\ schema = <<>> /\ applied = {} /\ rows = {} /\ mainFile = {}
  /\ pending = [p \in Processes |-> {}]
  /\ pc = [p \in Processes |-> "down"] /\ boots = [p \in Processes |-> 0]
  /\ shutdown = FALSE /\ closing = "open" /\ exitCode = 0
  /\ exchange = [e \in Exchanges |-> NewExchange]

-----------------------------------------------------------------------------
(* Boot.                                                                   *)

(* migrate reads the applied names once, before its first transaction.     *)
Unapplied(files) == (1 .. files) \ applied

Boot(p, files) ==
  /\ pc[p] = "down" /\ boots[p] < MaxBoots
  /\ boots' = [boots EXCEPT ![p] = @ + 1]
  /\ pc' = [pc EXCEPT ![p] = "migrating"]
  /\ pending' = [pending EXCEPT ![p] = Unapplied(files)]
  /\ IF p = "gateway"
     THEN shutdown' = FALSE /\ closing' = "open"
     ELSE UNCHANGED <<shutdown, closing>>
  /\ UNCHANGED <<database, exitCode, exchange>>

(* The process is gone and, of the gateway, what it was doing; the         *)
(* database keeps what was committed, in the WAL or out of it.             *)
Gone(p, code) ==
  /\ pc' = [pc EXCEPT ![p] = "down"]
  /\ pending' = [pending EXCEPT ![p] = {}]
  /\ IF p = "gateway"
     THEN /\ exitCode' = code
          /\ exchange' = [e \in Exchanges |->
               IF e \in InFlight THEN Reaches(exchange[e], "lost") ELSE exchange[e]]
     ELSE UNCHANGED <<exitCode, exchange>>

(* One transaction: the file's statements and its row.  Mutant: the row is *)
(* written after the statements were committed.                            *)
RowMayBeMissing(m) == {applied, applied \cup {m}}

RowWith(m) == {applied \cup {m}}

(* The files go in filename order.  One that the other process applied     *)
(* meanwhile fails, at a statement or at the primary key of its row, and   *)
(* the transaction is rolled back.                                         *)
Migrate(p) ==
  /\ pc[p] = "migrating"
  /\ \E m \in pending[p] :
       /\ \A k \in pending[p] : m <= k
       /\ IF m \in applied
          THEN Gone(p, 1) /\ UNCHANGED <<schema, applied>>
          ELSE /\ schema' = Append(schema, m)
               /\ applied' \in RowWith(m)
               /\ pending' = [pending EXCEPT ![p] = @ \ {m}]
               /\ UNCHANGED <<pc, exitCode, exchange>>
  /\ UNCHANGED <<rows, mainFile, boots, shutdown, closing>>

(* The seed writes its prices and closes; the gateway has built its server *)
(* and registers its signal handlers.                                      *)
Migrated(p) ==
  /\ pc[p] = "migrating" /\ pending[p] = {}
  /\ pc' = [pc EXCEPT ![p] = IF p = "gateway" THEN "starting" ELSE "down"]
  /\ UNCHANGED <<database, pending, boots, shutdown, closing, exitCode, exchange>>

Listen ==
  /\ pc["gateway"] = "starting" /\ ~shutdown
  /\ pc' = [pc EXCEPT !["gateway"] = "serving"]
  /\ UNCHANGED <<database, pending, boots, shutdown, closing, exitCode, exchange>>

(* Also when a signal closes the server that is about to listen.           *)
ListenFails ==
  /\ pc["gateway"] = "starting"
  /\ Gone("gateway", 1)
  /\ UNCHANGED <<database, boots, shutdown, closing>>

(* SIGKILL, an exhausted stop_grace_period, a crash, a migration that      *)
(* throws, a signal before its handler is registered.                      *)
Kill(p) ==
  /\ pc[p] # "down"
  /\ Gone(p, 137)
  /\ UNCHANGED <<database, boots, shutdown, closing>>

-----------------------------------------------------------------------------
(* fetchWithRetry, and the row of the exchange around it.                  *)

At(e, place) == exchange' = [exchange EXCEPT ![e] = Reaches(exchange[e], place)]
exchangeOnly == <<database, pending, pc, boots, shutdown, closing, exitCode>>

Arrive(e) ==
  /\ pc["gateway"] = "serving" /\ ~shutdown /\ exchange[e].at = "new"
  /\ exchange' = [exchange EXCEPT ![e].at = "fetching", ![e].attempts = 1,
                                  ![e].life = boots["gateway"]]
  /\ UNCHANGED exchangeOnly

IsLastAttempt(e) == exchange[e].attempts > RetryDelays

(* A response, retryable or not, or a rejection, which is not retried.     *)
FetchReturns(e) ==
  /\ exchange[e].at = "fetching"
  /\ \/ ~IsLastAttempt(e) /\ At(e, "releasing")
     \/ At(e, "settled")
  /\ UNCHANGED exchangeOnly

(* releaseBody is done: the sleep starts, or rejects at once if the signal *)
(* was aborted meanwhile.  Mutant: the sleep only listens for the abort.   *)
SleepAnyway(e) == "backoff"

AfterRelease(e) == IF exchange[e].aborted THEN "settled" ELSE "backoff"

BodyReleased(e) ==
  /\ exchange[e].at = "releasing"
  /\ At(e, AfterRelease(e))
  /\ UNCHANGED exchangeOnly

BackoffEnds(e) ==
  /\ exchange[e].at = "backoff"
  /\ exchange' = [exchange EXCEPT ![e].at = "fetching", ![e].attempts = @ + 1]
  /\ UNCHANGED exchangeOnly

(* The fetch or the sleep of an aborted exchange rejects.                  *)
Aborted(record) ==
  LET told == [record EXCEPT !.aborted = TRUE]
  IN IF record.at \in {"fetching", "backoff"} THEN Reaches(told, "settled") ELSE told

(* The upstream timeout.                                                   *)
Abort(e) ==
  /\ exchange[e].at \in Calling /\ ~exchange[e].aborted
  /\ exchange' = [exchange EXCEPT ![e] = Aborted(exchange[e])]
  /\ UNCHANGED exchangeOnly

(* The client leaves, or Fastify destroys the response of a stream that    *)
(* threw.                                                                  *)
ConnectionGone(e) ==
  /\ e \in InFlight /\ ~exchange[e].left
  /\ exchange' = [exchange EXCEPT ![e] = [Aborted(exchange[e]) EXCEPT !.left = TRUE]]
  /\ UNCHANGED exchangeOnly

(* logRequest, before the server sees the end of the connection if it is   *)
(* still there.  An insert that throws is swallowed; on a closed database  *)
(* every insert does.                                                      *)
DatabaseOpen == closing \in {"open", "closeError", "bothErrors"}

LogRow(e) ==
  /\ exchange[e].at = "settled"
  /\ \/ DatabaseOpen /\ At(e, "logged") /\ rows' = rows \cup {e}
     \/ At(e, IF DatabaseOpen THEN "refused" ELSE "unlogged") /\ UNCHANGED rows
  /\ UNCHANGED <<schema, applied, mainFile, pending, pc, boots, shutdown, closing, exitCode>>

(* Nobody who would log it heard the reset (see ChatExchange, Unheard).    *)
ResetUnheard(e) ==
  /\ exchange[e].at = "settled" /\ exchange[e].left
  /\ At(e, "unlogged")
  /\ UNCHANGED exchangeOnly

-----------------------------------------------------------------------------
(* Shutdown.                                                               *)

(* Any further signal finds the promise and changes nothing.               *)
Signal ==
  /\ pc["gateway"] \in {"starting", "serving"} /\ ~shutdown
  /\ shutdown' = TRUE
  /\ UNCHANGED <<database, pending, pc, boots, closing, exitCode, exchange>>

(* Fastify closes once every connection is gone or idle: it does not wait  *)
(* for what a lost connection leaves behind.  Mutant: at once.             *)
DrainedAlways == TRUE

Drained == \A e \in InFlight : exchange[e].left

(* The onClose hook: the WAL is checkpointed, busy if the seed holds a     *)
(* lock, then the connection is closed.  A hook whose checkpoint or close  *)
(* failed throws.                                                          *)
Outcome(checkpointed, closed) ==
  CASE checkpointed /\ closed -> "ok"
    [] ~checkpointed /\ closed -> "checkpointError"
    [] checkpointed /\ ~closed -> "closeError"
    [] ~checkpointed /\ ~closed -> "bothErrors"

OnClose ==
  /\ shutdown /\ closing = "open" /\ pc["gateway"] \in {"starting", "serving"}
  /\ Drained
  /\ \E checkpointed, closed \in BOOLEAN :
       /\ closing' = Outcome(checkpointed, closed)
       /\ mainFile' = IF checkpointed THEN rows ELSE mainFile
  /\ UNCHANGED <<schema, applied, rows, pending, pc, boots, shutdown, exitCode, exchange>>

(* The close promise settles: runtime.exit.                                *)
ExitCode(outcome) == IF outcome = "ok" THEN 0 ELSE 1

(* Mutant: a close promise that rejects is not handled.                    *)
ExitAfterCleanClose ==
  /\ closing = "ok" /\ pc["gateway"] \in {"starting", "serving"}
  /\ Gone("gateway", ExitCode(closing))
  /\ UNCHANGED <<database, boots, shutdown, closing>>

ExitAfterClose ==
  /\ closing # "open" /\ pc["gateway"] \in {"starting", "serving"}
  /\ Gone("gateway", ExitCode(closing))
  /\ UNCHANGED <<database, boots, shutdown, closing>>

-----------------------------------------------------------------------------
ExchangeStep(e) ==
  \/ FetchReturns(e) \/ BodyReleased(e) \/ BackoffEnds(e) \/ Abort(e)
  \/ ConnectionGone(e) \/ LogRow(e) \/ ResetUnheard(e)

Next ==
  \/ \E p \in Processes :
       Migrate(p) \/ Migrated(p) \/ Kill(p) \/ \E files \in 0 .. Migrations : Boot(p, files)
  \/ Listen \/ ListenFails
  \/ \E e \in Exchanges : Arrive(e) \/ ExchangeStep(e)
  \/ Signal \/ OnClose \/ ExitAfterClose

(* Timers fire: the upstream timeout aborts whatever does not end by       *)
(* itself, and its client takes the answer or leaves.                      *)
Spec ==
  /\ Init /\ [][Next]_vars
  /\ \A e \in Exchanges : WF_vars(ExchangeStep(e))
  /\ WF_vars(OnClose) /\ WF_vars(ExitAfterClose)

-----------------------------------------------------------------------------
(* Every migration ran at most once, in filename order, and _migrations    *)
(* says exactly which ran: across crashes, restarts, images of different   *)
(* age and a seed that migrates at the same time (db/migrate.ts migrate).  *)
MigrationsRunOnce ==
  /\ schema = [i \in 1 .. Len(schema) |-> i]
  /\ applied = 1 .. Len(schema)

(* A gateway that exits with 0 after a signal left every row it or an      *)
(* earlier life wrote in the main file, and a row there for every exchange *)
(* this life accepted, unless the database refused it while still open or  *)
(* the connection was lost: none was cut off, nor logged too late, by the  *)
(* shutdown (shutdown.ts, db/lifecycle.ts closeDatabaseAfterWalCheckpoint, *)
(* handler.ts logRequest).                                                 *)
ExitZeroIsDurable ==
  closing # "open" /\ pc["gateway"] = "down" /\ exitCode = 0 =>
    /\ rows \subseteq mainFile
    /\ \A e \in Exchanges : exchange[e].life = boots["gateway"] =>
         e \in mainFile \/ exchange[e].at = "refused" \/ exchange[e].left

(* An aborted exchange neither waits nor calls the provider again, and a   *)
(* provider is called at most three times (providers/retry.ts).            *)
AbortEndsRetries ==
  \A e \in Exchanges :
    /\ exchange[e].attempts <= RetryDelays + 1
    /\ exchange[e].aborted => exchange[e].at \notin {"fetching", "backoff"}

(* A signalled gateway goes down, whatever its exchanges were waiting for  *)
(* (shutdown.ts registerSignalShutdown).                                   *)
ShutdownEnds == shutdown ~> pc["gateway"] = "down"
=============================================================================
