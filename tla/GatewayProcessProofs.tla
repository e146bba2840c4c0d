------------------------ MODULE GatewayProcessProofs ------------------------
(***************************************************************************)
(* What holds of the gateway process for every number of migrations, every *)
(* set of exchanges and any number of boots.                               *)
(*                                                                         *)
(* Three inductive invariants on top of the types.  Migrations: what a     *)
(* process has yet to apply has no gap below it that is not applied, so    *)
(* the next file is either applied already or the next of the schema.      *)
(* Retries: only an exchange with an attempt left releases a body or       *)
(* sleeps.  Shutdown: once the close hook has run nothing arrives, what is *)
(* still in flight has lost its connection, and a closed database takes no *)
(* row, so what was checkpointed stays all there is.                       *)
(***************************************************************************)
EXTENDS GatewayProcess, TLAPS

Places == {"new", "fetching", "releasing", "backoff", "settled", "logged", "refused", "unlogged",
           "lost"}
Running == {"starting", "serving"}
ExchangeRecord == [at : Places, life : Nat, attempts : Nat, aborted : BOOLEAN,
                   left : BOOLEAN]

TypeOK ==
  /\ schema \in Seq(Nat) /\ applied \subseteq Nat
  /\ pending \in [Processes -> SUBSET (1 .. Migrations)]
  /\ pc \in [Processes -> Running \cup {"down", "migrating"}]
  /\ boots \in [Processes -> Nat]
  /\ shutdown \in BOOLEAN
  /\ closing \in {"open", "ok", "checkpointError", "closeError", "bothErrors"}
  /\ exitCode \in Nat
  /\ exchange \in [Exchanges -> ExchangeRecord]
  /\ rows \subseteq Exchanges /\ mainFile \subseteq Exchanges

(* Below a file that is yet to apply, everything is applied or yet to      *)
(* apply.                                                                  *)
PendingHasNoGap ==
  \A p \in Processes : \A m \in pending[p] : \A k \in 1 .. m - 1 :
    k \in applied \cup pending[p]

MigrationsInv == MigrationsRunOnce /\ PendingHasNoGap

(* A body is released, or a delay slept, only while an attempt is left;    *)
(* nothing is aborted before it arrived.                                   *)
RetriesLeft ==
  \A e \in Exchanges :
    /\ exchange[e].at \in {"releasing", "backoff"} => exchange[e].attempts <= RetryDelays
    /\ exchange[e].at = "new" => ~exchange[e].aborted

RetriesInv == AbortEndsRetries /\ RetriesLeft

(* An exchange belongs to a life of the gateway that has begun, and one of *)
(* the present life is in flight, on record, refused by the database, or   *)
(* has lost its connection.                                                *)
LivesInv ==
  /\ pc["gateway"] # "down" => boots["gateway"] > 0
  /\ pc["gateway"] \notin Running => InFlight = {}
  /\ \A e \in Exchanges :
       /\ exchange[e].life <= boots["gateway"]
       /\ exchange[e].at = "new" => exchange[e].life = 0
       /\ exchange[e].at = "logged" => e \in rows
       /\ exchange[e].at = "unlogged" => exchange[e].left
       /\ exchange[e].at = "lost" /\ pc["gateway"] # "down" =>
            exchange[e].life < boots["gateway"]

ClosedInv ==
  closing # "open" /\ pc["gateway"] # "down" =>
    /\ pc["gateway"] \in Running /\ shutdown /\ Drained
    /\ closing = "ok" => rows \subseteq mainFile

ShutdownInv == LivesInv /\ ClosedInv /\ ExitZeroIsDurable

-----------------------------------------------------------------------------
(* An exchange keeps its type, its life and its connection when it moves   *)
(* to another place, and gains neither an attempt nor an abort.            *)
KeepsAll(old, new) ==
  /\ new.life = old.life /\ new.attempts <= old.attempts
  /\ new.aborted => old.aborted
  /\ new.left = old.left

LEMMA ReachesIs ==
  ASSUME NEW record \in ExchangeRecord, NEW place \in Places
  PROVE  /\ Reaches(record, place) \in ExchangeRecord
         /\ Reaches(record, place).at = place
         /\ KeepsAll(record, Reaches(record, place))
         /\ place \in Calling \cup {"settled"} => Reaches(record, place).aborted = record.aborted
<1> DEFINE attempts == IF place \in Calling THEN record.attempts ELSE 0
           aborted == IF place \in Calling \cup {"settled"} THEN record.aborted ELSE FALSE
           new == [record EXCEPT !.at = place, !.attempts = attempts, !.aborted = aborted]
<1>1. Reaches(record, place) = new BY DEF Reaches, ExchangeRecord
<1>2. attempts \in Nat /\ attempts <= record.attempts BY DEF ExchangeRecord
<1>3. /\ aborted \in BOOLEAN /\ aborted => record.aborted
      /\ place \in Calling \cup {"settled"} => aborted = record.aborted
  BY DEF ExchangeRecord
<1> HIDE DEF attempts, aborted
<1>4. new \in ExchangeRecord
  <2>1. CASE aborted = TRUE BY <1>2, <2>1 DEF ExchangeRecord
  <2>2. CASE aborted = FALSE BY <1>2, <2>2 DEF ExchangeRecord
  <2>3. aborted = TRUE \/ aborted = FALSE BY <1>3
  <2> HIDE DEF new
  <2> QED BY <2>1, <2>2, <2>3
<1>5. new.at = place /\ KeepsAll(record, new) BY <1>2, <1>3 DEF KeepsAll, ExchangeRecord
<1>6. place \in Calling \cup {"settled"} => new.aborted = record.aborted
  BY <1>3 DEF ExchangeRecord
<1> QED BY <1>1, <1>4, <1>5, <1>6

LEMMA Moved ==
  ASSUME TypeOK, NEW e \in Exchanges, NEW place \in Places, At(e, place)
  PROVE  /\ exchange' \in [Exchanges -> ExchangeRecord]
         /\ exchange'[e].at = place /\ KeepsAll(exchange[e], exchange'[e])
<1>1. exchange[e] \in ExchangeRecord BY DEF TypeOK
<1>2. exchange'[e] = Reaches(exchange[e], place) BY DEF At, TypeOK
<1>3. exchange'[e] \in ExchangeRecord BY <1>1, <1>2, ReachesIs
<1>4. exchange' = [exchange EXCEPT ![e] = exchange'[e]] BY <1>2 DEF At, TypeOK
<1>5. exchange' \in [Exchanges -> ExchangeRecord] BY <1>3, <1>4 DEF TypeOK
<1>6. exchange'[e].at = place /\ KeepsAll(exchange[e], exchange'[e])
  BY <1>1, <1>2, ReachesIs
<1> QED BY <1>5, <1>6

(* An exchange that is aborted, or loses its connection, keeps its life,   *)
(* gains no attempt, and no longer fetches or sleeps.                      *)
GivesUp(old, new) ==
  /\ new.life = old.life /\ new.attempts <= old.attempts /\ new.aborted
  /\ new.at = IF old.at \in {"fetching", "backoff"} THEN "settled" ELSE old.at
  /\ old.left => new.left

LEMMA GivenUp ==
  ASSUME TypeOK, NEW e \in Exchanges, Abort(e) \/ ConnectionGone(e)
  PROVE  /\ exchange' \in [Exchanges -> ExchangeRecord]
         /\ GivesUp(exchange[e], exchange'[e])
<1> DEFINE aborted == Aborted(exchange[e])
           lost == [aborted EXCEPT !.left = TRUE]
<1>1. exchange[e] \in ExchangeRecord BY DEF TypeOK
<1>2. aborted \in ExchangeRecord /\ GivesUp(exchange[e], aborted)
  <2> DEFINE told == [exchange[e] EXCEPT !.aborted = TRUE]
  <2>1. /\ told \in ExchangeRecord /\ told.aborted
        /\ told.at = exchange[e].at /\ told.life = exchange[e].life
        /\ told.left = exchange[e].left /\ told.attempts = exchange[e].attempts
    BY <1>1 DEF ExchangeRecord
  <2>2. aborted = IF exchange[e].at \in {"fetching", "backoff"}
                  THEN Reaches(told, "settled") ELSE told
    BY DEF Aborted
  <2> HIDE DEF told, aborted
  <2>3. CASE exchange[e].at \in {"fetching", "backoff"}
    <3>1. "settled" \in Places BY DEF Places
    <3>2. /\ aborted \in ExchangeRecord /\ aborted.at = "settled" /\ aborted.aborted
          /\ KeepsAll(told, aborted)
      BY <2>1, <2>2, <2>3, <3>1, ReachesIs
    <3> QED BY <2>1, <2>3, <3>2 DEF GivesUp, KeepsAll
  <2>4. CASE exchange[e].at \notin {"fetching", "backoff"}
    BY <1>1, <2>1, <2>2, <2>4 DEF GivesUp, ExchangeRecord
  <2> QED BY <2>3, <2>4
<1>4. exchange' = [exchange EXCEPT ![e] = aborted] \/ exchange' = [exchange EXCEPT ![e] = lost]
  BY DEF Abort, ConnectionGone
<1> HIDE DEF aborted
<1>5. lost \in ExchangeRecord BY <1>2 DEF ExchangeRecord
<1>6. GivesUp(exchange[e], lost) BY <1>2 DEF ExchangeRecord, GivesUp
<1> HIDE DEF lost
<1> QED BY <1>2, <1>4, <1>5, <1>6 DEF TypeOK

(* An exchange ends, with its row or without.                              *)
LEMMA Ended ==
  ASSUME NEW e \in Exchanges, LogRow(e) \/ ResetUnheard(e)
  PROVE  \E place \in {"logged", "refused", "unlogged"} : At(e, place)
BY DEF LogRow, ResetUnheard

(* What a process leaves behind: no file pending, no exchange in flight.   *)
LEMMA GoneTyped ==
  ASSUME TypeOK, NEW p \in Processes, NEW code \in Nat, Gone(p, code)
  PROVE  /\ pc' \in [Processes -> Running \cup {"down", "migrating"}]
         /\ pending' \in [Processes -> SUBSET (1 .. Migrations)]
         /\ exitCode' \in Nat
         /\ exchange' \in [Exchanges -> ExchangeRecord]
<1>1. /\ pc' \in [Processes -> Running \cup {"down", "migrating"}]
      /\ pending' \in [Processes -> SUBSET (1 .. Migrations)]
  BY DEF TypeOK, Gone
<1>2. CASE p = "gateway"
  <2>1. \A e \in Exchanges : Reaches(exchange[e], "lost") \in ExchangeRecord
    BY ReachesIs DEF TypeOK, Places
  <2>2. exchange' = [e \in Exchanges |->
          IF e \in InFlight THEN Reaches(exchange[e], "lost") ELSE exchange[e]]
    BY <1>2 DEF Gone
  <2>3. exchange' \in [Exchanges -> ExchangeRecord]
    BY <2>1, <2>2 DEF TypeOK
  <2> QED BY <1>1, <1>2, <2>3 DEF Gone
<1>3. CASE p # "gateway" BY <1>1, <1>3 DEF TypeOK, Gone
<1> QED BY <1>2, <1>3

(* The types, of every step.                                               *)
LEMMA TypeInductive == TypeOK /\ [Next]_vars => TypeOK'
<1> SUFFICES ASSUME TypeOK, [Next]_vars PROVE TypeOK'
  OBVIOUS
<1> USE ProcessConstants DEF exchangeOnly, database
<1>1. CASE UNCHANGED vars BY <1>1 DEF TypeOK, vars
<1>2. ASSUME NEW p \in Processes, Migrate(p) PROVE TypeOK'
  <2>1. PICK m \in pending[p] :
          IF m \in applied
          THEN Gone(p, 1) /\ UNCHANGED <<schema, applied>>
          ELSE /\ schema' = Append(schema, m) /\ applied' = applied \cup {m}
               /\ pending' = [pending EXCEPT ![p] = @ \ {m}]
               /\ UNCHANGED <<pc, exitCode, exchange>>
    BY <1>2 DEF Migrate, RowWith
  <2>2. m \in Nat BY DEF TypeOK
  <2>3. CASE m \in applied BY <1>2, <2>1, <2>3, GoneTyped DEF TypeOK, Migrate
  <2>4. CASE m \notin applied
    <3>1. schema' \in Seq(Nat) /\ applied' \subseteq Nat
      <4>1. schema \in Seq(Nat) /\ applied \subseteq Nat BY DEF TypeOK
      <4>2. schema' = Append(schema, m) /\ applied' = applied \cup {m} BY <2>1, <2>4
      <4>3. schema' \in Seq(Nat) BY <2>2, <4>1, <4>2
      <4> QED BY <2>2, <4>1, <4>2, <4>3
    <3>2. pending' \in [Processes -> SUBSET (1 .. Migrations)]
      BY <2>1, <2>4 DEF TypeOK
    <3> QED BY <1>2, <2>1, <2>4, <3>1, <3>2 DEF TypeOK, Migrate
  <2> QED BY <2>3, <2>4
<1>3. ASSUME NEW p \in Processes, Migrated(p) PROVE TypeOK'
  BY <1>3 DEF TypeOK, Migrated, Running
<1>4. ASSUME NEW p \in Processes, Kill(p) PROVE TypeOK'
  BY <1>4, GoneTyped DEF TypeOK, Kill
<1>5. ASSUME NEW p \in Processes, NEW files \in 0 .. Migrations, Boot(p, files) PROVE TypeOK'
  <2>1. Unapplied(files) \subseteq 1 .. Migrations BY DEF Unapplied
  <2>2. boots' \in [Processes -> Nat] BY <1>5 DEF TypeOK, Boot
  <2>3. pending' \in [Processes -> SUBSET (1 .. Migrations)] BY <1>5, <2>1 DEF TypeOK, Boot
  <2> QED BY <1>5, <2>2, <2>3 DEF TypeOK, Boot
<1>6. CASE Listen BY <1>6 DEF TypeOK, Listen, Running, Processes
<1>7. CASE ListenFails BY <1>7, GoneTyped DEF TypeOK, ListenFails, Processes
<1>8. ASSUME NEW e \in Exchanges, Arrive(e) PROVE TypeOK'
  <2>1. boots["gateway"] \in Nat BY DEF TypeOK, Processes
  <2>2. [exchange[e] EXCEPT !.at = "fetching", !.attempts = 1, !.life = boots["gateway"]]
          \in ExchangeRecord
    BY <2>1 DEF TypeOK, Places, ExchangeRecord
  <2>3. exchange' = [exchange EXCEPT ![e] =
          [@ EXCEPT !.at = "fetching", !.attempts = 1, !.life = boots["gateway"]]]
    BY <1>8 DEF Arrive, TypeOK, ExchangeRecord
  <2> QED BY <1>8, <2>2, <2>3 DEF TypeOK, Arrive
<1>9. ASSUME NEW e \in Exchanges, FetchReturns(e) PROVE TypeOK'
  <2>1. At(e, "releasing") \/ At(e, "settled") BY <1>9 DEF FetchReturns
  <2>2. exchange' \in [Exchanges -> ExchangeRecord]
    BY <2>1, Moved DEF Places
  <2> QED BY <1>9, <2>2 DEF TypeOK, FetchReturns
<1>10. ASSUME NEW e \in Exchanges, BodyReleased(e) PROVE TypeOK'
  <2>1. At(e, "settled") \/ At(e, "backoff") BY <1>10 DEF BodyReleased, AfterRelease
  <2>2. exchange' \in [Exchanges -> ExchangeRecord] BY <2>1, Moved DEF Places
  <2> QED BY <1>10, <2>2 DEF TypeOK, BodyReleased
<1>11. ASSUME NEW e \in Exchanges, BackoffEnds(e) PROVE TypeOK'
  <2>1. exchange[e] \in ExchangeRecord BY DEF TypeOK
  <2>2. exchange[e].attempts + 1 \in Nat BY <2>1 DEF ExchangeRecord
  <2> DEFINE next == [exchange[e] EXCEPT !.at = "fetching", !.attempts = exchange[e].attempts + 1]
  <2>3. next \in ExchangeRecord BY <2>1, <2>2 DEF Places, ExchangeRecord
  <2>4. exchange' = [exchange EXCEPT ![e] = next]
    BY <1>11, <2>1 DEF BackoffEnds, TypeOK, ExchangeRecord
  <2> HIDE DEF next
  <2> QED BY <1>11, <2>3, <2>4 DEF TypeOK, BackoffEnds
<1>12. ASSUME NEW e \in Exchanges, Abort(e) \/ ConnectionGone(e) PROVE TypeOK'
  BY <1>12, GivenUp DEF TypeOK, Abort, ConnectionGone
<1>13. ASSUME NEW e \in Exchanges, LogRow(e) \/ ResetUnheard(e) PROVE TypeOK'
  <2>1. exchange' \in [Exchanges -> ExchangeRecord] BY <1>13, Ended, Moved DEF Places
  <2>2. rows' \subseteq Exchanges BY <1>13 DEF TypeOK, LogRow, ResetUnheard
  <2> QED BY <1>13, <2>1, <2>2 DEF TypeOK, LogRow, ResetUnheard
<1>14. CASE Signal BY <1>14 DEF TypeOK, Signal
<1>15. CASE OnClose BY <1>15 DEF TypeOK, OnClose, Outcome
<1>16. CASE ExitAfterClose BY <1>16, GoneTyped DEF TypeOK, ExitAfterClose, ExitCode, Processes
<1> QED
  BY <1>1, <1>2, <1>3, <1>4, <1>5, <1>6, <1>7, <1>8, <1>9, <1>10, <1>11, <1>12, <1>13, <1>14,
     <1>15, <1>16 DEF Next, ExchangeStep

(* In every state each variable has its type (index.ts and the modules it  *)
(* starts).                                                                *)
THEOREM TypeCorrect == Spec => []TypeOK
<1>1. Init => TypeOK
  <2> SUFFICES ASSUME Init PROVE TypeOK OBVIOUS
  <2>1. schema \in Seq(Nat) /\ applied \subseteq Nat BY DEF Init
  <2>2. NewExchange \in ExchangeRecord BY DEF NewExchange, ExchangeRecord, Places
  <2>3. exchange \in [Exchanges -> ExchangeRecord] BY <2>2 DEF Init
  <2>4. pending \in [Processes -> SUBSET (1 .. Migrations)] BY DEF Init
  <2> QED BY <2>1, <2>3, <2>4 DEF Init, TypeOK, Running
<1> QED BY <1>1, TypeInductive, PTL DEF Spec

-----------------------------------------------------------------------------
(* A process that is gone has nothing pending, so leaves no gap.           *)
LEMMA GoneLeavesNoGap ==
  ASSUME TypeOK, PendingHasNoGap, UNCHANGED applied,
         NEW p \in Processes, NEW code, Gone(p, code)
  PROVE  PendingHasNoGap'
BY DEF TypeOK, PendingHasNoGap, Gone

(* A file applied by one process may still be pending in the other.        *)
LEMMA MigrationsInductive ==
  TypeOK /\ MigrationsInv /\ [Next]_vars => MigrationsInv'
<1> SUFFICES ASSUME TypeOK, MigrationsInv, [Next]_vars PROVE MigrationsInv'
  OBVIOUS
<1> USE ProcessConstants DEF exchangeOnly, database, MigrationsInv
<1>1. ASSUME NEW p \in Processes, Migrate(p) PROVE MigrationsInv'
  <2>1. PICK m \in pending[p] :
          /\ \A k \in pending[p] : m <= k
          /\ IF m \in applied
             THEN Gone(p, 1) /\ UNCHANGED <<schema, applied>>
             ELSE /\ schema' = Append(schema, m) /\ applied' = applied \cup {m}
                  /\ pending' = [pending EXCEPT ![p] = @ \ {m}]
    BY <1>1 DEF Migrate, RowWith
  <2>2. m \in Nat \ {0} /\ Len(schema) \in Nat BY DEF TypeOK
  <2>3. CASE m \in applied
    BY <2>1, <2>3, GoneLeavesNoGap DEF MigrationsRunOnce
  <2>4. CASE m \notin applied
    <3>1. m = Len(schema) + 1
      <4>1. \A k \in 1 .. m - 1 : k \in applied
        BY <2>1, <2>2 DEF PendingHasNoGap
      <4> QED BY <2>2, <2>4, <4>1 DEF MigrationsRunOnce
    <3>2. MigrationsRunOnce'
      <4>1. schema \in Seq(Nat) /\ schema' = Append(schema, m)
        BY <2>1, <2>4 DEF TypeOK
      <4>2. Len(schema') = Len(schema) + 1 BY <2>2, <4>1
      <4>3. schema' = [i \in 1 .. Len(schema') |-> i]
        <5>1. \A i \in 1 .. Len(schema') : schema'[i] = i
          BY <2>2, <3>1, <4>1, <4>2 DEF MigrationsRunOnce
        <5>2. schema' \in Seq(Nat) BY <2>2, <4>1
        <5> QED BY <5>1, <5>2
      <4>4. applied' = 1 .. Len(schema')
        <5>1. applied' = (1 .. Len(schema)) \cup {Len(schema) + 1}
          BY <2>1, <2>4, <3>1 DEF MigrationsRunOnce
        <5>2. \A i : i \in applied' <=> i \in 1 .. Len(schema')
          BY <2>2, <4>2, <5>1
        <5> QED BY <5>2
      <4> QED BY <4>3, <4>4 DEF MigrationsRunOnce
    <3>3. PendingHasNoGap'
      BY <2>1, <2>4 DEF PendingHasNoGap, TypeOK
    <3> QED BY <3>2, <3>3
  <2> QED BY <2>3, <2>4
<1>2. ASSUME NEW p \in Processes, NEW files \in 0 .. Migrations, Boot(p, files)
      PROVE  MigrationsInv'
  <2>1. MigrationsRunOnce' BY <1>2 DEF Boot, MigrationsRunOnce
  <2>2. PendingHasNoGap' BY <1>2 DEF Boot, Unapplied, PendingHasNoGap, TypeOK
  <2> QED BY <2>1, <2>2
<1>3. ASSUME UNCHANGED <<schema, applied>>, NEW p \in Processes, NEW code, Gone(p, code)
      PROVE  MigrationsInv'
  BY <1>3, GoneLeavesNoGap DEF MigrationsRunOnce
<1>4. CASE UNCHANGED <<schema, applied, pending>>
  BY <1>4 DEF MigrationsRunOnce, PendingHasNoGap
<1>5. ASSUME NEW p \in Processes, Kill(p) PROVE MigrationsInv'
  BY <1>3, <1>5 DEF Kill
<1>6. CASE ListenFails \/ ExitAfterClose
  BY <1>3, <1>6 DEF ListenFails, ExitAfterClose, Processes
<1>7. ASSUME NEW p \in Processes, Migrated(p) PROVE MigrationsInv'
  BY <1>4, <1>7 DEF Migrated
<1>8. ASSUME NEW e \in Exchanges, Arrive(e) \/ ExchangeStep(e) PROVE MigrationsInv'
  BY <1>4, <1>8 DEF Arrive, ExchangeStep, FetchReturns, BodyReleased, BackoffEnds, Abort,
    ConnectionGone, LogRow, ResetUnheard
<1>9. CASE Listen \/ Signal \/ OnClose \/ UNCHANGED vars
  BY <1>4, <1>9 DEF Listen, Signal, OnClose, vars
<1> QED BY <1>1, <1>2, <1>5, <1>6, <1>7, <1>8, <1>9 DEF Next

(* For any number of migrations, images of any age and any interleaving    *)
(* with the seed's own migration: each file ran at most once, in order,    *)
(* and _migrations says exactly which (db/migrate.ts migrate).             *)
THEOREM EachMigrationRunsOnce == Spec => []MigrationsRunOnce
<1>1. Init => MigrationsInv
  BY DEF Init, MigrationsInv, MigrationsRunOnce, PendingHasNoGap
<1> QED
  BY <1>1, MigrationsInductive, TypeCorrect, PTL DEF Spec, MigrationsInv

-----------------------------------------------------------------------------
(* An exchange e takes a step of its own: the others stay as they were.    *)
LEMMA OthersStay ==
  ASSUME TypeOK, NEW e \in Exchanges, Arrive(e) \/ ExchangeStep(e)
  PROVE  \A o \in Exchanges : o # e => exchange'[o] = exchange[o]
BY DEF TypeOK, Arrive, ExchangeStep, FetchReturns, BodyReleased, BackoffEnds, Abort,
    ConnectionGone, LogRow, ResetUnheard, At

(* Of a process that is gone, every exchange keeps its life and connection *)
(* and gains nothing, and none is in flight if it was the gateway.         *)
LEMMA GoneExchanges ==
  ASSUME TypeOK, NEW p \in Processes, NEW code, Gone(p, code)
  PROVE  /\ \A e \in Exchanges :
              /\ KeepsAll(exchange[e], exchange'[e])
              /\ \/ exchange'[e].at = exchange[e].at
                 \/ exchange'[e].at = "lost" /\ e \in InFlight /\ p = "gateway"
         /\ p = "gateway" => InFlight' = {}
<1>1. CASE p = "gateway"
  <2>1. exchange' = [e \in Exchanges |->
          IF e \in InFlight THEN Reaches(exchange[e], "lost") ELSE exchange[e]]
    BY <1>1 DEF Gone
  <2>2. \A e \in Exchanges : exchange[e] \in ExchangeRecord BY DEF TypeOK
  <2>3. ASSUME NEW e \in Exchanges
        PROVE  /\ KeepsAll(exchange[e], exchange'[e])
               /\ e \in InFlight => exchange'[e].at = "lost"
               /\ e \notin InFlight => exchange'[e] = exchange[e]
    <3>1. CASE e \in InFlight
      <4>1. exchange'[e] = Reaches(exchange[e], "lost") BY <2>1, <3>1
      <4> QED BY <2>2, <3>1, <4>1, ReachesIs DEF Places
    <3>2. CASE e \notin InFlight BY <2>1, <2>2, <3>2 DEF KeepsAll, ExchangeRecord
    <3> QED BY <3>1, <3>2
  <2>4. InFlight' = {} BY <2>3 DEF InFlight, Calling
  <2> QED BY <1>1, <2>3, <2>4
<1>2. CASE p # "gateway" BY <1>2 DEF Gone, KeepsAll, TypeOK, ExchangeRecord
<1> QED BY <1>1, <1>2

(* A provider is called again only while a delay is left.                  *)
LEMMA RetriesInductive == TypeOK /\ RetriesInv /\ [Next]_vars => RetriesInv'
<1> SUFFICES ASSUME TypeOK, RetriesInv, [Next]_vars PROVE RetriesInv'
  OBVIOUS
<1> USE DEF RetriesInv
<1>1. CASE UNCHANGED exchange BY <1>1 DEF AbortEndsRetries, RetriesLeft, RetryDelays
<1>2. ASSUME NEW p \in Processes, NEW code \in Nat, Gone(p, code) PROVE RetriesInv'
  <2>1. \A e \in Exchanges :
          /\ exchange[e] \in ExchangeRecord /\ exchange'[e] \in ExchangeRecord
          /\ KeepsAll(exchange[e], exchange'[e])
          /\ exchange'[e].at = exchange[e].at \/ exchange'[e].at = "lost"
    BY <1>2, GoneExchanges, GoneTyped DEF TypeOK
  <2> QED
    BY <2>1 DEF AbortEndsRetries, RetriesLeft, RetryDelays, KeepsAll, ExchangeRecord
<1>3. ASSUME NEW e \in Exchanges, Arrive(e) \/ ExchangeStep(e) PROVE RetriesInv'
  <2>1. exchange[e] \in ExchangeRecord BY DEF TypeOK
  <2>2. \A o \in Exchanges : o # e => exchange'[o] = exchange[o] BY <1>3, OthersStay
  <2>3. /\ exchange'[e].attempts <= RetryDelays + 1
        /\ exchange'[e].aborted => exchange'[e].at \notin {"fetching", "backoff"}
        /\ exchange'[e].at \in {"releasing", "backoff"} => exchange'[e].attempts <= RetryDelays
        /\ exchange'[e].at # "new"
    <3>1. CASE Arrive(e)
      BY <2>1, <3>1 DEF TypeOK, Arrive, ExchangeRecord, RetriesLeft, RetryDelays
    <3>2. CASE FetchReturns(e)
      <4>1. exchange[e].attempts \in Nat /\ exchange[e].attempts <= 3 /\ ~exchange[e].aborted
        BY <2>1, <3>2 DEF FetchReturns, ExchangeRecord, AbortEndsRetries, RetryDelays
      <4>2. \/ ~IsLastAttempt(e) /\ At(e, "releasing")
            \/ At(e, "settled")
        BY <3>2 DEF FetchReturns
      <4>3. /\ KeepsAll(exchange[e], exchange'[e])
            /\ \/ ~IsLastAttempt(e) /\ exchange'[e].at = "releasing"
               \/ exchange'[e].at = "settled"
            /\ exchange'[e] \in ExchangeRecord
        BY <4>2, Moved DEF Places
      <4> QED BY <4>1, <4>3 DEF IsLastAttempt, RetryDelays, KeepsAll, ExchangeRecord
    <3>3. CASE BodyReleased(e)
      <4>1. /\ exchange[e].attempts \in Nat /\ exchange[e].attempts <= 2
            /\ At(e, AfterRelease(e)) /\ AfterRelease(e) \in Places
        BY <2>1, <3>3 DEF BodyReleased, AfterRelease, ExchangeRecord, RetriesLeft, RetryDelays,
          Places
      <4>2. /\ exchange'[e] \in ExchangeRecord /\ KeepsAll(exchange[e], exchange'[e])
            /\ exchange'[e].at = AfterRelease(e)
        BY <4>1, Moved
      <4> QED BY <4>1, <4>2 DEF AfterRelease, RetryDelays, KeepsAll, ExchangeRecord
    <3>4. CASE BackoffEnds(e)
      BY <2>1, <3>4 DEF TypeOK, BackoffEnds, ExchangeRecord, AbortEndsRetries, RetriesLeft,
        RetryDelays
    <3>5. CASE Abort(e) \/ ConnectionGone(e)
      <4>1. GivesUp(exchange[e], exchange'[e]) BY <3>5, GivenUp
      <4>2. exchange[e].at # "new" BY <3>5 DEF Abort, ConnectionGone, InFlight, Calling
      <4>3. exchange'[e] \in ExchangeRecord BY <3>5, GivenUp
      <4> QED
        BY <2>1, <4>1, <4>2, <4>3 DEF GivesUp, AbortEndsRetries, RetriesLeft, RetryDelays,
          ExchangeRecord
    <3>6. CASE LogRow(e) \/ ResetUnheard(e)
      <4>1. /\ exchange'[e].at \in {"logged", "refused", "unlogged"}
            /\ KeepsAll(exchange[e], exchange'[e]) /\ exchange'[e] \in ExchangeRecord
        BY <3>6, Ended, Moved DEF Places
      <4> QED BY <2>1, <4>1 DEF KeepsAll, AbortEndsRetries, RetryDelays, ExchangeRecord
    <3> QED BY <1>3, <3>1, <3>2, <3>3, <3>4, <3>5, <3>6 DEF ExchangeStep
  <2> QED BY <2>2, <2>3 DEF AbortEndsRetries, RetriesLeft
<1>4. ASSUME NEW p \in Processes, Migrate(p) PROVE RetriesInv'
  BY <1>1, <1>2, <1>4 DEF Migrate
<1>5. ASSUME NEW p \in Processes,
             Migrated(p) \/ Kill(p) \/ \E files \in 0 .. Migrations : Boot(p, files)
      PROVE  RetriesInv'
  BY <1>1, <1>2, <1>5 DEF Migrated, Kill, Boot
<1>6. CASE ListenFails \/ ExitAfterClose
  BY <1>2, <1>6 DEF ListenFails, ExitAfterClose, ExitCode, Processes
<1>7. CASE Listen \/ Signal \/ OnClose \/ UNCHANGED vars
  BY <1>1, <1>7 DEF Listen, Signal, OnClose, vars
<1> QED BY <1>3, <1>4, <1>5, <1>6, <1>7 DEF Next

(* Whatever the provider answers and whenever the caller gives up: at most *)
(* three calls, and neither a wait nor a call after the abort              *)
(* (providers/retry.ts fetchWithRetry, sleep).                             *)
THEOREM AbortedRetriesEnd == Spec => []AbortEndsRetries
<1>1. Init => RetriesInv
  BY DEF Init, RetriesInv, AbortEndsRetries, RetriesLeft, NewExchange, RetryDelays
<1> QED BY <1>1, RetriesInductive, TypeCorrect, PTL DEF Spec, RetriesInv

-----------------------------------------------------------------------------
(* Steps that leave the exchanges, the boots and the rows alone, and bring *)
(* no process down or up.                                                  *)
LEMMA LivesUndisturbed ==
  ASSUME TypeOK, LivesInv, exchange' = exchange, boots' = boots, rows' = rows,
         \/ pc'["gateway"] = pc["gateway"]
         \/ pc["gateway"] # "down" /\ pc'["gateway"] \in Running
  PROVE  LivesInv'
<1>1. InFlight' = InFlight BY DEF InFlight, Calling
<1> QED BY <1>1 DEF LivesInv, Running

(* A step of an exchange in flight.                                        *)
LEMMA LivesOfStep ==
  ASSUME TypeOK, LivesInv, ClosedInv, NEW e \in Exchanges, Arrive(e) \/ ExchangeStep(e)
  PROVE  LivesInv'
<1>1. exchange[e] \in ExchangeRecord /\ boots["gateway"] \in Nat BY DEF TypeOK, Processes
<1>2. \A o \in Exchanges : o # e => exchange'[o] = exchange[o] BY OthersStay
<1>3. pc' = pc /\ boots' = boots /\ rows \subseteq rows'
  BY DEF Arrive, ExchangeStep, FetchReturns, BodyReleased, BackoffEnds, Abort,
    ConnectionGone, LogRow, ResetUnheard, exchangeOnly,
    database
<1>4. pc["gateway"] \in Running
  BY DEF Arrive, ExchangeStep, FetchReturns, BodyReleased, BackoffEnds, Abort,
    ConnectionGone, LogRow, ResetUnheard, LivesInv,
    InFlight, Calling, Running
<1>5. /\ exchange'[e].life <= boots["gateway"]
      /\ exchange'[e].at \notin {"new", "lost"}
      /\ exchange'[e].at = "logged" => e \in rows'
      /\ exchange'[e].at = "unlogged" => exchange'[e].left
  <2>1. CASE Arrive(e)
    <3>1. exchange'[e] = [exchange[e] EXCEPT !.at = "fetching", !.attempts = 1,
                                             !.life = boots["gateway"]]
      BY <1>1, <2>1 DEF Arrive, TypeOK, ExchangeRecord
    <3> QED BY <1>1, <3>1 DEF ExchangeRecord
  <2>2. CASE FetchReturns(e)
    <3>1. At(e, "releasing") \/ At(e, "settled") BY <2>2 DEF FetchReturns
    <3>2. /\ KeepsAll(exchange[e], exchange'[e])
          /\ exchange'[e].at \in {"releasing", "settled"}
      BY <3>1, Moved DEF Places
    <3> QED BY <3>2 DEF LivesInv, KeepsAll
  <2>3. CASE BodyReleased(e)
    <3>1. At(e, "settled") \/ At(e, "backoff") BY <2>3 DEF BodyReleased, AfterRelease
    <3>2. /\ KeepsAll(exchange[e], exchange'[e])
          /\ exchange'[e].at \in {"settled", "backoff"}
      BY <3>1, Moved DEF Places
    <3> QED BY <3>2 DEF LivesInv, KeepsAll
  <2>4. CASE BackoffEnds(e) BY <1>1, <2>4 DEF TypeOK, BackoffEnds, ExchangeRecord, LivesInv
  <2>5. CASE Abort(e) \/ ConnectionGone(e)
    <3>1. GivesUp(exchange[e], exchange'[e]) BY <2>5, GivenUp
    <3>2. exchange[e].at \in {"fetching", "releasing", "backoff", "settled"}
      BY <2>5 DEF Abort, ConnectionGone, InFlight, Calling
    <3> QED BY <3>1, <3>2 DEF GivesUp, LivesInv
  <2>6. CASE LogRow(e)
    <3>1. \/ At(e, "logged") /\ e \in rows'
          \/ At(e, "refused")
          \/ At(e, "unlogged") /\ ~DatabaseOpen
      BY <2>6 DEF LogRow
    <3>2. ~DatabaseOpen => exchange[e].left
      BY <1>4, <2>6 DEF DatabaseOpen, ClosedInv, Drained, LogRow, InFlight, Calling, Running
    <3>3. /\ KeepsAll(exchange[e], exchange'[e])
          /\ \/ exchange'[e].at = "logged" /\ e \in rows'
             \/ exchange'[e].at = "refused"
             \/ exchange'[e].at = "unlogged" /\ exchange[e].left
      BY <3>1, <3>2, Moved DEF Places
    <3> QED BY <3>3 DEF KeepsAll, LivesInv
  <2>7. CASE ResetUnheard(e)
    <3>1. exchange'[e].at = "unlogged" /\ KeepsAll(exchange[e], exchange'[e])
      BY <2>7, Moved DEF ResetUnheard, Places
    <3> QED BY <2>7, <3>1 DEF ResetUnheard, KeepsAll, LivesInv
  <2> QED BY <2>1, <2>2, <2>3, <2>4, <2>5, <2>6, <2>7 DEF ExchangeStep
<1> QED BY <1>2, <1>3, <1>4, <1>5 DEF LivesInv, Running

(* The gateway or the seed goes down.                                      *)
LEMMA LivesOfGone ==
  ASSUME TypeOK, LivesInv, UNCHANGED <<boots, rows>>,
         NEW p \in Processes, NEW code, Gone(p, code)
  PROVE  LivesInv'
<1>1. CASE p = "gateway"
  <2>1. pc'["gateway"] = "down" BY <1>1 DEF Gone, TypeOK
  <2>2. InFlight' = {} BY <1>1, GoneExchanges
  <2>3. ASSUME NEW e \in Exchanges
        PROVE  /\ exchange'[e].life <= boots'["gateway"]
               /\ exchange'[e].at = "new" => exchange'[e].life = 0
               /\ exchange'[e].at = "logged" => e \in rows'
               /\ exchange'[e].at = "unlogged" => exchange'[e].left
    BY GoneExchanges DEF LivesInv, KeepsAll
  <2> QED BY <2>1, <2>2, <2>3 DEF LivesInv, Running
<1>2. CASE p # "gateway"
  <2>1. pc'["gateway"] = pc["gateway"] /\ exchange' = exchange BY <1>2 DEF Gone, TypeOK, Processes
  <2> QED BY <2>1, LivesUndisturbed
<1> QED BY <1>1, <1>2

(* An exchange of this life is in flight, or has ended in this life.       *)
LEMMA LivesInductive == TypeOK /\ LivesInv /\ ClosedInv /\ [Next]_vars => LivesInv'
<1> SUFFICES ASSUME TypeOK, LivesInv, ClosedInv, [Next]_vars PROVE LivesInv'
  OBVIOUS
<1>1. ASSUME NEW e \in Exchanges, Arrive(e) \/ ExchangeStep(e) PROVE LivesInv'
  BY <1>1, LivesOfStep
<1>2. ASSUME NEW p \in Processes, Migrate(p) PROVE LivesInv'
  <2>1. CASE UNCHANGED <<pc, exchange>>
    BY <1>2, <2>1, LivesUndisturbed DEF Migrate
  <2>2. CASE Gone(p, 1) BY <1>2, <2>2, LivesOfGone DEF Migrate
  <2> QED BY <1>2, <2>1, <2>2 DEF Migrate
<1>3. ASSUME NEW p \in Processes, Migrated(p) PROVE LivesInv'
  <2>1. \/ pc'["gateway"] = pc["gateway"]
        \/ pc["gateway"] # "down" /\ pc'["gateway"] \in Running
    <3>1. CASE p = "gateway" BY <1>3, <3>1 DEF Migrated, TypeOK, Running
    <3>2. CASE p # "gateway"
      <4>1. pc' = [pc EXCEPT ![p] = "down"] BY <1>3, <3>2 DEF Migrated
      <4> QED BY <3>2, <4>1 DEF TypeOK, Processes
    <3> QED BY <3>1, <3>2
  <2> QED BY <1>3, <2>1, LivesUndisturbed DEF Migrated, database
<1>4. ASSUME NEW p \in Processes, Kill(p) PROVE LivesInv'
  BY <1>4, LivesOfGone DEF Kill, database
<1>5. ASSUME NEW p \in Processes, NEW files \in 0 .. Migrations, Boot(p, files) PROVE LivesInv'
  <2>1. CASE p = "gateway"
    <3>1. /\ pc["gateway"] = "down" /\ pc'["gateway"] = "migrating"
          /\ boots["gateway"] \in Nat /\ boots'["gateway"] = boots["gateway"] + 1
          /\ exchange' = exchange /\ rows' = rows
      BY <1>5, <2>1 DEF Boot, TypeOK, database
    <3>2. InFlight' = {} BY <3>1 DEF LivesInv, InFlight, Calling, Running
    <3>3. \A e \in Exchanges : exchange[e].life \in Nat BY DEF TypeOK, ExchangeRecord
    <3> QED BY <3>1, <3>2, <3>3 DEF LivesInv, Running
  <2>2. CASE p # "gateway"
    <3>1. /\ pc'["gateway"] = pc["gateway"] /\ boots'["gateway"] = boots["gateway"]
          /\ exchange' = exchange /\ rows' = rows
      BY <1>5, <2>2 DEF Boot, TypeOK, Processes, database
    <3>2. InFlight' = InFlight BY <3>1 DEF InFlight, Calling
    <3> QED BY <3>1, <3>2 DEF LivesInv
  <2> QED BY <2>1, <2>2
<1>6. CASE ListenFails \/ ExitAfterClose
  BY <1>6, LivesOfGone DEF ListenFails, ExitAfterClose, Processes, database
<1>7. CASE Listen
  BY <1>7, LivesUndisturbed DEF Listen, TypeOK, Processes, Running, database
<1>8. CASE Signal \/ OnClose \/ UNCHANGED vars
  BY <1>8, LivesUndisturbed DEF Signal, OnClose, vars, database
<1> QED BY <1>1, <1>2, <1>3, <1>4, <1>5, <1>6, <1>7, <1>8 DEF Next

-----------------------------------------------------------------------------
(* Once the close hook has run, only exchanges without a connection are in *)
(* flight and none arrives; a close that succeeded lets none of them       *)
(* insert, so the rows it checkpointed are all there will be.              *)

(* Of a step that neither exits with 0 nor moves the shutdown.             *)
LEMMA ClosedUndisturbed ==
  ASSUME TypeOK, ClosedInv, ExitZeroIsDurable,
         closing' = closing, shutdown' = shutdown, exchange' = exchange,
         boots'["gateway"] = boots["gateway"], rows' = rows, mainFile' = mainFile,
         exitCode' = exitCode,
         \/ pc'["gateway"] = pc["gateway"]
         \/ pc["gateway"] # "down" /\ pc'["gateway"] \in Running
  PROVE  ClosedInv' /\ ExitZeroIsDurable'
<1>1. Drained' = Drained BY DEF InFlight, Calling, Drained
<1> QED BY <1>1 DEF ClosedInv, ExitZeroIsDurable, Running

(* Of a process that goes down with another code, or of the seed.          *)
LEMMA ClosedOfGone ==
  ASSUME TypeOK, ClosedInv, ExitZeroIsDurable,
         UNCHANGED <<closing, shutdown, boots, rows, mainFile>>,
         NEW p \in Processes, NEW code \in Nat, code # 0 \/ p # "gateway", Gone(p, code)
  PROVE  ClosedInv' /\ ExitZeroIsDurable'
<1>1. CASE p = "gateway"
  <2>1. pc'["gateway"] = "down" /\ exitCode' = code BY <1>1 DEF Gone, TypeOK
  <2> QED BY <1>1, <2>1 DEF ClosedInv, ExitZeroIsDurable
<1>2. CASE p # "gateway"
  <2>1. /\ pc'["gateway"] = pc["gateway"]
        /\ exchange' = exchange /\ exitCode' = exitCode
    BY <1>2 DEF Gone, TypeOK, Processes
  <2> QED BY <2>1, ClosedUndisturbed
<1> QED BY <1>1, <1>2

LEMMA ClosedInductive ==
  TypeOK /\ ShutdownInv /\ [Next]_vars => ClosedInv' /\ ExitZeroIsDurable'
<1> SUFFICES ASSUME TypeOK, ShutdownInv, [Next]_vars
             PROVE  ClosedInv' /\ ExitZeroIsDurable'
  OBVIOUS
<1> USE DEF ShutdownInv, database, exchangeOnly
<1>1. ASSUME NEW e \in Exchanges, Arrive(e) \/ ExchangeStep(e)
      PROVE  ClosedInv' /\ ExitZeroIsDurable'
  <2>1. pc["gateway"] \in Running
    BY <1>1 DEF Arrive, ExchangeStep, FetchReturns, BodyReleased, BackoffEnds, Abort,
      ConnectionGone, LogRow, ResetUnheard, LivesInv, InFlight, Calling, Running
  <2>2. /\ UNCHANGED <<closing, pc, shutdown, mainFile>>
        /\ rows' = rows \/ DatabaseOpen
    BY <1>1 DEF Arrive, ExchangeStep, FetchReturns, BodyReleased, BackoffEnds, Abort,
      ConnectionGone, LogRow, ResetUnheard
  <2>3. ExitZeroIsDurable' BY <2>1, <2>2 DEF ExitZeroIsDurable, Running
  <2>4. ASSUME closing # "open" PROVE Drained'
    <3>1. shutdown /\ Drained BY <2>1, <2>4 DEF ClosedInv, Running
    <3>2. ~Arrive(e) BY <3>1 DEF Arrive
    <3>3. e \in InFlight /\ exchange[e].left
      BY <1>1, <3>1, <3>2 DEF ExchangeStep, FetchReturns, BodyReleased, BackoffEnds, Abort,
        ConnectionGone, LogRow, ResetUnheard, InFlight, Calling, Drained
    <3>4. exchange'[e].left
      <4>1. CASE Abort(e) \/ ConnectionGone(e) BY <3>3, <4>1, GivenUp DEF GivesUp
      <4>2. CASE LogRow(e) \/ ResetUnheard(e)
        BY <3>3, <4>2, Ended, Moved DEF Places, KeepsAll
      <4>3. CASE FetchReturns(e) \/ BodyReleased(e)
        <5>1. \E place \in {"settled", "releasing", "backoff"} : At(e, place)
          BY <4>3 DEF FetchReturns, BodyReleased, AfterRelease
        <5> QED BY <3>3, <5>1, Moved DEF Places, KeepsAll
      <4>4. CASE BackoffEnds(e)
        <5>1. exchange[e] \in ExchangeRecord BY DEF TypeOK
        <5> QED BY <3>3, <4>4, <5>1 DEF BackoffEnds, TypeOK, ExchangeRecord
      <4> QED BY <1>1, <3>2, <4>1, <4>2, <4>3, <4>4 DEF ExchangeStep
    <3> QED BY <1>1, <3>1, <3>4, OthersStay DEF Drained, InFlight, Calling
  <2>5. ClosedInv' BY <2>1, <2>2, <2>4 DEF ClosedInv, DatabaseOpen, Running
  <2> QED BY <2>3, <2>5
<1>2. ASSUME NEW p \in Processes, Migrate(p) PROVE ClosedInv' /\ ExitZeroIsDurable'
  <2>1. CASE UNCHANGED <<pc, exitCode, exchange>>
    BY <1>2, <2>1, ClosedUndisturbed DEF Migrate
  <2>2. CASE Gone(p, 1) BY <1>2, <2>2, ClosedOfGone DEF Migrate
  <2> QED BY <1>2, <2>1, <2>2 DEF Migrate
<1>3. ASSUME NEW p \in Processes, Migrated(p) PROVE ClosedInv' /\ ExitZeroIsDurable'
  <2>1. CASE p = "gateway"
    BY <1>3, <2>1, ClosedUndisturbed DEF Migrated, TypeOK, Running
  <2>2. CASE p # "gateway"
    <3>1. pc' = [pc EXCEPT ![p] = "down"] BY <1>3, <2>2 DEF Migrated
    <3>2. pc'["gateway"] = pc["gateway"] BY <2>2, <3>1 DEF TypeOK, Processes
    <3> QED BY <1>3, <3>2, ClosedUndisturbed DEF Migrated
  <2> QED BY <2>1, <2>2
<1>4. ASSUME NEW p \in Processes, Kill(p) PROVE ClosedInv' /\ ExitZeroIsDurable'
  BY <1>4, ClosedOfGone DEF Kill
<1>5. ASSUME NEW p \in Processes, NEW files \in 0 .. Migrations, Boot(p, files)
      PROVE  ClosedInv' /\ ExitZeroIsDurable'
  <2>1. CASE p = "gateway"
    BY <1>5, <2>1 DEF Boot, ClosedInv, ExitZeroIsDurable
  <2>2. CASE p # "gateway"
    <3>1. pc'["gateway"] = pc["gateway"] /\ boots'["gateway"] = boots["gateway"]
      BY <1>5, <2>2 DEF Boot, TypeOK, Processes
    <3> QED BY <1>5, <2>2, <3>1, ClosedUndisturbed DEF Boot
  <2> QED BY <2>1, <2>2
<1>6. CASE ListenFails
  BY <1>6, ClosedOfGone DEF ListenFails, Processes
<1>7. CASE Listen
  BY <1>7, ClosedUndisturbed DEF Listen, TypeOK, Processes, Running
<1>8. CASE Signal
  BY <1>8 DEF Signal, ClosedInv, ExitZeroIsDurable, Drained, InFlight, Calling, Running
<1>9. CASE OnClose
  <2>1. pc' = pc /\ pc["gateway"] \in Running /\ shutdown' = shutdown /\ shutdown
    BY <1>9 DEF OnClose, Running
  <2>2. Drained' BY <1>9 DEF OnClose, Drained, InFlight, Calling
  <2>3. closing' = "ok" => rows' \subseteq mainFile'
    BY <1>9 DEF OnClose, Outcome
  <2> QED BY <2>1, <2>2, <2>3 DEF ClosedInv, ExitZeroIsDurable, Running
<1>10. CASE ExitAfterClose
  <2>1. CASE closing = "ok"
    <3>1. /\ rows \subseteq mainFile /\ Drained
          /\ pc["gateway"] \in Running
      BY <1>10, <2>1 DEF ExitAfterClose, ClosedInv, Running
    <3>2. pc'["gateway"] = "down" /\ Gone("gateway", 0)
      BY <1>10, <2>1, <3>1 DEF ExitAfterClose, Gone, TypeOK, Processes, ExitCode
    <3>3. ASSUME NEW e \in Exchanges, exchange'[e].life = boots["gateway"]
          PROVE  e \in rows \/ exchange'[e].at = "refused" \/ exchange'[e].left
      <4>1. /\ KeepsAll(exchange[e], exchange'[e])
            /\ exchange'[e].at = exchange[e].at \/ e \in InFlight
        BY <3>2, GoneExchanges DEF Processes
      <4>2. CASE e \in InFlight BY <3>1, <4>1, <4>2 DEF Drained, KeepsAll
      <4>3. CASE e \notin InFlight
        <5>1. exchange[e].at \in Places BY DEF TypeOK, ExchangeRecord
        <5>2. exchange[e].at \notin {"fetching", "releasing", "backoff", "settled"}
          BY <4>3 DEF InFlight, Calling
        <5>3. exchange[e].life = boots["gateway"] /\ boots["gateway"] > 0
          BY <3>1, <3>3, <4>1 DEF KeepsAll, LivesInv, Running
        <5>4. exchange[e].at \notin {"new", "lost"}
          <6>1. boots["gateway"] \in Nat BY DEF TypeOK, Processes
          <6> QED BY <3>1, <5>3, <6>1 DEF LivesInv, Running
        <5> QED BY <4>1, <4>3, <5>1, <5>2, <5>4 DEF LivesInv, Places, KeepsAll
      <4> QED BY <4>2, <4>3
    <3> QED BY <1>10, <3>1, <3>2, <3>3 DEF ExitAfterClose, ClosedInv, ExitZeroIsDurable
  <2>2. CASE closing # "ok"
    BY <1>10, <2>2, ClosedOfGone DEF ExitAfterClose, ExitCode, Processes
  <2> QED BY <2>1, <2>2
<1>11. CASE UNCHANGED vars
  BY <1>11, ClosedUndisturbed DEF vars
<1> QED BY <1>1, <1>2, <1>3, <1>4, <1>5, <1>6, <1>7, <1>8, <1>9, <1>10, <1>11 DEF Next

(* Whatever the exchanges, lost connections, refused inserts, signals,     *)
(* failing closes and kills: when the gateway exits with 0, every row ever *)
(* written is in the main file, and so is one for each exchange of that    *)
(* life which kept its connection and whose insert the open database did   *)
(* not refuse (shutdown.ts, db/lifecycle.ts, handler.ts logRequest).       *)
THEOREM CleanExitIsDurable == Spec => []ExitZeroIsDurable
<1>1. Init => ShutdownInv
  BY DEF Init, ShutdownInv, LivesInv, ClosedInv, ExitZeroIsDurable, InFlight, Calling, NewExchange,
    Processes, Running
<1>2. TypeOK /\ ShutdownInv /\ [Next]_vars => ShutdownInv'
  BY LivesInductive, ClosedInductive DEF ShutdownInv
<1> QED BY <1>1, <1>2, TypeCorrect, PTL DEF Spec, ShutdownInv
=============================================================================
