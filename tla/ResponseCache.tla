--------------------------- MODULE ResponseCache ---------------------------
(***************************************************************************)
(* The exact-match response cache: cache_entries in SQLite                 *)
(* (pipeline/cache.dao.ts, cache-key.ts), the route that reads and fills   *)
(* it (pipeline/handler.ts) and the hourly sweep (server.ts).              *)
(*                                                                         *)
(* A body stands for all that is hashed.  An answer is known by the call   *)
(* that fetched it; Legacy is a row an earlier run left on disk.  Time is  *)
(* SQLite's datetime('now'), which may advance between two statements.     *)
(***************************************************************************)
EXTENDS Naturals, Sequences, FiniteSets, Functions

CONSTANTS
  Calls,     (* chat completions, each made once                           *)
  Bodies,
  Legacy,
  TTL,       (* CACHE_TTL_HOURS                                            *)
  MaxClock   (* bound on the clock                                         *)

ASSUME CacheConstants ==
  /\ TTL \in Nat \ {0} /\ MaxClock \in Nat
  /\ IsFiniteSet(Calls) /\ Legacy \notin Calls

Requests == [body : Bodies, stream : BOOLEAN, noCache : BOOLEAN]

VARIABLES
  entries, (* the rows, by hash                                            *)
  clock,
  call,    (* a call's progress, and the answer it replayed and when       *)
  writes   (* history: what was stored for each body, in order             *)

vars == <<entries, clock, call, writes>>

NotMade == [phase |-> "not_made"]
Done == [phase |-> "done"]

(* stripPgFields and cacheKeyOf.  Mutant: the transport is hashed too.     *)
CacheKeyWithTransport(req) == <<req.body, req.stream>>

CacheKeyOf(req) == req.body

(* A row of an earlier run: its usage may be null, and it may fail the     *)
(* validation of its JSON or price.                                        *)
LegacyRow(usage, readable, expires) ==
  [answer |-> Legacy, usage |-> usage, readable |-> readable, created |-> 0,
   expires |-> expires, hits |-> 0]

Init ==
  /\ \E held \in SUBSET Bodies, usage, readable \in BOOLEAN, expires \in 1 .. TTL :
       /\ entries = [b \in held |-> LegacyRow(usage, readable, expires)]
       /\ writes = [b \in Bodies |-> IF b \in held THEN <<entries[b]>> ELSE <<>>]
  /\ clock = 0
  /\ call = [c \in Calls |-> NotMade]

-----------------------------------------------------------------------------
(* findAndRecordCacheHit.                                                  *)

(* Mutant of Live: expires_at >= now.                                      *)
LiveToTheEnd(row, now) == row.expires >= now

Live(row, now) == row.expires > now

(* The checks between the SELECT and the UPDATE.                           *)
Usable(row, req) == row.readable /\ (req.stream => row.usage)

(* The SELECT runs now and the UPDATE, which tests the expiry again, then. *)
Claims(req, now, then) ==
  LET hash == CacheKeyOf(req)
  IN /\ hash \in DOMAIN entries
     /\ Live(entries[hash], now) /\ Usable(entries[hash], req)
     /\ Live(entries[hash], then)

Counted(row) == [row EXCEPT !.hits = @ + 1]

Moments == {now \in {clock, clock + 1} : now <= MaxClock}

Start(c, req, then) ==
  /\ call[c] = NotMade
  /\ clock' = then
  /\ UNCHANGED writes

Hit(c, req, then) ==
  /\ Start(c, req, then)
  /\ ~req.noCache /\ Claims(req, clock, then)
  /\ entries' = [entries EXCEPT ![CacheKeyOf(req)] = Counted(@)]
  /\ call' = [call EXCEPT ![c] =
                [phase |-> "replayed", req |-> req, at |-> then,
                 answer |-> entries[CacheKeyOf(req)].answer, seen |-> Len(writes[req.body])]]

Miss(c, req, then) ==
  /\ Start(c, req, then)
  /\ req.noCache \/ ~Claims(req, clock, then)
  /\ req.noCache => then = clock
  /\ call' = [call EXCEPT ![c] = [phase |-> "calling", req |-> req]]
  /\ UNCHANGED entries

-----------------------------------------------------------------------------
(* upsertCacheEntry, for a metered answer.  A stream's answer always has   *)
(* usage.                                                                  *)

NewRow(c, usage) ==
  [answer |-> c, usage |-> usage, readable |-> TRUE, created |-> clock,
   expires |-> clock + TTL, hits |-> 0]

(* Mutant of Replacement: a column the conflict clause forgets.            *)
ReplacementKeepsHits(old, new) == [new EXCEPT !.hits = old.hits]

(* ON CONFLICT(hash) DO UPDATE.                                            *)
Replacement(old, new) == new

Upsert(hash, new) ==
  LET row == IF hash \in DOMAIN entries THEN Replacement(entries[hash], new) ELSE new
  IN entries' = [h \in DOMAIN entries \cup {hash} |-> IF h = hash THEN row ELSE entries[h]]

(* The provider answered: also when the client of a buffered call left.    *)
Store(c, usage) ==
  /\ call[c].phase = "calling" /\ ~call[c].req.noCache
  /\ call[c].req.stream => usage
  /\ Upsert(CacheKeyOf(call[c].req), NewRow(c, usage))
  /\ call' = [call EXCEPT ![c] = Done]
  /\ writes' = [writes EXCEPT ![call[c].req.body] = Append(@, NewRow(c, usage))]
  /\ UNCHANGED clock

(* A failed call, an answer that is not to be cached or cannot be, and an  *)
(* upsert that throws: nothing is stored.                                  *)
EndUncached(c) ==
  /\ call[c].phase = "calling"
  /\ call' = [call EXCEPT ![c] = Done]
  /\ UNCHANGED <<entries, clock, writes>>

-----------------------------------------------------------------------------
(* deleteExpiredCacheEntries, every hour.                                  *)
Sweep ==
  /\ entries' = Restrict(entries, {h \in DOMAIN entries : Live(entries[h], clock)})
  /\ UNCHANGED <<clock, call, writes>>

Tick ==
  /\ clock < MaxClock
  /\ clock' = clock + 1
  /\ UNCHANGED <<entries, call, writes>>

(* A restart loses the calls under way and keeps the rows.                 *)
Restart ==
  /\ call' = [c \in Calls |-> IF call[c].phase = "calling"
                              THEN Done ELSE call[c]]
  /\ UNCHANGED <<entries, clock, writes>>

Next ==
  \/ \E c \in Calls, req \in Requests, then \in Moments : Hit(c, req, then) \/ Miss(c, req, then)
  \/ \E c \in Calls, usage \in BOOLEAN : Store(c, usage)
  \/ \E c \in Calls : EndUncached(c)
  \/ Sweep
  \/ Tick
  \/ Restart

Spec == Init /\ [][Next]_vars

-----------------------------------------------------------------------------
(* Properties.                                                             *)

TypeOK ==
  /\ clock \in 0 .. MaxClock
  /\ DOMAIN entries \subseteq Bodies
  /\ \A b \in DOMAIN entries :
       /\ entries[b].answer \in Calls \cup {Legacy}
       /\ entries[b].usage \in BOOLEAN /\ entries[b].readable \in BOOLEAN
       /\ entries[b].created \in 0 .. clock
       /\ entries[b].expires \in entries[b].created + 1 .. entries[b].created + TTL
       /\ entries[b].hits \in Nat
  /\ \A c \in Calls : call[c].phase \in {"not_made", "calling", "replayed", "done"}

Replayed == {c \in Calls : call[c].phase = "replayed"}

(* A replayed answer is the one stored last for the very body that was     *)
(* asked, and its time had not run out when the hit was counted.           *)
ReplayIsLatestLive ==
  \A c \in Replayed :
    /\ call[c].seen > 0
    /\ LET last == writes[call[c].req.body][call[c].seen]
       IN call[c].answer = last.answer /\ last.readable /\ call[c].at < last.expires

ReplaysOf(b, answer) == {c \in Replayed : call[c].req.body = b /\ call[c].answer = answer}

(* A row has counted exactly the replays of its own answer, also when      *)
(* concurrent misses replaced it while it was being hit.                   *)
HitsAreCounted ==
  \A b \in DOMAIN entries : entries[b].hits = Cardinality(ReplaysOf(b, entries[b].answer))

(* A stream is replayed only with usage that its provider reported, for    *)
(* its last frame states it.                                               *)
StreamedReplayIsMetered ==
  \A c \in Replayed :
    call[c].req.stream => writes[call[c].req.body][call[c].seen].usage

(* The provider is not asked again for what was stored last and may still  *)
(* be replayed, streamed or not, swept or restarted meanwhile.             *)
NoNeedlessCall ==
  [][\A c \in Calls :
       call[c] = NotMade /\ call'[c].phase = "calling" /\ ~call'[c].req.noCache
       /\ writes[call'[c].req.body] # <<>> =>
         LET kept == writes[call'[c].req.body][Len(writes[call'[c].req.body])]
         IN kept.expires <= clock' \/ ~kept.readable \/ (call'[c].req.stream /\ ~kept.usage)]_vars

=============================================================================
