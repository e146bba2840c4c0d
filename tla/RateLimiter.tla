---------------------------- MODULE RateLimiter -----------------------------
(***************************************************************************)
(* The per-key token bucket of packages/gateway (pipeline/ratelimit.ts) as *)
(* the chat route's onRequest hook drives it: the auth hook has just read  *)
(* the key's rate_limit_rpm from SQLite, in the same JavaScript turn, and  *)
(* the administrator may change it between any two requests.               *)
(*                                                                         *)
(* Time is counted in ticks, Second of them in a second, and tokens in     *)
(* units of 1/Token of a token, so that a bucket earns exactly rpm units   *)
(* per tick and every amount is an integer.  The code computes in floating *)
(* point.  Its noise shows only where the integers meet a boundary: at a   *)
(* whole token the code forgives 1e-12, far more than a few hundred        *)
(* refills add up to, so admission is exact here; at a whole second of     *)
(* Retry-After it forgives nothing, so the second is a choice.             *)
(***************************************************************************)
EXTENDS Integers

CONSTANTS
  Keys,     (* API keys                                                    *)
  Rates,    (* values of api_keys.rate_limit_rpm an administrator may set  *)
  Second,   (* ticks of the monotonic clock in one second                  *)
  MaxClock  (* bound: ticks a run of the process lasts                     *)

ASSUME RateConstants ==
  /\ Rates \subseteq Nat \ {0}
  /\ Second \in Nat \ {0}
  /\ MaxClock \in Nat

VARIABLES
  rpm,      (* api_keys.rate_limit_rpm                                     *)
  clock,    (* performance.now()                                           *)
  bucket,   (* RateLimiter.buckets: present, TokenBucket.rpm, tokens and   *)
            (* lastRefillAtMs                                              *)
  promise,  (* history: the tick a refused caller was told to come back at *)
  balance   (* history: units the key's rates have granted since its first *)
            (* take, its first burst included, less what admissions cost   *)

limiterVars == <<rpm, clock, bucket, promise, balance>>

(* One token: what a bucket of rpm 1 earns in a minute.                    *)
Token == 60 * Second

Capacity(rate) == rate * Token

NoBucket == [present |-> FALSE, rpm |-> 0, tokens |-> 0, last |-> 0]

NoPromise == -1

LimiterTypes ==
  /\ rpm \in [Keys -> Rates]
  /\ clock \in Nat
  /\ bucket \in [Keys -> [present : BOOLEAN, rpm : Nat, tokens : Nat, last : Nat]]
  /\ promise \in [Keys -> Nat \cup {NoPromise}]
  /\ balance \in [Keys -> Int]

LimiterInit ==
  /\ rpm \in [Keys -> Rates]
  /\ clock = 0
  /\ bucket = [k \in Keys |-> NoBucket]
  /\ promise = [k \in Keys |-> NoPromise]
  /\ balance = [k \in Keys |-> 0]

-----------------------------------------------------------------------------
(* TokenBucket.                                                            *)

AtMost(a, limit) == IF a <= limit THEN a ELSE limit
AtLeast(a, limit) == IF a >= limit THEN a ELSE limit

Bucket(rate, tokens, now) ==
  [present |-> TRUE, rpm |-> rate, tokens |-> tokens, last |-> now]

NewBucket(rate, now) == Bucket(rate, Capacity(rate), now)

(* What a bucket earns until now, at the rate it still has.                *)
Grant(b, now) == (AtLeast(now, b.last) - b.last) * b.rpm

Refill(b, now) ==
  Bucket(b.rpm, AtMost(b.tokens + Grant(b, now), Capacity(b.rpm)), AtLeast(now, b.last))

(* Mutant of Reconfigure: a changed rate starts a fresh, full bucket.      *)
ReconfigureFull(b, rate, now) == IF rate = b.rpm THEN Refill(b, now) ELSE NewBucket(rate, now)

(* The elapsed time is paid at the old rate, then the credit is clamped to *)
(* the new capacity.                                                       *)
Reconfigure(b, rate, now) ==
  LET r == Refill(b, now)
  IN Bucket(rate, AtMost(r.tokens, Capacity(rate)), r.last)

(* The bucket of RateLimiter.take after its reconfigure or creation.       *)
Current(k) ==
  IF bucket[k].present THEN Reconfigure(bucket[k], rpm[k], clock) ELSE NewBucket(rpm[k], clock)

RoundedUp(amount, unit) == (amount + unit - 1) \div unit

(* Mutants of RetryAfterSeconds: rounded down; a whole token's time, as if *)
(* the bucket had no credit yet.                                           *)
RetryAfterFloor(deficit, rate) == {AtLeast(deficit \div (rate * Second), 1)}
RetryAfterFullToken(deficit, rate) == {AtLeast(RoundedUp(Token, rate * Second), 1)}

(* Whole seconds until one token is complete, at least one.  Where the     *)
(* deficit is exactly a number of them, a credit that was accumulated in   *)
(* floating point may be a trace too small, and rounds up to the next one. *)
RetryAfterSeconds(deficit, rate) ==
  LET exact == AtLeast(RoundedUp(deficit, rate * Second), 1)
  IN IF deficit < Token /\ deficit % (rate * Second) = 0 THEN {exact, exact + 1} ELSE {exact}

-----------------------------------------------------------------------------

(* The balance at a take: the first burst, and later the grants of the     *)
(* rate the bucket has been running at.                                    *)
Balance(k) ==
  IF bucket[k].present
  THEN balance[k] + (clock - bucket[k].last) * bucket[k].rpm
  ELSE Capacity(rpm[k])

TakeAllowed(k) ==
  LET b == Current(k)
  IN /\ b.tokens >= Token
     /\ bucket' = [bucket EXCEPT ![k] = Bucket(b.rpm, b.tokens - Token, b.last)]
     /\ promise' = [promise EXCEPT ![k] = NoPromise]
     /\ balance' = [balance EXCEPT ![k] = Balance(k) - Token]
     /\ UNCHANGED <<rpm, clock>>

TakeRefused(k) ==
  LET b == Current(k)
  IN /\ b.tokens < Token
     /\ bucket' = [bucket EXCEPT ![k] = b]
     /\ \E seconds \in RetryAfterSeconds(Token - b.tokens, b.rpm) :
          promise' = [promise EXCEPT ![k] = clock + Second * seconds]
     /\ balance' = [balance EXCEPT ![k] = Balance(k)]
     /\ UNCHANGED <<rpm, clock>>

(* PATCH /admin/api/keys/:id; the bucket learns of it at the next take.    *)
PatchRate(k, rate) ==
  /\ rate # rpm[k]
  /\ rpm' = [rpm EXCEPT ![k] = rate]
  /\ promise' = [promise EXCEPT ![k] = NoPromise]
  /\ UNCHANGED <<clock, bucket, balance>>

Tick ==
  /\ clock < MaxClock
  /\ clock' = clock + 1
  /\ UNCHANGED <<rpm, bucket, promise, balance>>

(* The Map lives in memory: a restarted process grants full bursts again,  *)
(* and its clock starts over.                                              *)
Restart ==
  /\ clock' = 0
  /\ bucket' = [k \in Keys |-> NoBucket]
  /\ promise' = [k \in Keys |-> NoPromise]
  /\ balance' = [k \in Keys |-> 0]
  /\ UNCHANGED rpm

LimiterNext ==
  \/ \E k \in Keys : TakeAllowed(k)
  \/ \E k \in Keys : TakeRefused(k)
  \/ \E k \in Keys, rate \in Rates : PatchRate(k, rate)
  \/ Tick
  \/ Restart

LimiterSpec == LimiterInit /\ [][LimiterNext]_limiterVars

-----------------------------------------------------------------------------
(* Properties.                                                             *)

(* No sequence of takes, refusals and rate changes mints credit: what a    *)
(* bucket holds was granted by the rates in force over the elapsed time    *)
(* (and once by the first burst) and has not been spent.  So a key is      *)
(* never admitted more often than its rates allow.                         *)
NoCreditMinted ==
  \A k \in Keys : bucket[k].present => bucket[k].tokens <= balance[k]

(* The credit a take finds, before it spends any of it, is never more than *)
(* one burst, however long its key stayed idle, and a change of rate       *)
(* grants none: raising it keeps the credit that fitted the old burst,     *)
(* lowering it clamps to the new one.                                      *)
BurstBounded ==
  [][\A k \in Keys :
       bucket[k].present /\ bucket'[k].present /\ bucket'[k] # bucket[k] =>
         LET spent  == Balance(k) - balance'[k]
             credit == bucket'[k].tokens + spent
         IN credit <= Capacity(bucket[k].rpm) /\ credit <= Capacity(bucket'[k].rpm)]_limiterVars

(* Retry-After is honest: a caller refused with it is admitted when it     *)
(* comes back at that time, unless the key was used or patched meanwhile.  *)
RetryAfterHonoured ==
  \A k \in Keys : promise[k] # NoPromise /\ clock >= promise[k] => Current(k).tokens >= Token

(* ... and it is late by one second at most: up to two seconds earlier,    *)
(* the bucket has no complete token, so no obedient caller loses more (the *)
(* comment above retryAfterSeconds calls it the exact earliest second).    *)
RetryAfterTight ==
  \A k \in Keys :
    promise[k] # NoPromise /\ clock <= promise[k] - 2 * Second => Current(k).tokens < Token
=============================================================================
