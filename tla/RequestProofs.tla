---------------------------- MODULE RequestProofs ---------------------------
(***************************************************************************)
(* What holds of a chat request's way through the gateway.                 *)
(*                                                                         *)
(* The limiter that lets it in, for every set of keys, every set of rates  *)
(* and every length of a tick: its inductive invariant adds to the         *)
(* properties that a bucket was last refilled no later than now.           *)
(*                                                                         *)
(* The exchange, for any number of upstream frames: its invariant says     *)
(* what a turn may rely on when it resumes, and who holds the reservation. *)
(***************************************************************************)
EXTENDS RateLimiter, ChatExchange, TLAPS

-----------------------------------------------------------------------------
(* The token buckets.                                                      *)

(* No bucket was refilled after now, or holds more than its burst.         *)
RefilledInThePast == \A k \in Keys : bucket[k].present => bucket[k].last <= clock

WithinBurst == \A k \in Keys : bucket[k].present => bucket[k].tokens <= Capacity(bucket[k].rpm)

Buckets == [present : BOOLEAN, rpm : Nat, tokens : Nat, last : Nat]

LEMMA TokenPositive == Token \in Nat /\ Token > 0
BY RateConstants DEF Token

LEMMA CapacityNat == ASSUME NEW rate \in Nat PROVE Capacity(rate) \in Nat
BY TokenPositive DEF Capacity

(* A bucket refilled no later than now earns a natural amount, and exactly *)
(* rpm units per tick.                                                     *)
LEMMA GrantNat ==
  ASSUME NEW b \in Buckets, NEW now \in Nat, b.last <= now
  PROVE  /\ Grant(b, now) \in Nat
         /\ Grant(b, now) = (now - b.last) * b.rpm
<1>1. b.last \in Nat /\ b.rpm \in Nat BY DEF Buckets
<1>2. AtLeast(now, b.last) = now BY <1>1 DEF AtLeast
<1>3. now - b.last \in Nat BY <1>1
<1> QED BY <1>1, <1>2, <1>3 DEF Grant

(* TokenBucket.reconfigure mints nothing: credit grows by at most the      *)
(* grant of the old rate, and fits the old and the new burst.              *)
LEMMA ReconfigureMintsNothing ==
  ASSUME NEW b \in Buckets, NEW now \in Nat, b.last <= now, NEW rate \in Nat,
         b.present
  PROVE  /\ Reconfigure(b, rate, now) \in Buckets
         /\ Reconfigure(b, rate, now).present
         /\ Reconfigure(b, rate, now).rpm = rate
         /\ Reconfigure(b, rate, now).last = now
         /\ Reconfigure(b, rate, now).tokens <= b.tokens + (now - b.last) * b.rpm
         /\ Reconfigure(b, rate, now).tokens <= Capacity(b.rpm)
         /\ Reconfigure(b, rate, now).tokens <= Capacity(rate)
<1> DEFINE g == Grant(b, now)
           c == Capacity(b.rpm)
           d == Capacity(rate)
           t == AtMost(b.tokens + g, c)
           u == AtMost(t, d)
<1>1. b.last \in Nat /\ b.rpm \in Nat /\ b.tokens \in Nat BY DEF Buckets
<1>2. g \in Nat /\ g = (now - b.last) * b.rpm BY GrantNat
<1>3. c \in Nat /\ d \in Nat BY <1>1, CapacityNat
<1>4. AtLeast(now, b.last) = now BY <1>1 DEF AtLeast
<1>5. Reconfigure(b, rate, now) = [present |-> TRUE, rpm |-> rate, tokens |-> u, last |-> now]
  BY <1>4 DEF Reconfigure, Refill, Bucket
<1> HIDE DEF g, c, d
<1>6. u \in Nat /\ u <= b.tokens + g /\ u <= c /\ u <= d
  BY <1>1, <1>2, <1>3 DEF AtMost
<1> HIDE DEF t, u
<1> QED BY <1>2, <1>5, <1>6 DEF Buckets, c, d

(* The inductive invariant of the limiter.                                 *)
LimiterInv == LimiterTypes /\ RefilledInThePast /\ WithinBurst /\ NoCreditMinted

(* What take() works on: a bucket of the current rate, refilled now.       *)
LEMMA CurrentBucket ==
  ASSUME LimiterInv, NEW k \in Keys
  PROVE  /\ Current(k) \in Buckets
         /\ Current(k).present
         /\ Current(k).last = clock
         /\ Current(k).rpm = rpm[k]
         /\ Balance(k) \in Int
         /\ Current(k).tokens <= Balance(k)
         /\ Current(k).tokens <= Capacity(rpm[k])
         /\ bucket[k].present => Current(k).tokens <= Capacity(bucket[k].rpm)
<1>1. rpm[k] \in Nat /\ clock \in Nat /\ bucket[k] \in Buckets /\ balance[k] \in Int
  BY RateConstants DEF LimiterInv, LimiterTypes, Buckets
<1>2. CASE bucket[k].present
  <2> DEFINE b == bucket[k]
  <2>1. b \in Buckets /\ b.last <= clock BY <1>1, <1>2 DEF LimiterInv, RefilledInThePast
  <2>2. Current(k) = Reconfigure(b, rpm[k], clock) BY <1>2 DEF Current
  <2>3. /\ (clock - b.last) * b.rpm \in Nat
        /\ Balance(k) = balance[k] + (clock - b.last) * b.rpm
    <3>1. (clock - b.last) * b.rpm \in Nat BY <1>1, <2>1, GrantNat
    <3> QED BY <3>1, <1>2 DEF Balance
  <2>4. b.tokens <= balance[k] BY <1>2 DEF LimiterInv, NoCreditMinted
  <2>5. b.tokens \in Nat BY <2>1 DEF Buckets
  <2>6. /\ Reconfigure(b, rpm[k], clock) \in Buckets
        /\ Reconfigure(b, rpm[k], clock).present
        /\ Reconfigure(b, rpm[k], clock).rpm = rpm[k]
        /\ Reconfigure(b, rpm[k], clock).last = clock
        /\ Reconfigure(b, rpm[k], clock).tokens <= b.tokens + (clock - b.last) * b.rpm
        /\ Reconfigure(b, rpm[k], clock).tokens <= Capacity(b.rpm)
        /\ Reconfigure(b, rpm[k], clock).tokens <= Capacity(rpm[k])
    BY <1>1, <1>2, <2>1, ReconfigureMintsNothing
  <2>7. Current(k).tokens <= Balance(k)
    <3> DEFINE m == (clock - b.last) * b.rpm
               n == Reconfigure(b, rpm[k], clock).tokens
    <3>1. m \in Nat /\ n \in Nat /\ n <= b.tokens + m /\ Balance(k) = balance[k] + m
      BY <2>3, <2>6 DEF Buckets
    <3> HIDE DEF m, n
    <3>2. n <= Balance(k) BY <3>1, <2>4, <2>5, <1>1
    <3> QED BY <3>2, <2>2 DEF n
  <2>8. Balance(k) \in Int
    <3> DEFINE m == (clock - b.last) * b.rpm
    <3>1. m \in Nat /\ Balance(k) = balance[k] + m BY <2>3
    <3> HIDE DEF m
    <3> QED BY <3>1, <1>1
  <2> QED BY <2>2, <2>6, <2>7, <2>8
<1>3. CASE ~bucket[k].present
  <2>1. Current(k) = [present |-> TRUE, rpm |-> rpm[k], tokens |-> Capacity(rpm[k]), last |-> clock]
    BY <1>3 DEF Current, NewBucket, Bucket
  <2>2. Balance(k) = Capacity(rpm[k]) BY <1>3 DEF Balance
  <2>3. Capacity(rpm[k]) \in Nat BY <1>1, CapacityNat
  <2> QED BY <1>1, <1>3, <2>1, <2>2, <2>3 DEF Buckets
<1> QED BY <1>2, <1>3

LEMMA RetryNat ==
  ASSUME NEW deficit \in Nat, NEW rate \in Nat \ {0}
  PROVE  RetryAfterSeconds(deficit, rate) \subseteq Nat
<1>1. rate * Second \in Nat /\ rate * Second > 0 BY RateConstants
<1> DEFINE q == rate * Second
<1>2. q \in Nat /\ q > 0 BY <1>1
<1> HIDE DEF q
<1>3. (deficit + q - 1) \div q \in Int BY <1>2
<1> DEFINE exact == AtLeast((deficit + q - 1) \div q, 1)
<1>4. exact \in Nat BY <1>3 DEF AtLeast
<1>5. RetryAfterSeconds(deficit, rate) \subseteq {exact, exact + 1}
  BY DEF RetryAfterSeconds, RoundedUp, q
<1> HIDE DEF exact
<1>6. exact + 1 \in Nat BY <1>4
<1> QED BY <1>4, <1>5, <1>6

LEMMA LimiterInitially == LimiterInit => LimiterInv
BY RateConstants DEF LimiterInit, LimiterInv, LimiterTypes, RefilledInThePast, WithinBurst, NoCreditMinted,
                     NoBucket, NoPromise

LEMMA LimiterInductive == LimiterInv /\ [LimiterNext]_limiterVars => LimiterInv'
<1> SUFFICES ASSUME LimiterInv, [LimiterNext]_limiterVars PROVE LimiterInv' OBVIOUS
<1> USE DEF LimiterInv, LimiterTypes, RefilledInThePast, WithinBurst, NoCreditMinted
<1>1. ASSUME NEW k \in Keys, TakeAllowed(k) PROVE LimiterInv'
  <2> DEFINE b == Current(k)
             n == Bucket(b.rpm, b.tokens - Token, b.last)
  <2>1. /\ b \in Buckets /\ b.present /\ b.last = clock /\ b.rpm = rpm[k]
        /\ Balance(k) \in Int /\ b.tokens <= Balance(k) /\ b.tokens <= Capacity(rpm[k])
    BY CurrentBucket
  <2>2. Token \in Nat /\ b.tokens >= Token BY <1>1, TokenPositive DEF TakeAllowed
  <2>3. bucket' = [bucket EXCEPT ![k] = n] /\ balance' = [balance EXCEPT ![k] = Balance(k) - Token]
    BY <1>1 DEF TakeAllowed
  <2>4. UNCHANGED <<rpm, clock>> /\ promise' = [promise EXCEPT ![k] = NoPromise]
    BY <1>1 DEF TakeAllowed
  <2>5. Capacity(rpm[k]) \in Nat BY CapacityNat, RateConstants
  <2> HIDE DEF b
  <2>6. /\ n \in Buckets /\ n.present /\ n.last = clock /\ n.rpm = rpm[k]
        /\ n.tokens <= Balance(k) - Token /\ n.tokens <= Capacity(n.rpm)
    BY <2>1, <2>2, <2>5 DEF Buckets, Bucket
  <2> HIDE DEF n
  <2>7. LimiterTypes' BY <2>1, <2>2, <2>3, <2>4, <2>6 DEF Buckets
  <2>8. RefilledInThePast' BY <2>3, <2>4, <2>6
  <2>9. WithinBurst' BY <2>3, <2>4, <2>6 DEF Capacity
  <2>10. NoCreditMinted' BY <2>1, <2>2, <2>3, <2>6
  <2> QED BY <2>7, <2>8, <2>9, <2>10
<1>2. ASSUME NEW k \in Keys, TakeRefused(k) PROVE LimiterInv'
  <2> DEFINE b == Current(k)
  <2>1. /\ b \in Buckets /\ b.present /\ b.last = clock /\ b.rpm = rpm[k]
        /\ Balance(k) \in Int /\ b.tokens <= Balance(k) /\ b.tokens <= Capacity(rpm[k])
    BY CurrentBucket
  <2>2. bucket' = [bucket EXCEPT ![k] = b] /\ balance' = [balance EXCEPT ![k] = Balance(k)]
    BY <1>2 DEF TakeRefused
  <2>3. UNCHANGED <<rpm, clock>> BY <1>2 DEF TakeRefused
  <2>4. PICK s \in RetryAfterSeconds(Token - b.tokens, b.rpm) :
          promise' = [promise EXCEPT ![k] = clock + Second * s]
    BY <1>2 DEF TakeRefused
  <2>5. clock + Second * s \in Nat
    <3>1. b.tokens \in Nat /\ b.tokens < Token /\ Token \in Nat
      BY <1>2, <2>1, TokenPositive DEF TakeRefused, Buckets
    <3>2. Token - b.tokens \in Nat BY <3>1
    <3>3. b.rpm \in Nat \ {0} BY <2>1, RateConstants
    <3>4. s \in Nat BY <2>4, <3>2, <3>3, RetryNat
    <3>5. Second * s \in Nat BY <3>4, RateConstants
    <3> QED BY <3>5
  <2> HIDE DEF b
  <2>6. LimiterTypes' BY <2>1, <2>2, <2>3, <2>4, <2>5 DEF Buckets
  <2>7. RefilledInThePast' BY <2>1, <2>2, <2>3
  <2>8. WithinBurst' BY <2>1, <2>2, <2>3 DEF Capacity
  <2>9. NoCreditMinted' BY <2>1, <2>2
  <2> QED BY <2>6, <2>7, <2>8, <2>9
<1>3. ASSUME NEW k \in Keys, NEW rate \in Rates, PatchRate(k, rate) PROVE LimiterInv'
  BY <1>3 DEF PatchRate, Capacity, NoPromise
<1>4. ASSUME Tick PROVE LimiterInv'
  BY <1>4, RateConstants DEF Tick, Capacity
<1>5. ASSUME Restart PROVE LimiterInv'
  BY <1>5 DEF Restart, NoBucket, NoPromise
<1>6. CASE UNCHANGED limiterVars
  BY <1>6 DEF limiterVars, Capacity
<1> QED BY <1>1, <1>2, <1>3, <1>4, <1>5, <1>6 DEF LimiterNext

(* The buckets keep their types: tokens never go negative, and every       *)
(* refused caller is told a time.                                          *)
THEOREM LimiterTypeCorrect == LimiterSpec => []LimiterTypes
<1>1. LimiterInv => LimiterTypes BY DEF LimiterInv
<1> QED BY <1>1, LimiterInitially, LimiterInductive, PTL DEF LimiterSpec

(* No key is admitted more often than its first burst and its rates grant, *)
(* whatever takes, refusals and rate changes happen in between.            *)
THEOREM CreditSound == LimiterSpec => []NoCreditMinted
<1>1. LimiterInv => NoCreditMinted BY DEF LimiterInv
<1> QED BY <1>1, LimiterInitially, LimiterInductive, PTL DEF LimiterSpec

(* Neither idling nor a changed rate banks more than one burst.            *)
THEOREM BurstSound == LimiterSpec => BurstBounded
<1>1. LimiterInv /\ [LimiterNext]_limiterVars =>
        [\A k \in Keys :
           bucket[k].present /\ bucket'[k].present /\ bucket'[k] # bucket[k] =>
             LET spent  == Balance(k) - balance'[k]
                 credit == bucket'[k].tokens + spent
             IN credit <= Capacity(bucket[k].rpm) /\ credit <= Capacity(bucket'[k].rpm)]_limiterVars
  <2> SUFFICES ASSUME LimiterInv, [LimiterNext]_limiterVars, NEW k \in Keys,
                      bucket[k].present, bucket'[k].present, bucket'[k] # bucket[k]
               PROVE  LET credit == bucket'[k].tokens + (Balance(k) - balance'[k])
                      IN credit <= Capacity(bucket[k].rpm) /\ credit <= Capacity(bucket'[k].rpm)
    OBVIOUS
  <2> DEFINE found == Current(k).tokens
  <2>1. bucket \in [Keys -> Buckets] /\ balance \in [Keys -> Int]
    BY DEF LimiterInv, LimiterTypes, Buckets
  <2>2. TakeAllowed(k) \/ TakeRefused(k)
    BY <2>1 DEF LimiterNext, limiterVars, TakeAllowed, TakeRefused, PatchRate, Tick, Restart, NoBucket
  <2>3. Current(k) \in Buckets /\ found <= Capacity(bucket[k].rpm)
    BY CurrentBucket
  <2>4. found \in Nat /\ Balance(k) \in Int /\ Token \in Int
    <3>1. /\ clock \in Nat /\ bucket[k].last \in Nat /\ bucket[k].rpm \in Nat
          /\ balance[k] \in Int
      BY DEF LimiterInv, LimiterTypes
    <3> QED BY <2>3, <3>1, TokenPositive DEF Buckets, Balance
  <2>5. /\ bucket'[k].tokens + (Balance(k) - balance'[k]) = found
        /\ bucket'[k].rpm = Current(k).rpm
    <3>1. CASE TakeAllowed(k)
      <4>1. /\ bucket'[k].tokens = found - Token /\ bucket'[k].rpm = Current(k).rpm
            /\ balance'[k] = Balance(k) - Token
        BY <2>1, <3>1 DEF TakeAllowed, Bucket
      <4> QED BY <4>1, <2>4
    <3>2. CASE TakeRefused(k)
      <4>1. bucket'[k] = Current(k) /\ balance'[k] = Balance(k)
        BY <2>1, <3>2 DEF TakeRefused
      <4> QED BY <4>1, <2>4
    <3> QED BY <2>2, <3>1, <3>2
  <2>6. found <= Capacity(Current(k).rpm)
    BY CurrentBucket
  <2> QED BY <2>3, <2>5, <2>6
<1> QED BY <1>1, LimiterInitially, LimiterInductive, PTL DEF LimiterSpec, BurstBounded

-----------------------------------------------------------------------------
(* Retry-After.                                                            *)

LEMMA Regroup ==
  ASSUME NEW a \in Int, NEW b \in Int, NEW c \in Int
  PROVE  (a * c) * b = (b * a) * c
BY SMT

LEMMA Monotone ==
  ASSUME NEW a \in Int, NEW b \in Int, NEW c \in Nat, a <= b
  PROVE  a * c <= b * c /\ a * c \in Int /\ b * c \in Int
BY SMT

(* d divided by q, rounded up, and at least 1.                             *)
LEMMA RoundsUp ==
  ASSUME NEW d \in Nat \ {0}, NEW rate \in Nat \ {0}
  PROVE  LET s == AtLeast(RoundedUp(d, rate * Second), 1)
         IN /\ s \in Nat /\ s >= 1
            /\ (Second * s) * rate >= d
            /\ (Second * (s - 1)) * rate < d
<1> DEFINE q == rate * Second
           n == d + q - 1
           s == AtLeast(RoundedUp(d, q), 1)
<1>1. q \in Nat /\ q > 0 BY RateConstants
<1>2. s = AtLeast(n \div q, 1) BY DEF RoundedUp
<1>3. Second \in Nat BY RateConstants
<1> HIDE DEF q, s
<1>4. /\ n \in Nat /\ n \div q \in Int
      /\ n < q * (n \div q) + q
      /\ q * (n \div q) <= n
  BY <1>1, SMT
<1> HIDE DEF n
<1>5. n = d + q - 1 BY DEF n
<1>6. n \div q >= 1
  <2>1. q <= n BY <1>1, <1>5
  <2>2. ~(n \div q <= 0)
    <3> SUFFICES ASSUME n \div q <= 0 PROVE FALSE OBVIOUS
    <3>1. q * (n \div q) <= 0 BY <1>1, <1>4, SMT
    <3> QED BY <1>1, <1>4, <2>1, <3>1
  <2> QED BY <1>4, <2>2
<1>7. s = n \div q BY <1>2, <1>4, <1>6 DEF AtLeast
<1>8. q * s >= d BY <1>1, <1>4, <1>5, <1>7
<1>9. q * (s - 1) < d
  <2>1. q * (s - 1) = q * s - q BY <1>1, <1>4, <1>7, SMT
  <2> QED BY <2>1, <1>1, <1>4, <1>5, <1>7
<1>10. (Second * s) * rate = q * s /\ (Second * (s - 1)) * rate = q * (s - 1)
  <2>1. s \in Int /\ s - 1 \in Int /\ rate \in Int /\ Second \in Int
    BY <1>3, <1>4, <1>7
  <2>2. (Second * s) * rate = (rate * Second) * s BY <2>1, Regroup
  <2> DEFINE r == s - 1
  <2>3. r \in Int BY <2>1
  <2> HIDE DEF r
  <2>4. (Second * r) * rate = (rate * Second) * r BY <2>1, <2>3, Regroup
  <2> QED BY <2>2, <2>4 DEF q, r
<1> QED BY <1>4, <1>6, <1>7, <1>8, <1>9, <1>10 DEF q, s

(* A second that is announced suffices, and two less do not.               *)
LEMMA Announced ==
  ASSUME NEW d \in Nat \ {0}, NEW rate \in Nat \ {0}, NEW s \in RetryAfterSeconds(d, rate)
  PROVE  /\ s \in Nat /\ s >= 1
         /\ (Second * s) * rate >= d
         /\ (Second * (s - 2)) * rate < d
<1> DEFINE exact == AtLeast(RoundedUp(d, rate * Second), 1)
<1>1. /\ exact \in Nat /\ exact >= 1
      /\ (Second * exact) * rate >= d
      /\ (Second * (exact - 1)) * rate < d
  BY RoundsUp
<1>2. s = exact \/ s = exact + 1 BY DEF RetryAfterSeconds
<1> HIDE DEF exact
<1>3. s \in Nat /\ s >= exact /\ s - 2 <= exact - 1 BY <1>1, <1>2
<1> DEFINE short == s - 2
           before == exact - 1
<1>4. short \in Int /\ before \in Int /\ short <= before BY <1>1, <1>3
<1>5. Second \in Nat /\ rate \in Nat BY RateConstants
<1> HIDE DEF short, before
<1>6. /\ Second * exact <= Second * s /\ Second * exact \in Int /\ Second * s \in Int
      /\ Second * short <= Second * before /\ Second * short \in Int /\ Second * before \in Int
  BY <1>1, <1>3, <1>4, <1>5, Monotone, SMT
<1>7. /\ (Second * exact) * rate <= (Second * s) * rate
      /\ (Second * short) * rate <= (Second * before) * rate
      /\ (Second * exact) * rate \in Int /\ (Second * s) * rate \in Int
      /\ (Second * short) * rate \in Int /\ (Second * before) * rate \in Int
  BY <1>5, <1>6, Monotone
<1>8. (Second * before) * rate < d BY <1>1 DEF before
<1>9. (Second * short) * rate < d /\ (Second * s) * rate >= d BY <1>1, <1>7, <1>8
<1> QED BY <1>1, <1>3, <1>9 DEF short

(* What a refusal leaves behind until the key is used or patched.          *)
PromiseKept(k) ==
  /\ bucket[k].present
  /\ bucket[k].rpm = rpm[k]
  /\ promise[k] >= bucket[k].last
  /\ bucket[k].tokens + (promise[k] - bucket[k].last) * rpm[k] >= Token
  /\ bucket[k].tokens + ((promise[k] - 2 * Second) - bucket[k].last) * rpm[k] < Token

PromisesKept == \A k \in Keys : promise[k] # NoPromise => PromiseKept(k)

LEMMA InitPromises == LimiterInit => PromisesKept
BY DEF LimiterInit, PromisesKept

LEMMA RefusalPromises ==
  ASSUME LimiterInv, NEW k \in Keys, TakeRefused(k)
  PROVE  PromiseKept(k)'
<1> DEFINE b == Current(k)
           d == Token - b.tokens
<1>1. b \in Buckets /\ b.present /\ b.last = clock /\ b.rpm = rpm[k] BY CurrentBucket
<1>2. b.tokens \in Nat /\ b.tokens < Token /\ Token \in Nat
  BY <1>1, TokenPositive DEF TakeRefused, Buckets
<1>3. d \in Nat \ {0} BY <1>2
<1>4. rpm[k] \in Nat \ {0} /\ clock \in Nat BY RateConstants DEF LimiterInv, LimiterTypes
<1>5. bucket'[k] = b /\ rpm' = rpm BY DEF TakeRefused, LimiterInv, LimiterTypes
<1>6. PICK s \in RetryAfterSeconds(d, b.rpm) : promise'[k] = clock + Second * s
  BY DEF TakeRefused, LimiterInv, LimiterTypes
<1>7. s \in Nat /\ s >= 1 /\ (Second * s) * rpm[k] >= d /\ (Second * (s - 2)) * rpm[k] < d
  BY <1>1, <1>3, <1>4, <1>6, Announced
<1>8. Second \in Nat /\ Token' = Token BY RateConstants DEF Token
<1> HIDE DEF b
<1> DEFINE w == Second * s
           v == w - 2 * Second
<1>9. w \in Nat /\ Second * (s - 2) = v BY <1>7, <1>8, SMT
<1>10. v \in Int BY <1>8, <1>9
<1>11. w * rpm[k] >= d /\ v * rpm[k] < d BY <1>7, <1>9
<1>12. promise'[k] = clock + w BY <1>6
<1> HIDE DEF w
<1>13. v = w - 2 * Second OBVIOUS
<1> HIDE DEF v
<1>14. w * rpm[k] \in Int /\ v * rpm[k] \in Int BY <1>4, <1>9, <1>10, SMT
<1>15. promise'[k] - b.last = w /\ (promise'[k] - 2 * Second) - b.last = v
  BY <1>1, <1>4, <1>8, <1>9, <1>12, <1>13
<1>16. b.tokens + w * rpm[k] >= Token /\ b.tokens + v * rpm[k] < Token
  BY <1>2, <1>11, <1>14
<1>17. promise'[k] >= b.last BY <1>1, <1>4, <1>9, <1>12
<1> QED BY <1>1, <1>5, <1>8, <1>15, <1>16, <1>17 DEF PromiseKept

LEMMA NextPromises == LimiterInv /\ PromisesKept /\ [LimiterNext]_limiterVars => PromisesKept'
<1> SUFFICES ASSUME LimiterInv, PromisesKept, [LimiterNext]_limiterVars, NEW k \in Keys, promise'[k] # NoPromise
             PROVE  PromiseKept(k)'
  BY DEF PromisesKept
<1>1. k \in DOMAIN promise /\ k \in DOMAIN bucket /\ k \in DOMAIN rpm BY DEF LimiterInv, LimiterTypes
<1>2. CASE TakeRefused(k) BY <1>2, RefusalPromises
<1>3. CASE ~TakeRefused(k)
  <2>1. UNCHANGED <<promise[k], bucket[k], rpm[k]>>
    BY <1>1, <1>3 DEF LimiterNext, limiterVars, TakeAllowed, TakeRefused, PatchRate, Tick, Restart
  <2>2. PromiseKept(k) BY <2>1 DEF PromisesKept
  <2> QED BY <2>1, <2>2 DEF PromiseKept, Token
<1> QED BY <1>2, <1>3

(* The credit of a bucket whose rate did not change, at any later tick.    *)
LEMMA CurrentCredit ==
  ASSUME LimiterInv, NEW k \in Keys, bucket[k].present, bucket[k].rpm = rpm[k]
  PROVE  Current(k).tokens =
           AtMost(bucket[k].tokens + (clock - bucket[k].last) * rpm[k], Capacity(rpm[k]))
<1> DEFINE g == Grant(bucket[k], clock)
           c == Capacity(rpm[k])
<1>1. bucket[k] \in Buckets /\ clock \in Nat /\ rpm[k] \in Nat /\ bucket[k].last <= clock
  BY RateConstants DEF LimiterInv, LimiterTypes, Buckets, RefilledInThePast
<1>2. g \in Nat /\ g = (clock - bucket[k].last) * rpm[k] BY <1>1, GrantNat
<1>3. c \in Nat /\ bucket[k].tokens \in Nat BY <1>1, CapacityNat DEF Buckets
<1>4. Current(k).tokens = AtMost(AtMost(bucket[k].tokens + g, c), c)
  BY DEF Current, Reconfigure, Refill, Bucket
<1> HIDE DEF g, c
<1>5. Current(k).tokens = AtMost(bucket[k].tokens + g, c) BY <1>2, <1>3, <1>4 DEF AtMost
<1> QED BY <1>2, <1>5 DEF c

(* A caller that comes back at the promised second finds a token: no       *)
(* Retry-After is ever too early, whatever the rate and the tick.          *)
THEOREM RetryAfterSufficient == LimiterSpec => []RetryAfterHonoured
<1>1. LimiterInv /\ PromisesKept => RetryAfterHonoured
  <2> SUFFICES ASSUME LimiterInv, PromisesKept, NEW k \in Keys, promise[k] # NoPromise,
                      clock >= promise[k]
               PROVE  Current(k).tokens >= Token
    BY DEF RetryAfterHonoured
  <2> DEFINE w == promise[k] - bucket[k].last
             e == clock - bucket[k].last
             t == bucket[k].tokens
  <2>1. PromiseKept(k) BY DEF PromisesKept
  <2>2. rpm[k] \in Nat \ {0} /\ clock \in Nat /\ promise[k] \in Nat
        /\ bucket[k].last \in Nat /\ t \in Nat
    BY RateConstants DEF LimiterInv, LimiterTypes
  <2>3. w \in Int /\ e \in Int /\ w <= e BY <2>2
  <2>4. w * rpm[k] <= e * rpm[k] /\ w * rpm[k] \in Int /\ e * rpm[k] \in Int
    BY <2>2, <2>3, Monotone
  <2>5. t + w * rpm[k] >= Token BY <2>1 DEF PromiseKept
  <2>6. Current(k).tokens = AtMost(t + e * rpm[k], Capacity(rpm[k]))
    BY <2>1, CurrentCredit DEF PromiseKept
  <2>7. Capacity(rpm[k]) >= Token /\ Capacity(rpm[k]) \in Nat
    <3>1. 1 * Token <= rpm[k] * Token BY <2>2, TokenPositive, Monotone
    <3> QED BY <3>1, <2>2, TokenPositive, CapacityNat DEF Capacity
  <2> HIDE DEF w, e, t
  <2>8. t + e * rpm[k] >= Token BY <2>2, <2>4, <2>5, TokenPositive
  <2> QED BY <2>6, <2>7, <2>8 DEF AtMost
<1>2. LimiterInit => LimiterInv /\ PromisesKept BY LimiterInitially, InitPromises
<1>3. LimiterInv /\ PromisesKept /\ [LimiterNext]_limiterVars => (LimiterInv /\ PromisesKept)' BY LimiterInductive, NextPromises
<1> QED BY <1>1, <1>2, <1>3, PTL DEF LimiterSpec

(* ... and the noise of floating point makes it late by one second at      *)
(* most: two seconds earlier the bucket never has a whole token.           *)
THEOREM RetryAfterWithinASecond == LimiterSpec => []RetryAfterTight
<1>1. LimiterInv /\ PromisesKept => RetryAfterTight
  <2> SUFFICES ASSUME LimiterInv, PromisesKept, NEW k \in Keys, promise[k] # NoPromise,
                      clock <= promise[k] - 2 * Second
               PROVE  Current(k).tokens < Token
    BY DEF RetryAfterTight
  <2> DEFINE w == (promise[k] - 2 * Second) - bucket[k].last
             e == clock - bucket[k].last
             t == bucket[k].tokens
  <2>1. PromiseKept(k) BY DEF PromisesKept
  <2>2. rpm[k] \in Nat \ {0} /\ clock \in Nat /\ promise[k] \in Nat /\ Second \in Nat
        /\ bucket[k].last \in Nat /\ t \in Nat
    BY RateConstants DEF LimiterInv, LimiterTypes
  <2>3. w \in Int /\ e \in Int /\ e <= w BY <2>2
  <2>4. e * rpm[k] <= w * rpm[k] /\ w * rpm[k] \in Int /\ e * rpm[k] \in Int
    BY <2>2, <2>3, Monotone
  <2>5. t + w * rpm[k] < Token BY <2>1 DEF PromiseKept
  <2>6. Current(k).tokens = AtMost(t + e * rpm[k], Capacity(rpm[k]))
    BY <2>1, CurrentCredit DEF PromiseKept
  <2>7. Capacity(rpm[k]) \in Nat BY <2>2, CapacityNat
  <2> HIDE DEF w, e, t
  <2>8. t + e * rpm[k] < Token BY <2>2, <2>4, <2>5, TokenPositive
  <2>9. t + e * rpm[k] \in Int BY <2>2, <2>4
  <2> QED BY <2>6, <2>7, <2>8, <2>9, TokenPositive DEF AtMost
<1>2. LimiterInit => LimiterInv /\ PromisesKept BY LimiterInitially, InitPromises
<1>3. LimiterInv /\ PromisesKept /\ [LimiterNext]_limiterVars => (LimiterInv /\ PromisesKept)' BY LimiterInductive, NextPromises
<1> QED BY <1>1, <1>2, <1>3, PTL DEF LimiterSpec

-----------------------------------------------------------------------------
(* The exchange.  What a turn may rely on when it resumes.                 *)

USE ExchangeConstants

(* The handler, or the stream of frames, has yet to come to its end.       *)
Waiting == {"arrived", "provider", "firstFrame", "discard", "pumping", "parked",
            "closing", "throwing"}

(* The replies that call no provider, a cache hit apart.                   *)
Unrouted == {"refusal", "unavailable", "lookupFailed"}

(* Which suspension points each path has.                                  *)
Paths ==
  /\ pc = "arrived" <=> mode = "none"
  /\ pc = "provider" => mode = "buffered"
  /\ pc \in {"firstFrame", "discard"} => mode = "stream"
  /\ pc \in {"arrived", "firstFrame", "discard"} => frames = 0
  /\ pc \in {"pumping", "parked", "closing", "throwing"} => mode = "stream" /\ frames > 0
  /\ mode \in Hits => pc = "answered"
  /\ mode \in Unrouted => pc \in {"answered", "failed"}

(* Nothing is logged while the handler has yet to decide the account, nor  *)
(* while a close listener could still relabel it.                          *)
LoggedLast ==
  /\ row # NoRow => loggingStarted
  /\ loggingStarted => pc \notin Waiting /\ ~listening

(* What the flags of the exchange say of each other: a listener means an   *)
(* open response, a timer a pending upstream, an abort by the client a     *)
(* closed response, and only provider paths abort at all.                  *)
Signals ==
  /\ listening => socket = "open"
  /\ socket = "finished" => pc \in {"answered", "failed"}
  /\ timer = "armed" => pc \in {"provider", "firstFrame", "pumping", "parked"}
  /\ abort = "client" => socket = "reset"
  /\ mode \in {"none"} \cup Unrouted \cup Hits => abort = "no"
  /\ mode \in {"none"} \cup Unrouted => ~listening
  /\ pc = "arrived" => socket = "open" /\ upstream = "idle"
  /\ pc \in {"closing", "throwing", "silent"} => ~listening

(* When the cause of a failure is frozen, and when a close may log.        *)
Settling ==
  /\ pc \in Waiting => ~ready
  /\ pc \in Waiting \ {"discard"} => ~settled
  /\ pc = "discard" => settled /\ (cause = "client" <=> abort = "client")
                     /\ (abort = "timeout" => cause = "timeout") /\ cause # "none"
  /\ mode = "stream" /\ ready => settled /\ log.status # "ok"
  /\ mode = "buffered" /\ ready /\ ~settled => log.cost # "none"
  /\ mode = "buffered" /\ settled => log.status # "ok"

(* What the pending log says on each path.                                 *)
Account ==
  /\ pc \in Waiting => log.status # "ok"
  /\ pc = "arrived" => log.status = "rejected_validation"
  /\ mode \in Hits => log.cost = "zero" /\ log.status \in {"ok", "client_aborted"}
  /\ mode \in Unrouted => log.status \in Refusals \cup {"rejected_provider_unavailable"}
  /\ log.status = "client_aborted" =>
       /\ socket = "reset"
       /\ mode \in Hits \/ abort = "client"
       /\ mode = "stream" => log.cost # "none"
  /\ pc = "closing" /\ socket = "open" => log.status = "provider_error"
  /\ mode \in {"buffered", "stream"} /\ pc \in {"answered", "failed"} /\ socket = "open"
       /\ abort = "timeout" => log.status \in {"ok", "provider_error"}

(* The reservation and the durable row are never both counted against the  *)
(* budget: the turn that inserts the row is the one that releases the      *)
(* hold, and a hold that became debt has no row.                           *)
RowReplacesHold ==
  /\ row # NoRow => hold \in {"none", "released"}
  /\ hold = "released" => row # NoRow
  /\ loggingStarted => hold # "held"
  /\ hold \in {"released", "debt"} => loggingStarted

(* An exchange that waits for nothing but its response has ended its       *)
(* provider call or stream, and its timeout can no longer fire.            *)
EndReleasesUpstream == pc \notin Waiting => upstream # "open" /\ timer = "off"

(* The inductive invariant of the exchange.                                *)
ExchangeInv ==
  /\ Paths /\ LoggedLast /\ Signals /\ Settling /\ Account
  /\ RowIsFinal /\ RowTellsFirstCause /\ ClientAbortIsBilled /\ OkMeansDelivered
  /\ EndReleasesUpstream

-----------------------------------------------------------------------------
(* The invariant of the exchange begins true.                              *)
LEMMA InitExchange == Init => ExchangeInv
  BY DEF Init, ExchangeInv, TypeOK, Statuses, Refusals, CostKinds, NoRow, Hits, Paths,
         Waiting, Unrouted, LoggedLast, Signals, Settling, Account, RowIsFinal,
         RowTellsFirstCause, ClientAbortIsBilled, OkMeansDelivered,
         EndReleasesUpstream

(* No entry of the log is the absent row.                                  *)
LEMMA TypedEntries ==
  /\ NoRow \notin [status : Statuses, cost : CostKinds]
  /\ Refusals \subseteq Statuses
  /\ {"ok", "client_aborted", "provider_error", "rejected_validation",
      "rejected_provider_unavailable"} \subseteq Statuses
  /\ {"none", "zero", "estimated", "exact"} = CostKinds
  BY DEF Statuses, Refusals, CostKinds, NoRow

(* What a log writes, the flags, and the account that a log leaves.        *)
LogEntries == [status : Statuses, cost : CostKinds]

Flags ==
  /\ noCache \in BOOLEAN /\ listening \in BOOLEAN /\ responseClosed \in BOOLEAN
  /\ settled \in BOOLEAN /\ ready \in BOOLEAN /\ usage \in BOOLEAN /\ cached \in BOOLEAN

AccountTypes ==
  /\ loggingStarted \in BOOLEAN
  /\ row \in LogEntries \cup {NoRow}
  /\ hold \in {"none", "held", "released", "debt"}

(* A log entry of the right type makes a row of the right type.            *)
LEMMA LogRequestTypes ==
  ASSUME TypeOK, NEW l \in LogEntries, LogRequest(l) \/ UNCHANGED account
  PROVE  AccountTypes'
  BY DEF TypeOK, AccountTypes, LogEntries, LogRequest, account

(* The exchange keeps its types: its handler resumes only where it         *)
(* suspended, and its row and reservation are what one log can leave.      *)
THEOREM ExchangeTypeCorrect == Spec => []TypeOK
<1>1. Init => TypeOK
  <2> SUFFICES ASSUME Init PROVE TypeOK
    OBVIOUS
  <2>1. Flags
    BY Zenon DEF Init, Flags
  <2>2. loggingStarted \in BOOLEAN
    BY Zenon DEF Init
  <2> QED
    BY <2>1, <2>2, TypedEntries DEF Init, Flags, TypeOK
<1>2. TypeOK /\ [Next]_vars => TypeOK'
  <2> SUFFICES ASSUME TypeOK, [Next]_vars
               PROVE  TypeOK'
    OBVIOUS
  <2> USE TypedEntries DEF TypeOK, connection, control, source, account, Hits
  <2>1. ASSUME NEW status \in Refusals, Refuse(status)
        PROVE  TypeOK'
    BY <2>1 DEF Refuse
  <2>2. CASE ResetDuringUpload
    BY <2>2 DEF ResetDuringUpload
  <2>3. ASSUME NEW path \in Hits, ReplayHit(path)
        PROVE  TypeOK'
    BY <2>3 DEF ReplayHit
  <2>4. CASE LookupThrows
    BY <2>4 DEF LookupThrows
  <2>5. CASE AdapterMissing
    BY <2>5 DEF AdapterMissing
  <2>6. CASE Dispatch("buffered", "provider")
    BY <2>6 DEF Dispatch
  <2>7. CASE Dispatch("stream", "firstFrame")
    BY <2>7 DEF Dispatch
  <2>8. ASSUME NEW kind \in ErrorKinds, ProviderFails(kind)
        PROVE  TypeOK'
    <3> USE <2>8 DEF ProviderFails, ErrorKinds, FirstCause, FailureStatus, FailureCost, LogWhen, ListenUnless
    <3>1. log' \in LogEntries
      BY DEF LogEntries
    <3>2. AccountTypes'
      BY <3>1, LogRequestTypes
    <3>3. Flags'
      BY Zenon DEF Flags
    <3> QED
      BY <3>1, <3>2, <3>3 DEF LogEntries, AccountTypes, Flags
  <2>9. ASSUME NEW cost \in {"exact", "estimated"}, ProviderAnswers(cost)
        PROVE  TypeOK'
    <3> USE <2>9 DEF ProviderAnswers, LogWhen, ListenUnless
    <3>1. log' \in LogEntries
      BY DEF LogEntries
    <3>2. AccountTypes'
      BY <3>1, LogRequestTypes
    <3>3. Flags'
      BY Zenon DEF Flags
    <3> QED
      BY <3>1, <3>2, <3>3 DEF LogEntries, AccountTypes, Flags
  <2>10. CASE MeterThrows
    BY <2>10 DEF MeterThrows
  <2>11. ASSUME NEW kind \in ErrorKinds, FirstFrameFails(kind)
        PROVE  TypeOK'
    BY <2>11 DEF FirstFrameFails, ErrorKinds, StartDiscard, FirstCause
  <2>12. CASE FirstFrameTooLate
    <3> USE <2>12 DEF FirstFrameTooLate, StartDiscard, LogWhen, ListenUnless
    <3>1. log' \in LogEntries
      BY DEF LogEntries
    <3>2. AccountTypes'
      BY <3>1, LogRequestTypes
    <3>3. Flags'
      BY Zenon DEF Flags
    <3> QED
      BY <3>1, <3>2, <3>3 DEF LogEntries, AccountTypes, Flags
  <2>13. ASSUME NEW terminal \in BOOLEAN, FirstFrame(terminal)
        PROVE  TypeOK'
    BY <2>13 DEF FirstFrame, Forward
  <2>14. CASE Discarded
    <3> USE <2>14 DEF Discarded, FailureStatus, FailureCost, LogWhen, ListenUnless
    <3>1. log' \in LogEntries
      BY DEF LogEntries
    <3>2. AccountTypes'
      BY <3>1, LogRequestTypes
    <3>3. Flags'
      BY Zenon DEF Flags
    <3> QED
      BY <3>1, <3>2, <3>3 DEF LogEntries, AccountTypes, Flags
  <2>15. ASSUME NEW terminal \in BOOLEAN, NextFrame(terminal)
        PROVE  TypeOK'
    BY <2>15 DEF NextFrame, Forward
  <2>16. CASE LastYield
    <3> USE <2>16 DEF LastYield, LeaveLoop, LogWhen, ListenUnless
    <3>1. log' \in LogEntries
      BY DEF LogEntries
    <3>2. AccountTypes'
      BY <3>1, LogRequestTypes
    <3>3. Flags'
      BY Zenon DEF Flags
    <3> QED
      BY <3>1, <3>2, <3>3 DEF LogEntries, AccountTypes, Flags
  <2>17. CASE UpstreamCompletes
    <3> USE <2>17 DEF UpstreamCompletes, LeaveLoop, StreamCost, LogWhen, ListenUnless
    <3>1. log' \in LogEntries
      BY DEF LogEntries
    <3>2. AccountTypes'
      BY <3>1, LogRequestTypes
    <3>3. Flags'
      BY Zenon DEF Flags
    <3> QED
      BY <3>1, <3>2, <3>3 DEF LogEntries, AccountTypes, Flags
  <2>18. CASE UpstreamFails
    <3> USE <2>18 DEF UpstreamFails, LeaveLoop, StreamCost, LogWhen, ListenUnless
    <3>1. log' \in LogEntries
      BY DEF LogEntries
    <3>2. AccountTypes'
      BY <3>1, LogRequestTypes
    <3>3. Flags'
      BY Zenon DEF Flags
    <3> QED
      BY <3>1, <3>2, <3>3 DEF LogEntries, AccountTypes, Flags
  <2>19. CASE StreamMeterThrows
    <3> USE <2>19 DEF StreamMeterThrows, LeaveLoop, LogWhen, ListenUnless
    <3>1. log' \in LogEntries
      BY DEF LogEntries
    <3>2. AccountTypes'
      BY <3>1, LogRequestTypes
    <3>3. Flags'
      BY Zenon DEF Flags
    <3> QED
      BY <3>1, <3>2, <3>3 DEF LogEntries, AccountTypes, Flags
  <2>20. CASE Drain
    BY <2>20 DEF Drain
  <2>21. CASE IteratorClosed
    <3> USE <2>21 DEF IteratorClosed, LogWhen, ListenUnless
    <3>1. log' \in LogEntries
      BY DEF LogEntries
    <3>2. AccountTypes'
      BY <3>1, LogRequestTypes
    <3>3. Flags'
      BY Zenon DEF Flags
    <3> QED
      BY <3>1, <3>2, <3>3 DEF LogEntries, AccountTypes, Flags
  <2>22. CASE ResponseFinishes
    <3> USE <2>22 DEF ResponseFinishes, LogWhen, ListenUnless
    <3>1. log' \in LogEntries
      BY DEF LogEntries
    <3>2. AccountTypes'
      BY <3>1, LogRequestTypes
    <3>3. Flags'
      BY Zenon DEF Flags
    <3> QED
      BY <3>1, <3>2, <3>3 DEF LogEntries, AccountTypes, Flags
  <2>23. CASE ResetUnheard
    BY <2>23 DEF ResetUnheard
  <2>24. CASE ResetHit
    <3> USE <2>24 DEF ResetHit, LogWhen, ListenUnless
    <3>1. log' \in LogEntries
      BY DEF LogEntries
    <3>2. AccountTypes'
      BY <3>1, LogRequestTypes
    <3>3. Flags'
      BY Zenon DEF Flags
    <3> QED
      BY <3>1, <3>2, <3>3 DEF LogEntries, AccountTypes, Flags
  <2>25. CASE ResetBuffered
    <3> USE <2>25 DEF ResetBuffered, AbortForClient, FirstCause, LogWhen, ListenUnless
    <3>1. log' \in LogEntries
      BY DEF LogEntries
    <3>2. AccountTypes'
      BY <3>1, LogRequestTypes
    <3>3. Flags'
      BY Zenon DEF Flags
    <3> QED
      BY <3>1, <3>2, <3>3 DEF LogEntries, AccountTypes, Flags
  <2>26. CASE ResetStream
    <3> USE <2>26 DEF ResetStream, AbortForClient, FirstCause, LogWhen, ListenUnless
    <3>1. log' \in LogEntries
      BY DEF LogEntries
    <3>2. AccountTypes'
      BY <3>1, LogRequestTypes
    <3>3. Flags'
      BY Zenon DEF Flags
    <3> QED
      BY <3>1, <3>2, <3>3 DEF LogEntries, AccountTypes, Flags
  <2>27. CASE TimeoutFires
    BY <2>27 DEF TimeoutFires, FirstCause
  <2>28. CASE DiscardMeterThrows
    BY <2>28 DEF DiscardMeterThrows
  <2>29. CASE UNCHANGED vars
    BY <2>29 DEF vars
  <2> QED
    BY <2>1, <2>2, <2>3, <2>4, <2>5, <2>6, <2>7, <2>8, <2>9, <2>10, <2>11, <2>12, <2>13, <2>14, <2>15, <2>16, <2>17, <2>18, <2>19, <2>20, <2>21, <2>22, <2>23, <2>24, <2>25, <2>26, <2>27, <2>28, <2>29 DEF Next, Start, Buffered, BeforeHeaders, Pumping, Reset
<1> QED
  BY <1>1, <1>2, PTL DEF Spec

(* Every turn of the exchange keeps its invariant.                         *)
LEMMA NextExchange ==
  ASSUME TypeOK, TypeOK', ExchangeInv, [Next]_vars
  PROVE  ExchangeInv'
<1> USE DEF ExchangeInv, TypeOK, Statuses, Refusals, CostKinds, NoRow, Hits, Paths,
        Waiting, Unrouted, LoggedLast, Signals, Settling, Account, RowIsFinal,
        RowTellsFirstCause, ClientAbortIsBilled, OkMeansDelivered, EndReleasesUpstream,
        connection, control, source, account, LogRequest, LogWhen, ListenUnless
<1>1. ASSUME NEW status \in Refusals, Refuse(status)
       PROVE  ExchangeInv'
  BY <1>1 DEF Refuse
<1>2. CASE ResetDuringUpload
  BY <1>2 DEF ResetDuringUpload
<1>3. ASSUME NEW path \in Hits, ReplayHit(path)
       PROVE  ExchangeInv'
  BY <1>3 DEF ReplayHit
<1>4. CASE LookupThrows
  BY <1>4 DEF LookupThrows
<1>5. CASE AdapterMissing
  BY <1>5 DEF AdapterMissing
<1>6. CASE Dispatch("buffered", "provider")
  BY <1>6 DEF Dispatch
<1>7. CASE Dispatch("stream", "firstFrame")
  BY <1>7 DEF Dispatch
<1>8. ASSUME NEW kind \in ErrorKinds, ProviderFails(kind)
       PROVE  ExchangeInv'
  <2> USE <1>8 DEF ProviderFails, ErrorKinds, FirstCause, FailureStatus, FailureCost
  <2>1. (Paths /\ Signals)'
    OBVIOUS
  <2>2. LoggedLast'
    OBVIOUS
  <2>3. Settling'
    <3>1. pc' \in {"answered", "silent"} /\ mode = "buffered" /\ mode' = mode
      OBVIOUS
    <3>2. log'.status # "ok"
      OBVIOUS
    <3>3. settled' \/ log'.cost # "none"
      OBVIOUS
    <3> QED
      BY ONLY <3>1, <3>2, <3>3 DEF Settling, Waiting
  <2>4. Account'
    OBVIOUS
  <2>5. RowIsFinal'
    OBVIOUS
  <2>6. (RowTellsFirstCause /\ ClientAbortIsBilled /\ OkMeansDelivered)'
    OBVIOUS
  <2>7. EndReleasesUpstream'
    OBVIOUS
  <2> QED
    BY <2>1, <2>2, <2>3, <2>4, <2>5, <2>6, <2>7
<1>9. ASSUME NEW cost \in {"exact", "estimated"}, ProviderAnswers(cost)
       PROVE  ExchangeInv'
  BY <1>9 DEF ProviderAnswers
<1>10. CASE MeterThrows
  BY <1>10 DEF MeterThrows
<1>11. ASSUME NEW kind \in ErrorKinds, FirstFrameFails(kind)
       PROVE  ExchangeInv'
  BY <1>11 DEF FirstFrameFails, ErrorKinds, StartDiscard, FirstCause
<1>12. CASE FirstFrameTooLate
  BY <1>12 DEF FirstFrameTooLate, StartDiscard
<1>13. ASSUME NEW terminal \in BOOLEAN, FirstFrame(terminal)
       PROVE  ExchangeInv'
  BY <1>13 DEF FirstFrame, Forward
<1>14. CASE Discarded
  BY <1>14 DEF Discarded, FailureStatus, FailureCost
<1>15. ASSUME NEW terminal \in BOOLEAN, NextFrame(terminal)
       PROVE  ExchangeInv'
  BY <1>15 DEF NextFrame, Forward
<1>16. CASE LastYield
  BY <1>16 DEF LastYield, LeaveLoop
<1>17. CASE UpstreamCompletes
  BY <1>17 DEF UpstreamCompletes, LeaveLoop, StreamCost
<1>18. CASE UpstreamFails
  BY <1>18 DEF UpstreamFails, LeaveLoop, StreamCost
<1>19. CASE StreamMeterThrows
  BY <1>19 DEF StreamMeterThrows, LeaveLoop
<1>20. CASE Drain
  BY <1>20 DEF Drain
<1>21. CASE IteratorClosed
  BY <1>21 DEF IteratorClosed
<1>22. CASE ResponseFinishes
  BY <1>22 DEF ResponseFinishes
<1>23. CASE ResetUnheard
  BY <1>23 DEF ResetUnheard
<1>24. CASE ResetHit
  BY <1>24 DEF ResetHit
<1>25. CASE ResetBuffered
  BY <1>25 DEF ResetBuffered, AbortForClient, FirstCause
<1>26. CASE ResetStream
  BY <1>26 DEF ResetStream, AbortForClient, FirstCause
<1>27. CASE TimeoutFires
  BY <1>27 DEF TimeoutFires, FirstCause
<1>28. CASE DiscardMeterThrows
  BY <1>28 DEF DiscardMeterThrows
<1>29. CASE UNCHANGED vars
  BY <1>29 DEF vars
<1> QED
  BY <1>1, <1>2, <1>3, <1>4, <1>5, <1>6, <1>7, <1>8, <1>9, <1>10, <1>11, <1>12, <1>13, <1>14, <1>15, <1>16, <1>17, <1>18, <1>19, <1>20, <1>21, <1>22, <1>23, <1>24, <1>25, <1>26, <1>27, <1>28, <1>29
     DEF Next, Start, Buffered, BeforeHeaders, Pumping, Reset

LEMMA ExchangeInvariant == Spec => []ExchangeInv
  BY InitExchange, NextExchange, ExchangeTypeCorrect, PTL DEF Spec

(* Whichever of finish, close and the settling promise comes first, no     *)
(* later turn computes an account that differs from the durable row.       *)
THEOREM TheRowIsFinal == Spec => []RowIsFinal
  BY ExchangeInvariant, PTL DEF ExchangeInv

(* A row tells the first of disconnect, timeout and provider outcome.      *)
THEOREM TheFirstCauseWins == Spec => []RowTellsFirstCause
  BY ExchangeInvariant, PTL DEF ExchangeInv

(* No exchange is recorded as client_aborted without a cost.               *)
THEOREM AbortsAreBilled == Spec => []ClientAbortIsBilled
  BY ExchangeInvariant, PTL DEF ExchangeInv

(* A row says ok only of a delivered response, or of an answer that outran *)
(* the abort of its timeout.                                               *)
THEOREM OkIsDelivered == Spec => []OkMeansDelivered
  BY ExchangeInvariant, PTL DEF ExchangeInv

-----------------------------------------------------------------------------
(* Every step leaves the account alone, takes the reservation, or logs     *)
(* exactly what the pending log then says.                                 *)
AccountStep ==
  \/ UNCHANGED account
  \/ pc = "arrived" /\ hold' = "held" /\ UNCHANGED <<loggingStarted, row>>
  \/ LogRequest(log')

LEMMA AccountSteps ==
  ASSUME [Next]_vars
  PROVE  AccountStep
<1> USE DEF AccountStep, LogWhen, account
<1>1. CASE Start
  BY <1>1 DEF Start, Refuse, ResetDuringUpload, ReplayHit, LookupThrows, AdapterMissing, Dispatch
<1>2. CASE Buffered
  BY <1>2 DEF Buffered, ProviderFails, ProviderAnswers, MeterThrows
<1>3. CASE BeforeHeaders
  BY <1>3 DEF BeforeHeaders, FirstFrameFails, FirstFrameTooLate, StartDiscard, FirstFrame,
              Forward, Discarded, DiscardMeterThrows
<1>4. CASE Pumping
  BY <1>4 DEF Pumping, NextFrame, Forward, LastYield, UpstreamCompletes, UpstreamFails,
              StreamMeterThrows
<1>5. CASE Drain \/ IteratorClosed \/ ResponseFinishes \/ TimeoutFires
  BY <1>5 DEF Drain, IteratorClosed, ResponseFinishes, TimeoutFires
<1>6. CASE Reset
  BY <1>6 DEF Reset, ResetUnheard, ResetHit, ResetBuffered, ResetStream
<1>7. CASE UNCHANGED vars
  BY <1>7 DEF vars
<1> QED
  BY <1>1, <1>2, <1>3, <1>4, <1>5, <1>6, <1>7 DEF Next

(* The row takes the place of the reservation, never stands beside it.     *)
THEOREM HoldOrRow == Spec => []RowReplacesHold
<1>1. Init => RowReplacesHold
  BY DEF Init, RowReplacesHold
<1>2. ASSUME TypeOK, TypeOK', ExchangeInv, RowReplacesHold, [Next]_vars
      PROVE  RowReplacesHold'
  <2>1. log' # NoRow
    BY <1>2, TypedEntries DEF TypeOK
  <2>2. pc = "arrived" => ~loggingStarted
    BY <1>2 DEF ExchangeInv, LoggedLast, Waiting
  <2>3. loggingStarted \/ row = NoRow
    BY <1>2 DEF ExchangeInv, LoggedLast
  <2>4. AccountStep
    BY <1>2, AccountSteps
  <2>5. CASE loggingStarted
    BY <1>2, <2>2, <2>4, <2>5 DEF RowReplacesHold, AccountStep, LogRequest, account
  <2>6. CASE ~loggingStarted
    BY <1>2, <2>1, <2>3, <2>4, <2>6 DEF RowReplacesHold, AccountStep, LogRequest, account, TypeOK
  <2> QED
    BY <2>5, <2>6
<1> QED
  BY <1>1, <1>2, ExchangeTypeCorrect, ExchangeInvariant, PTL DEF Spec

(* Nothing upstream survives the handler.                                  *)
THEOREM NoUpstreamSurvives == Spec => []EndReleasesUpstream
  BY ExchangeInvariant, PTL DEF ExchangeInv

=============================================================================
