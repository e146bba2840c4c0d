---------------------------- MODULE BudgetGuard -----------------------------
(***************************************************************************)
(* The reserve-then-reconcile circuit breaker of packages/gateway          *)
(* (pipeline/budget.ts) with everything that feeds it: the key row read    *)
(* by the auth hook, the SQL sum of the month's rows, the durable logging  *)
(* step that reconciles, the admin PATCH that invalidates, the clock of    *)
(* the 250 ms memo, the turn of the calendar month and a process restart.  *)
(*                                                                         *)
(* JavaScript runs each of these to completion on one thread, so each is   *)
(* one action; what interleaves is the order of the actions of different   *)
(* requests, of the administrator and of time.                             *)
(***************************************************************************)
EXTENDS Integers, FiniteSets, Functions

CONSTANTS
  Keys,       (* API keys                                                  *)
  NoKey,      (* the key of a request the auth hook has not passed yet     *)
  Requests,   (* chat requests; each is also the identity of its token     *)
  Budgets,    (* monthly budgets an administrator may set                  *)
  Estimates,  (* what estimateBudgetReservation may compute                *)
  Costs,      (* actual costs a row may carry                              *)
  MemoTtl,    (* age up to which a memoized sum is still used              *)
  MaxMonths   (* bound: calendar months after the first one                *)

ASSUME BudgetConstants ==
  /\ NoKey \notin Keys
  /\ IsFiniteSet(Requests)
  /\ Budgets \subseteq Nat /\ IsFiniteSet(Budgets) /\ Budgets # {}
  /\ Estimates \subseteq Nat
  /\ Costs \subseteq Nat
  /\ MemoTtl \in Nat
  /\ MaxMonths \in Nat

VARIABLES
  budget,     (* api_keys.budget_micro_usd_month                           *)
  disabled,   (* api_keys.disabled                                         *)
  ctx,        (* request.ctx.apiKey: the key row as the auth hook saw it   *)
  phase,      (* where each request stands                                 *)
  active,     (* BudgetGuard.active: the amount each live token holds      *)
  debt,       (* BudgetGuard.debt                                          *)
  memo,       (* BudgetGuard.settledMemo, readAtMs told as an age          *)
  spend,      (* what the SQL sum over this month's rows returns           *)
  month,      (* number of month turns so far                              *)
  overrun     (* history: actual cost beyond the reserved estimate         *)

vars == <<budget, disabled, ctx, phase, active, debt, memo, spend, month, overrun>>

Phases == {"new", "authed", "refused", "reserved", "logged", "indebted", "lost"}

NoMemo == [present |-> FALSE, spend |-> 0, age |-> 0]

NoCtx == [key |-> NoKey, budget |-> 0]

TypeOK ==
  /\ budget   \in [Keys -> Budgets]
  /\ disabled \in [Keys -> BOOLEAN]
  /\ ctx      \in [Requests -> [key : Keys \cup {NoKey}, budget : Nat]]
  /\ \A r \in Requests : phase[r] # "new" => ctx[r].key \in Keys
  /\ phase    \in [Requests -> Phases]
  /\ active   \in [Requests -> Nat]
  /\ debt     \in [Keys -> Nat]
  /\ memo     \in [Keys -> [present : BOOLEAN, spend : Nat, age : 0 .. MemoTtl + 1]]
  /\ spend    \in [Keys -> Nat]
  /\ month    \in 0 .. MaxMonths
  /\ overrun  \in [Keys -> Nat]

Init ==
  /\ budget   \in [Keys -> Budgets]
  /\ disabled = [k \in Keys |-> FALSE]
  /\ ctx      = [r \in Requests |-> NoCtx]
  /\ phase    = [r \in Requests |-> "new"]
  /\ active   = [r \in Requests |-> 0]
  /\ debt     = [k \in Keys |-> 0]
  /\ memo     = [k \in Keys |-> NoMemo]
  /\ spend    = [k \in Keys |-> 0]
  /\ month    = 0
  /\ overrun  = [k \in Keys |-> 0]

-----------------------------------------------------------------------------
(* The pieces of BudgetGuard.                                              *)

Holders(k) == {r \in Requests : phase[r] = "reserved" /\ ctx[r].key = k}

ActiveSpend(k) == SumFunctionOnSet(active, Holders(k))

MemoFresh(k) == memo[k].present /\ memo[k].age <= MemoTtl

CurrentSettledSpend(k) == IF MemoFresh(k) THEN memo[k].spend ELSE spend[k]

(* The read-through half of currentSettledSpend: a stale or missing entry  *)
(* is replaced even when the request is then refused.                      *)
Remember(k) ==
  memo' = IF MemoFresh(k) THEN memo
          ELSE [memo EXCEPT ![k] = [present |-> TRUE, spend |-> spend[k], age |-> 0]]

(* Mutant of Invalidate: the memo outlives the insert.                     *)
InvalidateNothing(k) == UNCHANGED memo

Invalidate(k) == memo' = [memo EXCEPT ![k] = NoMemo]

(* Mutant of Fits: what other requests hold is not counted.                *)
FitsSettledOnly(k, limit, e) == CurrentSettledSpend(k) + debt[k] + e <= limit

Fits(k, limit, e) == CurrentSettledSpend(k) + ActiveSpend(k) + debt[k] + e <= limit

Excess(a, c) == IF c > a THEN c - a ELSE 0

(* Mutant of Larger: only the estimate is kept.                            *)
EstimateOnly(a, c) == a

Larger(a, c) == IF c > a THEN c ELSE a

-----------------------------------------------------------------------------
(* One request.                                                            *)

(* The auth hook copies the budget before the body is even read.           *)
Authenticate(r, k) ==
  /\ phase[r] = "new"
  /\ ~disabled[k]
  /\ ctx' = [ctx EXCEPT ![r] = [key |-> k, budget |-> budget[k]]]
  /\ phase' = [phase EXCEPT ![r] = "authed"]
  /\ UNCHANGED <<budget, disabled, active, debt, memo, spend, month, overrun>>

Reserve(r, e) ==
  LET k == ctx[r].key
      fits == Fits(k, ctx[r].budget, e)
  IN /\ phase[r] = "authed"
     /\ Remember(k)
     /\ phase' = [phase EXCEPT ![r] = IF fits THEN "reserved" ELSE "refused"]
     /\ active' = [active EXCEPT ![r] = IF fits THEN e ELSE 0]
     /\ UNCHANGED <<budget, disabled, ctx, debt, spend, month, overrun>>

(* logRequest, the row is durable: the month's sum has grown when the      *)
(* token is taken and the memo dropped.                                    *)
LogDurably(r, c) ==
  LET k == ctx[r].key
  IN /\ phase[r] = "reserved"
     /\ spend' = [spend EXCEPT ![k] = @ + c]
     /\ phase' = [phase EXCEPT ![r] = "logged"]
     /\ active' = [active EXCEPT ![r] = 0]
     /\ Invalidate(k)
     /\ overrun' = [overrun EXCEPT ![k] = @ + Excess(active[r], c)]
     /\ UNCHANGED <<budget, disabled, ctx, debt, month>>

(* logRequest, the insert threw: retainDebt keeps the larger amount.       *)
LogFails(r, c) ==
  LET k == ctx[r].key
  IN /\ phase[r] = "reserved"
     /\ debt' = [debt EXCEPT ![k] = @ + Larger(active[r], c)]
     /\ phase' = [phase EXCEPT ![r] = "indebted"]
     /\ active' = [active EXCEPT ![r] = 0]
     /\ Invalidate(k)
     /\ overrun' = [overrun EXCEPT ![k] = @ + Excess(active[r], c)]
     /\ UNCHANGED <<budget, disabled, ctx, spend, month>>

-----------------------------------------------------------------------------
(* The administrator, time and the process.                                *)

(* PATCH /admin/api/keys/:id writes the row, then drops the settled memo   *)
(* and nothing else.                                                       *)
PatchKey(k, b, d) ==
  /\ budget' = [budget EXCEPT ![k] = b]
  /\ disabled' = [disabled EXCEPT ![k] = d]
  /\ Invalidate(k)
  /\ UNCHANGED <<ctx, phase, active, debt, spend, month, overrun>>

(* The monotonic clock moves; only ages up to just past the TTL matter.    *)
Tick ==
  /\ \E k \in Keys : memo[k].present /\ memo[k].age <= MemoTtl
  /\ memo' = [k \in Keys |->
                IF MemoFresh(k) THEN [memo[k] EXCEPT !.age = @ + 1] ELSE memo[k]]
  /\ UNCHANGED <<budget, disabled, ctx, phase, active, debt, spend, month, overrun>>

(* strftime month bounds move on: older rows leave the sum, memo unaware.  *)
TurnMonth ==
  /\ month < MaxMonths
  /\ month' = month + 1
  /\ spend' = [k \in Keys |-> 0]
  /\ UNCHANGED <<budget, disabled, ctx, phase, active, debt, memo, overrun>>

(* A crash or restart: the Maps start empty, requests in flight are gone.  *)
Restart ==
  /\ phase' = [r \in Requests |->
                 IF phase[r] \in {"authed", "reserved"} THEN "lost" ELSE phase[r]]
  /\ active' = [r \in Requests |-> 0]
  /\ debt' = [k \in Keys |-> 0]
  /\ memo' = [k \in Keys |-> NoMemo]
  /\ UNCHANGED <<budget, disabled, ctx, spend, month, overrun>>

Next ==
  \/ \E r \in Requests, k \in Keys : Authenticate(r, k)
  \/ \E r \in Requests, e \in Estimates : Reserve(r, e)
  \/ \E r \in Requests, c \in Costs : LogDurably(r, c)
  \/ \E r \in Requests, c \in Costs : LogFails(r, c)
  \/ \E k \in Keys, b \in Budgets, d \in BOOLEAN : PatchKey(k, b, d)
  \/ Tick
  \/ TurnMonth
  \/ Restart

Spec == Init /\ [][Next]_vars

-----------------------------------------------------------------------------
(* Properties.                                                             *)

(* The memo that currentSettledSpend trusts for 250 ms never shows less    *)
(* than the rows of the current month add up to, whatever was inserted,    *)
(* patched or rolled over since it was read; it may show more (after a     *)
(* month turn), which only refuses more.                                   *)
MemoNeverUnderstates ==
  \A k \in Keys : memo[k].present => memo[k].spend >= spend[k]

(* Whenever reserve() admits a request, everything its key has really      *)
(* spent, holds and owes, the new estimate included, fits the budget the   *)
(* request was authenticated with, although the decision may have used a   *)
(* memoized sum.                                                           *)
AdmissionWithinBudget ==
  [][\A r \in Requests :
       phase[r] = "authed" /\ phase'[r] = "reserved" =>
         LET k == ctx[r].key
         IN spend'[k] + ActiveSpend(k)' + debt'[k] <= ctx[r].budget]_vars

Ledger == INSTANCE BudgetLedger WITH
  Amounts <- Estimates \cup Costs,
  Limit   <- CHOOSE b \in Budgets : \A x \in Budgets : x <= b,
  held    <- [k \in Keys |-> ActiveSpend(k)]

(* The Maps, tokens and memo implement the ledger: money leaves a          *)
(* reservation only into a durable row or into debt, once and in full,     *)
(* and no step of the administrator, of the clock or of another key        *)
(* reopens capacity.                                                       *)
ImplementsLedger == Ledger!LedgerSpec
=============================================================================
