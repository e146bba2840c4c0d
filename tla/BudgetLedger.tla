---------------------------- MODULE BudgetLedger ----------------------------
(***************************************************************************)
(* What the budget circuit breaker of the gateway promises, per API key,   *)
(* told in three amounts of money: what the requests table has charged     *)
(* this month, what admitted requests still hold, and the fail-closed debt *)
(* left by rows that could not be written.  The promise is that money      *)
(* changes place but capacity never reopens by itself.                     *)
(*                                                                         *)
(* BudgetGuard (the code's Maps, memo and tokens) implements this ledger.  *)
(* Amounts are integer micro-USD, as everywhere in the gateway.            *)
(***************************************************************************)
EXTENDS Naturals

CONSTANTS
  Keys,    (* API keys                                              *)
  Amounts, (* the amounts requests reserve and cost                 *)
  Limit    (* the largest monthly budget an administrator ever sets *)

VARIABLES
  spend,   (* cost of the key's rows in the current month           *)
  held,    (* sum of the key's active reservations                  *)
  debt,    (* sum of the key's fail-closed debt                     *)
  overrun  (* history: by how much actual costs exceeded estimates  *)

ledger == <<spend, held, debt, overrun>>

LedgerTypeOK ==
  /\ spend   \in [Keys -> Nat]
  /\ held    \in [Keys -> Nat]
  /\ debt    \in [Keys -> Nat]
  /\ overrun \in [Keys -> Nat]

Exposure(k) == spend[k] + held[k] + debt[k]

(* How far an actual cost c exceeds the amount a that was held for it.     *)
Excess(a, c) == IF c > a THEN c - a ELSE 0

Larger(a, c) == IF c > a THEN c ELSE a

LedgerInit ==
  /\ spend   = [k \in Keys |-> 0]
  /\ held    = [k \in Keys |-> 0]
  /\ debt    = [k \in Keys |-> 0]
  /\ overrun = [k \in Keys |-> 0]

(* A request is admitted only when everything already committed plus its   *)
(* own estimate fits; equality is allowed.                                 *)
Admit(k, e) ==
  /\ UNCHANGED <<spend, debt, overrun>>
  /\ held' = [held EXCEPT ![k] = @ + e]
  /\ Exposure(k) + e <= Limit

(* The row of a request that held a is durable with cost c.                *)
Settle(k, a, c) ==
  /\ UNCHANGED debt
  /\ spend'   = [spend EXCEPT ![k] = @ + c]
  /\ overrun' = [overrun EXCEPT ![k] = @ + Excess(a, c)]
  /\ a <= held[k]
  /\ held'    = [held EXCEPT ![k] = @ - a]

(* The row could not be written: the hold becomes permanent debt.          *)
Default(k, a, c) ==
  /\ UNCHANGED spend
  /\ debt'    = [debt EXCEPT ![k] = @ + Larger(a, c)]
  /\ overrun' = [overrun EXCEPT ![k] = @ + Excess(a, c)]
  /\ a <= held[k]
  /\ held'    = [held EXCEPT ![k] = @ - a]

(* The calendar month turns; holds and debt survive it.                    *)
TurnMonth ==
  /\ spend' = [k \in Keys |-> 0]
  /\ UNCHANGED <<debt, overrun, held>>

(* The process dies: what lived in memory only is gone.                    *)
Forget ==
  /\ UNCHANGED <<spend, overrun>>
  /\ debt' = [k \in Keys |-> 0]
  /\ held' = [k \in Keys |-> 0]

LedgerNext ==
  \/ \E k \in Keys, e \in Amounts : Admit(k, e)
  \/ \E k \in Keys, a \in Amounts, c \in Amounts : Settle(k, a, c)
  \/ \E k \in Keys, a \in Amounts, c \in Amounts : Default(k, a, c)
  \/ TurnMonth
  \/ Forget

LedgerSpec == LedgerInit /\ [][LedgerNext]_ledger

(* A key's exposure exceeds the largest budget only by what its requests   *)
(* really cost beyond their chars/4 estimates: the circuit breaker itself  *)
(* (admission, reconciliation, debt) never lets money through.             *)
ExposureBounded == \A k \in Keys : Exposure(k) <= Limit + overrun[k]
=============================================================================
