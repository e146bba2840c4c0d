-------------------------- MODULE BudgetGuardProofs -------------------------
(* What holds of BudgetGuard for any keys, requests, amounts and TTL.      *)
EXTENDS BudgetGuard, FiniteSetTheorems, TLAPS

(* A sum over a finite set, the way the folds take it: one member at a     *)
(* time, whichever CHOOSE picks.  That it exists, is unique and adds up is *)
(* shown by the smallest subset for which it would not.                    *)
Pick(s) == CHOOSE x \in s : TRUE

IsSum(g, f, S) ==
  g = [s \in SUBSET S |-> IF s = {} THEN 0 ELSE f[Pick(s)] + g[s \ {Pick(s)}]]

(* The sum of the community modules is this one.                           *)
LEMMA SumDef ==
  ASSUME NEW f, NEW S
  PROVE  SumFunctionOnSet(f, S) = (CHOOSE g : IsSum(g, f, S))[S]
  BY Zenon DEF SumFunctionOnSet, FoldFunctionOnSet, MapThenFoldSet, IsSum, Pick

(* Of a set of subsets of a finite set, one is smallest.                   *)
LEMMA SmallestSet ==
  ASSUME NEW S, IsFiniteSet(S), NEW T, T \subseteq SUBSET S, T # {}
  PROVE  \E m \in T : \A t \in T : t \subseteq m => t = m
<1>1. IsWellFoundedOn(StrictSubsetOrdering(S), SUBSET S)
  BY FS_StrictSubsetOrderingWellFounded, FS_FiniteSubsetsOfFinite
<1>2. \E m \in T : \A t \in T : <<t, m>> \notin StrictSubsetOrdering(S)
  BY <1>1, WFMin
<1> QED
  BY <1>2 DEF StrictSubsetOrdering

(* The member that is picked, and what is left.                            *)
LEMMA Picked ==
  ASSUME NEW s, s # {}
  PROVE  Pick(s) \in s /\ s \ {Pick(s)} # s /\ s \ {Pick(s)} \subseteq s
  BY DEF Pick

(* There is at most one such function.                                     *)
LEMMA SumUnique ==
  ASSUME NEW S, IsFiniteSet(S), NEW f, NEW g, NEW h, IsSum(g, f, S), IsSum(h, f, S)
  PROVE  g = h
<1> DEFINE Bad == {s \in SUBSET S : g[s] # h[s]}
<1>1. CASE Bad = {}
  BY <1>1 DEF IsSum
<1>2. CASE Bad # {}
  <2>1. \E m \in Bad : \A t \in Bad : t \subseteq m => t = m
    <3>1. Bad \subseteq SUBSET S
      OBVIOUS
    <3> HIDE DEF Bad
    <3> QED
      BY <1>2, <3>1, SmallestSet
  <2>2. PICK m \in Bad : \A t \in Bad : t \subseteq m => t = m
    BY <2>1
  <2>3. m # {}
    BY <2>2 DEF IsSum
  <2> DEFINE n == m \ {Pick(m)}
  <2>4. n \subseteq m /\ n # m /\ n \in SUBSET S
    BY <2>3, Picked
  <2>5. n \notin Bad
    BY <2>2, <2>4
  <2>6. g[n] = h[n]
    BY <2>4, <2>5
  <2>7. g[m] = f[Pick(m)] + g[n] /\ h[m] = f[Pick(m)] + h[n]
    BY <2>2, <2>3 DEF IsSum
  <2> QED
    BY <2>2, <2>6, <2>7
<1> QED
  BY <1>1, <1>2

(* A sum over the subsets of a set is one over those of a subset.          *)
LEMMA SumRestricts ==
  ASSUME NEW S, NEW f, NEW g, IsSum(g, f, S), NEW T \in SUBSET S
  PROVE  IsSum([s \in SUBSET T |-> g[s]], f, T)
  <1> DEFINE r == [s \in SUBSET T |-> g[s]]
  <1>1. ASSUME NEW s \in SUBSET T
        PROVE r[s] = IF s = {} THEN 0 ELSE f[Pick(s)] + r[s \ {Pick(s)}]
    <2>1. s \in SUBSET S /\ s \ {Pick(s)} \in SUBSET T
      OBVIOUS
    <2>2. g[s] = IF s = {} THEN 0 ELSE f[Pick(s)] + g[s \ {Pick(s)}]
      BY <2>1 DEF IsSum
    <2> QED
      BY <2>1, <2>2
  <1> QED
    BY <1>1 DEF IsSum

(* There is one.                                                           *)
LEMMA SumExists ==
  ASSUME NEW S, IsFiniteSet(S), NEW f
  PROVE  \E g : IsSum(g, f, S)
<1> DEFINE Bad == {s \in SUBSET S : ~ \E g : IsSum(g, f, s)}
<1>1. SUFFICES ASSUME Bad # {} PROVE FALSE
  OBVIOUS
<1>2. PICK m \in Bad : \A t \in Bad : t \subseteq m => t = m
  <2>1. Bad \subseteq SUBSET S
    OBVIOUS
  <2> HIDE DEF Bad
  <2> QED
    BY <1>1, <2>1, SmallestSet
<1> DEFINE G(t) == CHOOSE g : IsSum(g, f, t)
           h == [t \in SUBSET m |-> IF t = {} THEN 0
                                    ELSE f[Pick(t)] + G(t \ {Pick(t)})[t \ {Pick(t)}]]
<1>3. ASSUME NEW t \in SUBSET m, t # m
      PROVE  IsSum(G(t), f, t) /\ IsFiniteSet(t)
  <2>1. t \in SUBSET S /\ t \notin Bad
    BY <1>2, <1>3
  <2> QED
    BY <2>1, FS_Subset
<1>4. ASSUME NEW u \in SUBSET m, u # m
      PROVE  G(u)[u] = h[u]
  <2>1. IsSum(G(u), f, u) /\ IsFiniteSet(u)
    BY <1>3, <1>4
  <2>2. CASE u = {}
    BY <2>1, <2>2 DEF IsSum
  <2>3. CASE u # {}
    <3> DEFINE v == u \ {Pick(u)}
    <3>1. v \in SUBSET u /\ v \in SUBSET m /\ v # m
      BY <1>4, <2>3, Picked
    <3>2. IsSum(G(v), f, v) /\ IsFiniteSet(v)
      BY <1>3, <3>1
    <3>3. G(v) = [s \in SUBSET v |-> G(u)[s]]
      <4>1. IsSum([s \in SUBSET v |-> G(u)[s]], f, v)
        BY <2>1, <3>1, SumRestricts
      <4> HIDE DEF G
      <4> QED
        BY <3>2, <4>1, SumUnique
    <3>4. G(v)[v] = G(u)[v]
      BY <3>3
    <3>5. G(u)[u] = f[Pick(u)] + G(u)[v]
      BY <2>1, <2>3 DEF IsSum
    <3> QED
      BY <2>3, <3>4, <3>5
  <2> QED
    BY <2>2, <2>3
<1>5. IsSum(h, f, m)
  <2>1. ASSUME NEW t \in SUBSET m, t # {}
        PROVE  h[t] = f[Pick(t)] + h[t \ {Pick(t)}]
    <3>1. t \ {Pick(t)} \in SUBSET m /\ t \ {Pick(t)} # m
      BY <2>1, Picked
    <3> QED
      BY <2>1, <3>1, <1>4
  <2> HIDE DEF G
  <2>2. h = [t \in SUBSET m |-> IF t = {} THEN 0 ELSE f[Pick(t)] + h[t \ {Pick(t)}]]
    <3>1. h[{}] = 0
      OBVIOUS
    <3> QED
      BY <2>1, <3>1
  <2> QED
    BY <2>2 DEF IsSum
<1> QED
  BY <1>2, <1>5

(* So a sum unfolds to a member and the sum of the rest.                   *)
LEMMA SumUnfolds ==
  ASSUME NEW S, IsFiniteSet(S), NEW f
  PROVE  SumFunctionOnSet(f, S) =
           IF S = {} THEN 0 ELSE f[Pick(S)] + SumFunctionOnSet(f, S \ {Pick(S)})
<1> DEFINE G(t) == CHOOSE g : IsSum(g, f, t)
<1>1. IsSum(G(S), f, S)
  BY SumExists
<1>2. SumFunctionOnSet(f, S) = G(S)[S]
  BY SumDef
<1>3. CASE S = {}
  BY <1>1, <1>2, <1>3 DEF IsSum
<1>4. CASE S # {}
  <2> DEFINE n == S \ {Pick(S)}
  <2>1. n \in SUBSET S /\ IsFiniteSet(n)
    BY FS_Subset
  <2>2. IsSum(G(n), f, n) /\ SumFunctionOnSet(f, n) = G(n)[n]
    BY <2>1, SumExists, SumDef
  <2>3. G(n) = [s \in SUBSET n |-> G(S)[s]]
    <3> HIDE DEF G, n
    <3>1. IsSum([s \in SUBSET n |-> G(S)[s]], f, n)
      BY <1>1, <2>1, SumRestricts
    <3> QED
      BY <2>1, <2>2, <3>1, SumUnique
  <2>4. G(S)[S] = f[Pick(S)] + G(S)[n]
    BY <1>1, <1>4 DEF IsSum
  <2> HIDE DEF G
  <2> QED
    BY <1>2, <1>4, <2>2, <2>3, <2>4
<1> QED
  BY <1>3, <1>4

(* Nothing sums to nothing.                                                *)
LEMMA SumOfNothing == \A f : SumFunctionOnSet(f, {}) = 0
  BY FS_EmptySet, SumUnfolds

(* A sum of natural numbers is one.                                        *)
LEMMA SumIsNat ==
  ASSUME NEW S, IsFiniteSet(S), NEW f, \A x \in S : f[x] \in Nat
  PROVE  SumFunctionOnSet(f, S) \in Nat
<1> DEFINE Bad == {s \in SUBSET S : SumFunctionOnSet(f, s) \notin Nat}
<1>1. SUFFICES ASSUME Bad # {} PROVE FALSE
  OBVIOUS
<1>2. PICK m \in Bad : \A t \in Bad : t \subseteq m => t = m
  <2>1. Bad \subseteq SUBSET S
    OBVIOUS
  <2> HIDE DEF Bad
  <2> QED
    BY <1>1, <2>1, SmallestSet
<1>3. IsFiniteSet(m)
  BY <1>2, FS_Subset
<1>4. m # {}
  <2>1. SumFunctionOnSet(f, m) # SumFunctionOnSet(f, {})
    BY <1>2, SumOfNothing
  <2> QED
    BY <2>1
<1> DEFINE n == m \ {Pick(m)}
<1>5. Pick(m) \in S /\ n \subseteq m /\ n # m /\ n \in SUBSET S
  BY <1>2, <1>4, Picked
<1>6. SumFunctionOnSet(f, n) \in Nat
  BY <1>2, <1>5
<1>7. SumFunctionOnSet(f, m) = f[Pick(m)] + SumFunctionOnSet(f, n)
  BY <1>3, <1>4, SumUnfolds
<1> QED
  BY <1>2, <1>5, <1>6, <1>7

(* Equal amounts have equal sums.                                          *)
LEMMA SumAgrees ==
  ASSUME NEW S, IsFiniteSet(S), NEW f, NEW g, \A x \in S : f[x] = g[x]
  PROVE  SumFunctionOnSet(f, S) = SumFunctionOnSet(g, S)
<1> DEFINE Bad == {s \in SUBSET S : SumFunctionOnSet(f, s) # SumFunctionOnSet(g, s)}
<1>1. SUFFICES ASSUME Bad # {} PROVE FALSE
  OBVIOUS
<1>2. PICK m \in Bad : \A t \in Bad : t \subseteq m => t = m
  <2>1. Bad \subseteq SUBSET S
    OBVIOUS
  <2> HIDE DEF Bad
  <2> QED
    BY <1>1, <2>1, SmallestSet
<1>3. IsFiniteSet(m)
  BY <1>2, FS_Subset
<1>4. m # {}
  BY <1>2, SumOfNothing
<1> DEFINE n == m \ {Pick(m)}
<1>5. Pick(m) \in S /\ n \subseteq m /\ n # m /\ n \in SUBSET S
  BY <1>2, <1>4, Picked
<1>6. SumFunctionOnSet(f, n) = SumFunctionOnSet(g, n)
  BY <1>2, <1>5
<1>7. /\ SumFunctionOnSet(f, m) = f[Pick(m)] + SumFunctionOnSet(f, n)
      /\ SumFunctionOnSet(g, m) = g[Pick(m)] + SumFunctionOnSet(g, n)
  BY <1>3, <1>4, SumUnfolds
<1> QED
  BY <1>2, <1>5, <1>6, <1>7

(* Any member may be taken out of a sum, not only the one picked.          *)
LEMMA SumSplits ==
  ASSUME NEW S, IsFiniteSet(S), NEW f, \A y \in S : f[y] \in Nat, NEW x \in S
  PROVE  SumFunctionOnSet(f, S) = f[x] + SumFunctionOnSet(f, S \ {x})
<1> DEFINE Bad == {s \in SUBSET S :
                    \E z \in s : SumFunctionOnSet(f, s) # f[z] + SumFunctionOnSet(f, s \ {z})}
<1>1. SUFFICES ASSUME Bad # {} PROVE FALSE
  OBVIOUS
<1>2. PICK m \in Bad : \A t \in Bad : t \subseteq m => t = m
  <2>1. Bad \subseteq SUBSET S
    OBVIOUS
  <2> HIDE DEF Bad
  <2> QED
    BY <1>1, <2>1, SmallestSet
<1>3. PICK z \in m : SumFunctionOnSet(f, m) # f[z] + SumFunctionOnSet(f, m \ {z})
  BY <1>2
<1>4. \A s \in SUBSET S : IsFiniteSet(s) /\ SumFunctionOnSet(f, s) \in Nat
  BY FS_Subset, SumIsNat
<1> DEFINE p == Pick(m)
<1>5. p \in m
  BY <1>3, Picked
<1>6. SumFunctionOnSet(f, m) = f[p] + SumFunctionOnSet(f, m \ {p})
  BY <1>2, <1>3, <1>4, SumUnfolds
<1>7. z # p
  BY <1>3, <1>6
<1>8. SumFunctionOnSet(f, m \ {p}) = f[z] + SumFunctionOnSet(f, (m \ {p}) \ {z})
  <2>1. m \ {p} \in SUBSET S /\ m \ {p} \notin Bad /\ z \in m \ {p}
    BY <1>2, <1>5, <1>7
  <2> QED
    BY <2>1
<1>9. SumFunctionOnSet(f, m \ {z}) = f[p] + SumFunctionOnSet(f, (m \ {z}) \ {p})
  <2>1. m \ {z} \in SUBSET S /\ m \ {z} \notin Bad /\ p \in m \ {z}
    BY <1>2, <1>3, <1>5, <1>7
  <2> QED
    BY <2>1
<1>10. (m \ {p}) \ {z} = (m \ {z}) \ {p} /\ (m \ {p}) \ {z} \in SUBSET S
  BY <1>2
<1>11. f[p] \in Nat /\ f[z] \in Nat /\ SumFunctionOnSet(f, (m \ {p}) \ {z}) \in Nat
  BY <1>2, <1>3, <1>4, <1>5, <1>10
<1>12. SumFunctionOnSet(f, (m \ {p}) \ {z}) = SumFunctionOnSet(f, (m \ {z}) \ {p})
  BY <1>10
<1>13. \A a, b, c \in Nat : a + (b + c) = b + (a + c)
  OBVIOUS
<1> HIDE DEF p, Bad
<1> QED
  BY <1>3, <1>6, <1>8, <1>9, <1>11, <1>12, <1>13

(* A finite, non-empty set of numbers has a largest one: take the element  *)
(* with a smallest set of elements above it.                               *)
LEMMA LargestExists ==
  ASSUME NEW B, B \subseteq Nat, IsFiniteSet(B), B # {}
  PROVE  \E b \in B : \A x \in B : x <= b
<1> DEFINE Above(b) == {x \in B : x > b}
           T == {Above(b) : b \in B}
<1>1. \E m \in T : \A t \in T : t \subseteq m => t = m
  <2>1. T \subseteq SUBSET B /\ T # {} /\ IsFiniteSet(B)
    OBVIOUS
  <2> HIDE DEF T, Above
  <2> QED
    BY ONLY <2>1, SmallestSet
<1>2. PICK b \in B : \A c \in B : Above(c) \subseteq Above(b) => Above(c) = Above(b)
  <2>1. PICK m \in T : \A t \in T : t \subseteq m => t = m
    BY <1>1
  <2>2. PICK b \in B : m = Above(b)
    BY <2>1
  <2>3. \A c \in B : Above(c) \in T
    OBVIOUS
  <2> HIDE DEF T, Above
  <2> QED
    BY <2>1, <2>2, <2>3
<1>3. ASSUME NEW c \in Above(b)
      PROVE  FALSE
  <2>1. c \in B /\ c > b /\ c \in Nat /\ b \in Nat
    BY <1>2
  <2>2. \A x \in Above(c) : x \in Above(b)
    BY <2>1
  <2>3. c \notin Above(c)
    BY <2>1
  <2> HIDE DEF Above
  <2> QED
    BY <1>2, <1>3, <2>1, <2>2, <2>3
<1>4. \A x \in B : x <= b
  BY <1>2, <1>3
<1> QED
  BY <1>2, <1>4

-----------------------------------------------------------------------------
USE BudgetConstants

(* The Maps of BudgetGuard, the key rows and the month's sum keep their    *)
(* types; in particular only a request with a key reaches reserve().       *)
THEOREM TypeCorrect == Spec => []TypeOK
<1>1. Init => TypeOK
  BY DEF Init, TypeOK, NoCtx, NoMemo, Phases
<1>2. TypeOK /\ [Next]_vars => TypeOK'
  <2> SUFFICES ASSUME TypeOK, [Next]_vars
               PROVE  TypeOK'
    OBVIOUS
  <2> USE DEF TypeOK, Phases
  <2>1. ASSUME NEW r \in Requests, NEW k \in Keys, Authenticate(r, k)
        PROVE  TypeOK'
    BY <2>1 DEF Authenticate
  <2>2. ASSUME NEW r \in Requests, NEW e \in Estimates, Reserve(r, e)
        PROVE  TypeOK'
    BY <2>2 DEF Reserve, Remember
  <2>3. ASSUME NEW r \in Requests, NEW c \in Costs, LogDurably(r, c)
        PROVE  TypeOK'
    BY <2>3 DEF LogDurably, Invalidate, NoMemo, Excess
  <2>4. ASSUME NEW r \in Requests, NEW c \in Costs, LogFails(r, c)
        PROVE  TypeOK'
    BY <2>4 DEF LogFails, Invalidate, NoMemo, Excess, Larger
  <2>5. ASSUME NEW k \in Keys, NEW b \in Budgets, NEW d \in BOOLEAN, PatchKey(k, b, d)
        PROVE  TypeOK'
    BY <2>5 DEF PatchKey, Invalidate, NoMemo
  <2>6. CASE Tick
    BY SMTT(30), <2>6 DEF Tick, MemoFresh
  <2>7. CASE TurnMonth
    BY <2>7 DEF TurnMonth
  <2>8. CASE Restart
    BY <2>8 DEF Restart, NoMemo
  <2>9. CASE UNCHANGED vars
    BY <2>9 DEF vars
  <2> QED
    BY <2>1, <2>2, <2>3, <2>4, <2>5, <2>6, <2>7, <2>8, <2>9 DEF Next
<1> QED
  BY <1>1, <1>2, PTL DEF Spec

(* The memo never understates the month: every step that can raise the     *)
(* sum drops the key's entry in the same turn, and the month turn only     *)
(* lowers the sum.                                                         *)
THEOREM MemoSound == Spec => []MemoNeverUnderstates
<1>1. Init => MemoNeverUnderstates
  BY DEF Init, MemoNeverUnderstates, NoMemo
<1>2. TypeOK /\ MemoNeverUnderstates /\ [Next]_vars => MemoNeverUnderstates'
  <2> SUFFICES ASSUME TypeOK, MemoNeverUnderstates, [Next]_vars
               PROVE  MemoNeverUnderstates'
    OBVIOUS
  <2> USE DEF TypeOK, MemoNeverUnderstates
  <2>1. ASSUME NEW r \in Requests, NEW k \in Keys, Authenticate(r, k)
        PROVE  MemoNeverUnderstates'
    BY <2>1 DEF Authenticate
  <2>2. ASSUME NEW r \in Requests, NEW e \in Estimates, Reserve(r, e)
        PROVE  MemoNeverUnderstates'
    BY <2>2 DEF Reserve, Remember
  <2>3. ASSUME NEW r \in Requests, NEW c \in Costs, LogDurably(r, c)
        PROVE  MemoNeverUnderstates'
    BY <2>3 DEF LogDurably, Invalidate, NoMemo
  <2>4. ASSUME NEW r \in Requests, NEW c \in Costs, LogFails(r, c)
        PROVE  MemoNeverUnderstates'
    BY <2>4 DEF LogFails, Invalidate, NoMemo
  <2>5. ASSUME NEW k \in Keys, NEW b \in Budgets, NEW d \in BOOLEAN, PatchKey(k, b, d)
        PROVE  MemoNeverUnderstates'
    BY <2>5 DEF PatchKey, Invalidate, NoMemo
  <2>6. CASE Tick
    BY <2>6 DEF Tick, MemoFresh
  <2>7. CASE TurnMonth
    BY <2>7 DEF TurnMonth
  <2>8. CASE Restart
    BY <2>8 DEF Restart, NoMemo
  <2>9. CASE UNCHANGED vars
    BY <2>9 DEF vars
  <2> QED
    BY <2>1, <2>2, <2>3, <2>4, <2>5, <2>6, <2>7, <2>8, <2>9 DEF Next
<1> QED
  BY <1>1, <1>2, TypeCorrect, PTL DEF Spec

-----------------------------------------------------------------------------
(* What a step does to the reservations.                                   *)

(* A request has held, since it was admitted, one of the estimates, under  *)
(* one of the budgets.                                                     *)
HeldAmounts ==
  \A r \in Requests :
    /\ phase[r] # "new" => ctx[r].budget \in Budgets
    /\ phase[r] = "reserved" => active[r] \in Estimates

LEMMA HeldAmountsInvariant == Spec => []HeldAmounts
<1>1. Init => HeldAmounts
  BY DEF Init, HeldAmounts
<1>2. TypeOK /\ HeldAmounts /\ [Next]_vars => HeldAmounts'
  <2> SUFFICES ASSUME TypeOK, HeldAmounts, [Next]_vars
               PROVE  HeldAmounts'
    OBVIOUS
  <2> USE DEF TypeOK, HeldAmounts, Phases
  <2>1. ASSUME NEW r \in Requests, NEW k \in Keys, Authenticate(r, k)
        PROVE  HeldAmounts'
    BY <2>1 DEF Authenticate
  <2>2. ASSUME NEW r \in Requests, NEW e \in Estimates, Reserve(r, e)
        PROVE  HeldAmounts'
    BY <2>2 DEF Reserve
  <2>3. ASSUME NEW r \in Requests, NEW c \in Costs, LogDurably(r, c) \/ LogFails(r, c)
        PROVE  HeldAmounts'
    BY <2>3 DEF LogDurably, LogFails
  <2>4. ASSUME NEW k \in Keys, NEW b \in Budgets, NEW d \in BOOLEAN, PatchKey(k, b, d)
        PROVE  HeldAmounts'
    BY <2>4 DEF PatchKey
  <2>5. CASE Tick \/ TurnMonth \/ Restart
    BY <2>5 DEF Tick, TurnMonth, Restart
  <2>6. CASE UNCHANGED vars
    BY <2>6 DEF vars
  <2> QED
    BY <2>1, <2>2, <2>3, <2>4, <2>5, <2>6 DEF Next
<1> QED
  BY <1>1, <1>2, TypeCorrect, PTL DEF Spec

(* Who holds a reservation of a key, and what they hold.                   *)
LEMMA HoldersFinite ==
  ASSUME NEW k
  PROVE  Holders(k) \subseteq Requests /\ IsFiniteSet(Holders(k))
<1>1. Holders(k) \subseteq Requests
  BY DEF Holders
<1> QED
  BY <1>1, FS_Subset

LEMMA ActiveSpendType ==
  ASSUME TypeOK, NEW k
  PROVE  ActiveSpend(k) \in Nat
<1>1. \A r \in Holders(k) : active[r] \in Nat
  BY HoldersFinite DEF TypeOK
<1> QED
  BY <1>1, HoldersFinite, SumIsNat DEF ActiveSpend

(* The holders of a key and what they hold did not change.                 *)
LEMMA SameHolders ==
  ASSUME NEW k, Holders(k)' = Holders(k), \A r \in Holders(k) : active'[r] = active[r]
  PROVE  ActiveSpend(k)' = ActiveSpend(k)
<1>1. SumFunctionOnSet(active', Holders(k)) = SumFunctionOnSet(active, Holders(k))
  BY HoldersFinite, SumAgrees
<1> QED
  BY <1>1 DEF ActiveSpend

(* One request joined the holders of a key.                                *)
LEMMA OneMoreHolder ==
  ASSUME TypeOK, TypeOK', NEW k, NEW r \in Requests, r \notin Holders(k),
         Holders(k)' = Holders(k) \cup {r},
         \A q \in Holders(k) : active'[q] = active[q]
  PROVE  ActiveSpend(k)' = ActiveSpend(k) + active'[r]
<1> DEFINE H == Holders(k) \cup {r}
<1>1. IsFiniteSet(H) /\ H \ {r} = Holders(k) /\ H \subseteq Requests
  BY HoldersFinite, FS_AddElement
<1>2. SumFunctionOnSet(active', H) = active'[r] + SumFunctionOnSet(active', H \ {r})
  <2>1. \A q \in H : active'[q] \in Nat
    BY <1>1 DEF TypeOK
  <2> QED
    BY <1>1, <2>1, SumSplits
<1>3. SumFunctionOnSet(active', Holders(k)) = SumFunctionOnSet(active, Holders(k))
  BY HoldersFinite, SumAgrees
<1>4. ActiveSpend(k) \in Nat /\ active'[r] \in Nat
  BY ActiveSpendType DEF TypeOK
<1>5. ActiveSpend(k)' = SumFunctionOnSet(active', H)
  BY DEF ActiveSpend
<1>6. ActiveSpend(k) = SumFunctionOnSet(active', H \ {r})
  BY <1>1, <1>3 DEF ActiveSpend
<1> QED
  BY <1>2, <1>4, <1>5, <1>6

(* One request left the holders of a key.                                  *)
LEMMA OneHolderLess ==
  ASSUME TypeOK, NEW k, NEW r \in Holders(k),
         Holders(k)' = Holders(k) \ {r},
         \A q \in Holders(k) \ {r} : active'[q] = active[q]
  PROVE  /\ ActiveSpend(k) = ActiveSpend(k)' + active[r]
         /\ ActiveSpend(k)' \in Nat
<1> DEFINE H == Holders(k) \ {r}
<1>1. IsFiniteSet(Holders(k)) /\ IsFiniteSet(H) /\ Holders(k) \subseteq Requests
  BY HoldersFinite, FS_Subset
<1>2. SumFunctionOnSet(active, Holders(k)) = active[r] + SumFunctionOnSet(active, H)
  <2>1. \A q \in Holders(k) : active[q] \in Nat
    BY <1>1 DEF TypeOK
  <2> QED
    BY <1>1, <2>1, SumSplits
<1>3. SumFunctionOnSet(active', H) = SumFunctionOnSet(active, H)
  BY <1>1, SumAgrees
<1>4. SumFunctionOnSet(active, H) \in Nat /\ active[r] \in Nat
  BY <1>1, SumIsNat DEF TypeOK
<1> QED
  BY <1>2, <1>3, <1>4 DEF ActiveSpend

(* What each step does to the sums the ledger is told in.                  *)
LEMMA AdmissionHolds ==
  ASSUME TypeOK, TypeOK', NEW r \in Requests, NEW e \in Estimates, Reserve(r, e),
         Fits(ctx[r].key, ctx[r].budget, e), NEW k \in Keys
  PROVE  ActiveSpend(k)' = IF k = ctx[r].key THEN ActiveSpend(k) + e ELSE ActiveSpend(k)
<1>1. /\ phase[r] = "authed" /\ ctx' = ctx
      /\ phase' = [phase EXCEPT ![r] = "reserved"]
      /\ active' = [active EXCEPT ![r] = e]
  BY DEF Reserve
<1>2. r \notin Holders(k) /\ \A q \in Holders(k) : active'[q] = active[q]
  BY <1>1 DEF Holders, TypeOK
<1>3. CASE k = ctx[r].key
  <2>1. Holders(k)' = Holders(k) \cup {r}
    BY <1>1, <1>3 DEF Holders, TypeOK
  <2> QED
    BY <1>1, <1>2, <1>3, <2>1, OneMoreHolder DEF TypeOK
<1>4. CASE k # ctx[r].key
  <2>1. Holders(k)' = Holders(k)
    BY <1>1, <1>4 DEF Holders, TypeOK
  <2> QED
    BY <1>2, <1>4, <2>1, SameHolders
<1> QED
  BY <1>3, <1>4

(* A refusal changes what nobody holds.                                    *)
LEMMA RefusalHoldsNothing ==
  ASSUME TypeOK, NEW r \in Requests, NEW e \in Estimates, Reserve(r, e),
         ~Fits(ctx[r].key, ctx[r].budget, e), NEW k \in Keys
  PROVE  ActiveSpend(k)' = ActiveSpend(k)
<1>1. /\ phase[r] = "authed" /\ ctx' = ctx
      /\ phase' = [phase EXCEPT ![r] = "refused"]
      /\ active' = [active EXCEPT ![r] = 0]
  BY DEF Reserve
<1>2. Holders(k)' = Holders(k) /\ \A q \in Holders(k) : active'[q] = active[q]
  BY <1>1 DEF Holders, TypeOK
<1> QED
  BY <1>2, SameHolders

(* A log, written or failed, releases what its request held and nothing    *)
(* else.                                                                   *)
LEMMA ReconciliationReleases ==
  ASSUME TypeOK, NEW r \in Requests, NEW c \in Costs, LogDurably(r, c) \/ LogFails(r, c),
         NEW k \in Keys
  PROVE  /\ ActiveSpend(k) = ActiveSpend(k)' + (IF k = ctx[r].key THEN active[r] ELSE 0)
         /\ ActiveSpend(k)' \in Nat
<1>1. /\ phase[r] = "reserved" /\ ctx' = ctx
      /\ \E done \in {"logged", "indebted"} : phase' = [phase EXCEPT ![r] = done]
      /\ active' = [active EXCEPT ![r] = 0]
  BY DEF LogDurably, LogFails
<1>2. CASE k = ctx[r].key
  <2>1. r \in Holders(k) /\ Holders(k)' = Holders(k) \ {r}
    BY <1>1, <1>2 DEF Holders, TypeOK
  <2>2. \A q \in Holders(k) \ {r} : active'[q] = active[q]
    BY <1>1 DEF Holders, TypeOK
  <2> QED
    BY <1>2, <2>1, <2>2, OneHolderLess
<1>3. CASE k # ctx[r].key
  <2>1. Holders(k)' = Holders(k) /\ \A q \in Holders(k) : active'[q] = active[q]
    BY <1>1, <1>3 DEF Holders, TypeOK
  <2> QED
    BY <1>3, <2>1, SameHolders, ActiveSpendType
<1> QED
  BY <1>2, <1>3

-----------------------------------------------------------------------------
(* Whatever the memo said, an admitted request fits, its own estimate      *)
(* included, under what its key has really spent, holds and owes.          *)
THEOREM AdmissionFits == Spec => AdmissionWithinBudget
<1>1. ASSUME TypeOK, TypeOK', MemoNeverUnderstates, [Next]_vars,
             NEW r \in Requests, phase[r] = "authed", phase'[r] = "reserved"
      PROVE  LET k == ctx[r].key
             IN spend'[k] + ActiveSpend(k)' + debt'[k] <= ctx[r].budget
  <2>1. PICK k \in Keys : k = ctx[r].key
    BY <1>1 DEF TypeOK
  <2>2. PICK e \in Estimates : Reserve(r, e)
    <3> USE <1>1 DEF TypeOK, Phases
    <3>1. ASSUME NEW q \in Requests, NEW j \in Keys, Authenticate(q, j)
          PROVE  FALSE
      BY <3>1 DEF Authenticate
    <3>2. ASSUME NEW q \in Requests, NEW e \in Estimates, Reserve(q, e)
          PROVE  q = r
      BY <3>2 DEF Reserve
    <3>3. ASSUME NEW q \in Requests, NEW c \in Costs, LogDurably(q, c) \/ LogFails(q, c)
          PROVE  FALSE
      BY <3>3 DEF LogDurably, LogFails
    <3>4. ASSUME NEW j \in Keys, NEW b \in Budgets, NEW d \in BOOLEAN, PatchKey(j, b, d)
          PROVE  FALSE
      BY <3>4 DEF PatchKey
    <3>5. ~Tick /\ ~TurnMonth /\ ~Restart /\ ~UNCHANGED vars
      BY DEF Tick, TurnMonth, Restart, vars
    <3> QED
      BY <3>1, <3>2, <3>3, <3>4, <3>5 DEF Next
  <2>3. Fits(k, ctx[r].budget, e)
    BY <1>1, <2>1, <2>2 DEF Reserve, TypeOK
  <2>4. spend' = spend /\ debt' = debt /\ ctx' = ctx
    BY <2>2 DEF Reserve
  <2>5. ActiveSpend(k)' = ActiveSpend(k) + e
    BY <1>1, <2>1, <2>2, <2>3, AdmissionHolds
  <2>6. spend[k] <= CurrentSettledSpend(k)
    BY <1>1, <2>1 DEF MemoNeverUnderstates, CurrentSettledSpend, MemoFresh, TypeOK
  <2>7. /\ CurrentSettledSpend(k) \in Nat /\ spend[k] \in Nat /\ debt[k] \in Nat /\ e \in Nat
        /\ ActiveSpend(k) \in Nat /\ ctx[r].budget \in Nat
    BY <1>1, <2>1, ActiveSpendType DEF CurrentSettledSpend, TypeOK
  <2>8. spend'[k] + ActiveSpend(k)' + debt'[k] <= ctx[r].budget
    BY <2>3, <2>4, <2>5, <2>6, <2>7 DEF Fits
  <2>9. ActiveSpend(ctx[r].key)' = ActiveSpend(k)'
    BY <2>1, <2>4
  <2> QED
    BY <2>1, <2>8, <2>9
<1>2. TypeOK /\ TypeOK' /\ MemoNeverUnderstates /\ [Next]_vars =>
        [\A r \in Requests :
           phase[r] = "authed" /\ phase'[r] = "reserved" =>
             LET k == ctx[r].key
             IN spend'[k] + ActiveSpend(k)' + debt'[k] <= ctx[r].budget]_vars
  BY <1>1
<1> QED
  BY <1>2, TypeCorrect, MemoSound, PTL DEF Spec, AdmissionWithinBudget

-----------------------------------------------------------------------------
(* The refinement of the ledger.                                           *)

(* The largest budget of the configuration.                                *)
Largest == CHOOSE b \in Budgets : \A x \in Budgets : x <= b

LEMMA LargestBudget == Largest \in Budgets /\ Largest \in Nat /\ \A x \in Budgets : x <= Largest
<1>1. \E b \in Budgets : \A x \in Budgets : x <= b
  BY LargestExists
<1> QED
  BY <1>1 DEF Largest

(* A Map, a token and a memo behind every move of the ledger.              *)
LEMMA LedgerStep ==
  ASSUME TypeOK, TypeOK', HeldAmounts, MemoNeverUnderstates, [Next]_vars
  PROVE  [Ledger!LedgerNext]_(Ledger!ledger)
<1> DEFINE held == [k \in Keys |-> ActiveSpend(k)]
           Same == \A k \in Keys : ActiveSpend(k)' = ActiveSpend(k)
<1> USE DEF TypeOK, Phases
<1>1. ASSUME Same, UNCHANGED <<spend, debt, overrun>>
      PROVE  UNCHANGED Ledger!ledger
  BY <1>1 DEF Ledger!ledger
<1>2. ASSUME NEW r \in Requests, NEW k \in Keys, Authenticate(r, k)
      PROVE  UNCHANGED Ledger!ledger
  <2>1. \A j \in Keys : Holders(j)' = Holders(j) /\ active' = active
    BY <1>2 DEF Authenticate, Holders
  <2> QED
    BY <1>1, <1>2, <2>1, SameHolders DEF Authenticate
<1>3. ASSUME NEW r \in Requests, NEW e \in Estimates, Reserve(r, e)
      PROVE  [Ledger!LedgerNext]_(Ledger!ledger)
  <2>1. PICK k \in Keys : k = ctx[r].key
    BY <1>3 DEF Reserve
  <2>2. CASE Fits(k, ctx[r].budget, e)
    <3>1. \A j \in Keys : ActiveSpend(j)' = IF j = k THEN ActiveSpend(j) + e ELSE ActiveSpend(j)
      BY <1>3, <2>1, <2>2, AdmissionHolds
    <3>2. held' = [held EXCEPT ![k] = @ + e]
      BY <3>1
    <3>3. spend[k] + ActiveSpend(k) + debt[k] + e <= Largest
      <4>1. spend[k] <= CurrentSettledSpend(k) /\ CurrentSettledSpend(k) \in Nat
        BY DEF MemoNeverUnderstates, CurrentSettledSpend, MemoFresh
      <4>2. ctx[r].budget <= Largest /\ ctx[r].budget \in Nat /\ Largest \in Nat
        BY <1>3, LargestBudget DEF HeldAmounts, Reserve
      <4>3. ActiveSpend(k) \in Nat /\ spend[k] \in Nat /\ debt[k] \in Nat /\ e \in Nat
        BY ActiveSpendType
      <4> QED
        BY <2>2, <4>1, <4>2, <4>3 DEF Fits
    <3>4. Ledger!Admit(k, e)
      BY <1>3, <3>2, <3>3 DEF Ledger!Admit, Ledger!Exposure, Reserve, Largest
    <3> QED
      BY <3>4 DEF Ledger!LedgerNext
  <2>3. CASE ~Fits(k, ctx[r].budget, e)
    <3>1. Same
      BY <1>3, <2>1, <2>3, RefusalHoldsNothing
    <3> QED
      BY <1>1, <1>3, <3>1 DEF Reserve
  <2> HIDE DEF TypeOK, Phases
  <2> QED
    BY <2>2, <2>3
<1>4. ASSUME NEW r \in Requests, NEW c \in Costs, LogDurably(r, c) \/ LogFails(r, c)
      PROVE  Ledger!LedgerNext
  <2>1. PICK k \in Keys : k = ctx[r].key
    BY <1>4 DEF LogDurably, LogFails
  <2>2. active[r] \in Estimates /\ active[r] \in Nat
    BY <1>4 DEF LogDurably, LogFails, HeldAmounts
  <2>3. \A j \in Keys :
          /\ ActiveSpend(j) = ActiveSpend(j)' + (IF j = k THEN active[r] ELSE 0)
          /\ ActiveSpend(j)' \in Nat /\ ActiveSpend(j) \in Nat
    BY <1>4, <2>1, ReconciliationReleases, ActiveSpendType
  <2>4. held' = [held EXCEPT ![k] = @ - active[r]] /\ active[r] <= held[k]
    <3>1. active[r] <= ActiveSpend(k)
      BY <2>2, <2>3
    <3>2. \A j \in Keys :
            ActiveSpend(j)' = IF j = k THEN ActiveSpend(j) - active[r] ELSE ActiveSpend(j)
      BY <2>2, <2>3
    <3> QED
      BY <3>1, <3>2
  <2>5. CASE LogDurably(r, c)
    <3>1. Ledger!Settle(k, active[r], c)
      BY <2>1, <2>4, <2>5 DEF Ledger!Settle, Ledger!Excess, LogDurably, Excess
    <3> QED
      BY <2>2, <3>1 DEF Ledger!LedgerNext
  <2>6. CASE LogFails(r, c)
    <3>1. Ledger!Default(k, active[r], c)
      BY <2>1, <2>4, <2>6
      DEF Ledger!Default, Ledger!Excess, Ledger!Larger, LogFails, Excess, Larger
    <3> QED
      BY <2>2, <3>1 DEF Ledger!LedgerNext
  <2> QED
    BY <1>4, <2>5, <2>6
<1>5. ASSUME NEW k \in Keys, NEW b \in Budgets, NEW d \in BOOLEAN, PatchKey(k, b, d)
      PROVE  UNCHANGED Ledger!ledger
  <2>1. \A j \in Keys : Holders(j)' = Holders(j) /\ active' = active
    BY <1>5 DEF PatchKey, Holders
  <2> QED
    BY <1>1, <1>5, <2>1, SameHolders DEF PatchKey
<1>6. CASE Tick
  <2>1. \A j \in Keys : Holders(j)' = Holders(j) /\ active' = active
    BY <1>6 DEF Tick, Holders
  <2> QED
    BY <1>1, <1>6, <2>1, SameHolders DEF Tick
<1>7. CASE TurnMonth
  <2>1. \A j \in Keys : Holders(j)' = Holders(j) /\ active' = active
    BY <1>7 DEF TurnMonth, Holders
  <2>2. held' = held
    BY <2>1, SameHolders
  <2>3. Ledger!TurnMonth
    BY <1>7, <2>2 DEF TurnMonth, Ledger!TurnMonth
  <2> QED
    BY <2>3 DEF Ledger!LedgerNext
<1>8. CASE Restart
  <2>1. \A j \in Keys : Holders(j)' = {}
    BY <1>8 DEF Restart, Holders
  <2>2. \A j \in Keys : ActiveSpend(j)' = 0
    BY <2>1, SumOfNothing DEF ActiveSpend
  <2>3. Ledger!Forget
    BY <1>8, <2>2 DEF Restart, Ledger!Forget
  <2> QED
    BY <2>3 DEF Ledger!LedgerNext
<1>9. CASE UNCHANGED vars
  <2>1. \A j \in Keys : Holders(j)' = Holders(j) /\ active' = active
    BY <1>9 DEF vars, Holders
  <2> QED
    BY <1>1, <1>9, <2>1, SameHolders DEF vars
<1> QED
  BY <1>2, <1>3, <1>4, <1>5, <1>6, <1>7, <1>8, <1>9 DEF Next

(* The Maps, tokens and memo of budget.ts implement the ledger: every step *)
(* moves money as one of the ledger's moves does, or not at all.           *)
THEOREM GuardImplementsLedger == Spec => ImplementsLedger
<1>1. Init => Ledger!LedgerInit
  <2> SUFFICES ASSUME Init PROVE Ledger!LedgerInit
    OBVIOUS
  <2>1. \A k \in Keys : Holders(k) = {}
    BY DEF Init, Holders
  <2>2. \A k \in Keys : ActiveSpend(k) = 0
    BY <2>1, SumOfNothing DEF ActiveSpend
  <2> QED
    BY <2>2 DEF Init, Ledger!LedgerInit
<1>2. TypeOK /\ TypeOK' /\ HeldAmounts /\ MemoNeverUnderstates /\ [Next]_vars
        => [Ledger!LedgerNext]_(Ledger!ledger)
  BY LedgerStep
<1> QED
  BY <1>1, <1>2, TypeCorrect, HeldAmountsInvariant, MemoSound, PTL
  DEF Spec, ImplementsLedger, Ledger!LedgerSpec

LEMMA HoldsAreNat == TypeOK => \A k \in Keys : ActiveSpend(k) \in Nat
  BY ActiveSpendType

(* A key's exposure - rows of the month, holds and debt - never exceeds    *)
(* the largest budget by more than its requests cost beyond their          *)
(* estimates: what reserve(), the durable reconciliation, retainDebt(),    *)
(* the memo, the month turn and a restart of budget.ts guarantee together. *)
THEOREM ExposureIsBounded == Spec => []Ledger!ExposureBounded
<1>1. Init => Ledger!ExposureBounded
  <2> SUFFICES ASSUME Init, NEW k \in Keys
               PROVE  Ledger!Exposure(k) <= Largest + overrun[k]
    BY DEF Ledger!ExposureBounded, Largest
  <2>1. Holders(k) = {}
    BY DEF Init, Holders
  <2>2. ActiveSpend(k) = 0 /\ spend[k] = 0 /\ debt[k] = 0 /\ overrun[k] = 0
    BY <2>1, SumOfNothing DEF ActiveSpend, Init
  <2> QED
    BY <2>2, LargestBudget DEF Ledger!Exposure
<1>2. ASSUME TypeOK, TypeOK', Ledger!ExposureBounded, [Ledger!LedgerNext]_(Ledger!ledger)
      PROVE  Ledger!ExposureBounded'
  <2> DEFINE held == [k \in Keys |-> ActiveSpend(k)]
             Bounded(j) == spend[j] + held[j] + debt[j] <= Largest + overrun[j]
  <2>1. /\ spend \in [Keys -> Nat] /\ held \in [Keys -> Nat] /\ debt \in [Keys -> Nat]
        /\ overrun \in [Keys -> Nat] /\ Largest \in Nat
        /\ held' \in [Keys -> Nat]
    <3>1. TypeOK /\ TypeOK'
      BY <1>2
    <3>2. \A k \in Keys : ActiveSpend(k) \in Nat
      BY <3>1, ActiveSpendType
    <3>3. (\A k \in Keys : ActiveSpend(k) \in Nat)'
      BY <3>1, HoldsAreNat, PTL
    <3> QED
      BY <3>1, <3>2, <3>3, LargestBudget DEF TypeOK
  <2>2. SUFFICES ASSUME NEW j \in Keys
                 PROVE  Bounded(j)'
    BY DEF Ledger!ExposureBounded, Ledger!Exposure, Largest
  <2>3. Bounded(j)
    BY <1>2 DEF Ledger!ExposureBounded, Ledger!Exposure, Largest
  <2> USE <2>1, <2>3
  <2>4. ASSUME NEW k \in Keys, NEW e \in Estimates \cup Costs, Ledger!Admit(k, e)
        PROVE  Bounded(j)'
    <3>1. /\ spend' = spend /\ debt' = debt /\ overrun' = overrun
          /\ held' = [held EXCEPT ![k] = @ + e]
          /\ spend[k] + held[k] + debt[k] + e <= Largest
      BY <2>4 DEF Ledger!Admit, Ledger!Exposure, Largest
    <3> HIDE DEF held
    <3>2. CASE j = k
      BY <3>1, <3>2
    <3>3. CASE j # k
      BY <3>1, <3>3
    <3> QED
      BY <3>2, <3>3
  <2>5. ASSUME NEW k \in Keys, NEW a \in Estimates \cup Costs, NEW c \in Estimates \cup Costs,
               Ledger!Settle(k, a, c)
        PROVE  Bounded(j)'
    <3>1. /\ debt' = debt /\ spend' = [spend EXCEPT ![k] = @ + c]
          /\ overrun' = [overrun EXCEPT ![k] = @ + Excess(a, c)]
          /\ held' = [held EXCEPT ![k] = @ - a] /\ a <= held[k]
      BY <2>5 DEF Ledger!Settle, Ledger!Excess, Excess
    <3>2. c - a <= Excess(a, c) /\ Excess(a, c) \in Nat /\ a \in Nat /\ c \in Nat
      BY DEF Excess
    <3> HIDE DEF held
    <3>3. CASE j = k
      BY <3>1, <3>2, <3>3
    <3>4. CASE j # k
      BY <3>1, <3>4
    <3> QED
      BY <3>3, <3>4
  <2>6. ASSUME NEW k \in Keys, NEW a \in Estimates \cup Costs, NEW c \in Estimates \cup Costs,
               Ledger!Default(k, a, c)
        PROVE  Bounded(j)'
    <3>1. /\ spend' = spend /\ debt' = [debt EXCEPT ![k] = @ + Larger(a, c)]
          /\ overrun' = [overrun EXCEPT ![k] = @ + Excess(a, c)]
          /\ held' = [held EXCEPT ![k] = @ - a] /\ a <= held[k]
      BY <2>6 DEF Ledger!Default, Ledger!Excess, Ledger!Larger, Excess, Larger
    <3>2. Larger(a, c) = a + Excess(a, c) /\ Excess(a, c) \in Nat /\ a \in Nat
      BY DEF Excess, Larger
    <3> HIDE DEF held
    <3>3. CASE j = k
      BY <3>1, <3>2, <3>3
    <3>4. CASE j # k
      BY <3>1, <3>4
    <3> QED
      BY <3>3, <3>4
  <2>7. CASE Ledger!TurnMonth
    <3>1. spend' = [k \in Keys |-> 0] /\ debt' = debt /\ overrun' = overrun /\ held' = held
      BY <2>7 DEF Ledger!TurnMonth
    <3> HIDE DEF held
    <3> QED
      BY <3>1
  <2>8. CASE Ledger!Forget
    <3>1. /\ spend' = spend /\ overrun' = overrun
          /\ debt' = [k \in Keys |-> 0] /\ held' = [k \in Keys |-> 0]
      BY <2>8 DEF Ledger!Forget
    <3> HIDE DEF held
    <3> QED
      BY <3>1
  <2>9. CASE UNCHANGED Ledger!ledger
    <3>1. spend' = spend /\ debt' = debt /\ overrun' = overrun /\ held' = held
      BY <2>9 DEF Ledger!ledger
    <3> HIDE DEF held
    <3> QED
      BY <3>1
  <2> QED
    BY <1>2, <2>4, <2>5, <2>6, <2>7, <2>8, <2>9 DEF Ledger!LedgerNext
<1>3. Spec => [][Ledger!LedgerNext]_(Ledger!ledger)
  BY GuardImplementsLedger, PTL DEF ImplementsLedger, Ledger!LedgerSpec
<1> QED
  BY <1>1, <1>2, <1>3, TypeCorrect, PTL DEF Spec

=============================================================================
