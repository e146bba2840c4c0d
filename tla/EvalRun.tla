------------------------------- MODULE EvalRun ------------------------------
(***************************************************************************)
(* pg-eval run (evals runner.ts, pacing.ts, gateway-client.ts, judge.ts,   *)
(* assertions.ts) against the gateway's eval store (evals/dao.ts,          *)
(* admin/evals.ts): references are frozen, every case is answered and      *)
(* judged, each model run is stored in one transaction, and the exit code  *)
(* compares the candidate with its baseline.                               *)
(*                                                                         *)
(* One target model, DeepSeek, and its judge, as the code requires.  Time  *)
(* is what the pacer sees; scores are halves.  A case has some checks that *)
(* are deterministic and at most one rubric.                               *)
(***************************************************************************)
EXTENDS PromptRegistry, FiniteSets, SequencesExt

CONSTANTS
  NumCases, RubricCases,     (* the dataset, and its cases with a rubric   *)
  RunOptions,                (* the options each run in turn may be given  *)
  JudgeVerdicts,             (* what a judge may answer, scores in halves  *)
  PassesNeeded,              (* its threshold, in cases                    *)
  MaxPassDrop, MaxScoreDrop, (* in cases, and in halves                    *)
  Interval                   (* min-request-interval-ms of a paced run     *)

(* The options of a run: --baseline and --baseline-from-history, --allow-  *)
(* cache, the content of the dataset file, --min-request-interval-ms.      *)
RunOption ==
  [mode : {"single", "paired", "history"}, cached : BOOLEAN, hash : STRING, paced : BOOLEAN]

ASSUME RunConstants ==
  /\ RunOptions \in Seq(SUBSET RunOption)
  /\ NumCases \in Nat \ {0} /\ RubricCases \subseteq 1 .. NumCases
  /\ PassesNeeded \in 0 .. NumCases /\ MaxPassDrop \in 0 .. NumCases
  /\ MaxScoreDrop \in 0 .. 2 /\ JudgeVerdicts \subseteq [pass : BOOLEAN, score : 0 .. 2] /\ Interval \in Nat

VARIABLES
  run,       (* the process of this run: its options and where it stands   *)
  work,      (* runModel: the cases done, the active case and the charges  *)
  metrics,   (* the finished model runs and the historical one, by side    *)
  store,     (* eval_runs with their eval_results, oldest first            *)
  pacer,     (* per model, the time to its next slot                       *)
  due,       (* the time to the slot the run is waiting for                *)
  overdue,   (* history: the timer of that wait fired late                 *)
  lastCall,  (* history: per model, how long ago its last call began, and *)
             (* whether its timer had been late                            *)
  runsMade

runState == <<run, work, metrics, store, pacer, due, overdue, lastCall, runsMade>>

Screen == "safety_screen"
Rubric == "judge_rubric_v1"
Target == "deepseek"
JudgeModel == "terra"
Models == {Target, JudgeModel}

Options(mode, cached, hash, paced) ==
  [mode |-> mode, cached |-> cached, hash |-> hash, paced |-> paced]

NoScore == 100
NotRunning ==
  [pc |-> "idle", options |-> Options("single", FALSE, "h", FALSE), side |-> "candidate",
   candidate |-> NoVersion, baseline |-> NoVersion]
NoWork == [results |-> <<>>, cost |-> 0, charged |-> 0]
LongAgo == [m \in Models |-> [age |-> Interval, late |-> FALSE]]

RunInit ==
  /\ run = NotRunning /\ work = NoWork /\ metrics = <<>> /\ store = <<>>
  /\ pacer = [m \in Models |-> 0] /\ due = 0 /\ overdue = FALSE
  /\ lastCall = LongAgo /\ runsMade = 0

timing == <<pacer, due, overdue, lastCall>>

(* runCli's 0, 1 and 2; the process and its memory are gone.               *)
Exit(code) ==
  /\ run' = [run EXCEPT !.pc = code]
  /\ work' = NoWork
  /\ pacer' = [m \in Models |-> 0] /\ due' = 0 /\ overdue' = FALSE /\ lastCall' = LongAgo

(* A new process: the options it was given.                                *)
BeginRun(options) ==
  /\ run.pc \in {"idle", "0", "1", "2"}
  /\ run' = [NotRunning EXCEPT !.pc = "freeze", !.options = options]
  /\ metrics' = <<>> /\ work' = NoWork /\ runsMade' = runsMade + 1
  /\ UNCHANGED <<store, timing, registry>>

-----------------------------------------------------------------------------
(* The references are resolved once, from one listing of the registry.     *)

SamePairedVersion(candidate, baseline) == candidate = baseline

FreezeRef(label) == Labelled(Screen, label)

FirstSide(candidate, baseline) ==
  IF run.options.mode = "paired" /\ ~SamePairedVersion(candidate, baseline)
  THEN "baseline" ELSE "candidate"

Freeze ==
  /\ run.pc = "freeze"
  /\ LET candidate == FreezeRef("candidate")
         baseline == IF run.options.mode = "single" THEN candidate ELSE FreezeRef("prod")
     IN IF NoVersion \in {candidate, baseline} THEN Exit("2")
        ELSE /\ run' = [run EXCEPT
                    !.candidate = candidate, !.baseline = baseline,
                    !.pc = IF run.options.mode = "history" THEN "history" ELSE "upsert",
                    !.side = FirstSide(candidate, baseline)]
             /\ UNCHANGED <<work, timing>>
  /\ UNCHANGED <<metrics, store, runsMade, registry>>

(* The rows a historical baseline may be taken from, and the one that is:  *)
(* the first of listEvalRuns' newest first.  Mutant: any version's.        *)
AnyVersionComparable(row) == row.hash = run.options.hash /\ row.ref = "prod"

Comparable(row) ==
  row.hash = run.options.hash /\ row.ref = "prod" /\ row.version = run.baseline

Newest(found) == CHOOSE i \in found : \A j \in found : j <= i

ReadHistory ==
  /\ run.pc = "history"
  /\ LET found == {i \in DOMAIN store : Comparable(store[i])}
     IN IF found = {} THEN Exit("2") /\ UNCHANGED metrics
        ELSE /\ metrics' = Upserted(<<>>, "baseline", store[Newest(found)].totals)
             /\ run' = [run EXCEPT !.pc = "upsert"]
             /\ UNCHANGED <<work, timing>>
  /\ UNCHANGED <<store, runsMade, registry>>

UpsertDataset ==
  /\ run.pc = "upsert"
  /\ run' = [run EXCEPT !.pc = "case"]
  /\ UNCHANGED <<work, metrics, store, timing, runsMade, registry>>

-----------------------------------------------------------------------------
(* PerModelRequestPacer: the slot is consumed before the wait, and a timer *)
(* may fire late.  Mutant: a wait leaves its slot to the next call.        *)

Later(a, b) == IF a >= b THEN a ELSE b

NextSlotUnset(m) == pacer[m]

NextSlot(m) == IF run.options.paced THEN pacer[m] + Interval ELSE 0

TakeTurn(m, from, to) ==
  /\ run.pc = from
  /\ run' = [run EXCEPT !.pc = to]
  /\ due' = pacer[m] /\ overdue' = FALSE
  /\ pacer' = [pacer EXCEPT ![m] = NextSlot(m)]
  /\ UNCHANGED <<work, metrics, store, lastCall, runsMade, registry>>

TimePasses ==
  /\ run.options.paced /\ run.pc \in {"case", "caseWait", "judge", "judgeWait"}
  /\ due' = Later(due, 1) - 1
  /\ overdue' = (run.pc \in {"caseWait", "judgeWait"} /\ due = 0)
  /\ pacer' = [m \in Models |-> Later(pacer[m], 1) - 1]
  /\ lastCall' = [m \in Models |-> [lastCall[m] EXCEPT !.age = IF @ < Interval THEN @ + 1 ELSE @]]
  /\ UNCHANGED <<run, work, metrics, store, runsMade, registry>>

CallBegins(m, pc) ==
  /\ run.pc = pc /\ due = 0
  /\ lastCall' = IF run.options.paced THEN [lastCall EXCEPT ![m] = [age |-> 0, late |-> overdue]]
             ELSE lastCall
  /\ UNCHANGED <<pacer, due, overdue, runsMade, metrics, store, registry>>

-----------------------------------------------------------------------------
(* runModel.                                                               *)

Frozen == IF run.side = "baseline" THEN run.baseline ELSE run.candidate

(* What runModel asks the gateway to render.  Mutant: the label itself.    *)
LabelRef == ByLabel(IF run.side = "baseline" THEN "prod" ELSE "candidate")

PromptRef == ByVersion(Frozen)

(* A charge of the gateway: a hit is free, and an error unless allowed.    *)
Charges == IF run.options.cached THEN {0, 1} ELSE {1}

(* The active case is the last of the results until it is complete.        *)
Result(by, pass, cost) ==
  [by |-> by, pass |-> pass, score |-> NoScore, rubric |-> "none", cost |-> cost]

(* Mutant of CaseCost: the case costs its last call.                       *)
LastCallCost(sofar, call) == call

CaseCost(sofar, call) == sofar + call

AfterCase(done) == IF done = NumCases THEN "persist" ELSE "case"

(* evaluateCaseAssertions: the deterministic checks come first, and one    *)
(* that fails spares the judge.                                            *)
NeedsJudge(n, passes) == passes /\ n \in RubricCases

(* llmRubric, with the judge's pinned prompt.                              *)
WithVerdict(case, verdict, charge) ==
  [case EXCEPT !.pass = verdict.pass, !.score = verdict.score,
               !.rubric = Rendered(Rubric, ByVersion(1)), !.cost = CaseCost(@, charge)]

(* A completion of the target model, and the checks of its answer.         *)
AnswerCase(charge, passes) ==
  LET n == Len(work.results) + 1
      result == Result(Rendered(Screen, PromptRef), passes, charge)
  IN /\ CallBegins(Target, "caseWait")
     /\ work' = [work EXCEPT !.results = Append(@, result), !.cost = @ + charge,
                             !.charged = @ + charge]
     /\ run' = [run EXCEPT !.pc = IF NeedsJudge(n, passes) THEN "judge" ELSE AfterCase(n)]

(* A completion of the judge's model that its schema accepts.              *)
AnswerJudge(charge, verdict) ==
  LET n == Len(work.results)
  IN /\ CallBegins(JudgeModel, "judgeWait")
     /\ work' = [work EXCEPT !.results[n] = WithVerdict(@, verdict, charge),
                             !.cost = @ + charge, !.charged = @ + charge]
     /\ run' = [run EXCEPT !.pc = AfterCase(n)]

(* passRate, scoreAvg as its sum and count, and the cost.                  *)
Scored(results) == {i \in DOMAIN results : results[i].score # NoScore}
Passed(results) == {i \in DOMAIN results : results[i].pass}

SumOf(amounts) ==
  LET sum[n \in 0 .. Len(amounts)] == IF n = 0 THEN 0 ELSE sum[n - 1] + amounts[n]
  IN sum[Len(amounts)]

Costs(results) == [i \in DOMAIN results |-> results[i].cost]
Scores(results) ==
  [i \in DOMAIN results |-> IF results[i].score = NoScore THEN 0 ELSE results[i].score]

Totals(results, cost) ==
  [passed |-> Cardinality(Passed(results)), scored |-> Cardinality(Scored(results)),
   scores |-> SumOf(Scores(results)), cost |-> cost]

(* assertStoredAggregates, and runBodySchema before it.                    *)
Aggregates(results) == Totals(results, SumOf(Costs(results)))

Accepted(row) == Len(row.results) = NumCases /\ row.totals = Aggregates(row.results)

Row ==
  [ref |-> IF run.side = "baseline" THEN "prod" ELSE "candidate", version |-> Frozen,
   hash |-> run.options.hash, results |-> work.results, totals |-> Totals(work.results, work.cost),
   charged |-> work.charged]

(* createEvalRun: the run and its results in one transaction.              *)
CreateEvalRun(row) == IF Accepted(row) THEN store' = Append(store, row) ELSE UNCHANGED store

(* createRun, whose answer must confirm every result and may be lost.      *)
Persist(lost) ==
  /\ run.pc = "persist"
  /\ CreateEvalRun(Row)
  /\ IF lost \/ ~Accepted(Row)
     THEN Exit("2") /\ UNCHANGED metrics
     ELSE /\ metrics' = Upserted(metrics, run.side, Row.totals)
          /\ run' = [run EXCEPT !.side = "candidate",
                                !.pc = IF run.side = "baseline" THEN "case" ELSE "verdict"]
          /\ work' = NoWork
          /\ UNCHANGED timing
  /\ UNCHANGED <<runsMade, registry>>

-----------------------------------------------------------------------------
(* The gate.                                                               *)

(* A mean of halves dropped by more than MaxScoreDrop of them.             *)
ScoreDropped(base, cand) ==
  base.scores * cand.scored - cand.scores * base.scored
    > MaxScoreDrop * base.scored * cand.scored

Regressed(base, cand) ==
  \/ base.passed - cand.passed > MaxPassDrop
  \/ base.scored > 0 /\ cand.scored = 0
  \/ base.scored > 0 /\ cand.scored > 0 /\ ScoreDropped(base, cand)

QualityFails(cand) ==
  \/ cand.passed < PassesNeeded
  \/ "baseline" \in DOMAIN metrics /\ Regressed(metrics["baseline"], cand)

Verdict ==
  /\ run.pc = "verdict"
  /\ Exit(IF QualityFails(metrics["candidate"]) THEN "1" ELSE "0")
  /\ UNCHANGED <<metrics, store, runsMade, registry>>

(* A request that fails, an answer no schema accepts, a signal.            *)
RunFails ==
  /\ run.pc \notin {"idle", "0", "1", "2"}
  /\ Exit("2")
  /\ UNCHANGED <<metrics, store, runsMade, registry>>

RunStep ==
  \/ Freeze \/ ReadHistory \/ UpsertDataset
  \/ TakeTurn(Target, "case", "caseWait") \/ TakeTurn(JudgeModel, "judge", "judgeWait")
  \/ TimePasses
  \/ \E charge \in Charges, passes \in BOOLEAN : AnswerCase(charge, passes)
  \/ \E charge \in Charges, verdict \in JudgeVerdicts : AnswerJudge(charge, verdict)
  \/ \E lost \in BOOLEAN : Persist(lost)
  \/ Verdict \/ RunFails
=============================================================================
