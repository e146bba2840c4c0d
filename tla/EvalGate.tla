------------------------------- MODULE EvalGate -----------------------------
(***************************************************************************)
(* The evaluation gate as a whole (.github/workflows/eval-gate.yml): the   *)
(* gateway is seeded, then evaluated, with the registry and the admin who  *)
(* moves its labels in between.  Seeds come first; an evaluation begins    *)
(* once one has succeeded and none is at work.                             *)
(***************************************************************************)
EXTENDS CiSeed, EvalRun

CONSTANT MaxAdminWrites (* bound on the admin's versions and label moves    *)

VARIABLES
  open,        (* the gate's evaluations have begun                        *)
  adminWrites

gateVars == <<seedState, runState, registry, open, adminWrites>>

GateInit ==
  /\ prompts = <<>> /\ labelHistory = <<>>
  /\ SeedInit /\ RunInit
  /\ open = FALSE /\ adminWrites = 0

Seeding ==
  /\ ~open
  /\ \E s \in Seeds : SeedStep(s)
  /\ UNCHANGED <<runState, open, adminWrites>>

(* The seeds' processes are gone, and with them what they remembered.      *)
OpenGate ==
  /\ ~open /\ SeedSucceeded
  /\ \A s \in Seeds : seedPc[s] \in Over
  /\ keyFile \in keys
  /\ open' = TRUE
  /\ seedPc' = [s \in Seeds |-> "done"]
  /\ handoff' = [s \in Seeds |-> Absent] /\ unset' = [s \in Seeds |-> <<>>]
  /\ killed' = {}
  /\ UNCHANGED <<keys, keyFile, datasetRow, overlapped, runState, registry, adminWrites>>

Evaluating ==
  /\ open
  /\ \/ runsMade < Len(RunOptions) /\ \E o \in RunOptions[runsMade + 1] : BeginRun(o)
     \/ RunStep
  /\ UNCHANGED <<seedState, open, adminWrites>>

AdminWrites ==
  /\ open /\ adminWrites < MaxAdminWrites
  /\ \/ AddVersion(Screen, "reworded")
     \/ \E l \in {"prod", "candidate"}, v \in 1 .. LatestVersion(Screen) : SetLabel(Screen, l, v)
  /\ adminWrites' = adminWrites + 1
  /\ UNCHANGED <<seedState, runState, open>>

GateNext == Seeding \/ OpenGate \/ Evaluating \/ AdminWrites

GateSpec == GateInit /\ [][GateNext]_gateVars

-----------------------------------------------------------------------------
(* Seeds that did not overlap, however often they failed, were killed or   *)
(* lost an answer: the one that reports success leaves exactly the locked  *)
(* contents, in order, with both labels on version 1 (ci-seed.ts seedCi).  *)
SeedCertifies ==
  SeedSucceeded /\ ~overlapped /\ adminWrites = 0 => FixturesAreLocked

(* Overlapping seeds too: after a success the handoff file holds the one   *)
(* key the gateway knows (ci-seed.ts ensureCiKey).                         *)
SeedHandsOverKey == SeedSucceeded => keys = {keyFile}

(* Every case of a stored run was answered by the version the run is       *)
(* filed under, whatever the labels did meanwhile, and every scored one    *)
(* was judged by the locked rubric (runner.ts freezeRef, judge.ts).        *)
RunIsOfOneVersion ==
  \A i \in DOMAIN store : \A r \in Range(store[i].results) :
    /\ r.by = prompts[Screen].versions[store[i].version]
    /\ r.score # NoScore => r.rubric = JudgeVersions[1]

(* A stored run accounts for every charge the gateway made for it, judge   *)
(* and target, and its columns agree with its cases, so that the store     *)
(* never refuses what the runner sends (evals/dao.ts, runner.ts).          *)
RunsAddUp ==
  /\ \A i \in DOMAIN store :
       /\ store[i].charged = SumOf(Costs(store[i].results))
       /\ store[i].totals = Totals(store[i].results, store[i].charged)
  /\ run.pc = "persist" => Accepted(Row)

(* What the rows on record say of a finished run.                          *)
Mean(results) ==
  [scored |-> Cardinality(Scored(results)), sum |-> SumOf(Scores(results))]

Worse(base, cand) ==
  LET b == Mean(base)
      c == Mean(cand)
  IN \/ Cardinality(Passed(base)) > Cardinality(Passed(cand)) + MaxPassDrop
     \/ b.scored > 0 /\ (c.scored > 0 => b.sum * c.scored > (c.sum + MaxScoreDrop * c.scored) * b.scored)

BaselinesOnRecord ==
  LET last == Len(store)
      earlier == {i \in 1 .. last - 1 : /\ store[i].hash = run.options.hash /\ store[i].ref = "prod"
                                        /\ store[i].version = run.baseline}
  IN CASE run.options.mode = "single" -> {}
       [] run.options.mode = "paired" /\ run.baseline = run.candidate -> {}
       [] OTHER -> {i \in earlier : \A j \in earlier : j <= i}

(* The exit code of a finished run follows from the rows on record: the    *)
(* candidate's is the last, a paired baseline's the one before, and a      *)
(* historical baseline is the latest row of the frozen version and of this *)
(* dataset (runner.ts runEvaluation).                                      *)
VerdictIsOnRecord ==
  run.pc \in {"0", "1"} =>
    LET cand == store[Len(store)]
    IN /\ cand.ref = "candidate" /\ cand.version = run.candidate /\ cand.hash = run.options.hash
       /\ run.options.mode = "history" => BaselinesOnRecord # {}
       /\ run.pc = "1" <=> \/ Cardinality(Passed(cand.results)) < PassesNeeded
                          \/ \E i \in BaselinesOnRecord : Worse(store[i].results, cand.results)

CallBegan(m) ==
  /\ run.pc = IF m = Target THEN "caseWait" ELSE "judgeWait"
  /\ run'.pc \in {"case", "judge", "persist"}

(* Two calls of one model begin at least the interval apart, unless the    *)
(* timer of the first fired late: the second keeps the slot it booked then *)
(* (pacing.ts wait).                                                       *)
PaceIsKept ==
  [][\A m \in Models : CallBegan(m) /\ run.options.paced /\ ~lastCall[m].late
                          => lastCall[m].age >= Interval]_gateVars
=============================================================================
