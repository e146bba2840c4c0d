---------------------------- MODULE EvalGateProofs --------------------------
(***************************************************************************)
(* What holds of the evaluation gate, for every set of seeds, any number   *)
(* of cases, of runs and of writes of the admin.                           *)
(*                                                                         *)
(* The seeds: the file, created exclusively, makes one creator of the key. *)
(* The pacing: what is left of a model's next slot and the age of its last *)
(* call make the interval.  The runs: while the requests of a run come and *)
(* go the registry only grows, so the version that was frozen is the one   *)
(* that answers to the end; what the requests were charged is what the     *)
(* row adds up to, and the exit code is what the two rows of it say.       *)
(***************************************************************************)
EXTENDS EvalGate, SequenceTheorems, FiniteSetTheorems, WellFoundedInduction, TLAPS

-----------------------------------------------------------------------------
(* Seeding.  One file, created exclusively, makes one creator: whoever     *)
(* reserved it makes the only key, and the file names that key for good.   *)

(* Where a seed may be: idle, at its end, or before one of its requests.   *)
Steps ==
  {"idle", "done", "failed", "listKeys", "readFile", "rereadFile", "verifyKey", "relistKeys",
   "reserveFile", "createKey", "publishKey", "postSafety", "addV1", "addV2", "listSafety",
   "relistSafety", "putLabel", "postJudge", "listJudge", "addJudge", "postDataset"}

(* A seed that has verified the key it goes on with.                       *)
Verified ==
  {"relistKeys", "postSafety", "addV1", "addV2", "listSafety", "relistSafety", "putLabel",
   "postJudge", "listJudge", "addJudge", "postDataset", "done"}

SeedTypes ==
  /\ keys \subseteq Seeds /\ keyFile \in Seeds \cup {Absent, Reserved, Stale}
  /\ seedPc \in [Seeds -> Steps]
  /\ handoff \in [Seeds -> Seeds \cup {Absent, Reserved, Stale}]

(* Who reserved the file and is to make the key, or has made it.           *)
Creator(s) == seedPc[s] \in {"createKey", "publishKey", "rereadFile"} \/ s \in keys

OneCreator ==
  /\ \A s, t \in Seeds : Creator(s) /\ Creator(t) => s = t
  /\ keyFile \in {Absent, Stale} => \A s \in Seeds : ~Creator(s)
  /\ \A s \in Seeds : seedPc[s] \in {"publishKey", "rereadFile"} => s \in keys
  /\ keyFile \in Seeds => keyFile \in keys

HandoffIsTheFile ==
  /\ \A s \in Seeds : handoff[s] \in Seeds => handoff[s] = keyFile
  /\ ~open => \A s \in Seeds : seedPc[s] \in Verified => handoff[s] \in keys
  /\ open => keyFile \in keys

(* What the handover keeps: one creator, and the file names its key.       *)
HandoverInv == SeedTypes /\ OneCreator /\ HandoffIsTheFile

(* The answer of a request, or its loss, moves one seed.                   *)
LEMMA AnsweredMoves ==
  ASSUME NEW s \in Seeds, NEW next, Answered(s, next)
  PROVE  \E to \in {next, "failed"} : seedPc' = [seedPc EXCEPT ![s] = to]
BY DEF Answered

(* A seed that goes on without touching the key or its file.               *)
LEMMA SeedGoesOn ==
  ASSUME HandoverInv, ~open, UNCHANGED <<keys, keyFile, handoff, open>>,
         NEW s \in Seeds, NEW to \in Steps, seedPc' = [seedPc EXCEPT ![s] = to],
         to \notin {"createKey", "publishKey", "rereadFile"},
         to \in Verified => seedPc[s] \in Verified \/ handoff[s] \in keys
  PROVE  HandoverInv'
<1> USE DEF HandoverInv
<1>1. SeedTypes' BY DEF SeedTypes
<1>2. \A t \in Seeds : seedPc'[t] = IF t = s THEN to ELSE seedPc[t] BY DEF SeedTypes
<1>3. \A t \in Seeds : Creator(t)' => Creator(t) BY <1>2 DEF Creator
<1>4. OneCreator' BY <1>2, <1>3 DEF OneCreator
<1>5. HandoffIsTheFile' BY <1>2 DEF HandoffIsTheFile
<1> QED BY <1>1, <1>4, <1>5

(* ensureCiKey.                                                            *)
LEMMA KeyStepsHandOver ==
  ASSUME HandoverInv, ~open, open' = open, NEW s \in Seeds,
         \/ StartSeed(s) \/ ListKeys(s) \/ ReadKeyFile(s) \/ VerifyKey(s) \/ RelistKeys(s)
         \/ ReserveKeyFile(s) \/ CreateKey(s) \/ PublishKey(s)
  PROVE  HandoverInv'
<1>1. SeedTypes /\ OneCreator /\ HandoffIsTheFile BY DEF HandoverInv
<1>2. CASE StartSeed(s)
  <2>1. /\ seedPc' = [seedPc EXCEPT ![s] = "listKeys"] /\ UNCHANGED <<keys, keyFile, handoff>>
    BY <1>2 DEF StartSeed, Goes
  <2> QED BY <2>1, SeedGoesOn DEF Steps, Verified
<1>3. CASE ListKeys(s)
  <2>1. PICK next \in {"reserveFile", "readFile", "failed"} : Answered(s, next)
    BY <1>3 DEF ListKeys
  <2>2. PICK to \in {next, "failed"} : seedPc' = [seedPc EXCEPT ![s] = to]
    BY <2>1, AnsweredMoves
  <2>3. UNCHANGED <<keys, keyFile, handoff>> BY <1>3 DEF ListKeys
  <2> QED BY <2>2, <2>3, SeedGoesOn DEF Steps, Verified
<1>4. CASE VerifyKey(s)
  <2>1. PICK next \in {"relistKeys", "failed"} :
          Answered(s, next) /\ (next = "relistKeys" => handoff[s] \in keys)
    BY <1>4 DEF VerifyKey
  <2>2. PICK to \in {next, "failed"} : seedPc' = [seedPc EXCEPT ![s] = to]
    BY <2>1, AnsweredMoves
  <2>3. UNCHANGED <<keys, keyFile, handoff>> BY <1>4 DEF VerifyKey
  <2> QED BY <2>1, <2>2, <2>3, SeedGoesOn DEF Steps, Verified
<1>5. CASE RelistKeys(s)
  <2>1. PICK next \in {"postSafety", "failed"} : Answered(s, next)
    BY <1>5 DEF RelistKeys
  <2>2. PICK to \in {next, "failed"} : seedPc' = [seedPc EXCEPT ![s] = to]
    BY <2>1, AnsweredMoves
  <2>3. UNCHANGED <<keys, keyFile, handoff>> /\ seedPc[s] \in Verified
    BY <1>5 DEF RelistKeys, Verified
  <2> QED BY <2>2, <2>3, SeedGoesOn DEF Steps, Verified
<1>6. CASE ReadKeyFile(s)
  <2>1. PICK to \in {"verifyKey", "failed"} : seedPc' = [seedPc EXCEPT ![s] = to]
    BY <1>6 DEF ReadKeyFile, Goes
  <2>2. handoff' = [handoff EXCEPT ![s] = keyFile] /\ UNCHANGED <<keys, keyFile>>
    BY <1>6 DEF ReadKeyFile
  <2>3. SeedTypes' BY <1>1, <2>1, <2>2 DEF SeedTypes, Steps
  <2>4. \A t \in Seeds : /\ seedPc'[t] = IF t = s THEN to ELSE seedPc[t]
                         /\ handoff'[t] = IF t = s THEN keyFile ELSE handoff[t]
    BY <1>1, <2>1, <2>2 DEF SeedTypes
  <2>5. OneCreator'
    <3>1. \A t \in Seeds : Creator(t)' => Creator(t) BY <2>2, <2>4 DEF Creator
    <3> QED BY <1>1, <2>2, <2>4, <3>1 DEF OneCreator
  <2>6. HandoffIsTheFile' BY <1>1, <2>2, <2>4 DEF HandoffIsTheFile, Verified
  <2> QED BY <2>3, <2>5, <2>6 DEF HandoverInv
<1>7. CASE ReserveKeyFile(s)
  <2>1. CASE ~Reservable
    <3>1. /\ seedPc' = [seedPc EXCEPT ![s] = "failed"] /\ UNCHANGED <<keys, keyFile, handoff>>
      BY <1>7, <2>1 DEF ReserveKeyFile, Goes
    <3> QED BY <3>1, SeedGoesOn DEF Steps, Verified
  <2>2. CASE Reservable
    <3>1. /\ keyFile = Absent /\ keyFile' = Reserved /\ UNCHANGED <<keys, handoff>>
          /\ seedPc' = [seedPc EXCEPT ![s] = "createKey"]
      BY <1>7, <2>2 DEF ReserveKeyFile, Goes, Reservable
    <3>2. SeedTypes' BY <1>1, <3>1 DEF SeedTypes, Steps
    <3>3. \A t \in Seeds : seedPc'[t] = IF t = s THEN "createKey" ELSE seedPc[t]
      BY <1>1, <3>1 DEF SeedTypes
    <3>4. \A t \in Seeds : ~Creator(t) BY <1>1, <3>1 DEF OneCreator
    <3>5. \A t \in Seeds : Creator(t)' => t = s BY <3>1, <3>3, <3>4 DEF Creator
    <3>6. keyFile' \notin Seeds \cup {Absent, Stale} BY <3>1, SeedConstants
    <3>7. OneCreator' BY <3>3, <3>4, <3>5, <3>6 DEF OneCreator, Creator
    <3>8. HandoffIsTheFile'
      <4>1. \A t \in Seeds : handoff[t] \notin Seeds
        BY <1>1, <3>1, SeedConstants DEF HandoffIsTheFile
      <4> QED BY <1>1, <3>1, <3>3, <4>1 DEF HandoffIsTheFile, Verified
    <3> QED BY <3>2, <3>7, <3>8 DEF HandoverInv
  <2> QED BY <2>1, <2>2
<1>8. CASE CreateKey(s)
  <2>1. PICK to \in {"publishKey", "failed"} : seedPc' = [seedPc EXCEPT ![s] = to]
    <3>1. Answered(s, "publishKey") BY <1>8 DEF CreateKey
    <3> QED BY <3>1, AnsweredMoves
  <2>2. keys' = keys \cup {s} /\ UNCHANGED <<keyFile, handoff>> /\ seedPc[s] = "createKey"
    BY <1>8 DEF CreateKey
  <2>3. SeedTypes' BY <1>1, <2>1, <2>2 DEF SeedTypes, Steps
  <2>4. \A t \in Seeds : seedPc'[t] = IF t = s THEN to ELSE seedPc[t]
    BY <1>1, <2>1 DEF SeedTypes
  <2>5. Creator(s) /\ \A t \in Seeds : Creator(t)' => Creator(t)
    BY <2>2, <2>4 DEF Creator
  <2>6. OneCreator' BY <1>1, <2>2, <2>4, <2>5 DEF OneCreator
  <2>7. HandoffIsTheFile' BY <1>1, <2>2, <2>4 DEF HandoffIsTheFile, Verified
  <2> QED BY <2>3, <2>6, <2>7 DEF HandoverInv
<1>9. CASE PublishKey(s)
  <2>1. CASE /\ seedPc' = [seedPc EXCEPT ![s] = "failed"] /\ UNCHANGED <<keys, keyFile, handoff>>
    BY <2>1, SeedGoesOn DEF Steps, Verified
  <2>2. CASE /\ seedPc' = [seedPc EXCEPT ![s] = "rereadFile"] /\ keyFile' = s
             /\ UNCHANGED <<keys, handoff>>
    <3>1. seedPc[s] = "publishKey" BY <1>9 DEF PublishKey
    <3>2. Creator(s) /\ s \in keys BY <1>1, <3>1 DEF OneCreator, Creator
    <3>3. SeedTypes' BY <1>1, <2>2 DEF SeedTypes, Steps
    <3>4. \A t \in Seeds : seedPc'[t] = IF t = s THEN "rereadFile" ELSE seedPc[t]
      BY <1>1, <2>2 DEF SeedTypes
    <3>5. \A t \in Seeds : Creator(t)' => Creator(t) BY <2>2, <3>2, <3>4 DEF Creator
    <3>6. OneCreator' BY <1>1, <2>2, <3>2, <3>4, <3>5, SeedConstants DEF OneCreator
    <3>7. \A t \in Seeds : handoff[t] \in Seeds => handoff[t] = s
      <4>1. \A t \in keys : t = s BY <1>1, <3>2 DEF OneCreator, Creator, SeedTypes
      <4> QED BY <1>1, <4>1 DEF OneCreator, HandoffIsTheFile
    <3>8. HandoffIsTheFile' BY <1>1, <2>2, <3>4, <3>7 DEF HandoffIsTheFile, Verified
    <3> QED BY <3>3, <3>6, <3>8 DEF HandoverInv
  <2> QED BY <1>9, <2>1, <2>2 DEF PublishKey, Goes
<1> QED BY <1>2, <1>3, <1>4, <1>5, <1>6, <1>7, <1>8, <1>9

(* ensureSafetyPrompt, seedJudgeRubric and the dataset: from step to step  *)
(* of a seed whose key is verified, or to its end.                         *)
Fixture ==
  {"postSafety", "addV1", "addV2", "listSafety", "relistSafety", "putLabel", "postJudge",
   "listJudge", "addJudge", "postDataset"}

FixtureStep(s) ==
  \/ PostSafety(s) \/ AddSafetyVersion(s) \/ ListSafety(s) \/ RelistSafety(s) \/ PutLabel(s)
  \/ PostJudge(s) \/ ListJudge(s) \/ AddJudgeVersion(s) \/ PostDataset(s)

LEMMA FixtureStepMoves ==
  ASSUME NEW s \in Seeds, FixtureStep(s)
  PROVE  /\ UNCHANGED <<keys, keyFile, handoff, killed, overlapped>> /\ seedPc[s] \in Fixture
         /\ \E to \in Fixture \cup {"done", "failed"} : seedPc' = [seedPc EXCEPT ![s] = to]
<1>1. UNCHANGED <<keys, keyFile, handoff, killed, overlapped>> /\ seedPc[s] \in Fixture
  BY DEF FixtureStep, PostSafety, AddSafetyVersion, ListSafety, RelistSafety, PutLabel, PostJudge,
    ListJudge, AddJudgeVersion, PostDataset, fixtureOnly, Fixture
<1>2. ASSUME NEW next \in Fixture \cup {"done", "failed"}, Answered(s, next)
      PROVE  \E to \in Fixture \cup {"done", "failed"} : seedPc' = [seedPc EXCEPT ![s] = to]
  BY <1>2, AnsweredMoves
<1>3. \E next \in Fixture \cup {"done", "failed"} : Answered(s, next)
  <2>1. CASE PostSafety(s) BY <2>1 DEF PostSafety, PostPrompt, Fixture
  <2>2. CASE AddSafetyVersion(s) BY <2>2 DEF AddSafetyVersion, PostVersion, Fixture
  <2>3. CASE ListSafety(s) BY <2>3 DEF ListSafety, Fixture
  <2>4. CASE RelistSafety(s) BY <2>4 DEF RelistSafety, NextLabel, Fixture
  <2>5. CASE PutLabel(s) BY <2>5 DEF PutLabel, NextLabel, Fixture
  <2>6. CASE PostJudge(s) BY <2>6 DEF PostJudge, PostPrompt, Fixture
  <2>7. CASE ListJudge(s) BY <2>7 DEF ListJudge, Fixture
  <2>8. CASE AddJudgeVersion(s) BY <2>8 DEF AddJudgeVersion, PostVersion, Fixture
  <2>9. CASE PostDataset(s) BY <2>9 DEF PostDataset
  <2> QED BY <2>1, <2>2, <2>3, <2>4, <2>5, <2>6, <2>7, <2>8, <2>9 DEF FixtureStep
<1> QED BY <1>1, <1>2, <1>3

(* Every step of a seed, of a run and of the admin keeps it.               *)
LEMMA HandoverInductive == HandoverInv /\ [GateNext]_gateVars => HandoverInv'
<1> SUFFICES ASSUME HandoverInv, [GateNext]_gateVars PROVE HandoverInv'
  OBVIOUS
<1>1. ASSUME Seeding PROVE HandoverInv'
  <2>1. ~open /\ open' = open BY <1>1 DEF Seeding
  <2>2. PICK s \in Seeds : SeedStep(s) BY <1>1 DEF Seeding
  <2>3. CASE FixtureStep(s)
    <3>1. PICK to \in Fixture \cup {"done", "failed"} : seedPc' = [seedPc EXCEPT ![s] = to]
      BY <2>3, FixtureStepMoves
    <3>2. UNCHANGED <<keys, keyFile, handoff>> /\ seedPc[s] \in Verified
      BY <2>3, FixtureStepMoves DEF Fixture, Verified
    <3>3. to \in Steps /\ to \notin {"createKey", "publishKey", "rereadFile"}
      BY DEF Fixture, Steps
    <3> QED BY <2>1, <3>1, <3>2, <3>3, SeedGoesOn
  <2>4. CASE SeedGivesUp(s)
    <3>1. /\ seedPc' = [seedPc EXCEPT ![s] = "failed"] /\ UNCHANGED <<keys, keyFile, handoff>>
      BY <2>4 DEF SeedGivesUp
    <3> QED BY <2>1, <3>1, SeedGoesOn DEF Steps, Verified
  <2>5. CASE KillSeed(s)
    <3>1. UNCHANGED <<keys, keyFile, handoff>> BY <2>5 DEF KillSeed
    <3>2. CASE seedPc[s] \in LocalWork
      <4>1. seedPc' = [seedPc EXCEPT ![s] = "failed"] BY <2>5, <3>2 DEF KillSeed
      <4> QED BY <2>1, <3>1, <4>1, SeedGoesOn DEF Steps, Verified
    <3>3. CASE seedPc[s] \notin LocalWork
      <4>1. seedPc' = seedPc BY <2>5, <3>3 DEF KillSeed, HandoverInv, SeedTypes
      <4> QED
        BY <2>1, <3>1, <4>1 DEF HandoverInv, SeedTypes, OneCreator, Creator, HandoffIsTheFile
    <3> QED BY <3>2, <3>3
  <2> QED BY <2>1, <2>2, <2>3, <2>4, <2>5, KeyStepsHandOver DEF SeedStep, FixtureStep
<1>2. CASE OpenGate
  <2>1. /\ open' = TRUE /\ keyFile \in keys /\ UNCHANGED <<keys, keyFile>>
        /\ seedPc' = [s \in Seeds |-> "done"] /\ handoff' = [s \in Seeds |-> Absent]
    BY <1>2 DEF OpenGate
  <2>2. SeedTypes' BY <2>1 DEF HandoverInv, SeedTypes, Steps
  <2>3. OneCreator' BY <2>1 DEF HandoverInv, OneCreator, Creator
  <2>4. HandoffIsTheFile' BY <2>1, SeedConstants DEF HandoffIsTheFile
  <2> QED BY <2>2, <2>3, <2>4 DEF HandoverInv
<1>3. CASE UNCHANGED <<seedState, open>>
  BY <1>3 DEF seedState, HandoverInv, SeedTypes, OneCreator, Creator, HandoffIsTheFile
<1> QED BY <1>1, <1>2, <1>3 DEF GateNext, Evaluating, AdminWrites, gateVars

LEMMA HandoverInitially == GateInit => HandoverInv
BY SeedConstants
DEF GateInit, SeedInit, HandoverInv, SeedTypes, Steps, OneCreator, Creator, HandoffIsTheFile,
  Verified

LEMMA HandoverAlways == GateSpec => []HandoverInv
BY HandoverInitially, HandoverInductive, PTL DEF GateSpec

(* However many seeds run, overlap, are killed, lose answers or leave      *)
(* requests behind: after a success the gateway knows one key, and it is   *)
(* the one in the file (ci-seed.ts ensureCiKey).                           *)
THEOREM TheKeyIsHandedOver == GateSpec => []SeedHandsOverKey
<1>1. HandoverInv => SeedHandsOverKey
  <2> SUFFICES ASSUME HandoverInv, NEW s \in Seeds, seedPc[s] = "done" PROVE keys = {keyFile}
    BY DEF SeedHandsOverKey, SeedSucceeded
  <2>1. keyFile \in keys
    <3>1. CASE open BY <3>1 DEF HandoverInv, HandoffIsTheFile
    <3>2. CASE ~open
      BY <3>2 DEF HandoverInv, HandoffIsTheFile, SeedTypes, Verified
    <3> QED BY <3>1, <3>2
  <2> QED BY <2>1 DEF HandoverInv, SeedTypes, OneCreator, Creator
<1> QED BY <1>1, HandoverAlways, PTL

-----------------------------------------------------------------------------
(* Pacing.  What is left of a model's next slot, with the age of its last  *)
(* call, makes the interval: the slot is booked when the wait begins, and  *)
(* both run down by the same clock, unless the timer fires late.           *)

(* A run is a record whatever is replaced in it.                           *)
RunShape ==
  run = [pc |-> run.pc, options |-> run.options, side |-> run.side,
         candidate |-> run.candidate, baseline |-> run.baseline]

(* A process that has not begun or has exited, with its exit code.         *)
Ended == {"idle", "0", "1", "2"}

(* Where a run waits for the slot of a model.                              *)
WaitOf(m) == IF m = Target THEN "caseWait" ELSE "judgeWait"

(* The time to the slot of the model's next call, booked or not.           *)
SlotLeft(m) == IF run.pc = WaitOf(m) THEN due ELSE pacer[m]

PaceTypes ==
  /\ pacer \in [Models -> Nat] /\ due \in Nat /\ overdue \in BOOLEAN
  /\ lastCall \in [Models -> [age : 0 .. Interval, late : BOOLEAN]]

(* A process that ended leaves no call behind.                             *)
NoCallLeft == run.pc \in Ended => \A m \in Models : lastCall[m].age = Interval

(* The last call and the next slot are an interval apart, unless the timer *)
(* fired late; a slot that is booked beyond the wait is an interval after  *)
(* it.                                                                     *)
SlotsApart ==
  run.options.paced =>
    \A m \in Models :
      /\ ~lastCall[m].late => lastCall[m].age + SlotLeft(m) >= Interval
      /\ run.pc = WaitOf(m) /\ ~overdue => pacer[m] = due + Interval
      /\ run.pc = WaitOf(m) /\ overdue => due = 0

PaceInv == RunShape /\ PaceTypes /\ NoCallLeft /\ SlotsApart

(* A process that starts or ends has no call and no slot left.             *)
LEMMA FreshTiming ==
  ASSUME pacer' = [m \in Models |-> 0], due' = 0, overdue' = FALSE, lastCall' = LongAgo
  PROVE  PaceTypes' /\ \A m \in Models : lastCall'[m].age = Interval
<1>1. Interval \in Nat BY RunConstants
<1>2. lastCall' = [m \in Models |-> [age |-> Interval, late |-> FALSE]] BY DEF LongAgo
<1>3. \A m \in Models : lastCall'[m] = [age |-> Interval, late |-> FALSE] BY <1>2, Zenon
<1>4. lastCall' \in [Models -> [age : 0 .. Interval, late : BOOLEAN]] BY <1>1, <1>2
<1>5. overdue' \in BOOLEAN BY Zenon
<1>6. pacer' \in [Models -> Nat] BY SMT
<1> QED BY <1>3, <1>4, <1>5, <1>6 DEF PaceTypes

(* An exit forgets the timing.                                             *)
LEMMA ExitPaces ==
  ASSUME PaceInv, NEW code \in Ended, Exit(code)
  PROVE  PaceInv'
<1>1. RunShape' /\ run'.pc = code BY DEF Exit, PaceInv, RunShape
<1>2. PaceTypes' /\ \A m \in Models : lastCall'[m].age = Interval
  BY FreshTiming DEF Exit
<1>3. SlotsApart'
  <2>1. \A m \in Models : run'.pc # WaitOf(m) BY <1>1 DEF WaitOf, Ended
  <2>2. \A m \in Models : pacer'[m] \in Nat BY <1>2 DEF PaceTypes
  <2> QED BY <1>2, <2>1, <2>2, RunConstants DEF SlotsApart, SlotLeft, WaitOf
<1> QED BY <1>1, <1>2, <1>3 DEF PaceInv, NoCallLeft

(* A step of the run that makes no call and does not start or stop one.    *)
LEMMA SamePace ==
  ASSUME PaceInv, UNCHANGED timing, RunShape', run'.options = run.options,
         run.pc \notin Ended, run'.pc \notin Ended \cup {"caseWait", "judgeWait"},
         run.pc \notin {"caseWait", "judgeWait"}
  PROVE  PaceInv'
<1>1. PaceTypes' /\ NoCallLeft' BY DEF PaceInv, PaceTypes, NoCallLeft, timing
<1>2. SlotsApart'
  BY DEF PaceInv, SlotsApart, SlotLeft, WaitOf, timing
<1> QED BY <1>1, <1>2 DEF PaceInv

(* A turn that starts a wait books the next slot of the model an interval  *)
(* after its own.                                                          *)
LEMMA TurnPaces ==
  ASSUME PaceInv, NEW m \in Models, NEW from \in {"case", "judge"}, TakeTurn(m, from, WaitOf(m))
  PROVE  PaceInv'
<1>1. /\ run.pc = from /\ run' = [run EXCEPT !.pc = WaitOf(m)] /\ due' = pacer[m]
      /\ overdue' = FALSE /\ pacer' = [pacer EXCEPT ![m] = NextSlot(m)] /\ lastCall' = lastCall
  BY DEF TakeTurn
<1>2. RunShape' /\ run'.pc = WaitOf(m) /\ run'.options = run.options
  BY <1>1 DEF PaceInv, RunShape
<1>3. overdue' \in BOOLEAN BY <1>1, Zenon
<1>4. NextSlot(m) \in Nat /\ (run.options.paced => NextSlot(m) = pacer[m] + Interval)
  BY RunConstants DEF NextSlot, PaceInv, PaceTypes
<1>5. PaceTypes' BY <1>1, <1>3, <1>4 DEF PaceInv, PaceTypes
<1>6. NoCallLeft' BY <1>2 DEF NoCallLeft, Ended, WaitOf
<1>7. ~overdue' BY <1>1, Zenon
<1>8. SlotsApart'
  <2> SUFFICES ASSUME run.options.paced, NEW n \in Models
               PROVE  /\ ~lastCall[n].late => lastCall[n].age + SlotLeft(n)' >= Interval
                      /\ run'.pc = WaitOf(n) /\ ~overdue' => pacer'[n] = due' + Interval
    BY <1>1, <1>2, <1>7 DEF SlotsApart, WaitOf
  <2>1. ~lastCall[n].late => lastCall[n].age + SlotLeft(n) >= Interval
    BY DEF PaceInv, SlotsApart
  <2>2. SlotLeft(n) = pacer[n] BY <1>1 DEF SlotLeft, WaitOf
  <2>3. CASE n = m
    <3>1. SlotLeft(n)' = pacer[n] BY <1>1, <1>2, <2>3 DEF SlotLeft, WaitOf
    <3>2. pacer'[n] = pacer[n] + Interval BY <1>1, <1>4, <2>3 DEF PaceInv, PaceTypes
    <3> QED BY <1>1, <2>1, <2>2, <2>3, <3>1, <3>2
  <2>4. CASE n # m
    <3>1. WaitOf(n) # WaitOf(m) BY <2>4 DEF WaitOf, Models, Target, JudgeModel
    <3>2. SlotLeft(n)' = pacer[n] BY <1>1, <1>2, <2>4, <3>1 DEF SlotLeft, PaceInv, PaceTypes, WaitOf
    <3> QED BY <1>2, <2>1, <2>2, <3>1, <3>2
  <2> QED BY <2>3, <2>4
<1> QED BY <1>2, <1>5, <1>6, <1>8 DEF PaceInv

(* A millisecond that passes makes every call older and every slot nearer, *)
(* and a slot that is due stays due.                                       *)
LEMMA TimePaces == ASSUME PaceInv, TimePasses PROVE PaceInv'
<1>1. /\ run.options.paced /\ run.pc \in {"case", "caseWait", "judge", "judgeWait"}
      /\ due' = Later(due, 1) - 1
      /\ overdue' = (run.pc \in {"caseWait", "judgeWait"} /\ due = 0)
      /\ pacer' = [m \in Models |-> Later(pacer[m], 1) - 1]
      /\ lastCall' = [m \in Models |-> [lastCall[m] EXCEPT !.age = IF @ < Interval THEN @ + 1 ELSE @]]
      /\ run' = run
  BY DEF TimePasses
<1>2. PaceTypes BY DEF PaceInv
<1>3. overdue' \in BOOLEAN BY <1>1, Zenon
<1>4. due' \in Nat /\ pacer' \in [Models -> Nat] BY <1>1, <1>2 DEF PaceTypes, Later
<1>5. ASSUME NEW m \in Models
      PROVE  /\ lastCall'[m] \in [age : 0 .. Interval, late : BOOLEAN]
             /\ lastCall'[m].late = lastCall[m].late
             /\ lastCall'[m].age = IF lastCall[m].age < Interval THEN lastCall[m].age + 1
                                   ELSE lastCall[m].age
             /\ pacer'[m] = Later(pacer[m], 1) - 1
  <2>1. lastCall'[m] = [lastCall[m] EXCEPT !.age = IF @ < Interval THEN @ + 1 ELSE @]
    BY <1>1, Zenon
  <2>2. lastCall[m] \in [age : 0 .. Interval, late : BOOLEAN] BY <1>2 DEF PaceTypes
  <2> QED BY <1>1, <2>1, <2>2, RunConstants
<1>6. lastCall' \in [Models -> [age : 0 .. Interval, late : BOOLEAN]]
  BY <1>1, <1>5
<1>7. PaceTypes' BY <1>3, <1>4, <1>6 DEF PaceTypes
<1>8. RunShape' /\ NoCallLeft' BY <1>1 DEF PaceInv, RunShape, NoCallLeft, Ended
<1>9. SlotsApart'
  <2> SUFFICES ASSUME NEW m \in Models
               PROVE  /\ ~lastCall'[m].late => lastCall'[m].age + SlotLeft(m)' >= Interval
                      /\ run'.pc = WaitOf(m) /\ ~overdue' => pacer'[m] = due' + Interval
                      /\ run'.pc = WaitOf(m) /\ overdue' => due' = 0
    BY <1>1 DEF SlotsApart, WaitOf
  <2>1. /\ ~lastCall[m].late => lastCall[m].age + SlotLeft(m) >= Interval
        /\ run.pc = WaitOf(m) /\ ~overdue => pacer[m] = due + Interval
        /\ run.pc = WaitOf(m) /\ overdue => due = 0
    BY <1>1 DEF PaceInv, SlotsApart
  <2>2. SlotLeft(m) \in Nat /\ SlotLeft(m)' = Later(SlotLeft(m), 1) - 1
    BY <1>1, <1>2, <1>5 DEF SlotLeft, PaceTypes, WaitOf
  <2>3. ~lastCall'[m].late => lastCall'[m].age + SlotLeft(m)' >= Interval
    BY <1>2, <1>5, <2>1, <2>2, RunConstants DEF PaceTypes, Later
  <2>4. ASSUME run.pc = WaitOf(m), ~overdue' PROVE pacer'[m] = due' + Interval
    <3>1. ~(run.pc \in {"caseWait", "judgeWait"} /\ due = 0) BY <1>1, <2>4, Zenon
    <3>2. due > 0 BY <1>2, <2>4, <3>1 DEF WaitOf, PaceTypes
    <3>3. ~overdue BY <2>1, <2>4, <3>2
    <3> QED BY <1>1, <1>2, <1>5, <2>1, <2>4, <3>2, <3>3, RunConstants DEF PaceTypes, Later
  <2>5. ASSUME run.pc = WaitOf(m), overdue' PROVE due' = 0
    <3>1. run.pc \in {"caseWait", "judgeWait"} /\ due = 0 BY <1>1, <2>5, Zenon
    <3> QED BY <1>1, <3>1 DEF Later
  <2> QED BY <1>1, <2>3, <2>4, <2>5
<1> QED BY <1>7, <1>8, <1>9 DEF PaceInv

(* A call begins when its slot is due, an interval after the last one.     *)
LEMMA CallPaces ==
  ASSUME PaceInv, NEW m \in Models, CallBegins(m, WaitOf(m)),
         RunShape', run'.options = run.options, run'.pc \in {"case", "judge", "persist"}
  PROVE  PaceInv'
<1>1. /\ run.pc = WaitOf(m) /\ due = 0 /\ UNCHANGED <<pacer, due, overdue>>
      /\ lastCall' = IF run.options.paced
                     THEN [lastCall EXCEPT ![m] = [age |-> 0, late |-> overdue]] ELSE lastCall
  BY DEF CallBegins
<1>2. PaceTypes BY DEF PaceInv
<1>3. [age |-> 0, late |-> overdue] \in [age : 0 .. Interval, late : BOOLEAN]
  <2>1. overdue \in BOOLEAN BY <1>2 DEF PaceTypes
  <2>2. 0 \in 0 .. Interval BY RunConstants
  <2> QED BY <2>1, <2>2
<1>4. lastCall' \in [Models -> [age : 0 .. Interval, late : BOOLEAN]]
  BY <1>1, <1>2, <1>3 DEF PaceTypes
<1>5. PaceTypes' BY <1>1, <1>2, <1>4 DEF PaceTypes
<1>6. NoCallLeft' BY DEF NoCallLeft, Ended
<1>7. SlotsApart'
  <2> SUFFICES ASSUME run.options.paced, NEW n \in Models, ~lastCall'[n].late
               PROVE  lastCall'[n].age + pacer[n] >= Interval
    BY <1>1 DEF SlotsApart, SlotLeft, WaitOf
  <2>1. lastCall' = [lastCall EXCEPT ![m] = [age |-> 0, late |-> overdue]] BY <1>1
  <2>2. CASE n = m
    <3>1. lastCall'[n] = [age |-> 0, late |-> overdue] BY <1>2, <2>1, <2>2 DEF PaceTypes
    <3>2. pacer[m] = Interval
      BY <1>1, <1>2, <2>2, <3>1, RunConstants DEF PaceInv, SlotsApart, PaceTypes
    <3> QED BY <2>2, <3>1, <3>2, RunConstants
  <2>3. CASE n # m
    <3>1. lastCall'[n] = lastCall[n] BY <1>2, <2>1, <2>3 DEF PaceTypes
    <3>2. SlotLeft(n) = pacer[n]
      BY <1>1, <2>3 DEF SlotLeft, WaitOf, Models, Target, JudgeModel
    <3> QED BY <3>1, <3>2 DEF PaceInv, SlotsApart
  <2> QED BY <2>2, <2>3
<1> QED BY <1>5, <1>6, <1>7 DEF PaceInv

(* The answers, of the target and of the judge, end the wait of their      *)
(* model.                                                                  *)
LEMMA AnsweredCaseCalls ==
  ASSUME RunShape, NEW charge, NEW passes, AnswerCase(charge, passes)
  PROVE  /\ CallBegins(Target, WaitOf(Target)) /\ RunShape' /\ run'.options = run.options
         /\ run'.pc \in {"case", "judge", "persist"}
BY DEF AnswerCase, RunShape, WaitOf, AfterCase

LEMMA AnsweredJudgeCalls ==
  ASSUME RunShape, NEW charge, NEW verdict, AnswerJudge(charge, verdict)
  PROVE  /\ CallBegins(JudgeModel, WaitOf(JudgeModel)) /\ RunShape' /\ run'.options = run.options
         /\ run'.pc \in {"case", "judge", "persist"}
BY DEF AnswerJudge, RunShape, WaitOf, AfterCase, JudgeModel, Target

(* Every step of a run keeps the pace.                                     *)
LEMMA RunStepPaces == ASSUME PaceInv, RunStep PROVE PaceInv'
<1>1. RunShape BY DEF PaceInv
<1>2. CASE Freeze
  <2>1. CASE Exit("2") BY <2>1, ExitPaces DEF Ended
  <2>2. CASE ~Exit("2")
    <3>1. /\ UNCHANGED timing /\ RunShape' /\ run'.options = run.options
          /\ run.pc = "freeze" /\ run'.pc \in {"history", "upsert"}
      BY <1>1, <1>2, <2>2 DEF Freeze, RunShape
    <3> QED BY <3>1, SamePace DEF Ended
  <2> QED BY <2>1, <2>2
<1>3. CASE ReadHistory
  <2>1. CASE Exit("2") BY <2>1, ExitPaces DEF Ended
  <2>2. CASE ~Exit("2")
    <3>1. /\ UNCHANGED timing /\ RunShape' /\ run'.options = run.options
          /\ run.pc = "history" /\ run'.pc = "upsert"
      BY <1>1, <1>3, <2>2 DEF ReadHistory, RunShape
    <3> QED BY <3>1, SamePace DEF Ended
  <2> QED BY <2>1, <2>2
<1>4. CASE UpsertDataset
  <2>1. /\ UNCHANGED timing /\ RunShape' /\ run'.options = run.options
        /\ run.pc = "upsert" /\ run'.pc = "case"
    BY <1>1, <1>4 DEF UpsertDataset, RunShape
  <2> QED BY <2>1, SamePace DEF Ended
<1>5. CASE TakeTurn(Target, "case", "caseWait")
  BY <1>5, TurnPaces DEF WaitOf, Models
<1>6. CASE TakeTurn(JudgeModel, "judge", "judgeWait")
  BY <1>6, TurnPaces DEF WaitOf, Models, JudgeModel, Target
<1>7. CASE TimePasses BY <1>7, TimePaces
<1>8. ASSUME NEW charge \in Charges, NEW passes \in BOOLEAN, AnswerCase(charge, passes)
      PROVE  PaceInv'
  BY <1>1, <1>8, AnsweredCaseCalls, CallPaces DEF Models
<1>9. ASSUME NEW charge \in Charges, NEW verdict \in JudgeVerdicts, AnswerJudge(charge, verdict)
      PROVE  PaceInv'
  BY <1>1, <1>9, AnsweredJudgeCalls, CallPaces DEF Models
<1>10. ASSUME NEW lost \in BOOLEAN, Persist(lost) PROVE PaceInv'
  <2>1. CASE Exit("2") BY <2>1, ExitPaces DEF Ended
  <2>2. CASE ~Exit("2")
    <3>1. /\ UNCHANGED timing /\ RunShape' /\ run'.options = run.options
          /\ run.pc = "persist" /\ run'.pc \in {"case", "verdict"}
      BY <1>1, <1>10, <2>2 DEF Persist, RunShape
    <3> QED BY <3>1, SamePace DEF Ended
  <2> QED BY <2>1, <2>2
<1>11. CASE Verdict BY <1>11, ExitPaces DEF Verdict, Ended
<1>12. CASE RunFails BY <1>12, ExitPaces DEF RunFails, Ended
<1> QED
  BY <1>2, <1>3, <1>4, <1>5, <1>6, <1>7, <1>8, <1>9, <1>10, <1>11, <1>12 DEF RunStep

LEMMA BeginPaces == ASSUME PaceInv, NEW options, BeginRun(options) PROVE PaceInv'
<1>1. /\ run.pc \in Ended /\ UNCHANGED timing /\ run' = [NotRunning EXCEPT !.pc = "freeze", !.options = options]
  BY DEF BeginRun, Ended
<1>2. RunShape' /\ run'.pc = "freeze" BY <1>1 DEF NotRunning, RunShape
<1>3. PaceTypes' /\ NoCallLeft' BY <1>1, <1>2 DEF PaceInv, PaceTypes, NoCallLeft, timing, Ended
<1>4. SlotsApart'
  <2>1. \A m \in Models : lastCall'[m].age = Interval /\ pacer'[m] \in Nat
    BY <1>1 DEF PaceInv, NoCallLeft, PaceTypes, timing
  <2> QED BY <1>2, <2>1, RunConstants DEF SlotsApart, SlotLeft, WaitOf
<1> QED BY <1>2, <1>3, <1>4 DEF PaceInv

(* And so does every step of the gate.                                     *)
LEMMA PaceInductive == PaceInv /\ [GateNext]_gateVars => PaceInv'
<1> SUFFICES ASSUME PaceInv, [GateNext]_gateVars PROVE PaceInv'
  OBVIOUS
<1>1. CASE Evaluating BY <1>1, BeginPaces, RunStepPaces DEF Evaluating
<1>2. CASE UNCHANGED runState
  BY <1>2
  DEF runState, PaceInv, RunShape, PaceTypes, NoCallLeft, SlotsApart, SlotLeft, WaitOf, Ended
<1> QED BY <1>1, <1>2 DEF GateNext, Seeding, OpenGate, AdminWrites, gateVars

LEMMA PaceInitially == GateInit => PaceInv
<1> SUFFICES ASSUME GateInit PROVE PaceInv
  OBVIOUS
<1>1. run = NotRunning /\ pacer = [m \in Models |-> 0] /\ due = 0 /\ overdue = FALSE /\ lastCall = LongAgo
  BY DEF GateInit, RunInit
<1>2. RunShape /\ run.pc = "idle" BY <1>1 DEF RunShape, NotRunning
<1>3. \A m \in Models : lastCall[m] = [age |-> Interval, late |-> FALSE]
  BY <1>1, Zenon DEF LongAgo
<1>4. lastCall \in [Models -> [age : 0 .. Interval, late : BOOLEAN]]
  BY <1>1, RunConstants DEF LongAgo
<1>5. overdue \in BOOLEAN BY <1>1, Zenon
<1>6. PaceTypes BY <1>1, <1>4, <1>5 DEF PaceTypes
<1>7. NoCallLeft /\ SlotsApart
  BY <1>1, <1>2, <1>3, RunConstants DEF NoCallLeft, SlotsApart, SlotLeft, WaitOf
<1> QED BY <1>2, <1>6, <1>7 DEF PaceInv

(* For every interval and every order of target and judge calls: two calls *)
(* of one model begin the interval apart unless the first one's timer was  *)
(* late (pacing.ts PerModelRequestPacer).                                  *)
THEOREM CallsKeepTheirDistance == GateSpec => PaceIsKept
<1>1. PaceInv /\ [GateNext]_gateVars =>
        [\A m \in Models : CallBegan(m) /\ run.options.paced /\ ~lastCall[m].late
                              => lastCall[m].age >= Interval]_gateVars
  <2> SUFFICES ASSUME PaceInv, GateNext, NEW m \in Models, CallBegan(m), run.options.paced,
                      ~lastCall[m].late
               PROVE  lastCall[m].age >= Interval
    BY Zenon
  <2>1. run.pc = WaitOf(m) /\ run'.pc \in {"case", "judge", "persist"}
    BY DEF CallBegan, WaitOf
  <2>2. lastCall[m].age + due >= Interval BY <2>1 DEF PaceInv, SlotsApart, SlotLeft
  <2>3. due = 0
    <3>1. RunShape BY DEF PaceInv
    <3>2. RunStep
      <4>1. run' # run BY <2>1 DEF WaitOf
      <4>2. Evaluating BY <4>1 DEF GateNext, Seeding, OpenGate, AdminWrites, runState
      <4> QED BY <2>1, <4>2 DEF Evaluating, BeginRun, WaitOf
    <3>3. ASSUME NEW code \in Ended, Exit(code) PROVE FALSE
      BY <2>1, <3>1, <3>3 DEF Exit, Ended, RunShape
    <3>4. ~Verdict /\ ~RunFails BY <3>3 DEF Verdict, RunFails, Ended
    <3>5. ~TimePasses BY <2>1 DEF TimePasses, WaitOf
    <3>6. run.pc \in {"caseWait", "judgeWait"} BY <2>1 DEF WaitOf
    <3>7. /\ ~Freeze /\ ~ReadHistory /\ ~UpsertDataset /\ ~TakeTurn(Target, "case", "caseWait")
          /\ ~TakeTurn(JudgeModel, "judge", "judgeWait") /\ \A lost \in BOOLEAN : ~Persist(lost)
      BY <3>6 DEF Freeze, ReadHistory, UpsertDataset, TakeTurn, Persist
    <3> QED
      BY <3>2, <3>4, <3>5, <3>7 DEF RunStep, AnswerCase, AnswerJudge, CallBegins
  <2>4. lastCall[m].age \in Nat BY RunConstants DEF PaceInv, PaceTypes
  <2> QED BY <2>2, <2>3, <2>4, RunConstants
<1> QED BY <1>1, PaceInitially, PaceInductive, PTL DEF GateSpec, PaceIsKept

-----------------------------------------------------------------------------
(* The gate's registry.  Its versions are appended and never changed, its  *)
(* labels point at versions that exist; the seeds make sure the prompts an *)
(* evaluation reads are there, and only the rubric is ever added to the    *)
(* judge's.                                                                *)

(* What a version may hold: the fixtures, and the admin's.                 *)
Contents == {SafetyVersions[1], SafetyVersions[2], JudgeVersions[1], "reworded"}

(* A version number that a label holds is one of the prompt's versions.    *)
PromptTyped(p) ==
  /\ p = [description |-> p.description, versions |-> p.versions, labels |-> p.labels]
  /\ p.versions \in Seq(Contents)
  /\ \A l \in DOMAIN p.labels : p.labels[l] \in 1 .. Len(p.versions)

PromptsTyped ==
  /\ prompts = [slug \in DOMAIN prompts |-> prompts[slug]]
  /\ \A slug \in DOMAIN prompts : PromptTyped(prompts[slug])

(* Nothing but the rubric is ever added to the judge's prompt.             *)
RubricIsLocked ==
  Known(Judge) =>
    \A i \in 1 .. LatestVersion(Judge) : prompts[Judge].versions[i] = JudgeVersions[1]

(* What a step of a seed, or an evaluation, finds in the registry.         *)
NeedsScreen ==
  {"addV1", "addV2", "listSafety", "relistSafety", "putLabel", "postJudge", "listJudge",
   "addJudge", "postDataset", "done"}
NeedsJudgePrompt == {"listJudge", "addJudge", "postDataset", "done"}
NeedsRubric == {"postDataset", "done"}

(* While the seeds run, each finds what it made or saw before; when they   *)
(* are over, what an evaluation needs is there.                            *)
FixturesFound ==
  /\ ~open => \A s \in Seeds :
       /\ seedPc[s] \in NeedsScreen => Known(Screen)
       /\ seedPc[s] \in NeedsJudgePrompt => Known(Judge)
       /\ seedPc[s] \in NeedsRubric => LatestVersion(Judge) > 0
  /\ open => Known(Screen) /\ Known(Judge) /\ LatestVersion(Judge) > 0

(* What the seeds leave behind, whoever of them did it.                    *)
FixturesInv ==
  /\ seedPc \in [Seeds -> Steps]
  /\ PromptsTyped /\ RubricIsLocked /\ FixturesFound

-----------------------------------------------------------------------------
(* A case's result, the totals of a run, and its row on record.            *)
ResultType ==
  [by : Contents, pass : BOOLEAN, score : 0 .. 2 \cup {NoScore}, rubric : Contents \cup {"none"},
   cost : Nat]
TotalsType == [passed : Nat, scored : Nat, scores : Nat, cost : Nat]
RowType ==
  [ref : {"prod", "candidate"}, version : Nat, hash : STRING, results : Seq(ResultType),
   totals : TotalsType, charged : Nat]

(* From the first case of a model run to its row.                          *)
Working == {"case", "caseWait", "judge", "judgeWait", "persist"}

(* The types of a run, and what each of its steps may rely on.             *)
RunTyped ==
  /\ run \in [pc : Ended \cup Working \cup {"freeze", "history", "upsert", "verdict"},
              options : RunOption \cup {NotRunning.options}, side : {"baseline", "candidate"},
              candidate : Nat, baseline : Nat]
  /\ runsMade \in Nat
  /\ run.pc # "idle" => open /\ run.options \in RunOption
  /\ run.pc = "freeze" => metrics = <<>>
  /\ run.pc = "history" => run.options.mode = "history"
  /\ run.pc = "verdict" => run.side = "candidate"
  /\ run.pc \notin Ended \cup {"freeze"} =>
       run.candidate \in 1 .. LatestVersion(Screen) /\ run.baseline \in 1 .. LatestVersion(Screen)

(* A case was answered by the version and judged by the rubric.            *)
Faithful(r, version) ==
  /\ r.by = prompts[Screen].versions[version]
  /\ r.score # NoScore => r.rubric = JudgeVersions[1]

(* The cases of the model run that is under way.                           *)
WorkInv ==
  /\ work \in [results : Seq(ResultType), cost : Nat, charged : Nat]
  /\ run.pc \notin Working => work = NoWork
  /\ run.pc \in {"case", "caseWait"} => Len(work.results) < NumCases
  /\ run.pc \in {"judge", "judgeWait"} => Len(work.results) \in 1 .. NumCases
  /\ run.pc = "persist" => Len(work.results) = NumCases
  /\ \A i \in 1 .. Len(work.results) : Faithful(work.results[i], Frozen)
  /\ work.cost = SumOf(Costs(work.results)) /\ work.charged = work.cost

(* A row tells what its run did: whose answers, at what cost.              *)
OnRecord(row) ==
  /\ row.version \in 1 .. LatestVersion(Screen)
  /\ \A i \in 1 .. Len(row.results) : Faithful(row.results[i], row.version)
  /\ row.charged = SumOf(Costs(row.results)) /\ row.totals = Totals(row.results, row.charged)

StoreInv ==
  /\ store \in Seq(RowType) /\ (store # <<>> => open)
  /\ \A k \in 1 .. Len(store) : OnRecord(store[k])

(* The rows a baseline may be among: all but the candidate's own.          *)
Before == 1 .. (IF run.pc = "verdict" THEN Len(store) - 1 ELSE Len(store))

(* When a run has a baseline to be compared with, and which row that is:   *)
(* the newest one comparable.                                              *)
HasBaseline ==
  \/ run.options.mode = "history" /\ run.pc # "history"
  \/ run.options.mode = "paired" /\ run.candidate # run.baseline /\ run.side = "candidate"

IsBaseline(b) ==
  /\ b \in Before /\ Comparable(store[b]) /\ \A j \in Before : Comparable(store[j]) => j <= b
  /\ metrics["baseline"] = store[b].totals

(* What the metrics of the baseline are of.                                *)
Compared ==
  run.pc \notin Ended \cup {"freeze"} =>
    /\ run.side = "baseline" => run.options.mode = "paired" /\ run.candidate # run.baseline
    /\ "baseline" \in DOMAIN metrics <=> HasBaseline
    /\ HasBaseline => \E b \in Before : IsBaseline(b)

(* At the verdict, the newest row is the candidate's.                      *)
CandidateIsLast ==
  run.pc = "verdict" =>
    /\ store # <<>> /\ "candidate" \in DOMAIN metrics
    /\ LET cand == store[Len(store)]
       IN /\ cand.ref = "candidate" /\ cand.version = run.candidate /\ cand.hash = run.options.hash
          /\ metrics["candidate"] = cand.totals

(* The invariant of the runs.                                              *)
RunInv ==
  RunTyped /\ WorkInv /\ StoreInv /\ Compared /\ CandidateIsLast /\ VerdictIsOnRecord

(* All of it, as TLC checks it on a small gate.                            *)
GateInv == FixturesInv /\ RunInv

(* The number of a step: the least at which something is so.               *)
LEMMA LeastNat ==
  ASSUME NEW T \in SUBSET Nat, T # {}
  PROVE  \E m \in T : \A t \in T : ~(t < m)
<1> DEFINE R == OpToRel(<, Nat)
<1>1. IsWellFoundedOn(R, Nat) BY NatLessThanWellFounded
<1>2. \E m \in T : \A t \in T : ~(<<t, m>> \in R)
  <2> HIDE DEF R
  <2> QED BY <1>1, WFMin
<1> QED BY <1>2 DEF OpToRel

(* The sums of the first k members of a sequence, for every k to n: they   *)
(* exist and are unique, by the least n at which they would not be.        *)
IsPrefixSum(g, a, n) ==
  g = [k \in 0 .. n |-> IF k = 0 THEN 0 ELSE g[k - 1] + a[k]]

LEMMA PrefixSumExists ==
  ASSUME NEW a, NEW n \in Nat
  PROVE  \E g : IsPrefixSum(g, a, n)
<1> DEFINE T == {m \in Nat : ~ \E g : IsPrefixSum(g, a, m)}
<1> SUFFICES ASSUME T # {} PROVE FALSE
  OBVIOUS
<1>1. PICK m \in T : \A t \in T : ~(t < m)
  <2>1. T \in SUBSET Nat OBVIOUS
  <2> HIDE DEF T
  <2> QED BY <2>1, LeastNat
<1>2. m # 0
  <2>1. IsPrefixSum([k \in 0 .. 0 |-> 0], a, 0) BY DEF IsPrefixSum
  <2> QED BY <1>1, <2>1
<1>3. PICK g : IsPrefixSum(g, a, m - 1)
  <2>1. m - 1 \in Nat /\ m - 1 < m BY <1>1, <1>2
  <2>2. m - 1 \notin T BY <1>1, <2>1
  <2> QED BY <2>1, <2>2
<1> DEFINE h == [k \in 0 .. m |-> IF k = m THEN g[m - 1] + a[m] ELSE g[k]]
<1>4. ASSUME NEW k \in 0 .. m PROVE h[k] = IF k = 0 THEN 0 ELSE h[k - 1] + a[k]
  <2>1. CASE k = 0 BY <1>1, <1>2, <1>3, <2>1 DEF IsPrefixSum
  <2>2. CASE k = m BY <1>1, <1>2, <2>2
  <2>3. CASE k # 0 /\ k # m
    <3>1. g[k] = g[k - 1] + a[k] BY <1>1, <1>3, <2>3 DEF IsPrefixSum
    <3>2. k - 1 \in 0 .. m /\ k - 1 # m BY <1>1, <2>3
    <3> QED BY <2>3, <3>1, <3>2
  <2> QED BY <2>1, <2>2, <2>3
<1>5. IsPrefixSum(h, a, m) BY <1>4 DEF IsPrefixSum
<1> QED BY <1>1, <1>5

(* Sums of sequences that agree agree, as far as they do.                  *)
LEMMA PrefixSumsAgree ==
  ASSUME NEW a, NEW b, NEW m \in Nat, NEW n \in Nat, NEW k \in Nat, k <= m, k <= n,
         \A i \in 1 .. k : a[i] = b[i],
         NEW g, NEW h, IsPrefixSum(g, a, m), IsPrefixSum(h, b, n)
  PROVE  g[k] = h[k]
<1> DEFINE T == {j \in 0 .. k : g[j] # h[j]}
<1> SUFFICES ASSUME T # {} PROVE FALSE
  OBVIOUS
<1>1. PICK j \in T : \A t \in T : ~(t < j)
  <2>1. T \in SUBSET Nat OBVIOUS
  <2> HIDE DEF T
  <2> QED BY <2>1, LeastNat
<1>2. j # 0 BY <1>1 DEF IsPrefixSum
<1>3. g[j - 1] = h[j - 1]
  <2>1. j - 1 \in 0 .. k /\ j - 1 < j BY <1>1, <1>2
  <2> QED BY <1>1, <2>1
<1>4. g[j] = g[j - 1] + a[j] /\ h[j] = h[j - 1] + b[j]
  BY <1>1, <1>2 DEF IsPrefixSum
<1>5. a[j] = b[j] BY <1>1, <1>2
<1> QED BY <1>1, <1>3, <1>4, <1>5

(* SumOf is the last of them.                                              *)
LEMMA SumIsPrefixSum ==
  ASSUME NEW a, Len(a) \in Nat
  PROVE  \E g : IsPrefixSum(g, a, Len(a)) /\ SumOf(a) = g[Len(a)]
<1> DEFINE G == CHOOSE g : IsPrefixSum(g, a, Len(a))
<1>1. IsPrefixSum(G, a, Len(a)) BY PrefixSumExists
<1>2. SumOf(a) = G[Len(a)] BY Zenon DEF SumOf, IsPrefixSum
<1> QED BY <1>1, <1>2

(* Nothing sums to nothing.                                                *)
LEMMA SumOfNothing == SumOf(<<>>) = 0
<1>1. Len(<<>>) = 0 OBVIOUS
<1>2. PICK g : IsPrefixSum(g, <<>>, 0) /\ SumOf(<<>>) = g[0] BY <1>1, SumIsPrefixSum
<1> QED BY <1>2 DEF IsPrefixSum

(* A sequence, and another that has its last element changed or is one     *)
(* element longer.                                                         *)
LEMMA SumGrows ==
  ASSUME NEW a, NEW b, NEW k \in Nat, Len(a) = k, Len(b) = k + 1,
         \A i \in 1 .. k : a[i] = b[i]
  PROVE  SumOf(b) = SumOf(a) + b[k + 1]
<1>1. PICK g : IsPrefixSum(g, a, k) /\ SumOf(a) = g[k] BY SumIsPrefixSum
<1>2. PICK h : IsPrefixSum(h, b, k + 1) /\ SumOf(b) = h[k + 1] BY SumIsPrefixSum
<1>3. g[k] = h[k] BY <1>1, <1>2, PrefixSumsAgree
<1>4. h[k + 1] = h[k] + b[k + 1] BY <1>2 DEF IsPrefixSum
<1> QED BY <1>1, <1>2, <1>3, <1>4

(* A sum of natural numbers is one.                                        *)
LEMMA SumIsNat ==
  ASSUME NEW a, Len(a) \in Nat, \A i \in 1 .. Len(a) : a[i] \in Nat
  PROVE  SumOf(a) \in Nat
<1> DEFINE n == Len(a)
<1>1. PICK g : IsPrefixSum(g, a, n) /\ SumOf(a) = g[n] BY SumIsPrefixSum
<1> DEFINE T == {j \in 0 .. n : g[j] \notin Nat}
<1> SUFFICES ASSUME T # {} PROVE FALSE
  BY <1>1
<1>2. PICK j \in T : \A t \in T : ~(t < j)
  <2>1. T \in SUBSET Nat OBVIOUS
  <2> HIDE DEF T
  <2> QED BY <2>1, LeastNat
<1>3. j # 0 BY <1>1, <1>2 DEF IsPrefixSum
<1>4. g[j - 1] \in Nat
  <2>1. j - 1 \in 0 .. n /\ j - 1 < j BY <1>2, <1>3
  <2> QED BY <1>2, <2>1
<1>5. g[j] = g[j - 1] + a[j] BY <1>1, <1>2, <1>3 DEF IsPrefixSum
<1>6. a[j] \in Nat BY <1>2, <1>3
<1> QED BY <1>2, <1>4, <1>5, <1>6

-----------------------------------------------------------------------------
(* The amounts of typed results are natural numbers.                       *)
LEMMA Amounts ==
  ASSUME NEW s \in Seq(ResultType)
  PROVE  /\ Len(s) \in Nat /\ DOMAIN s = 1 .. Len(s)
         /\ Len(Costs(s)) = Len(s) /\ \A i \in 1 .. Len(s) : Costs(s)[i] = s[i].cost /\ s[i].cost \in Nat
         /\ Len(Scores(s)) = Len(s) /\ \A i \in 1 .. Len(s) : Scores(s)[i] \in Nat
<1>1. Len(s) \in Nat /\ DOMAIN s = 1 .. Len(s) OBVIOUS
<1>2. \A i \in 1 .. Len(s) : s[i] \in ResultType BY ElementOfSeq
<1>3. Costs(s) = [i \in 1 .. Len(s) |-> s[i].cost] BY <1>1 DEF Costs
<1>4. Scores(s) = [i \in 1 .. Len(s) |-> IF s[i].score = NoScore THEN 0 ELSE s[i].score]
  BY <1>1 DEF Scores
<1>5. Len(Costs(s)) = Len(s) BY <1>1, <1>3
<1>6. Len(Scores(s)) = Len(s) BY <1>1, <1>4
<1>7. \A i \in 1 .. Len(s) : Costs(s)[i] = s[i].cost /\ s[i].cost \in Nat
  BY <1>2, <1>3 DEF ResultType
<1>8. ASSUME NEW i \in 1 .. Len(s) PROVE Scores(s)[i] \in Nat
  <2>1. s[i].score \in 0 .. 2 \cup {NoScore} BY <1>2 DEF ResultType
  <2> QED BY <1>4, <2>1
<1> QED BY <1>1, <1>5, <1>6, <1>7, <1>8

(* What a case adds to the charges of its run, and a verdict to its case.  *)
LEMMA CostOfAnother ==
  ASSUME NEW s \in Seq(ResultType), NEW r \in ResultType
  PROVE  SumOf(Costs(Append(s, r))) = SumOf(Costs(s)) + r.cost
<1> DEFINE t == Append(s, r)
<1>1. t \in Seq(ResultType) /\ Len(t) = Len(s) + 1 /\ t[Len(s) + 1] = r
      /\ \A i \in 1 .. Len(s) : t[i] = s[i]
  BY AppendProperties
<1> HIDE DEF t
<1>2. /\ Len(Costs(s)) = Len(s) /\ Len(Costs(t)) = Len(s) + 1 /\ Len(s) \in Nat
      /\ \A i \in 1 .. Len(s) : Costs(s)[i] = Costs(t)[i]
      /\ Costs(t)[Len(s) + 1] = r.cost
  BY <1>1, Amounts, SMTT(30)
<1>3. SumOf(Costs(t)) = SumOf(Costs(s)) + Costs(t)[Len(s) + 1] BY <1>2, SumGrows
<1> QED BY <1>2, <1>3 DEF t

(* A result that a charge is added to adds it to the sum.                  *)
LEMMA CostOfChanged ==
  ASSUME NEW s \in Seq(ResultType), s # <<>>, NEW r \in ResultType, NEW more \in Nat,
         r.cost = s[Len(s)].cost + more
  PROVE  SumOf(Costs([s EXCEPT ![Len(s)] = r])) = SumOf(Costs(s)) + more
<1> DEFINE t == [s EXCEPT ![Len(s)] = r]
           p == SubSeq(s, 1, Len(s) - 1)
<1>1. Len(s) \in Nat /\ Len(s) >= 1
  <2>1. Len(s) \in Nat \ {0} BY EmptySeq
  <2> QED BY <2>1
<1>2. t \in Seq(ResultType) /\ Len(t) = Len(s) /\ t[Len(s)] = r
      /\ \A i \in 1 .. Len(s) - 1 : t[i] = s[i]
  BY <1>1, ExceptSeq
<1>3. p \in Seq(ResultType) /\ Len(p) = Len(s) - 1 /\ \A i \in 1 .. Len(s) - 1 : p[i] = s[i]
  <2>1. \A i \in 1 .. Len(s) - 1 : s[i] \in ResultType BY <1>1, ElementOfSeq
  <2>2. /\ p \in Seq(ResultType) /\ Len(p) = IF 1 <= Len(s) - 1 THEN Len(s) - 1 - 1 + 1 ELSE 0
        /\ \A i \in 1 .. Len(s) - 1 - 1 + 1 : p[i] = s[1 + i - 1]
    BY <1>1, <2>1, SubSeqProperties
  <2> HIDE DEF p
  <2>3. ASSUME NEW i \in 1 .. Len(s) - 1 PROVE p[i] = s[i]
    <3>1. 1 + i - 1 = i /\ i \in 1 .. Len(s) - 1 - 1 + 1 BY <1>1
    <3>2. p[i] = s[1 + i - 1] BY <2>2, <3>1
    <3> QED BY <3>1, <3>2
  <2>4. Len(p) = Len(s) - 1
    <3>1. \A n \in Nat : n >= 1 => (IF 1 <= n - 1 THEN n - 1 - 1 + 1 ELSE 0) = n - 1 OBVIOUS
    <3> QED BY <1>1, <2>2, <3>1
  <2> QED BY <2>2, <2>3, <2>4
<1> HIDE DEF t, p
<1> DEFINE k == Len(s) - 1
<1>4. /\ k \in Nat /\ Len(Costs(p)) = k /\ Len(Costs(s)) = k + 1 /\ Len(Costs(t)) = k + 1
      /\ \A i \in 1 .. k : Costs(p)[i] = Costs(s)[i] /\ Costs(p)[i] = Costs(t)[i]
      /\ Costs(s)[k + 1] = s[Len(s)].cost /\ Costs(t)[k + 1] = r.cost
      /\ \A i \in 1 .. k : Costs(p)[i] \in Nat
  <2>1. Len(Costs(p)) = Len(p) /\ \A i \in 1 .. Len(p) : Costs(p)[i] = p[i].cost /\ p[i].cost \in Nat
    BY <1>3, Amounts
  <2>2. Len(Costs(s)) = Len(s) /\ \A i \in 1 .. Len(s) : Costs(s)[i] = s[i].cost
    BY Amounts
  <2>3. Len(Costs(t)) = Len(s) /\ \A i \in 1 .. Len(s) : Costs(t)[i] = t[i].cost
    BY <1>2, Amounts
  <2>4. \A i \in 1 .. k : /\ i \in 1 .. Len(s) /\ i \in 1 .. Len(p)
                         /\ p[i] = s[i] /\ t[i] = s[i]
    BY <1>1, <1>2, <1>3
  <2>5. \A i \in 1 .. k : /\ Costs(p)[i] = p[i].cost /\ p[i].cost \in Nat
                         /\ Costs(s)[i] = s[i].cost /\ Costs(t)[i] = t[i].cost
    BY <2>1, <2>2, <2>3, <2>4
  <2>6. \A i \in 1 .. k : Costs(p)[i] = Costs(s)[i] /\ Costs(p)[i] = Costs(t)[i]
    BY <2>4, <2>5
  <2>7. k \in Nat /\ k + 1 = Len(s) /\ k + 1 \in 1 .. Len(s) BY <1>1
  <2>8. Costs(s)[k + 1] = s[Len(s)].cost /\ Costs(t)[k + 1] = r.cost
    BY <1>2, <2>2, <2>3, <2>7
  <2> QED BY <1>3, <2>1, <2>2, <2>3, <2>5, <2>6, <2>7, <2>8
<1>5. SumOf(Costs(s)) = SumOf(Costs(p)) + s[Len(s)].cost
  <2> HIDE DEF k
  <2> QED BY <1>4, SumGrows
<1>6. SumOf(Costs(t)) = SumOf(Costs(p)) + r.cost
  <2> HIDE DEF k
  <2> QED BY <1>4, SumGrows
<1>7. SumOf(Costs(p)) \in Nat BY <1>4, SumIsNat
<1>8. s[Len(s)].cost \in Nat BY <1>1, Amounts
<1> QED BY <1>5, <1>6, <1>7, <1>8 DEF t

(* The totals of typed results are natural numbers.                        *)
LEMMA TotalsAreTyped ==
  ASSUME NEW s \in Seq(ResultType), NEW cost \in Nat
  PROVE  Totals(s, cost) \in TotalsType
<1>1. Len(s) \in Nat /\ DOMAIN s = 1 .. Len(s) BY Amounts
<1>2. IsFiniteSet(Passed(s)) /\ IsFiniteSet(Scored(s))
  <2>1. IsFiniteSet(1 .. Len(s)) BY <1>1, FS_Interval
  <2>2. Passed(s) \subseteq 1 .. Len(s) /\ Scored(s) \subseteq 1 .. Len(s)
    BY <1>1 DEF Passed, Scored
  <2> QED BY <2>1, <2>2, FS_Subset
<1>3. Cardinality(Passed(s)) \in Nat /\ Cardinality(Scored(s)) \in Nat
  BY <1>2, FS_CardinalityType
<1>4. SumOf(Scores(s)) \in Nat BY Amounts, SumIsNat
<1> QED BY <1>3, <1>4 DEF Totals, TotalsType

(* What a seed does until its key is verified.                             *)
KeyStep(s) ==
  \/ StartSeed(s) \/ ListKeys(s) \/ ReadKeyFile(s) \/ VerifyKey(s) \/ RelistKeys(s)
  \/ ReserveKeyFile(s) \/ CreateKey(s) \/ PublishKey(s)

(* The registry only grows.                                                *)
Grows ==
  \A slug \in DOMAIN prompts :
    /\ slug \in DOMAIN prompts'
    /\ LatestVersion(slug)' \in Nat /\ LatestVersion(slug) \in Nat
    /\ LatestVersion(slug)' >= LatestVersion(slug)
    /\ \A v \in 1 .. LatestVersion(slug) : prompts'[slug].versions[v] = prompts[slug].versions[v]

(* What the four writes of the registry's API do to its prompts.           *)
LEMMA SameRegistryGrows ==
  ASSUME PromptsTyped, UNCHANGED registry
  PROVE  PromptsTyped' /\ Grows
BY DEF PromptsTyped, PromptTyped, Grows, LatestVersion, registry

LEMMA CreateGrows ==
  ASSUME PromptsTyped, NEW slug, NEW description, CreatePrompt(slug, description)
  PROVE  /\ PromptsTyped' /\ Grows /\ Known(slug)' /\ LatestVersion(slug)' = 0
         /\ prompts'[slug].versions = <<>>
         /\ \A k \in DOMAIN prompts' : k # slug => k \in DOMAIN prompts /\ prompts'[k] = prompts[k]
<1> DEFINE p == [description |-> description, versions |-> <<>>, labels |-> <<>>]
<1>1. /\ slug \notin DOMAIN prompts
      /\ prompts' = [k \in DOMAIN prompts \cup {slug} |-> IF k = slug THEN p ELSE prompts[k]]
  BY DEF CreatePrompt, Known, Upserted, NewPrompt
<1>2. PromptTyped(p)
  <2>1. <<>> \in Seq(Contents) /\ DOMAIN <<>> = {} OBVIOUS
  <2> QED BY <2>1 DEF PromptTyped
<1>3. DOMAIN prompts' = DOMAIN prompts \cup {slug} /\ prompts'[slug] = p
      /\ \A k \in DOMAIN prompts : prompts'[k] = prompts[k]
  BY <1>1
<1>4. \A k \in DOMAIN prompts' : PromptTyped(prompts'[k])
  BY <1>2, <1>3 DEF PromptsTyped
<1>5. PromptsTyped'
  <2>1. prompts' = [k \in DOMAIN prompts' |-> prompts'[k]] BY <1>1
  <2> QED BY <1>4, <2>1 DEF PromptsTyped, PromptTyped
<1>6. Grows BY <1>3 DEF Grows, LatestVersion, PromptsTyped, PromptTyped
<1> QED BY <1>3, <1>5, <1>6 DEF Known, LatestVersion

LEMMA AddGrows ==
  ASSUME PromptsTyped, NEW slug, NEW content \in Contents, AddVersion(slug, content)
  PROVE  /\ PromptsTyped' /\ Grows /\ Known(slug) /\ DOMAIN prompts' = DOMAIN prompts
         /\ LatestVersion(slug)' = LatestVersion(slug) + 1
         /\ prompts'[slug].versions[LatestVersion(slug) + 1] = content
         /\ prompts'[slug].versions = Append(prompts[slug].versions, content)
         /\ prompts'[slug].labels = prompts[slug].labels
         /\ \A k \in DOMAIN prompts : k # slug => prompts'[k] = prompts[k]
<1> DEFINE p == prompts[slug]
           q == [description |-> p.description, versions |-> Append(p.versions, content),
                 labels |-> p.labels]
<1>1. /\ slug \in DOMAIN prompts
      /\ prompts' = [prompts EXCEPT ![slug].versions = Append(@, content)]
  BY DEF AddVersion, Known
<1>2. PromptTyped(p) BY <1>1 DEF PromptsTyped
<1>3. prompts' = [prompts EXCEPT ![slug] = q]
  <2>1. ASSUME NEW new
        PROVE  [p EXCEPT !.versions = new] =
                 [description |-> p.description, versions |-> new, labels |-> p.labels]
    BY <1>2 DEF PromptTyped
  <2>2. [p EXCEPT !.versions = Append(p.versions, content)] = q BY <2>1, Zenon
  <2>3. prompts' = [prompts EXCEPT ![slug] = [p EXCEPT !.versions = Append(p.versions, content)]]
    BY <1>1
  <2> QED BY <2>2, <2>3
<1>4. /\ q.versions \in Seq(Contents) /\ Len(q.versions) = Len(p.versions) + 1
      /\ q.versions[Len(p.versions) + 1] = content
      /\ \A v \in 1 .. Len(p.versions) : q.versions[v] = p.versions[v]
      /\ Len(p.versions) \in Nat
  BY <1>2, AppendProperties DEF PromptTyped
<1>5. q.labels = p.labels /\ q.versions = Append(p.versions, content)
      /\ q = [description |-> q.description, versions |-> q.versions, labels |-> q.labels]
  OBVIOUS
<1> HIDE DEF q
<1>6. PromptTyped(q) BY <1>2, <1>4, <1>5 DEF PromptTyped
<1>7. /\ DOMAIN prompts' = DOMAIN prompts /\ prompts'[slug] = q
      /\ prompts' = [k \in DOMAIN prompts |-> prompts'[k]]
      /\ \A k \in DOMAIN prompts : k # slug => prompts'[k] = prompts[k]
  BY <1>1, <1>3 DEF PromptsTyped
<1>8. PromptsTyped'
  <2>1. \A k \in DOMAIN prompts' : PromptTyped(prompts'[k]) BY <1>6, <1>7 DEF PromptsTyped
  <2> QED BY <1>7, <2>1 DEF PromptsTyped, PromptTyped
<1>9. Grows BY <1>4, <1>7 DEF Grows, LatestVersion, PromptsTyped, PromptTyped
<1> QED BY <1>1, <1>4, <1>5, <1>7, <1>8, <1>9 DEF Known, LatestVersion

LEMMA LabelGrows ==
  ASSUME PromptsTyped, NEW slug, NEW label, NEW version, SetLabel(slug, label, version)
  PROVE  /\ PromptsTyped' /\ Grows /\ DOMAIN prompts' = DOMAIN prompts
         /\ \A k \in DOMAIN prompts : prompts'[k].versions = prompts[k].versions
         /\ \A l : Labelled(slug, l)' = IF l = label THEN version ELSE Labelled(slug, l)
<1> DEFINE p == prompts[slug]
           q == [description |-> p.description, versions |-> p.versions,
                 labels |-> Upserted(p.labels, label, version)]
<1>1. /\ slug \in DOMAIN prompts /\ version \in 1 .. Len(p.versions)
      /\ prompts' = [prompts EXCEPT ![slug].labels = Upserted(@, label, version)]
  BY DEF SetLabel, Known, LatestVersion
<1>2. PromptTyped(p) BY <1>1 DEF PromptsTyped
<1>3. prompts' = [prompts EXCEPT ![slug] = q]
  <2>1. [p EXCEPT !.labels = Upserted(@, label, version)] = q BY <1>2 DEF PromptTyped
  <2> QED BY <1>1, <2>1
<1>4. \A l \in DOMAIN q.labels : q.labels[l] \in 1 .. Len(p.versions)
  BY <1>1, <1>2 DEF PromptTyped, Upserted
<1>5. q.versions = p.versions /\ q = [description |-> q.description, versions |-> q.versions, labels |-> q.labels]
      /\ q.labels = Upserted(p.labels, label, version)
  OBVIOUS
<1> HIDE DEF q
<1>6. PromptTyped(q) BY <1>2, <1>4, <1>5 DEF PromptTyped
<1>7. /\ DOMAIN prompts' = DOMAIN prompts /\ prompts'[slug] = q
      /\ prompts' = [k \in DOMAIN prompts |-> prompts'[k]]
      /\ \A k \in DOMAIN prompts : k # slug => prompts'[k] = prompts[k]
  BY <1>1, <1>3 DEF PromptsTyped
<1>8. PromptsTyped'
  <2>1. \A k \in DOMAIN prompts' : PromptTyped(prompts'[k]) BY <1>6, <1>7 DEF PromptsTyped
  <2> QED BY <1>7, <2>1 DEF PromptsTyped, PromptTyped
<1>9. \A k \in DOMAIN prompts : prompts'[k].versions = prompts[k].versions
  BY <1>5, <1>7
<1>10. Grows BY <1>7, <1>9 DEF Grows, LatestVersion, PromptsTyped, PromptTyped
<1>11. \A l : Labelled(slug, l)' = IF l = label THEN version ELSE Labelled(slug, l)
  BY <1>5, <1>7 DEF Labelled, Upserted
<1> QED BY <1>7, <1>8, <1>9, <1>10, <1>11

(* The judge's prompt only ever gets the rubric.                           *)
LEMMA RubricStays ==
  ASSUME FixturesInv,
         \/ UNCHANGED registry
         \/ \E slug, description : CreatePrompt(slug, description)
         \/ \E slug : \E content \in Contents :
              AddVersion(slug, content) /\ (slug = Judge => content = JudgeVersions[1])
         \/ \E slug, label, version : SetLabel(slug, label, version)
  PROVE  RubricIsLocked' /\ PromptsTyped' /\ Grows
<1>1. PromptsTyped /\ RubricIsLocked BY DEF FixturesInv
<1>2. CASE UNCHANGED registry
  <2>1. RubricIsLocked' BY <1>1, <1>2 DEF RubricIsLocked, registry, Known, LatestVersion
  <2> QED BY <1>1, <1>2, <2>1, SameRegistryGrows
<1>3. ASSUME NEW slug, NEW description, CreatePrompt(slug, description)
      PROVE  RubricIsLocked' /\ PromptsTyped' /\ Grows
  <2>1. /\ PromptsTyped' /\ Grows /\ LatestVersion(slug)' = 0
        /\ \A k \in DOMAIN prompts' : k # slug => k \in DOMAIN prompts /\ prompts'[k] = prompts[k]
    BY <1>1, <1>3, CreateGrows
  <2>2. CASE slug = Judge BY <2>1, <2>2 DEF RubricIsLocked
  <2>3. CASE slug # Judge BY <1>1, <2>1, <2>3 DEF RubricIsLocked, Known, LatestVersion
  <2> QED BY <2>1, <2>2, <2>3
<1>4. ASSUME NEW slug, NEW content \in Contents, AddVersion(slug, content),
             slug = Judge => content = JudgeVersions[1]
      PROVE  RubricIsLocked' /\ PromptsTyped' /\ Grows
  <2>1. /\ PromptsTyped' /\ Grows /\ Known(slug) /\ DOMAIN prompts' = DOMAIN prompts
        /\ LatestVersion(slug)' = LatestVersion(slug) + 1
        /\ prompts'[slug].versions[LatestVersion(slug) + 1] = content
        /\ \A k \in DOMAIN prompts : k # slug => prompts'[k] = prompts[k]
    BY <1>1, <1>4, AddGrows
  <2>2. CASE slug = Judge
    <3> SUFFICES ASSUME NEW i \in 1 .. LatestVersion(Judge)'
                 PROVE  prompts'[Judge].versions[i] = JudgeVersions[1]
      BY <2>1 DEF RubricIsLocked
    <3>1. LatestVersion(Judge) \in Nat BY <2>1, <2>2 DEF Grows, Known
    <3>2. CASE i = LatestVersion(Judge) + 1 BY <1>4, <2>1, <2>2, <3>2
    <3>3. CASE i \in 1 .. LatestVersion(Judge)
      BY <1>1, <2>1, <2>2, <3>3 DEF Grows, RubricIsLocked, Known
    <3> QED BY <2>1, <2>2, <3>1, <3>2, <3>3
  <2>3. CASE slug # Judge BY <1>1, <2>1, <2>3 DEF RubricIsLocked, Known, LatestVersion
  <2> QED BY <2>1, <2>2, <2>3
<1>5. ASSUME NEW slug, NEW label, NEW version, SetLabel(slug, label, version)
      PROVE  RubricIsLocked' /\ PromptsTyped' /\ Grows
  <2>1. /\ PromptsTyped' /\ Grows /\ DOMAIN prompts' = DOMAIN prompts
        /\ \A k \in DOMAIN prompts : prompts'[k].versions = prompts[k].versions
    BY <1>1, <1>5, LabelGrows
  <2> QED BY <1>1, <2>1 DEF RubricIsLocked, Known, LatestVersion
<1> QED BY <1>2, <1>3, <1>4, <1>5

(* One seed moves, to a step that finds what it needs.                     *)
LEMMA FoundAgain ==
  ASSUME FixturesInv, Grows, PromptsTyped', RubricIsLocked', ~open, open' = open,
         NEW s \in Seeds, NEW to \in Steps, seedPc' = [seedPc EXCEPT ![s] = to],
         to \in NeedsScreen => seedPc[s] \in NeedsScreen \/ Known(Screen)',
         to \in NeedsJudgePrompt => seedPc[s] \in NeedsJudgePrompt \/ Known(Judge)',
         to \in NeedsRubric => seedPc[s] \in NeedsRubric \/ LatestVersion(Judge)' > 0
  PROVE  FixturesInv'
<1>1. seedPc' \in [Seeds -> Steps] /\ \A t \in Seeds : seedPc'[t] = IF t = s THEN to ELSE seedPc[t]
  BY DEF FixturesInv
<1>2. \A t \in Seeds :
        /\ seedPc[t] \in NeedsScreen => Known(Screen)'
        /\ seedPc[t] \in NeedsJudgePrompt => Known(Judge)'
  BY DEF FixturesInv, FixturesFound, Known, Grows
<1>3. \A t \in Seeds : seedPc[t] \in NeedsRubric => LatestVersion(Judge)' > 0
  <2> TAKE t \in Seeds
  <2> HAVE seedPc[t] \in NeedsRubric
  <2>1. seedPc[t] \in NeedsJudgePrompt BY DEF NeedsRubric, NeedsJudgePrompt
  <2> QED BY <2>1 DEF FixturesInv, FixturesFound, Known, Grows
<1>4. FixturesFound' BY <1>1, <1>2, <1>3 DEF FixturesFound
<1> QED BY <1>1, <1>4 DEF FixturesInv

(* No step before the key is verified touches the registry.                *)
LEMMA KeyStepMoves ==
  ASSUME NEW s \in Seeds, KeyStep(s)
  PROVE  /\ UNCHANGED registry
         /\ \E to \in {"listKeys", "readFile", "rereadFile", "verifyKey", "relistKeys", "reserveFile",
                      "createKey", "publishKey", "postSafety", "failed"} :
              seedPc' = [seedPc EXCEPT ![s] = to]
BY DEF KeyStep, StartSeed, ListKeys, ReadKeyFile, VerifyKey, RelistKeys, ReserveKeyFile, CreateKey,
  PublishKey, Goes, Answered

(* The fixtures' requests, each with what its seed finds next.             *)
LEMMA FixturesOfASeed ==
  ASSUME FixturesInv, ~open, open' = open, NEW s \in Seeds, FixtureStep(s)
  PROVE  FixturesInv'
<1>1. PICK to \in Fixture \cup {"done", "failed"} : seedPc' = [seedPc EXCEPT ![s] = to]
  BY FixtureStepMoves
<1>2. seedPc \in [Seeds -> Steps] /\ PromptsTyped /\ seedPc[s] \in Fixture
  BY FixtureStepMoves DEF FixturesInv
<1>3. seedPc'[s] = to BY <1>1, <1>2
<1>4. to \in Steps /\ (to \in NeedsScreen => to # "failed") /\ (to \in NeedsJudgePrompt => to # "failed")
      /\ (to \in NeedsRubric => to # "failed")
  BY DEF Fixture, Steps, NeedsScreen, NeedsJudgePrompt, NeedsRubric
<1>5. Screen = Safety /\ Screen # Judge BY DEF Screen, Safety, Judge
<1>6. ASSUME NEW next, Answered(s, next) PROVE to \in {next, "failed"}
  <2>1. PICK x \in {next, "failed"} : seedPc' = [seedPc EXCEPT ![s] = x] BY <1>6, AnsweredMoves
  <2> QED BY <1>2, <1>3, <2>1
<1>7. ASSUME RubricIsLocked', PromptsTyped', Grows,
             to \in NeedsScreen => seedPc[s] \in NeedsScreen \/ Known(Screen)',
             to \in NeedsJudgePrompt => seedPc[s] \in NeedsJudgePrompt \/ Known(Judge)',
             to \in NeedsRubric => seedPc[s] \in NeedsRubric \/ LatestVersion(Judge)' > 0
      PROVE  FixturesInv'
  BY <1>1, <1>4, <1>7, FoundAgain
<1>8. CASE PostSafety(s)
  <2>1. RubricIsLocked' /\ PromptsTyped' /\ Grows
    BY <1>8, RubricStays DEF PostSafety, PostPrompt
  <2>2. to \in {"addV1", "listSafety", "failed"} BY <1>6, <1>8 DEF PostSafety, PostPrompt
  <2>3. Known(Screen)'
    <3>1. CASE Known(Safety) BY <1>5, <2>1, <3>1 DEF Known, Grows
    <3>2. CASE ~Known(Safety)
      <4>1. CreatePrompt(Safety, "marker") BY <1>8, <3>2 DEF PostSafety, PostPrompt
      <4> QED BY <1>2, <1>5, <4>1, CreateGrows
    <3> QED BY <3>1, <3>2
  <2> QED BY <1>7, <2>1, <2>2, <2>3 DEF NeedsJudgePrompt, NeedsRubric
<1>9. CASE AddSafetyVersion(s)
  <2>1. PICK content \in Contents : AddVersion(Safety, content)
    BY <1>9 DEF AddSafetyVersion, PostVersion, Contents
  <2>2. RubricIsLocked' /\ PromptsTyped' /\ Grows BY <1>5, <2>1, RubricStays
  <2>3. to \in {"addV2", "relistSafety", "failed"}
    BY <1>6, <1>9 DEF AddSafetyVersion, PostVersion
  <2>4. Known(Safety) BY <2>1 DEF AddVersion
  <2>5. Known(Screen)' BY <1>5, <2>2, <2>4 DEF Known, Grows
  <2> QED BY <1>7, <2>2, <2>3, <2>5 DEF NeedsJudgePrompt, NeedsRubric
<1>10. CASE ListSafety(s)
  <2>1. RubricIsLocked' /\ PromptsTyped' /\ Grows BY <1>10, RubricStays DEF ListSafety
  <2>2. to \in {"addV1", "addV2", "relistSafety", "failed"} /\ seedPc[s] \in NeedsScreen
    BY <1>6, <1>10 DEF ListSafety, NeedsScreen
  <2> QED BY <1>7, <2>1, <2>2 DEF NeedsJudgePrompt, NeedsRubric
<1>11. CASE RelistSafety(s)
  <2>1. RubricIsLocked' /\ PromptsTyped' /\ Grows BY <1>11, RubricStays DEF RelistSafety
  <2>2. to \in {"postJudge", "putLabel", "failed"} /\ seedPc[s] \in NeedsScreen
    BY <1>6, <1>11 DEF RelistSafety, NeedsScreen, NextLabel
  <2> QED BY <1>7, <2>1, <2>2 DEF NeedsJudgePrompt, NeedsRubric
<1>12. CASE PutLabel(s)
  <2>1. SetLabel(Safety, Head(unset[s]), 1) BY <1>12 DEF PutLabel
  <2>2. RubricIsLocked' /\ PromptsTyped' /\ Grows BY <2>1, RubricStays
  <2>3. to \in {"postJudge", "putLabel", "failed"} /\ seedPc[s] \in NeedsScreen
    BY <1>6, <1>12 DEF PutLabel, NeedsScreen, NextLabel
  <2> QED BY <1>7, <2>2, <2>3 DEF NeedsJudgePrompt, NeedsRubric
<1>13. CASE PostJudge(s)
  <2>1. RubricIsLocked' /\ PromptsTyped' /\ Grows
    BY <1>13, RubricStays DEF PostJudge, PostPrompt
  <2>2. to \in {"addJudge", "listJudge", "failed"} /\ seedPc[s] \in NeedsScreen
    BY <1>6, <1>13 DEF PostJudge, PostPrompt, NeedsScreen
  <2>3. Known(Judge)'
    <3>1. CASE Known(Judge) BY <2>1, <3>1 DEF Known, Grows
    <3>2. CASE ~Known(Judge)
      <4>1. CreatePrompt(Judge, "marker") BY <1>13, <3>2 DEF PostJudge, PostPrompt
      <4> QED BY <1>2, <4>1, CreateGrows
    <3> QED BY <3>1, <3>2
  <2> QED BY <1>7, <2>1, <2>2, <2>3 DEF NeedsRubric
<1>14. CASE ListJudge(s)
  <2>1. RubricIsLocked' /\ PromptsTyped' /\ Grows BY <1>14, RubricStays DEF ListJudge
  <2>2. /\ to \in {"addJudge", "postDataset", "failed"}
        /\ seedPc[s] \in NeedsScreen /\ seedPc[s] \in NeedsJudgePrompt
    BY <1>6, <1>14 DEF ListJudge, NeedsScreen, NeedsJudgePrompt
  <2>3. Known(Judge)
    BY <2>2 DEF FixturesInv, FixturesFound
  <2>4. LatestVersion(Judge) \in Nat /\ LatestVersion(Judge)' >= LatestVersion(Judge)
        /\ LatestVersion(Judge)' \in Nat
    BY <2>1, <2>3 DEF Grows, Known
  <2>5. LatestVersion(Judge) = 0 => to \in {"addJudge", "failed"}
    BY <1>6, <1>14 DEF ListJudge, Summary
  <2>6. to \in NeedsRubric => LatestVersion(Judge)' > 0
    BY <2>2, <2>4, <2>5 DEF NeedsRubric
  <2> QED BY <1>7, <2>1, <2>2, <2>6
<1>15. CASE AddJudgeVersion(s)
  <2>1. AddVersion(Judge, JudgeVersions[1]) /\ JudgeVersions[1] \in Contents
    BY <1>15 DEF AddJudgeVersion, PostVersion, Contents
  <2>2. RubricIsLocked' /\ PromptsTyped' /\ Grows BY <2>1, RubricStays
  <2>3. Known(Judge) /\ LatestVersion(Judge)' = LatestVersion(Judge) + 1
    BY <1>2, <2>1, AddGrows
  <2>4. LatestVersion(Judge) \in Nat BY <2>2, <2>3 DEF Grows, Known
  <2>5. seedPc[s] \in NeedsScreen /\ seedPc[s] \in NeedsJudgePrompt
    BY <1>15 DEF AddJudgeVersion, NeedsScreen, NeedsJudgePrompt
  <2> QED BY <1>7, <2>2, <2>3, <2>4, <2>5
<1>16. CASE PostDataset(s)
  <2>1. RubricIsLocked' /\ PromptsTyped' /\ Grows BY <1>16, RubricStays DEF PostDataset
  <2>2. seedPc[s] \in NeedsScreen /\ seedPc[s] \in NeedsJudgePrompt /\ seedPc[s] \in NeedsRubric
    BY <1>16 DEF PostDataset, NeedsScreen, NeedsJudgePrompt, NeedsRubric
  <2> QED BY <1>7, <2>1, <2>2
<1> QED BY <1>8, <1>9, <1>10, <1>11, <1>12, <1>13, <1>14, <1>15, <1>16 DEF FixtureStep

(* Every step of a seed, of a run and of the admin keeps the fixtures.     *)
LEMMA FixturesInductive ==
  FixturesInv /\ [GateNext]_gateVars => FixturesInv' /\ Grows
<1> SUFFICES ASSUME FixturesInv, [GateNext]_gateVars PROVE FixturesInv' /\ Grows
  OBVIOUS
<1>1. CASE Seeding
  <2>1. ~open /\ open' = open BY <1>1 DEF Seeding
  <2>2. PICK s \in Seeds : SeedStep(s) BY <1>1 DEF Seeding
  <2>3. CASE FixtureStep(s)
    <3>1. FixturesInv' BY <2>1, <2>3, FixturesOfASeed
    <3>2. \/ UNCHANGED registry
          \/ \E slug, description : CreatePrompt(slug, description)
          \/ \E slug : \E content \in Contents :
               AddVersion(slug, content) /\ (slug = Judge => content = JudgeVersions[1])
          \/ \E slug, label, version : SetLabel(slug, label, version)
      <4>1. CASE PostSafety(s) BY <4>1 DEF PostSafety, PostPrompt
      <4>2. CASE AddSafetyVersion(s)
        BY <4>2 DEF AddSafetyVersion, PostVersion, Contents, Safety, Judge
      <4>3. CASE ListSafety(s) BY <4>3 DEF ListSafety
      <4>4. CASE RelistSafety(s) BY <4>4 DEF RelistSafety
      <4>5. CASE PutLabel(s) BY <4>5 DEF PutLabel
      <4>6. CASE PostJudge(s) BY <4>6 DEF PostJudge, PostPrompt
      <4>7. CASE ListJudge(s) BY <4>7 DEF ListJudge
      <4>8. CASE AddJudgeVersion(s)
        BY <4>8 DEF AddJudgeVersion, PostVersion, Contents
      <4>9. CASE PostDataset(s) BY <4>9 DEF PostDataset
      <4> QED
        BY <2>3, <4>1, <4>2, <4>3, <4>4, <4>5, <4>6, <4>7, <4>8, <4>9 DEF FixtureStep
    <3>3. Grows BY <3>2, RubricStays
    <3> QED BY <3>1, <3>3
  <2>4. ASSUME UNCHANGED registry, NEW to, seedPc' = [seedPc EXCEPT ![s] = to],
               to \in {"listKeys", "readFile", "rereadFile", "verifyKey", "relistKeys", "reserveFile",
                      "createKey", "publishKey", "postSafety", "failed", seedPc[s]}
        PROVE  FixturesInv' /\ Grows
    <3>1. RubricIsLocked' /\ PromptsTyped' /\ Grows BY <2>4, RubricStays
    <3>2. to \in Steps BY <2>4 DEF FixturesInv, Steps
    <3>3. /\ to \in NeedsScreen => seedPc[s] \in NeedsScreen
          /\ to \in NeedsJudgePrompt => seedPc[s] \in NeedsJudgePrompt
          /\ to \in NeedsRubric => seedPc[s] \in NeedsRubric
      BY <2>4 DEF NeedsScreen, NeedsJudgePrompt, NeedsRubric
    <3> QED BY <2>1, <2>4, <3>1, <3>2, <3>3, FoundAgain
  <2>5. CASE KeyStep(s) BY <2>4, <2>5, KeyStepMoves
  <2>6. CASE SeedGivesUp(s)
    <3>1. UNCHANGED registry /\ seedPc' = [seedPc EXCEPT ![s] = "failed"] BY <2>6 DEF SeedGivesUp
    <3> QED BY <2>4, <3>1
  <2>7. CASE KillSeed(s)
    <3>1. UNCHANGED registry
          /\ seedPc' = [seedPc EXCEPT ![s] = IF seedPc[s] \in LocalWork THEN "failed" ELSE seedPc[s]]
      BY <2>7 DEF KillSeed
    <3> QED BY <2>4, <3>1
  <2> QED BY <2>2, <2>3, <2>5, <2>6, <2>7 DEF SeedStep, FixtureStep, KeyStep
<1>2. CASE OpenGate
  <2>1. ~open /\ open' /\ UNCHANGED registry /\ seedPc' = [t \in Seeds |-> "done"]
        /\ \E s \in Seeds : seedPc[s] = "done"
    BY <1>2 DEF OpenGate, SeedSucceeded
  <2>2. Known(Screen) /\ Known(Judge) /\ LatestVersion(Judge) > 0
    BY <2>1 DEF FixturesInv, FixturesFound, NeedsScreen, NeedsJudgePrompt, NeedsRubric
  <2>3. FixturesFound' BY <2>1, <2>2 DEF FixturesFound, registry, Known, LatestVersion
  <2>4. seedPc' \in [Seeds -> Steps] BY <2>1 DEF Steps
  <2> QED BY <2>1, <2>3, <2>4, RubricStays DEF FixturesInv
<1>3. CASE AdminWrites
  <2>1. open /\ open' = open /\ seedPc' = seedPc BY <1>3 DEF AdminWrites, seedState
  <2>2. \/ AddVersion(Screen, "reworded")
        \/ \E l, v : SetLabel(Screen, l, v)
    BY <1>3 DEF AdminWrites
  <2>3. Screen # Judge /\ "reworded" \in Contents BY DEF Screen, Judge, Contents
  <2>4. RubricIsLocked' /\ PromptsTyped' /\ Grows BY <2>2, <2>3, RubricStays
  <2>5. FixturesFound' BY <2>1, <2>4 DEF FixturesInv, FixturesFound, Known, Grows
  <2> QED BY <2>1, <2>4, <2>5 DEF FixturesInv
<1>4. CASE UNCHANGED <<seedPc, open, registry>>
  <2>1. RubricIsLocked' /\ PromptsTyped' /\ Grows BY <1>4, RubricStays
  <2>2. FixturesFound' BY <1>4 DEF FixturesInv, FixturesFound, Known, LatestVersion, registry
  <2> QED BY <1>4, <2>1, <2>2 DEF FixturesInv
<1>5. CASE Evaluating
  <2>1. UNCHANGED <<seedPc, open>> BY <1>5 DEF Evaluating, seedState
  <2>2. UNCHANGED registry
    BY <1>5
    DEF Evaluating, BeginRun, RunStep, Freeze, ReadHistory, UpsertDataset, TakeTurn, TimePasses,
      AnswerCase, AnswerJudge, CallBegins, Persist, Verdict, RunFails
  <2> QED BY <1>4, <2>1, <2>2
<1> QED BY <1>1, <1>2, <1>3, <1>4, <1>5 DEF GateNext, gateVars, seedState

LEMMA FixturesInitially == GateInit => FixturesInv
<1> SUFFICES ASSUME GateInit PROVE FixturesInv
  OBVIOUS
<1>1. /\ prompts = <<>> /\ seedPc = [s \in Seeds |-> "idle"] /\ ~open
  BY DEF GateInit, SeedInit
<1>2. DOMAIN prompts = {} /\ prompts = [slug \in DOMAIN prompts |-> prompts[slug]] BY <1>1
<1> QED
  BY <1>1, <1>2
  DEF FixturesInv, PromptsTyped, RubricIsLocked, Known, FixturesFound, NeedsScreen,
    NeedsJudgePrompt, NeedsRubric, Steps

(* A set of row numbers that is not empty has a newest one.                *)
LEMMA NewestExists ==
  ASSUME NEW n \in Nat, NEW S \in SUBSET (1 .. n), S # {}
  PROVE  Newest(S) \in S /\ \A k \in S : k <= Newest(S)
<1> DEFINE T == {m \in Nat : n - m \in S}
<1>1. T \subseteq Nat /\ T # {}
  <2>1. PICK j \in S : TRUE OBVIOUS
  <2>2. n - j \in Nat /\ n - (n - j) = j OBVIOUS
  <2> QED BY <2>2
<1>2. PICK m \in T : \A y \in T : ~(y < m)
  <2> HIDE DEF T
  <2> QED BY <1>1, LeastNat
<1>3. \A k \in S : k <= n - m
  <2>1. TAKE k \in S
  <2>2. n - k \in T OBVIOUS
  <2> QED BY <2>2, <1>2
<1>4. \E j \in S : \A k \in S : k <= j BY <1>3, <1>2
<1> QED BY <1>4 DEF Newest

(* A model run begins with nothing done and nothing charged.               *)
LEMMA NoWorkIs ==
  /\ NoWork \in [results : Seq(ResultType), cost : Nat, charged : Nat]
  /\ NoWork.results = <<>> /\ Len(NoWork.results) = 0
  /\ NoWork.cost = SumOf(Costs(NoWork.results)) /\ NoWork.charged = NoWork.cost
<1>1. Costs(<<>>) = <<>>
  <2>1. DOMAIN <<>> = {} OBVIOUS
  <2> QED BY <2>1 DEF Costs
<1>2. <<>> \in Seq(ResultType) /\ Len(<<>>) = 0 OBVIOUS
<1> QED BY <1>1, <1>2, SumOfNothing DEF NoWork

(* A run that drops its work has none.                                     *)
LEMMA NothingAtWork ==
  ASSUME work' = NoWork, run'.pc \notin {"judge", "judgeWait", "persist"}
  PROVE  WorkInv'
<1>1. Len(work'.results) = 0 BY NoWorkIs
<1>2. \A i \in 1 .. Len(work'.results) : FALSE BY <1>1
<1>3. 0 < NumCases BY RunConstants
<1> QED BY <1>1, <1>2, <1>3, NoWorkIs DEF WorkInv, Working

(* Rows on record stay as they were, whatever is added to the registry.    *)
LEMMA RowsStand ==
  ASSUME FixturesInv, StoreInv, Grows, open => open', store' = store
  PROVE  StoreInv'
<1>1. store # <<>> => Screen \in DOMAIN prompts
  BY DEF StoreInv, FixturesInv, FixturesFound, Known
<1>2. ASSUME NEW k \in 1 .. Len(store) PROVE OnRecord(store[k])'
  <2>0. PICK row : row = store[k] OBVIOUS
  <2>1. OnRecord(row) BY <2>0 DEF StoreInv
  <2>2. store # <<>> OBVIOUS
  <2>3. Screen \in DOMAIN prompts BY <1>1, <2>2
  <2>4. /\ LatestVersion(Screen)' \in Nat /\ LatestVersion(Screen) \in Nat
        /\ LatestVersion(Screen)' >= LatestVersion(Screen)
        /\ \A v \in 1 .. LatestVersion(Screen) : prompts'[Screen].versions[v] = prompts[Screen].versions[v]
    BY <2>3 DEF Grows
  <2>5. row.version \in 1 .. LatestVersion(Screen)' BY <2>1, <2>4 DEF OnRecord
  <2>6. \A i \in 1 .. Len(row.results) : Faithful(row.results[i], row.version)'
    <3>1. prompts'[Screen].versions[row.version] = prompts[Screen].versions[row.version]
      BY <2>1, <2>4 DEF OnRecord
    <3>2. \A i \in 1 .. Len(row.results) : Faithful(row.results[i], row.version)
      BY <2>1 DEF OnRecord
    <3> QED BY <3>1, <3>2 DEF Faithful
  <2>7. OnRecord(row)' BY <2>1, <2>5, <2>6 DEF OnRecord
  <2> QED BY <2>0, <2>7
<1> QED BY <1>2 DEF StoreInv

(* A step of the seeds or of the admin.                                    *)
LEMMA RunStands ==
  ASSUME FixturesInv, RunInv, Grows, open => open', UNCHANGED runState
  PROVE  RunInv'
<1>1. StoreInv' BY RowsStand DEF RunInv, runState
<1>2. ASSUME run.pc \notin Ended \cup {"freeze"}
      PROVE  /\ LatestVersion(Screen)' \in Nat /\ LatestVersion(Screen) \in Nat
             /\ LatestVersion(Screen)' >= LatestVersion(Screen)
             /\ \A v \in 1 .. LatestVersion(Screen) : prompts'[Screen].versions[v] = prompts[Screen].versions[v]
  <2>1. open BY <1>2 DEF RunInv, RunTyped, Ended
  <2>2. Screen \in DOMAIN prompts BY <2>1 DEF FixturesInv, FixturesFound, Known
  <2> QED BY <2>2 DEF Grows
<1>3. RunTyped' BY <1>2 DEF RunInv, RunTyped, runState
<1>4. WorkInv'
  <2>1. CASE run.pc \notin Working
    <3>1. work' = NoWork /\ run'.pc \notin {"judge", "judgeWait", "persist"}
      BY <2>1 DEF RunInv, WorkInv, runState, Working
    <3> QED BY <3>1, NothingAtWork
  <2>2. CASE run.pc \in Working
    <3>1. run.pc \notin Ended \cup {"freeze"} BY <2>2 DEF Working, Ended
    <3>2. Frozen \in 1 .. LatestVersion(Screen) /\ Frozen' = Frozen
      BY <3>1 DEF RunInv, RunTyped, Frozen, runState
    <3>3. \A i \in 1 .. Len(work.results) : Faithful(work.results[i], Frozen)'
      BY <1>2, <3>1, <3>2 DEF RunInv, WorkInv, Faithful, runState
    <3> QED BY <3>3 DEF RunInv, WorkInv, runState
  <2> QED BY <2>1, <2>2
<1>5. Compared' /\ CandidateIsLast' /\ VerdictIsOnRecord'
  <2>1. UNCHANGED <<run, store, metrics>> BY DEF runState
  <2>2. Compared'
    BY <2>1 DEF RunInv, Compared, HasBaseline, IsBaseline, Before, Comparable
  <2>3. CandidateIsLast' BY <2>1 DEF RunInv, CandidateIsLast
  <2>4. VerdictIsOnRecord'
    BY <2>1 DEF RunInv, VerdictIsOnRecord, BaselinesOnRecord
  <2> QED BY <2>2, <2>3, <2>4
<1> QED BY <1>1, <1>3, <1>4, <1>5 DEF RunInv

(* A run that begins leaves every row as it was.                           *)
LEMMA BeginKeeps ==
  ASSUME RunInv, NEW options \in RunOption, BeginRun(options), open, open' = open
  PROVE  RunInv'
<1>1. /\ run' = [NotRunning EXCEPT !.pc = "freeze", !.options = options]
      /\ metrics' = <<>> /\ work' = NoWork /\ runsMade' = runsMade + 1 /\ store' = store
      /\ UNCHANGED registry
  BY DEF BeginRun
<1>2. run' = [pc |-> "freeze", options |-> options, side |-> "candidate", candidate |-> 0, baseline |-> 0]
  BY <1>1 DEF NotRunning, NoVersion
<1>3. RunTyped' BY <1>1, <1>2 DEF RunInv, RunTyped
<1>4. WorkInv' BY <1>1, <1>2, NothingAtWork
<1>5. StoreInv'
  BY <1>1 DEF RunInv, StoreInv, OnRecord, Faithful, LatestVersion, registry
<1> QED
  BY <1>2, <1>3, <1>4, <1>5
  DEF RunInv, Compared, CandidateIsLast, VerdictIsOnRecord

(* A run that ends with 2 says nothing.                                    *)
LEMMA GivingUpKeeps ==
  ASSUME RunInv, Exit("2"), run.pc # "idle", StoreInv', open, open' = open, runsMade' = runsMade
  PROVE  RunInv'
<1>1. run' = [run EXCEPT !.pc = "2"] /\ work' = NoWork BY DEF Exit
<1>2. RunTyped' /\ run'.pc = "2" BY <1>1 DEF RunInv, RunTyped, Ended
<1>3. WorkInv' BY <1>1, <1>2, NothingAtWork
<1> QED
  BY <1>2, <1>3 DEF RunInv, Compared, CandidateIsLast, VerdictIsOnRecord, Ended

(* Rows on record stay so when nothing is written.                         *)
LEMMA SameRows ==
  ASSUME StoreInv, UNCHANGED <<store, registry, open>>
  PROVE  StoreInv'
BY DEF StoreInv, OnRecord, Faithful, LatestVersion, registry

(* Freezing resolves the refs to versions that exist.                      *)
LEMMA FreezeKeeps ==
  ASSUME FixturesInv, RunInv, Freeze, open' = open
  PROVE  RunInv'
<1>1. StoreInv' /\ open /\ runsMade' = runsMade /\ run.pc # "idle"
  BY SameRows DEF Freeze, RunInv, RunTyped
<1>2. CASE Exit("2") BY <1>1, <1>2, GivingUpKeeps
<1>3. CASE ~Exit("2")
  <2> DEFINE candidate == FreezeRef("candidate")
             baseline == IF run.options.mode = "single" THEN candidate ELSE FreezeRef("prod")
             next == IF run.options.mode = "history" THEN "history" ELSE "upsert"
  <2>1. /\ run.pc = "freeze" /\ candidate # NoVersion /\ baseline # NoVersion
        /\ run' = [run EXCEPT !.candidate = candidate, !.baseline = baseline, !.pc = next,
                              !.side = FirstSide(candidate, baseline)]
        /\ UNCHANGED <<work, metrics, store, runsMade, registry>>
    BY <1>3 DEF Freeze
  <2>2. \A l : Labelled(Screen, l) # NoVersion => Labelled(Screen, l) \in 1 .. LatestVersion(Screen)
    <3>1. PromptTyped(prompts[Screen])
      BY <1>1 DEF FixturesInv, FixturesFound, PromptsTyped, Known
    <3> QED BY <3>1 DEF Labelled, PromptTyped, LatestVersion
  <2>3. candidate \in 1 .. LatestVersion(Screen) /\ baseline \in 1 .. LatestVersion(Screen)
    BY <2>1, <2>2 DEF FreezeRef
  <2>4. /\ run.options.mode = "single" => candidate = baseline
        /\ FirstSide(candidate, baseline) = IF run.options.mode = "paired" /\ candidate # baseline
                                            THEN "baseline" ELSE "candidate"
    BY DEF FirstSide, SamePairedVersion
  <2> HIDE DEF candidate, baseline
  <2>5. run' = [pc |-> next, options |-> run.options, side |-> FirstSide(candidate, baseline),
                candidate |-> candidate, baseline |-> baseline]
    BY <2>1 DEF RunInv, RunTyped
  <2>6. RunTyped'
    <3>1. LatestVersion(Screen)' = LatestVersion(Screen) BY <2>1 DEF LatestVersion, registry
    <3>2. candidate \in Nat /\ baseline \in Nat BY <2>3
    <3> QED BY <1>1, <2>1, <2>3, <2>4, <2>5, <3>1, <3>2 DEF RunInv, RunTyped, Ended
  <2>7. WorkInv'
    <3>1. work' = NoWork BY <2>1 DEF RunInv, WorkInv, Working
    <3> QED BY <2>5, <3>1, NothingAtWork
  <2>8. metrics' = <<>> /\ "baseline" \notin DOMAIN <<>>
    BY <2>1 DEF RunInv, RunTyped
  <2>9. run.options.mode \in {"single", "paired", "history"}
    BY <2>1 DEF RunInv, RunTyped, RunOption
  <2>10. Compared' BY <2>4, <2>5, <2>8, <2>9 DEF Compared, HasBaseline
  <2> QED
    BY <1>1, <2>5, <2>6, <2>7, <2>10 DEF RunInv, CandidateIsLast, VerdictIsOnRecord
<1> QED BY <1>2, <1>3

(* A baseline from history is the newest row comparable, and its totals    *)
(* are those on record.                                                    *)
LEMMA HistoryKeeps ==
  ASSUME RunInv, ReadHistory, open' = open
  PROVE  RunInv'
<1>1. StoreInv' /\ open /\ runsMade' = runsMade /\ run.pc # "idle"
  BY SameRows DEF ReadHistory, RunInv, RunTyped
<1>2. CASE Exit("2") BY <1>1, <1>2, GivingUpKeeps
<1>3. CASE ~Exit("2")
  <2> DEFINE found == {i \in DOMAIN store : Comparable(store[i])}
             b == Newest(found)
  <2>1. /\ run.pc = "history" /\ found # {} /\ run' = [run EXCEPT !.pc = "upsert"]
        /\ metrics' = Upserted(<<>>, "baseline", store[b].totals)
        /\ UNCHANGED <<work, store, runsMade, registry>>
    BY <1>3 DEF ReadHistory
  <2>2. DOMAIN store = 1 .. Len(store) /\ Len(store) \in Nat BY DEF RunInv, StoreInv
  <2>3. b \in found /\ \A j \in found : j <= b
    <3>1. found \in SUBSET (1 .. Len(store)) BY <2>2
    <3> HIDE DEF found
    <3> QED BY <2>1, <2>2, <3>1, NewestExists
  <2>4. "baseline" \in DOMAIN metrics' /\ metrics'["baseline"] = store[b].totals
    BY <2>1 DEF Upserted
  <2>5. run' = [pc |-> "upsert", options |-> run.options, side |-> run.side,
                candidate |-> run.candidate, baseline |-> run.baseline]
    BY <2>1 DEF RunInv, RunTyped
  <2> DEFINE old == b
  <2>6. PICK c : c = b OBVIOUS
  <2>7. /\ c \in 1 .. Len(store) /\ Comparable(store[c])
        /\ \A j \in 1 .. Len(store) : Comparable(store[j]) => j <= c
        /\ metrics'["baseline"] = store[c].totals
    BY <2>2, <2>3, <2>4, <2>6
  <2>8. IsBaseline(c)' /\ c \in Before'
    BY <2>1, <2>5, <2>7 DEF IsBaseline, Before, Comparable
  <2>9. RunTyped'
    <3>1. LatestVersion(Screen)' = LatestVersion(Screen) BY <2>1 DEF LatestVersion, registry
    <3> QED BY <1>1, <2>1, <2>5, <3>1 DEF RunInv, RunTyped, Ended
  <2>10. WorkInv'
    <3>1. work' = NoWork BY <2>1 DEF RunInv, WorkInv, Working
    <3> QED BY <2>5, <3>1, NothingAtWork
  <2>11. Compared'
    <3>1. /\ run.side = "baseline" => run.options.mode = "paired" /\ run.candidate # run.baseline
          /\ "baseline" \in DOMAIN metrics <=> HasBaseline
      BY <2>1 DEF RunInv, Compared, Ended
    <3>2. run.options.mode = "history" BY <2>1 DEF RunInv, RunTyped
    <3> QED BY <2>4, <2>5, <2>8, <3>1, <3>2 DEF Compared, HasBaseline
  <2> QED
    BY <1>1, <2>5, <2>9, <2>10, <2>11 DEF RunInv, CandidateIsLast, VerdictIsOnRecord
<1> QED BY <1>2, <1>3

(* A step within a model run needs to keep what is at work only.           *)
LEMMA WorkStep ==
  ASSUME RunInv, NEW to \in Working, run' = [run EXCEPT !.pc = to], run.pc \in Working \cup {"upsert"},
         UNCHANGED <<metrics, store, registry, open, runsMade>>, WorkInv'
  PROVE  RunInv'
<1>1. run' = [pc |-> to, options |-> run.options, side |-> run.side,
              candidate |-> run.candidate, baseline |-> run.baseline]
  BY DEF RunInv, RunTyped
<1>2. StoreInv' BY SameRows DEF RunInv
<1>3. RunTyped'
  <2>1. LatestVersion(Screen)' = LatestVersion(Screen) BY DEF LatestVersion, registry
  <2>2. run.pc \notin Ended \cup {"freeze"} /\ to \notin {"freeze", "history", "verdict", "idle"}
    BY DEF Working, Ended
  <2> QED BY <1>1, <2>1, <2>2 DEF RunInv, RunTyped, Ended
<1>4. Compared'
  <2>1. /\ run.pc \notin Ended \cup {"freeze"} /\ run.pc # "verdict" /\ run.pc # "history"
        /\ to # "verdict" /\ to # "history"
    BY DEF Working, Ended
  <2>2. HasBaseline' = HasBaseline BY <1>1, <2>1 DEF HasBaseline
  <2>3. Before' = Before BY <1>1, <2>1 DEF Before
  <2>4. \A b : IsBaseline(b)' = IsBaseline(b)
    BY <1>1, <2>3 DEF IsBaseline, Comparable
  <2> QED BY <1>1, <2>1, <2>2, <2>3, <2>4 DEF RunInv, Compared
<1> QED
  BY <1>1, <1>2, <1>3, <1>4 DEF RunInv, CandidateIsLast, VerdictIsOnRecord, Working

(* The upsert of the dataset, the waits and the clock add no result.       *)
LEMMA QuietStepsKeep ==
  ASSUME RunInv, open' = open,
         \/ UpsertDataset \/ TakeTurn(Target, "case", "caseWait")
         \/ TakeTurn(JudgeModel, "judge", "judgeWait") \/ TimePasses
  PROVE  RunInv'
<1>1. CASE UpsertDataset
  <2>1. /\ run.pc = "upsert" /\ run' = [run EXCEPT !.pc = "case"]
        /\ UNCHANGED <<work, metrics, store, registry, runsMade>>
    BY <1>1 DEF UpsertDataset
  <2>2. WorkInv'
    <3>1. work' = NoWork BY <2>1 DEF RunInv, WorkInv, Working
    <3>2. run'.pc = "case" BY <2>1 DEF RunInv, RunTyped
    <3> QED BY <3>1, <3>2, NothingAtWork
  <2> QED BY <2>1, <2>2, WorkStep DEF Working
<1>2. ASSUME NEW m, NEW from, NEW to, TakeTurn(m, from, to),
             <<from, to>> \in {<<"case", "caseWait">>, <<"judge", "judgeWait">>}
      PROVE  RunInv'
  <2>1. /\ run.pc = from /\ run' = [run EXCEPT !.pc = to]
        /\ UNCHANGED <<work, metrics, store, registry, runsMade>>
    BY <1>2 DEF TakeTurn
  <2>2. WorkInv'
    <3>1. run'.pc = to /\ run'.side = run.side /\ run'.candidate = run.candidate /\ run'.baseline = run.baseline
      BY <2>1 DEF RunInv, RunTyped
    <3> QED BY <1>2, <2>1, <3>1 DEF RunInv, WorkInv, Working, Frozen, Faithful, registry
  <2> QED BY <1>2, <2>1, <2>2, WorkStep DEF Working
<1>3. CASE TimePasses
  <2>1. /\ run' = run /\ UNCHANGED <<work, metrics, store, registry, runsMade>>
        /\ run.pc \in {"case", "caseWait", "judge", "judgeWait"}
    BY <1>3 DEF TimePasses
  <2>2. WorkInv' BY <2>1 DEF RunInv, WorkInv, Frozen, Faithful, registry
  <2>3. run' = [run EXCEPT !.pc = run.pc] BY <2>1 DEF RunInv, RunTyped
  <2> QED BY <2>1, <2>2, <2>3, WorkStep DEF Working
<1> QED BY <1>1, <1>2, <1>3

(* resolvePromptRequest by a version that exists.                          *)
LEMMA RenderedByVersion ==
  ASSUME PromptsTyped, NEW slug, Known(slug), NEW v \in 1 .. LatestVersion(slug)
  PROVE  /\ Rendered(slug, ByVersion(v)) = prompts[slug].versions[v]
         /\ Rendered(slug, ByVersion(v)) \in Contents
<1>1. ResolveRef(slug, ByVersion(v)) = v BY DEF ResolveRef, ByVersion
<1>2. prompts[slug].versions \in Seq(Contents) BY DEF PromptsTyped, PromptTyped, Known
<1>3. prompts[slug].versions[v] \in Contents BY <1>2, ElementOfSeq DEF LatestVersion
<1> QED BY <1>1, <1>3 DEF Rendered

(* An answer of the target adds one result, by the frozen version, and its *)
(* charge.                                                                 *)
LEMMA AnswersKeep ==
  ASSUME FixturesInv, RunInv, NEW charge \in Charges, NEW passes \in BOOLEAN,
         AnswerCase(charge, passes), open' = open
  PROVE  RunInv'
<1>1. PICK n \in Nat : n = Len(work.results) + 1 BY DEF RunInv, WorkInv
<1>2. PICK r : r = Result(Rendered(Screen, PromptRef), passes, charge) OBVIOUS
<1>3. PICK to : to = IF NeedsJudge(n, passes) THEN "judge" ELSE AfterCase(n) OBVIOUS
<1>4. /\ run.pc = "caseWait" /\ run' = [run EXCEPT !.pc = to]
      /\ work' = [work EXCEPT !.results = Append(@, r), !.cost = @ + charge, !.charged = @ + charge]
      /\ UNCHANGED <<metrics, store, registry, open, runsMade>>
  BY <1>1, <1>2, <1>3 DEF AnswerCase, CallBegins
<1>5. /\ to \in {"judge", "persist", "case"} /\ (to = "persist" => n = NumCases)
      /\ (to = "case" => n # NumCases)
  BY <1>3 DEF AfterCase
<1>6. run'.pc = to /\ run'.side = run.side /\ run'.candidate = run.candidate /\ run'.baseline = run.baseline
  BY <1>4 DEF RunInv, RunTyped
<1>7. /\ Known(Screen) /\ Frozen \in 1 .. LatestVersion(Screen) /\ Frozen' = Frozen
  BY <1>4, <1>6 DEF RunInv, RunTyped, Ended, FixturesInv, FixturesFound, Frozen
<1>8. r.by = prompts[Screen].versions[Frozen] /\ r.by \in Contents
  BY <1>2, <1>7, RenderedByVersion DEF Result, PromptRef, FixturesInv
<1>9. charge \in Nat BY DEF Charges
<1>10. r.score = NoScore /\ r.cost = charge /\ r \in ResultType
  BY <1>2, <1>8, <1>9 DEF Result, ResultType
<1>11. PICK s \in Seq(ResultType) : s = work.results BY DEF RunInv, WorkInv
<1>12. /\ Append(s, r) \in Seq(ResultType) /\ Len(Append(s, r)) = Len(s) + 1
       /\ Append(s, r)[Len(s) + 1] = r /\ \A i \in 1 .. Len(s) : Append(s, r)[i] = s[i]
  BY <1>10, AppendProperties
<1>13. work' = [results |-> Append(s, r), cost |-> work.cost + charge, charged |-> work.charged + charge]
  BY <1>4, <1>11 DEF RunInv, WorkInv
<1>14. SumOf(Costs(Append(s, r))) = SumOf(Costs(s)) + charge
  BY <1>10, CostOfAnother
<1>15. WorkInv'
  <2>1. Len(s) \in Nat /\ Len(s) < NumCases /\ n = Len(s) + 1 /\ NumCases \in Nat
    BY <1>1, <1>4, <1>11, RunConstants DEF RunInv, WorkInv
  <2>2. \A i \in 1 .. Len(s) : Faithful(s[i], Frozen)
    BY <1>11 DEF RunInv, WorkInv
  <2>3. \A i \in 1 .. Len(s) + 1 : Faithful(Append(s, r)[i], Frozen)'
    <3> SUFFICES ASSUME NEW i \in 1 .. Len(s) + 1 PROVE Faithful(Append(s, r)[i], Frozen)
      BY <1>4, <1>7 DEF Faithful, registry
    <3>1. CASE i = Len(s) + 1 BY <1>8, <1>10, <1>12, <3>1 DEF Faithful
    <3>2. CASE i # Len(s) + 1
      <4>1. i \in 1 .. Len(s) BY <2>1, <3>2
      <4> QED BY <1>12, <2>2, <4>1
    <3> QED BY <3>1, <3>2
  <2>4. /\ work.cost \in Nat /\ work.charged \in Nat
        /\ work.cost = SumOf(Costs(s)) /\ work.charged = work.cost
    BY <1>11 DEF RunInv, WorkInv
  <2>5. Len(work'.results) = n /\ work'.results = Append(s, r) BY <1>12, <1>13, <2>1
  <2>6. /\ run'.pc \in Working
        /\ run'.pc \in {"case", "caseWait"} => n < NumCases
        /\ run'.pc \in {"judge", "judgeWait"} => n \in 1 .. NumCases
        /\ run'.pc = "persist" => n = NumCases
    BY <1>5, <1>6, <2>1 DEF Working
  <2>7. work' \in [results : Seq(ResultType), cost : Nat, charged : Nat]
    BY <1>9, <1>12, <1>13, <2>4
  <2>8. work'.cost = SumOf(Costs(work'.results)) /\ work'.charged = work'.cost
    BY <1>13, <1>14, <2>4
  <2>9. \A i \in 1 .. Len(work'.results) : Faithful(work.results[i], Frozen)'
    BY <2>1, <2>3, <2>5
  <2> QED BY <2>5, <2>6, <2>7, <2>8, <2>9 DEF WorkInv
<1> QED BY <1>4, <1>5, <1>15, WorkStep DEF Working

(* An answer of the judge completes the last result with the rubric it was *)
(* judged by, and adds its charge.                                         *)
LEMMA JudgementsKeep ==
  ASSUME FixturesInv, RunInv, NEW charge \in Charges, NEW verdict \in JudgeVerdicts,
         AnswerJudge(charge, verdict), open' = open
  PROVE  RunInv'
<1>1. PICK s \in Seq(ResultType) : s = work.results BY DEF RunInv, WorkInv
<1>2. PICK n \in Nat : n = Len(s) BY <1>1
<1>3. PICK old : old = s[n] OBVIOUS
<1>4. PICK r : r = WithVerdict(old, verdict, charge) OBVIOUS
<1>5. PICK to : to = AfterCase(n) OBVIOUS
<1>6. /\ run.pc = "judgeWait" /\ run' = [run EXCEPT !.pc = to]
      /\ work' = [work EXCEPT !.results = [s EXCEPT ![n] = r], !.cost = @ + charge,
                              !.charged = @ + charge]
      /\ UNCHANGED <<metrics, store, registry, open, runsMade>>
  <2>1. /\ run.pc = "judgeWait" /\ run' = [run EXCEPT !.pc = to]
        /\ UNCHANGED <<metrics, store, registry, open, runsMade>>
    BY <1>1, <1>2, <1>5 DEF AnswerJudge, CallBegins
  <2>2. work' = [work EXCEPT !.results[n] = WithVerdict(@, verdict, charge),
                             !.cost = @ + charge, !.charged = @ + charge]
    BY <1>1, <1>2 DEF AnswerJudge
  <2>3. work' = [work EXCEPT !.results = [s EXCEPT ![n] = WithVerdict(s[n], verdict, charge)],
                             !.cost = @ + charge, !.charged = @ + charge]
    BY <1>1, <2>2 DEF RunInv, WorkInv
  <2> QED BY <1>3, <1>4, <2>1, <2>3
<1>7. n \in 1 .. NumCases /\ n \in 1 .. Len(s) /\ s # <<>>
  BY <1>1, <1>2, <1>6, RunConstants DEF RunInv, WorkInv
<1>8. old \in ResultType BY <1>3, <1>7, ElementOfSeq
<1>9. to \in {"persist", "case"} /\ (to = "persist" => n = NumCases) /\ (to = "case" => n # NumCases)
  BY <1>5 DEF AfterCase
<1>10. run'.pc = to /\ run'.side = run.side /\ run'.candidate = run.candidate /\ run'.baseline = run.baseline
  BY <1>6 DEF RunInv, RunTyped
<1>11. Frozen' = Frozen BY <1>10 DEF Frozen
<1>12. Rendered(Rubric, ByVersion(1)) = JudgeVersions[1] /\ JudgeVersions[1] \in Contents
  <2>1. open /\ Rubric = Judge BY <1>6 DEF RunInv, RunTyped, Ended, Rubric, Judge
  <2>2. /\ PromptsTyped /\ Known(Judge) /\ LatestVersion(Judge) > 0 /\ RubricIsLocked
    BY <2>1 DEF FixturesInv, FixturesFound
  <2>3. LatestVersion(Judge) \in Nat
    BY <2>2 DEF PromptsTyped, PromptTyped, Known, LatestVersion
  <2>4. 1 \in 1 .. LatestVersion(Judge) BY <2>2, <2>3
  <2>5. prompts[Judge].versions[1] = JudgeVersions[1] BY <2>2, <2>4 DEF RubricIsLocked
  <2> QED BY <2>1, <2>2, <2>4, <2>5, RenderedByVersion
<1>13. charge \in Nat BY DEF Charges
<1>14. /\ r.by = old.by /\ r.rubric = JudgeVersions[1] /\ r.cost = old.cost + charge
       /\ r \in ResultType
  <2>1. /\ old = [by |-> old.by, pass |-> old.pass, score |-> old.score, rubric |-> old.rubric,
                  cost |-> old.cost]
        /\ old.by \in Contents /\ old.cost \in Nat
    BY <1>8 DEF ResultType
  <2>2. r = [by |-> old.by, pass |-> verdict.pass, score |-> verdict.score,
             rubric |-> JudgeVersions[1], cost |-> old.cost + charge]
    BY <1>4, <1>12, <2>1 DEF WithVerdict, CaseCost
  <2>3. verdict.pass \in BOOLEAN /\ verdict.score \in 0 .. 2 BY RunConstants
  <2>4. old.cost + charge \in Nat BY <1>13, <2>1
  <2> QED BY <1>12, <2>1, <2>2, <2>3, <2>4 DEF ResultType
<1>15. PICK t : t = [s EXCEPT ![n] = r] OBVIOUS
<1>16. /\ t \in Seq(ResultType) /\ Len(t) = n
       /\ \A i \in 1 .. n : t[i] = IF i = n THEN r ELSE s[i]
  BY <1>2, <1>7, <1>14, <1>15, ExceptSeq
<1>17. SumOf(Costs(t)) = SumOf(Costs(s)) + charge
  BY <1>2, <1>3, <1>7, <1>13, <1>14, <1>15, CostOfChanged
<1>18. work' = [results |-> t, cost |-> work.cost + charge, charged |-> work.charged + charge]
  BY <1>6, <1>15 DEF RunInv, WorkInv
<1>19. WorkInv'
  <2>1. \A i \in 1 .. n : Faithful(s[i], Frozen)
    BY <1>1, <1>2 DEF RunInv, WorkInv
  <2>2. \A i \in 1 .. n : Faithful(t[i], Frozen)'
    <3> SUFFICES ASSUME NEW i \in 1 .. n PROVE Faithful(t[i], Frozen)
      BY <1>6, <1>11 DEF Faithful, registry
    <3>1. CASE i = n
      <4>1. t[i] = r /\ Faithful(old, Frozen) BY <1>3, <1>16, <2>1, <3>1
      <4> QED BY <1>14, <4>1 DEF Faithful
    <3>2. CASE i # n BY <1>16, <2>1, <3>2
    <3> QED BY <3>1, <3>2
  <2>3. /\ work.cost \in Nat /\ work.charged \in Nat
        /\ work.cost = SumOf(Costs(s)) /\ work.charged = work.cost
    BY <1>1 DEF RunInv, WorkInv
  <2>4. Len(work'.results) = n /\ work'.results = t BY <1>16, <1>18
  <2>5. /\ run'.pc \in Working
        /\ run'.pc \in {"case", "caseWait"} => n < NumCases
        /\ run'.pc \in {"judge", "judgeWait"} => n \in 1 .. NumCases
        /\ run'.pc = "persist" => n = NumCases
    BY <1>7, <1>9, <1>10, RunConstants DEF Working
  <2>6. work' \in [results : Seq(ResultType), cost : Nat, charged : Nat]
    BY <1>13, <1>16, <1>18, <2>3
  <2>7. work'.cost = SumOf(Costs(work'.results)) /\ work'.charged = work'.cost
    BY <1>17, <1>18, <2>3
  <2>8. \A i \in 1 .. Len(work'.results) : Faithful(work.results[i], Frozen)'
    BY <2>2, <2>4
  <2> QED BY <2>4, <2>5, <2>6, <2>7, <2>8 DEF WorkInv
<1> QED BY <1>6, <1>9, <1>19, WorkStep DEF Working

(* What createRun sends is what the store accepts.                         *)
LEMMA RowIsGood ==
  ASSUME RunInv, run.pc = "persist"
  PROVE  Row \in RowType /\ OnRecord(Row) /\ Accepted(Row)
<1>1. /\ work.results \in Seq(ResultType) /\ work.cost \in Nat /\ work.charged \in Nat
      /\ work.cost = SumOf(Costs(work.results)) /\ work.charged = work.cost
      /\ Len(work.results) = NumCases
      /\ \A i \in 1 .. Len(work.results) : Faithful(work.results[i], Frozen)
  BY DEF RunInv, WorkInv
<1>2. Totals(work.results, work.cost) \in TotalsType BY <1>1, TotalsAreTyped
<1>3. Frozen \in 1 .. LatestVersion(Screen) /\ Frozen \in Nat
  BY DEF RunInv, RunTyped, Ended, Frozen
<1>4. run.options.hash \in STRING BY DEF RunInv, RunTyped, RunOption
<1>5. PICK ref \in {"prod", "candidate"} : ref = IF run.side = "baseline" THEN "prod" ELSE "candidate"
  OBVIOUS
<1>6. Row = [ref |-> ref, version |-> Frozen, hash |-> run.options.hash, results |-> work.results,
             totals |-> Totals(work.results, work.cost), charged |-> work.charged]
  BY <1>5 DEF Row
<1> HIDE DEF Row
<1>7. Row \in RowType BY <1>1, <1>2, <1>3, <1>4, <1>6 DEF RowType
<1>8. OnRecord(Row) BY <1>1, <1>3, <1>6 DEF OnRecord
<1>9. Accepted(Row) BY <1>1, <1>6 DEF Accepted, Aggregates
<1> QED BY <1>7, <1>8, <1>9

(* A row on record that is appended leaves the others on record.           *)
LEMMA OneMoreRow ==
  ASSUME StoreInv, open, UNCHANGED <<registry, open>>,
         NEW row \in RowType, OnRecord(row), store' = Append(store, row)
  PROVE  /\ StoreInv' /\ Len(store) \in Nat /\ Len(store') = Len(store) + 1
         /\ store'[Len(store) + 1] = row /\ store' # <<>>
         /\ \A k \in 1 .. Len(store) : store'[k] = store[k]
<1>1. /\ store' \in Seq(RowType) /\ Len(store') = Len(store) + 1 /\ Len(store) \in Nat
      /\ store'[Len(store) + 1] = row /\ store' # <<>>
      /\ \A k \in 1 .. Len(store) : store'[k] = store[k]
  BY AppendProperties DEF StoreInv
<1>2. \A x : OnRecord(x)' <=> OnRecord(x)
  BY DEF OnRecord, Faithful, LatestVersion, registry
<1>3. ASSUME NEW k \in 1 .. Len(store') PROVE OnRecord(store'[k])
  <2>1. CASE k = Len(store) + 1 BY <1>1, <2>1
  <2>2. CASE k # Len(store) + 1
    <3>1. k \in 1 .. Len(store) BY <1>1, <2>2
    <3> QED BY <1>1, <3>1 DEF StoreInv
  <2> QED BY <2>1, <2>2
<1>4. \A k \in 1 .. Len(store') : OnRecord(store[k])'
  BY <1>2, <1>3
<1> QED BY <1>1, <1>4 DEF StoreInv

(* A row that is written is the newest, and its totals are the metrics     *)
(* compared.                                                               *)
LEMMA PersistKeeps ==
  ASSUME RunInv, NEW lost \in BOOLEAN, Persist(lost), open' = open
  PROVE  RunInv'
<1>1. PICK row : row = Row OBVIOUS
<1>2. run.pc = "persist" BY DEF Persist
<1>3. row \in RowType /\ OnRecord(row) /\ Accepted(Row) BY <1>1, <1>2, RowIsGood
<1>4. /\ store' = Append(store, row) /\ UNCHANGED <<runsMade, registry>> /\ open
  BY <1>1, <1>2, <1>3 DEF Persist, CreateEvalRun, RunInv, RunTyped
<1>5. /\ StoreInv' /\ Len(store) \in Nat /\ Len(store') = Len(store) + 1
      /\ store'[Len(store) + 1] = row /\ store' # <<>>
      /\ \A k \in 1 .. Len(store) : store'[k] = store[k]
  BY <1>3, <1>4, OneMoreRow DEF RunInv
<1>6. CASE Exit("2") BY <1>2, <1>4, <1>5, <1>6, GivingUpKeeps
<1>7. CASE ~Exit("2")
  <2>1. PICK to : to = IF run.side = "baseline" THEN "case" ELSE "verdict" OBVIOUS
  <2>2. /\ metrics' = Upserted(metrics, run.side, row.totals) /\ work' = NoWork
        /\ run' = [run EXCEPT !.side = "candidate", !.pc = to]
    BY <1>1, <1>3, <1>7, <2>1 DEF Persist
  <2>3. run' = [pc |-> to, options |-> run.options, side |-> "candidate",
                candidate |-> run.candidate, baseline |-> run.baseline]
    BY <2>2 DEF RunInv, RunTyped
  <2>4. to \in {"case", "verdict"} BY <2>1
  <2>5. RunTyped'
    <3>1. LatestVersion(Screen)' = LatestVersion(Screen) BY <1>4 DEF LatestVersion, registry
    <3> QED BY <1>2, <1>4, <2>3, <2>4, <3>1 DEF RunInv, RunTyped, Ended, Working
  <2>6. WorkInv' BY <2>2, <2>3, <2>4, NothingAtWork
  <2>7. /\ row.version = Frozen /\ row.hash = run.options.hash
        /\ row.ref = IF run.side = "baseline" THEN "prod" ELSE "candidate"
    BY <1>1 DEF Row
  <2>8. /\ run.side = "baseline" => run.options.mode = "paired" /\ run.candidate # run.baseline
        /\ "baseline" \in DOMAIN metrics <=> HasBaseline
        /\ HasBaseline => \E b \in Before : IsBaseline(b)
    BY <1>2 DEF RunInv, Compared, Ended
  <2>9. run.side \in {"baseline", "candidate"} /\ run.options.mode \in {"single", "paired", "history"}
    BY <1>2 DEF RunInv, RunTyped, RunOption
  <2>10. /\ DOMAIN metrics' = DOMAIN metrics \cup {run.side} /\ metrics'[run.side] = row.totals
         /\ \A k \in DOMAIN metrics : k # run.side => metrics'[k] = metrics[k]
    BY <2>2 DEF Upserted
  <2>11. CASE run.side = "baseline"
    <3>1. to = "case" BY <2>1, <2>11
    <3>2. PICK n \in Nat : n = Len(store) + 1 BY <1>5
    <3>3. Comparable(store[n])'
      BY <1>5, <2>3, <2>7, <2>11, <3>2 DEF Comparable, Frozen
    <3>4. Before' = 1 .. n BY <1>5, <2>3, <3>1, <3>2 DEF Before
    <3>5. IsBaseline(n)' /\ n \in Before'
      <4>1. n \in Before' /\ \A j \in Before' : j <= n BY <1>5, <3>2, <3>4
      <4>2. metrics'["baseline"] = store'[n].totals BY <1>5, <2>10, <2>11, <3>2
      <4> QED BY <3>3, <4>1, <4>2 DEF IsBaseline
    <3>6. Compared' BY <2>3, <2>8, <2>10, <2>11, <3>1, <3>5 DEF Compared, HasBaseline
    <3> QED
      BY <1>5, <2>3, <2>5, <2>6, <3>1, <3>6 DEF RunInv, CandidateIsLast, VerdictIsOnRecord
  <2>12. CASE run.side = "candidate"
    <3>1. to = "verdict" BY <2>1, <2>12
    <3>2. Before' = 1 .. Len(store) /\ Before = 1 .. Len(store)
      BY <1>2, <1>5, <2>3, <3>1 DEF Before
    <3>3. HasBaseline' <=> HasBaseline BY <1>2, <2>3, <2>12, <3>1 DEF HasBaseline
    <3>4. ASSUME HasBaseline, NEW b \in Before, IsBaseline(b) PROVE IsBaseline(b)'
      <4>1. \A j \in Before : Comparable(store[j])' <=> Comparable(store[j])
        BY <1>5, <2>3, <3>2 DEF Comparable
      <4>2. metrics'["baseline"] = metrics["baseline"] BY <2>8, <2>10, <2>12, <3>4
      <4> QED BY <1>5, <3>2, <3>4, <4>1, <4>2 DEF IsBaseline
    <3>5. Compared'
      <4>1. "baseline" \in DOMAIN metrics' <=> HasBaseline' BY <2>8, <2>10, <2>12, <3>3
      <4>2. HasBaseline' => \E b \in Before' : IsBaseline(b)' BY <2>8, <3>2, <3>3, <3>4
      <4> QED BY <2>3, <4>1, <4>2 DEF Compared
    <3>6. CandidateIsLast'
      <4>1. row.version = run.candidate BY <2>7, <2>12 DEF Frozen
      <4> QED BY <1>5, <2>3, <2>7, <2>10, <2>12, <4>1 DEF CandidateIsLast
    <3> QED BY <1>5, <2>3, <2>5, <2>6, <3>1, <3>5, <3>6 DEF RunInv, VerdictIsOnRecord
  <2> QED BY <2>9, <2>11, <2>12
<1> QED BY <1>6, <1>7

(* regressed, over products of whole numbers, is what the rows say.        *)
LEMMA DropIsWorse ==
  ASSUME NEW bn \in Nat, NEW bs \in Nat, NEW cn \in Nat, NEW cs \in Nat, NEW d \in Nat
  PROVE  bs * cn - cs * bn > d * bn * cn <=> bs * cn > (cs + d * cn) * bn
<1>1. (cs + d * cn) * bn = cs * bn + (d * cn) * bn OBVIOUS
<1>2. (d * cn) * bn = d * bn * cn OBVIOUS
<1>3. bs * cn \in Nat /\ cs * bn \in Nat /\ d * bn * cn \in Nat OBVIOUS
<1> QED BY <1>1, <1>2, <1>3

(* regressed on the totals of two rows is Worse on their results.          *)
LEMMA RegressedIsWorse ==
  ASSUME NEW b \in Seq(ResultType), NEW c \in Seq(ResultType), NEW x \in Nat, NEW y \in Nat
  PROVE  Regressed(Totals(b, x), Totals(c, y)) <=> Worse(b, c)
<1> DEFINE bt == Totals(b, x)
           ct == Totals(c, y)
<1>1. /\ bt \in TotalsType /\ ct \in TotalsType BY TotalsAreTyped
<1>2. /\ bt.passed = Cardinality(Passed(b)) /\ ct.passed = Cardinality(Passed(c))
      /\ bt.scored = Mean(b).scored /\ bt.scores = Mean(b).sum
      /\ ct.scored = Mean(c).scored /\ ct.scores = Mean(c).sum
  BY DEF Totals, Mean
<1> HIDE DEF bt, ct
<1>3. /\ bt.passed \in Nat /\ bt.scored \in Nat /\ bt.scores \in Nat
      /\ ct.passed \in Nat /\ ct.scored \in Nat /\ ct.scores \in Nat
  BY <1>1 DEF TotalsType
<1>4. MaxPassDrop \in Nat /\ MaxScoreDrop \in Nat BY RunConstants
<1>5. bt.passed - ct.passed > MaxPassDrop <=>
        Cardinality(Passed(b)) > Cardinality(Passed(c)) + MaxPassDrop
  BY <1>2, <1>3, <1>4
<1>6. ScoreDropped(bt, ct) <=>
        Mean(b).sum * Mean(c).scored > (Mean(c).sum + MaxScoreDrop * Mean(c).scored) * Mean(b).scored
  BY <1>2, <1>3, <1>4, DropIsWorse DEF ScoreDropped
<1>7. \/ bt.scored > 0 /\ ct.scored = 0
      \/ bt.scored > 0 /\ ct.scored > 0 /\ ScoreDropped(bt, ct)
      <=> bt.scored > 0 /\ (ct.scored > 0 => ScoreDropped(bt, ct))
  BY <1>3
<1>8. Regressed(bt, ct) <=> \/ bt.passed - ct.passed > MaxPassDrop
                            \/ bt.scored > 0 /\ (ct.scored > 0 => ScoreDropped(bt, ct))
  BY <1>7 DEF Regressed
<1>9. Worse(b, c) <=>
        \/ Cardinality(Passed(b)) > Cardinality(Passed(c)) + MaxPassDrop
        \/ Mean(b).scored > 0
           /\ (Mean(c).scored > 0 =>
                 Mean(b).sum * Mean(c).scored
                   > (Mean(c).sum + MaxScoreDrop * Mean(c).scored) * Mean(b).scored)
  BY DEF Worse
<1> QED BY <1>2, <1>5, <1>6, <1>8, <1>9 DEF bt, ct

(* The quality gate on the metrics is the one on the rows on record.       *)
LEMMA VerdictFollows ==
  ASSUME RunInv, run.pc = "verdict"
  PROVE  /\ run.options.mode = "history" => BaselinesOnRecord # {}
         /\ QualityFails(metrics["candidate"]) <=>
              \/ Cardinality(Passed(store[Len(store)].results)) < PassesNeeded
              \/ \E i \in BaselinesOnRecord : Worse(store[i].results, store[Len(store)].results)
<1>1. Len(store) \in Nat /\ Len(store) >= 1
  <2>1. store \in Seq(RowType) /\ store # <<>> BY DEF RunInv, StoreInv, CandidateIsLast
  <2>2. Len(store) \in Nat \ {0} BY <2>1, EmptySeq
  <2> QED BY <2>2
<1>2. PICK n \in Nat : n = Len(store) BY <1>1
<1>3. PICK c : c = store[n] OBVIOUS
<1>4. \A k \in 1 .. n : store[k] \in RowType /\ OnRecord(store[k])
  BY <1>2, ElementOfSeq DEF RunInv, StoreInv
<1>5. \A k \in 1 .. n : /\ store[k].results \in Seq(ResultType) /\ store[k].charged \in Nat
                        /\ store[k].totals = Totals(store[k].results, store[k].charged)
  BY <1>4 DEF RowType, OnRecord
<1>6. /\ c.results \in Seq(ResultType) /\ c.charged \in Nat /\ c.totals = Totals(c.results, c.charged)
      /\ metrics["candidate"] = c.totals
  BY <1>1, <1>2, <1>3, <1>5 DEF RunInv, CandidateIsLast
<1>7. c.totals.passed = Cardinality(Passed(c.results)) BY <1>6 DEF Totals
<1>8. Before = 1 .. n - 1 BY <1>2 DEF Before
<1> DEFINE E == {i \in 1 .. n - 1 : /\ store[i].hash = run.options.hash /\ store[i].ref = "prod"
                                    /\ store[i].version = run.baseline}
<1>9. BaselinesOnRecord =
        CASE run.options.mode = "single" -> {}
          [] run.options.mode = "paired" /\ run.baseline = run.candidate -> {}
          [] OTHER -> {i \in E : \A j \in E : j <= i}
  BY <1>2 DEF BaselinesOnRecord
<1>10. /\ "baseline" \in DOMAIN metrics <=> HasBaseline
       /\ HasBaseline => \E b \in Before : IsBaseline(b)
  BY DEF RunInv, Compared, Ended
<1>11. run.options.mode \in {"single", "paired", "history"} /\ run.side = "candidate"
  BY DEF RunInv, RunTyped, RunOption
<1>12. CASE HasBaseline
  <2>1. PICK b \in Before : IsBaseline(b) BY <1>10, <1>12
  <2>2. b \in E /\ \A j \in E : j <= b
    BY <1>8, <2>1 DEF IsBaseline, Comparable
  <2>3. \A j \in E : j \in Nat /\ b \in Nat BY <1>2, <1>8
  <2>4. {i \in E : \A j \in E : j <= i} = {b}
    <3> HIDE DEF E
    <3>1. ASSUME NEW i \in E, \A j \in E : j <= i PROVE i = b
      <4>1. i <= b /\ b <= i /\ i \in Nat /\ b \in Nat BY <2>2, <2>3, <3>1
      <4> QED BY <4>1
    <3> QED BY <2>2, <3>1
  <2>5. BaselinesOnRecord = {b}
    <3>1. run.options.mode # "single" /\ ~(run.options.mode = "paired" /\ run.baseline = run.candidate)
      BY <1>12 DEF HasBaseline
    <3> HIDE DEF E
    <3> QED BY <1>9, <2>4, <3>1
  <2>6. /\ store[b].results \in Seq(ResultType) /\ store[b].charged \in Nat
        /\ metrics["baseline"] = Totals(store[b].results, store[b].charged)
    BY <1>2, <1>5, <1>8, <2>1 DEF IsBaseline
  <2>7. Regressed(metrics["baseline"], metrics["candidate"]) <=> Worse(store[b].results, c.results)
    BY <1>6, <2>6, RegressedIsWorse
  <2>8. QualityFails(metrics["candidate"]) <=>
          Cardinality(Passed(c.results)) < PassesNeeded \/ Worse(store[b].results, c.results)
    BY <1>6, <1>7, <1>10, <1>12, <2>7 DEF QualityFails
  <2> HIDE DEF E
  <2> QED BY <1>2, <1>3, <2>5, <2>8
<1>13. CASE ~HasBaseline
  <2>1. run.options.mode = "single" \/ (run.options.mode = "paired" /\ run.baseline = run.candidate)
    BY <1>11, <1>13 DEF HasBaseline
  <2> HIDE DEF E
  <2>2. BaselinesOnRecord = {} BY <1>9, <2>1
  <2>3. QualityFails(metrics["candidate"]) <=> Cardinality(Passed(c.results)) < PassesNeeded
    BY <1>6, <1>7, <1>10, <1>13 DEF QualityFails
  <2> QED BY <1>2, <1>3, <2>1, <2>2, <2>3
<1> QED BY <1>12, <1>13

(* The exit code is what the rows on record say.                           *)
LEMMA VerdictKeeps ==
  ASSUME RunInv, Verdict, open' = open
  PROVE  RunInv'
<1>1. PICK code \in {"0", "1"} : code = IF QualityFails(metrics["candidate"]) THEN "1" ELSE "0"
  OBVIOUS
<1>2. /\ run.pc = "verdict" /\ run' = [run EXCEPT !.pc = code] /\ work' = NoWork
      /\ UNCHANGED <<metrics, store, runsMade, registry>> /\ open
  BY <1>1 DEF Verdict, Exit, RunInv, RunTyped, Ended
<1>3. run' = [pc |-> code, options |-> run.options, side |-> run.side,
              candidate |-> run.candidate, baseline |-> run.baseline]
  BY <1>2 DEF RunInv, RunTyped
<1>4. RunTyped' BY <1>2, <1>3 DEF RunInv, RunTyped, Ended
<1>5. WorkInv' BY <1>2, <1>3, NothingAtWork
<1>6. StoreInv' BY <1>2, SameRows DEF RunInv
<1>7. VerdictIsOnRecord'
  <2>1. BaselinesOnRecord' = BaselinesOnRecord BY <1>2, <1>3 DEF BaselinesOnRecord
  <2>2. /\ run.options.mode = "history" => BaselinesOnRecord # {}
        /\ QualityFails(metrics["candidate"]) <=>
             \/ Cardinality(Passed(store[Len(store)].results)) < PassesNeeded
             \/ \E i \in BaselinesOnRecord : Worse(store[i].results, store[Len(store)].results)
    BY <1>2, VerdictFollows
  <2>3. code = "1" <=> QualityFails(metrics["candidate"]) BY <1>1
  <2>4. /\ store[Len(store)].ref = "candidate" /\ store[Len(store)].version = run.candidate
        /\ store[Len(store)].hash = run.options.hash
    BY <1>2 DEF RunInv, CandidateIsLast
  <2> QED BY <1>2, <1>3, <2>1, <2>2, <2>3, <2>4 DEF VerdictIsOnRecord
<1> QED BY <1>3, <1>4, <1>5, <1>6, <1>7 DEF RunInv, Compared, CandidateIsLast, Ended

(* Every step of a run keeps the invariant of the runs.                    *)
LEMMA RunStepKeeps ==
  ASSUME FixturesInv, RunInv, RunStep, open' = open
  PROVE  RunInv'
<1>1. ASSUME NEW lost \in BOOLEAN, Persist(lost) PROVE RunInv' BY <1>1, PersistKeeps
<1>2. ASSUME RunFails PROVE RunInv'
  <2>1. /\ Exit("2") /\ UNCHANGED <<store, runsMade, registry>> /\ open /\ run.pc # "idle"
    BY <1>2 DEF RunFails, RunInv, RunTyped
  <2>2. StoreInv' BY <2>1, SameRows DEF RunInv
  <2> QED BY <2>1, <2>2, GivingUpKeeps
<1>3. ASSUME NEW charge \in Charges, NEW passes \in BOOLEAN, AnswerCase(charge, passes)
      PROVE  RunInv'
  BY <1>3, AnswersKeep
<1>4. ASSUME NEW charge \in Charges, NEW verdict \in JudgeVerdicts, AnswerJudge(charge, verdict)
      PROVE  RunInv'
  BY <1>4, JudgementsKeep
<1> QED
  BY <1>1, <1>2, <1>3, <1>4, FreezeKeeps, HistoryKeeps, QuietStepsKeep, VerdictKeeps DEF RunStep

(* And so does every step of the gate.                                     *)
LEMMA RunInductive ==
  FixturesInv /\ RunInv /\ [GateNext]_gateVars => RunInv'
<1> SUFFICES ASSUME FixturesInv, RunInv, [GateNext]_gateVars PROVE RunInv'
  OBVIOUS
<1>1. Grows BY FixturesInductive
<1>2. CASE Evaluating
  <2>1. open /\ open' = open BY <1>2 DEF Evaluating
  <2>2. CASE runsMade < Len(RunOptions) /\ \E o \in RunOptions[runsMade + 1] : BeginRun(o)
    <3>1. RunOptions \in Seq(SUBSET RunOption) /\ runsMade \in Nat
      BY RunConstants DEF RunInv, RunTyped
    <3>2. runsMade + 1 \in 1 .. Len(RunOptions) BY <2>2, <3>1
    <3>3. RunOptions[runsMade + 1] \subseteq RunOption BY <3>1, <3>2, ElementOfSeq
    <3> QED BY <2>1, <2>2, <3>3, BeginKeeps
  <2>3. CASE RunStep BY <2>1, <2>3, RunStepKeeps
  <2> QED BY <1>2, <2>2, <2>3 DEF Evaluating
<1>3. CASE UNCHANGED runState /\ (open => open') BY <1>1, <1>3, RunStands
<1> QED BY <1>2, <1>3 DEF GateNext, Seeding, OpenGate, AdminWrites, gateVars

LEMMA RunInitially == GateInit => RunInv
<1> SUFFICES ASSUME GateInit PROVE RunInv
  OBVIOUS
<1>1. /\ run = NotRunning /\ work = NoWork /\ metrics = <<>> /\ store = <<>> /\ runsMade = 0 /\ open = FALSE
  BY DEF GateInit, RunInit
<1>2. run = [pc |-> "idle", options |-> Options("single", FALSE, "h", FALSE), side |-> "candidate",
             candidate |-> 0, baseline |-> 0]
  BY <1>1 DEF NotRunning, NoVersion
<1>3. RunTyped
  <2>1. run.options = NotRunning.options BY <1>1
  <2> QED BY <1>1, <1>2, <2>1 DEF RunTyped, Ended
<1>4. WorkInv BY <1>1, <1>2, NoWorkIs DEF WorkInv
<1>5. StoreInv BY <1>1, EmptySeq DEF StoreInv
<1> QED
  BY <1>2, <1>3, <1>4, <1>5 DEF RunInv, Compared, CandidateIsLast, VerdictIsOnRecord, Ended

(* What the theorems below rest on.                                        *)
LEMMA RunAlways == GateSpec => [](FixturesInv /\ RunInv)
BY FixturesInitially, RunInitially, FixturesInductive, RunInductive, PTL DEF GateSpec

(* In every row on record, however the registry grew while the run went    *)
(* on, each case was answered by the version the row names, and judged, if *)
(* it was, by the seeded rubric: resolveOnce froze them.                   *)
THEOREM RunsAreOfOneVersion == GateSpec => []RunIsOfOneVersion
<1>1. RunInv => RunIsOfOneVersion
  <2> SUFFICES ASSUME RunInv, NEW i \in DOMAIN store, NEW r \in Range(store[i].results)
               PROVE  /\ r.by = prompts[Screen].versions[store[i].version]
                      /\ r.score # NoScore => r.rubric = JudgeVersions[1]
    BY DEF RunIsOfOneVersion
  <2>1. i \in 1 .. Len(store) /\ store[i] \in RowType /\ OnRecord(store[i])
    BY ElementOfSeq DEF RunInv, StoreInv
  <2>2. store[i].results \in Seq(ResultType) BY <2>1 DEF RowType
  <2>3. PICK k \in 1 .. Len(store[i].results) : r = store[i].results[k] BY <2>2 DEF Range
  <2>4. Faithful(r, store[i].version) BY <2>1, <2>3 DEF OnRecord
  <2> QED BY <2>4 DEF Faithful
<1> QED BY <1>1, RunAlways, PTL

(* What the providers charged in a run is what the results of its row add  *)
(* up to and what the row totals say, and a row about to be written is     *)
(* accepted by the store.                                                  *)
THEOREM ChargesAddUp == GateSpec => []RunsAddUp
<1>1. RunInv => RunsAddUp
  <2>1. ASSUME RunInv, NEW i \in DOMAIN store
        PROVE  /\ store[i].charged = SumOf(Costs(store[i].results))
               /\ store[i].totals = Totals(store[i].results, store[i].charged)
    BY <2>1 DEF RunInv, StoreInv, OnRecord
  <2>2. ASSUME RunInv, run.pc = "persist" PROVE Accepted(Row) BY <2>2, RowIsGood
  <2> QED BY <2>1, <2>2 DEF RunsAddUp
<1> QED BY <1>1, RunAlways, PTL

(* The exit code of an evaluation that ended with a verdict follows from   *)
(* the rows on record: the candidate's, and the baseline it was compared   *)
(* with.                                                                   *)
THEOREM VerdictsAreOnRecord == GateSpec => []VerdictIsOnRecord
BY RunAlways, PTL DEF RunInv

-----------------------------------------------------------------------------
(* The locked fixtures.  While seeds do not overlap, one of them acts and  *)
(* what it found stays so: the versions are a prefix of the fixture, and   *)
(* after a success there is nothing left to add.                           *)

Acts(s) == seedPc[s] \notin Over

(* Each prompt has the first of its locked versions, and no other.         *)
InOrder ==
  /\ Known(Safety) =>
       prompts[Safety].versions \in {<<>>, <<SafetyVersions[1]>>, <<SafetyVersions[1], SafetyVersions[2]>>}
  /\ Known(Judge) => prompts[Judge].versions \in {<<>>, <<JudgeVersions[1]>>}

(* The labels that may be left for a seed to set, in order.                *)
LabelLists == {<<>>, <<"prod">>, <<"candidate">>, <<"prod", "candidate">>}

(* What the seeds want of the labels.                                      *)
LabelsOnOne == \A l \in {"prod", "candidate"} : Labelled(Safety, l) = 1

(* The steps of a seed that follow the safety prompt's versions.           *)
Filled == {"putLabel", "postJudge", "listJudge", "addJudge", "postDataset"}

(* What the seed that acts may rely on at its next request.                *)
ReliesOnSafety(s) ==
  /\ seedPc[s] = "addV1" => Known(Safety) /\ prompts[Safety].versions = <<>>
  /\ seedPc[s] = "addV2" => Known(Safety) /\ prompts[Safety].versions = <<SafetyVersions[1]>>
  /\ seedPc[s] \in Filled =>
       Known(Safety) /\ prompts[Safety].versions = <<SafetyVersions[1], SafetyVersions[2]>>

(* Each label is on version 1 or still on the seed's list.                 *)
ReliesOnLabels(s) ==
  /\ seedPc[s] = "putLabel" =>
       /\ unset[s] # <<>>
       /\ \A l \in {"prod", "candidate"} :
            Labelled(Safety, l) = 1 \/ \E i \in 1 .. Len(unset[s]) : unset[s][i] = l
  /\ seedPc[s] \in Filled \ {"putLabel"} => LabelsOnOne

(* And of the judge's prompt.                                              *)
ReliesOnJudge(s) ==
  /\ seedPc[s] = "addJudge" => Known(Judge) /\ prompts[Judge].versions = <<>>
  /\ seedPc[s] = "postDataset" => Known(Judge) /\ prompts[Judge].versions = <<JudgeVersions[1]>>

(* SeedCertifies of prompts that are there.                                *)
Locked == Known(Safety) /\ Known(Judge) /\ FixturesAreLocked

(* Of seeds that never overlapped: at most one acts, and it may rely on    *)
(* what it found; once one has succeeded, no later one undoes that.        *)
SequentialInv ==
  /\ \A s, t \in Seeds : Acts(s) /\ Acts(t) => s = t
  /\ InOrder
  /\ \A s \in Seeds : ReliesOnSafety(s) /\ ReliesOnLabels(s) /\ ReliesOnJudge(s)
  /\ SeedSucceeded => Locked

(* Once the gate is open only the admin writes.                            *)
CertInv ==
  /\ adminWrites \in Nat
  /\ ~open => adminWrites = 0
  /\ ~open /\ ~overlapped => SequentialInv /\ unset \in [Seeds -> LabelLists]
  /\ SeedCertifies

(* One seed acts, and the others cannot.                                   *)
LEMMA SequentialStep ==
  ASSUME SequentialInv, NEW s \in Seeds, \A t \in Seeds \ {s} : ~Acts(t), seedPc[s] # "done",
         seedPc \in [Seeds -> Steps], NEW to \in Steps, seedPc' = [seedPc EXCEPT ![s] = to],
         InOrder', Locked => Locked', to = "done" => Locked',
         ReliesOnSafety(s)', ReliesOnLabels(s)', ReliesOnJudge(s)'
  PROVE  SequentialInv'
<1>1. \A t \in Seeds : seedPc'[t] = IF t = s THEN to ELSE seedPc[t] OBVIOUS
<1>2. \A t \in Seeds : t # s => ~Acts(t)' BY <1>1 DEF Acts
<1>3. \A t \in Seeds : t # s => ReliesOnSafety(t)' /\ ReliesOnLabels(t)' /\ ReliesOnJudge(t)'
  BY <1>2 DEF Acts, Over, ReliesOnSafety, ReliesOnLabels, ReliesOnJudge, Filled
<1>4. SeedSucceeded' => Locked' BY <1>1 DEF SequentialInv, SeedSucceeded
<1> QED BY <1>2, <1>3, <1>4 DEF SequentialInv

(* A step that leaves the registry as it was, to a step that relies on     *)
(* nothing more.                                                           *)
LEMMA SequentialGoesOn ==
  ASSUME SequentialInv, NEW s \in Seeds, \A t \in Seeds \ {s} : ~Acts(t), seedPc[s] # "done",
         seedPc \in [Seeds -> Steps], NEW to \in Steps, seedPc' = [seedPc EXCEPT ![s] = to],
         UNCHANGED <<registry, datasetRow, unset>>,
         \/ to = seedPc[s]
         \/ to \notin Filled \cup {"addV1", "addV2", "done"}
  PROVE  SequentialInv'
<1>1. seedPc'[s] = to OBVIOUS
<1>2. InOrder' BY DEF SequentialInv, InOrder, registry, Known
<1>3. Locked => Locked'
  BY DEF Locked, FixturesAreLocked, registry, Known, Labelled
<1>4. ReliesOnSafety(s)' /\ ReliesOnLabels(s)' /\ ReliesOnJudge(s)'
  BY <1>1 DEF SequentialInv, ReliesOnSafety, ReliesOnLabels, ReliesOnJudge, Filled, LabelsOnOne,
    registry, Known, Labelled
<1>5. to # "done" OBVIOUS
<1> QED BY <1>2, <1>3, <1>4, <1>5, SequentialStep

(* What the requests write to the registry, of fixtures in their order.    *)
LEMMA SameInOrder ==
  ASSUME UNCHANGED registry
  PROVE  /\ InOrder => InOrder'
         /\ Locked /\ datasetRow' \in {datasetRow, TRUE} => Locked'
         /\ LabelsOnOne => LabelsOnOne'
BY DEF InOrder, Locked, FixturesAreLocked, LabelsOnOne, registry, Known, Labelled

(* A created prompt has none of its versions.                              *)
LEMMA CreatedInOrder ==
  ASSUME PromptsTyped, InOrder, NEW slug \in {Safety, Judge}, CreatePrompt(slug, "marker")
  PROVE  /\ InOrder' /\ Known(slug)' /\ prompts'[slug].versions = <<>> /\ ~Locked
         /\ \A k : k # slug => Known(k)' = Known(k) /\ (Known(k) => prompts'[k] = prompts[k])
<1>1. /\ ~Known(slug) /\ Known(slug)' /\ prompts'[slug].versions = <<>>
      /\ \A k \in DOMAIN prompts' : k # slug => k \in DOMAIN prompts /\ prompts'[k] = prompts[k]
      /\ DOMAIN prompts' = DOMAIN prompts \cup {slug}
  BY CreateGrows DEF CreatePrompt, Upserted
<1>2. \A k : k # slug => Known(k)' = Known(k) /\ (Known(k) => prompts'[k] = prompts[k])
  BY <1>1 DEF Known
<1>3. InOrder' BY <1>1, <1>2 DEF InOrder, Safety, Judge
<1> QED BY <1>1, <1>2, <1>3 DEF Locked

(* An added version changes no other prompt, and no label.                 *)
LEMMA AddedInOrder ==
  ASSUME PromptsTyped, NEW slug \in {Safety, Judge}, NEW content \in Contents, AddVersion(slug, content)
  PROVE  /\ Known(slug) /\ Known(slug)' /\ prompts'[slug].versions = Append(prompts[slug].versions, content)
         /\ \A k : k # slug => Known(k)' = Known(k) /\ (Known(k) => prompts'[k] = prompts[k])
         /\ \A l : Labelled(slug, l)' = Labelled(slug, l)
BY AddGrows DEF Known, Labelled

(* The two numbers and lists that tell how far a prompt is.                *)
LEMMA ListedVersions ==
  /\ Len(<<>>) = 0 /\ Len(<<SafetyVersions[1]>>) = 1 /\ Len(<<JudgeVersions[1]>>) = 1
  /\ Len(<<SafetyVersions[1], SafetyVersions[2]>>) = 2
  /\ Append(<<>>, SafetyVersions[1]) = <<SafetyVersions[1]>>
  /\ Append(<<>>, JudgeVersions[1]) = <<JudgeVersions[1]>>
  /\ Append(<<SafetyVersions[1]>>, SafetyVersions[2]) = <<SafetyVersions[1], SafetyVersions[2]>>
  /\ SafetyVersions = <<SafetyVersions[1], SafetyVersions[2]>> /\ JudgeVersions = <<JudgeVersions[1]>>
<1>1. \A a : Len(<<a>>) = 1 /\ Append(<<>>, a) = <<a>> OBVIOUS
<1>2. ASSUME NEW a, NEW b PROVE Len(<<a, b>>) = 2 /\ Append(<<a>>, b) = <<a, b>>
  <2>1. <<a>> \in Seq({a, b}) /\ <<a, b>> \in Seq({a, b}) /\ Len(<<a, b>>) = 2 /\ Len(<<a>>) = 1 OBVIOUS
  <2>2. PICK s \in Seq({a, b}) : s = Append(<<a>>, b) BY <2>1, AppendProperties
  <2>3. Len(s) = 2 /\ s[1] = a /\ s[2] = b BY <2>1, <2>2, AppendProperties
  <2>4. \A i \in 1 .. 2 : s[i] = <<a, b>>[i] BY <2>3
  <2> QED BY <2>1, <2>2, <2>3, <2>4, SeqEqual
<1>3. Len(<<>>) = 0 OBVIOUS
<1>4. SafetyVersions = <<SafetyVersions[1], SafetyVersions[2]>> BY DEF SafetyVersions
<1>5. JudgeVersions = <<JudgeVersions[1]>> BY DEF JudgeVersions
<1> QED BY <1>1, <1>2, <1>3, <1>4, <1>5

(* How many versions are listed tells which.                               *)
LEMMA SafetyListed ==
  ASSUME InOrder, Known(Safety)
  PROVE  /\ LatestVersion(Safety) = 0 => prompts[Safety].versions = <<>>
         /\ LatestVersion(Safety) = 1 => prompts[Safety].versions = <<SafetyVersions[1]>>
         /\ LatestVersion(Safety) = 2 => prompts[Safety].versions = <<SafetyVersions[1], SafetyVersions[2]>>
         /\ LatestVersion(Safety) \in 0 .. 2
BY ListedVersions DEF InOrder, LatestVersion

(* The same for the rubric.                                                *)
LEMMA JudgeListed ==
  ASSUME InOrder, Known(Judge)
  PROVE  /\ LatestVersion(Judge) = 0 => prompts[Judge].versions = <<>>
         /\ LatestVersion(Judge) # 0 => prompts[Judge].versions = <<JudgeVersions[1]>>
BY ListedVersions DEF InOrder, LatestVersion

(* The labels that a list of them leaves out are on version 1.             *)
Listed(labels, list) ==
  \A l \in {"prod", "candidate"} :
    (l \in DOMAIN labels /\ labels[l] = 1) \/ \E i \in 1 .. Len(list) : list[i] = l

(* The loop over the labels leaves out only those that need nothing.       *)
LEMMA UnsetAreListed ==
  ASSUME NEW labels
  PROVE  Unset(labels) \in LabelLists /\ Listed(labels, Unset(labels))
<1>1. FixtureLabels[1] = "prod" /\ FixtureLabels[2] = "candidate" BY DEF FixtureLabels
<1> DEFINE prod == "prod" \in DOMAIN labels /\ labels["prod"] = 1
           candidate == "candidate" \in DOMAIN labels /\ labels["candidate"] = 1
<1>2. Unset(labels) = IF prod THEN IF candidate THEN <<>> ELSE <<"candidate">>
                      ELSE IF candidate THEN <<"prod">> ELSE <<"prod", "candidate">>
  <2>1. \A a : <<>> \o <<a>> = <<a>> /\ <<a>> \o <<>> = <<a>> OBVIOUS
  <2>2. <<>> \o <<>> = <<>> OBVIOUS
  <2>3. ASSUME NEW a, NEW b PROVE <<a>> \o <<b>> = <<a, b>>
    <3>1. <<a>> \in Seq({a, b}) /\ <<b>> \in Seq({a, b}) /\ <<a, b>> \in Seq({a, b})
          /\ Len(<<a>>) = 1 /\ Len(<<b>>) = 1 /\ Len(<<a, b>>) = 2
      OBVIOUS
    <3>2. PICK s \in Seq({a, b}) : s = <<a>> \o <<b>> BY <3>1, ConcatProperties
    <3>3. Len(s) = 2 /\ s[1] = a /\ s[2] = b BY <3>1, <3>2, ConcatProperties
    <3>4. \A i \in 1 .. 2 : s[i] = <<a, b>>[i] BY <3>3
    <3> QED BY <3>1, <3>2, <3>3, <3>4, SeqEqual
  <2>4. IfUnset(labels, "prod") = IF prod THEN <<>> ELSE <<"prod">> BY DEF IfUnset
  <2>5. IfUnset(labels, "candidate") = IF candidate THEN <<>> ELSE <<"candidate">> BY DEF IfUnset
  <2>6. Unset(labels) = IfUnset(labels, "prod") \o IfUnset(labels, "candidate") BY <1>1 DEF Unset
  <2> HIDE DEF prod, candidate
  <2> QED BY <2>1, <2>2, <2>3, <2>4, <2>5, <2>6
<1>3. Unset(labels) \in LabelLists BY <1>2 DEF LabelLists
<1>4. CASE prod /\ candidate BY <1>2, <1>3, <1>4 DEF Listed
<1>5. CASE prod /\ ~candidate
  <2>1. Unset(labels) = <<"candidate">> BY <1>2, <1>5
  <2>2. 1 \in 1 .. Len(Unset(labels)) /\ Unset(labels)[1] = "candidate" BY <2>1
  <2> QED BY <1>3, <1>5, <2>2 DEF Listed
<1>6. CASE ~prod /\ candidate
  <2>1. Unset(labels) = <<"prod">> BY <1>2, <1>6
  <2>2. 1 \in 1 .. Len(Unset(labels)) /\ Unset(labels)[1] = "prod" BY <2>1
  <2> QED BY <1>3, <1>6, <2>2 DEF Listed
<1>7. CASE ~prod /\ ~candidate
  <2>1. Unset(labels) = <<"prod", "candidate">> BY <1>2, <1>7
  <2>2. /\ 1 \in 1 .. Len(Unset(labels)) /\ Unset(labels)[1] = "prod"
        /\ 2 \in 1 .. Len(Unset(labels)) /\ Unset(labels)[2] = "candidate"
    BY <2>1
  <2> QED BY <1>3, <2>2 DEF Listed
<1> QED BY <1>3, <1>4, <1>5, <1>6, <1>7

(* Taking the first of a list.                                             *)
LEMMA FirstOfList ==
  ASSUME NEW list \in LabelLists, list # <<>>
  PROVE  /\ Tail(list) \in LabelLists /\ Head(list) = list[1]
         /\ \A l : (\E i \in 1 .. Len(list) : list[i] = l)
                     => l = Head(list) \/ \E i \in 1 .. Len(Tail(list)) : Tail(list)[i] = l
<1>1. CASE list = <<"prod">>
  <2>1. Tail(list) = <<>> /\ Head(list) = "prod" /\ Len(list) = 1 /\ list[1] = "prod" BY <1>1
  <2> QED BY <2>1 DEF LabelLists
<1>2. CASE list = <<"candidate">>
  <2>1. Tail(list) = <<>> /\ Head(list) = "candidate" /\ Len(list) = 1 /\ list[1] = "candidate"
    BY <1>2
  <2> QED BY <2>1 DEF LabelLists
<1>3. CASE list = <<"prod", "candidate">>
  <2>1. /\ Tail(list) = <<"candidate">> /\ Head(list) = "prod" /\ Len(list) = 2
        /\ list[1] = "prod" /\ list[2] = "candidate"
    BY <1>3
  <2>2. Len(Tail(list)) = 1 /\ Tail(list)[1] = "candidate" BY <2>1
  <2>3. \A i \in 1 .. Len(list) : i = 1 \/ i = 2 BY <2>1
  <2>4. 1 \in 1 .. Len(Tail(list)) BY <2>2
  <2> QED BY <2>1, <2>2, <2>3, <2>4 DEF LabelLists
<1> QED BY <1>1, <1>2, <1>3 DEF LabelLists

(* The fixtures' requests, of the one seed that acts.                      *)
LEMMA SequentialFixtures ==
  ASSUME SequentialInv, FixturesInv, unset \in [Seeds -> LabelLists], ~open,
         NEW s \in Seeds, FixtureStep(s), \A t \in Seeds \ {s} : ~Acts(t)
  PROVE  SequentialInv' /\ unset' \in [Seeds -> LabelLists]
<1>1. PICK to \in Fixture \cup {"done", "failed"} : seedPc' = [seedPc EXCEPT ![s] = to]
  BY FixtureStepMoves
<1>2. /\ seedPc \in [Seeds -> Steps] /\ PromptsTyped /\ seedPc[s] \in Fixture /\ seedPc'[s] = to
      /\ to \in Steps /\ seedPc[s] # "done"
  <2>1. seedPc \in [Seeds -> Steps] /\ PromptsTyped /\ seedPc[s] \in Fixture
    BY FixtureStepMoves DEF FixturesInv
  <2> QED BY <1>1, <2>1 DEF Fixture, Steps
<1>3. ASSUME NEW next, Answered(s, next) PROVE to \in {next, "failed"}
  <2>1. PICK x \in {next, "failed"} : seedPc' = [seedPc EXCEPT ![s] = x] BY <1>3, AnsweredMoves
  <2> QED BY <1>2, <2>1
<1>4. InOrder /\ ReliesOnSafety(s) /\ ReliesOnLabels(s) /\ ReliesOnJudge(s)
  BY DEF SequentialInv
<1>5. Safety # Judge /\ Safety = Screen BY DEF Safety, Judge, Screen
<1>6. /\ seedPc[s] \in NeedsScreen => Known(Safety)
      /\ seedPc[s] \in NeedsJudgePrompt => Known(Judge)
  BY <1>5 DEF FixturesInv, FixturesFound
<1>7. ASSUME InOrder', Locked => Locked', to = "done" => Locked',
             ReliesOnSafety(s)', ReliesOnLabels(s)', ReliesOnJudge(s)'
      PROVE  SequentialInv'
  BY <1>1, <1>2, <1>7, SequentialStep
<1>8. ASSUME UNCHANGED <<registry, datasetRow, unset>>, to \notin Filled \cup {"addV1", "addV2", "done"}
      PROVE  SequentialInv' /\ unset' \in [Seeds -> LabelLists]
  BY <1>1, <1>2, <1>8, SequentialGoesOn
<1>9. CASE PostSafety(s)
  <2>1. unset' = unset /\ datasetRow' = datasetRow BY <1>9 DEF PostSafety, fixtureOnly
  <2>2. CASE Known(Safety)
    <3>1. to \in {"listSafety", "failed"} /\ UNCHANGED registry
      BY <1>3, <1>9, <2>2 DEF PostSafety, PostPrompt
    <3> QED BY <1>8, <2>1, <3>1 DEF Filled
  <2>3. CASE ~Known(Safety)
    <3>1. CreatePrompt(Safety, "marker") /\ to \in {"addV1", "failed"}
      BY <1>3, <1>9, <2>3 DEF PostSafety, PostPrompt
    <3>2. InOrder' /\ Known(Safety)' /\ prompts'[Safety].versions = <<>> /\ ~Locked
      BY <1>2, <1>4, <3>1, CreatedInOrder
    <3>3. ReliesOnSafety(s)' /\ ReliesOnLabels(s)' /\ ReliesOnJudge(s)'
      BY <1>2, <3>1, <3>2 DEF ReliesOnSafety, ReliesOnLabels, ReliesOnJudge, Filled
    <3> QED BY <1>7, <2>1, <3>1, <3>2, <3>3
  <2> QED BY <2>2, <2>3
<1>10. CASE AddSafetyVersion(s)
  <2>1. unset' = unset /\ datasetRow' = datasetRow BY <1>10 DEF AddSafetyVersion, fixtureOnly
  <2>2. ~Locked
    <3>1. seedPc[s] \in {"addV1", "addV2"} BY <1>10 DEF AddSafetyVersion
    <3>2. Len(prompts[Safety].versions) \in {0, 1} BY <1>4, <3>1, ListedVersions DEF ReliesOnSafety
    <3>3. Len(SafetyVersions) = 2 BY ListedVersions
    <3> SUFFICES ASSUME Locked PROVE FALSE
      OBVIOUS
    <3>4. prompts[Safety].versions = SafetyVersions BY DEF Locked, FixturesAreLocked
    <3>5. Len(prompts[Safety].versions) = 2 BY <3>3, <3>4
    <3> QED BY <3>2, <3>5
  <2>3. SafetyVersions[1] \in Contents /\ SafetyVersions[2] \in Contents BY DEF Contents
  <2>4. CASE seedPc[s] = "addV1"
    <3>1. AddVersion(Safety, SafetyVersions[1]) /\ to \in {"addV2", "failed"}
      BY <1>3, <1>10, <2>4 DEF AddSafetyVersion, PostVersion
    <3>2. prompts[Safety].versions = <<>> BY <1>4, <2>4 DEF ReliesOnSafety
    <3>3. /\ Known(Safety)' /\ prompts'[Safety].versions = Append(<<>>, SafetyVersions[1])
          /\ Known(Judge)' = Known(Judge) /\ (Known(Judge) => prompts'[Judge] = prompts[Judge])
      BY <1>2, <1>5, <2>3, <3>1, <3>2, AddedInOrder
    <3>4. prompts'[Safety].versions = <<SafetyVersions[1]>> BY <3>3, ListedVersions
    <3>5. InOrder' BY <1>4, <3>3, <3>4 DEF InOrder
    <3>6. ReliesOnSafety(s)' /\ ReliesOnLabels(s)' /\ ReliesOnJudge(s)'
      BY <1>2, <3>1, <3>3, <3>4 DEF ReliesOnSafety, ReliesOnLabels, ReliesOnJudge, Filled
    <3> QED BY <1>7, <2>1, <2>2, <3>1, <3>5, <3>6
  <2>5. CASE seedPc[s] = "addV2"
    <3>1. AddVersion(Safety, SafetyVersions[2]) /\ to \in {"relistSafety", "failed"}
      BY <1>3, <1>10, <2>5 DEF AddSafetyVersion, PostVersion
    <3>2. prompts[Safety].versions = <<SafetyVersions[1]>> BY <1>4, <2>5 DEF ReliesOnSafety
    <3>3. /\ Known(Safety)' /\ prompts'[Safety].versions = Append(<<SafetyVersions[1]>>, SafetyVersions[2])
          /\ Known(Judge)' = Known(Judge) /\ (Known(Judge) => prompts'[Judge] = prompts[Judge])
      BY <1>2, <1>5, <2>3, <3>1, <3>2, AddedInOrder
    <3>4. prompts'[Safety].versions = <<SafetyVersions[1], SafetyVersions[2]>>
      BY <3>3, ListedVersions
    <3>5. InOrder' BY <1>4, <3>3, <3>4 DEF InOrder
    <3>6. ReliesOnSafety(s)' /\ ReliesOnLabels(s)' /\ ReliesOnJudge(s)'
      BY <1>2, <3>1, <3>3, <3>4 DEF ReliesOnSafety, ReliesOnLabels, ReliesOnJudge, Filled
    <3> QED BY <1>7, <2>1, <2>2, <3>1, <3>5, <3>6
  <2> QED BY <1>10, <2>4, <2>5 DEF AddSafetyVersion
<1>11. CASE ListSafety(s)
  <2>1. UNCHANGED <<registry, datasetRow, unset>> /\ Known(Safety)
    BY <1>6, <1>11 DEF ListSafety, fixtureOnly, NeedsScreen
  <2>2. to \in {"addV1", "addV2", "relistSafety", "failed"}
    BY <1>3, <1>11 DEF ListSafety, Summary
  <2>3. /\ to = "addV1" => LatestVersion(Safety) = 0
        /\ to = "addV2" => LatestVersion(Safety) = 1
    BY <1>3, <1>11 DEF ListSafety, Summary
  <2>4. ReliesOnSafety(s)'
    <3>1. /\ to = "addV1" => prompts[Safety].versions = <<>>
          /\ to = "addV2" => prompts[Safety].versions = <<SafetyVersions[1]>>
      BY <1>4, <2>1, <2>3, SafetyListed
    <3> QED BY <1>2, <2>1, <2>2, <3>1 DEF ReliesOnSafety, Filled, registry, Known
  <2>5. ReliesOnLabels(s)' /\ ReliesOnJudge(s)'
    BY <1>2, <2>2 DEF ReliesOnLabels, ReliesOnJudge, Filled
  <2> QED BY <1>4, <1>7, <2>1, <2>2, <2>4, <2>5, SameInOrder
<1>12. CASE RelistSafety(s)
  <2>1. UNCHANGED <<registry, datasetRow>> /\ Known(Safety)
    BY <1>6, <1>12 DEF RelistSafety, fixtureOnly, NeedsScreen
  <2> DEFINE list == Unset(prompts[Safety].labels)
  <2>2. list \in LabelLists /\ Listed(prompts[Safety].labels, list) BY UnsetAreListed
  <2> HIDE DEF list
  <2>3. CASE LatestVersion(Safety) = 2 /\ prompts[Safety].description = "marker"
    <3>1. unset' = [unset EXCEPT ![s] = list] /\ to \in {NextLabel(list), "failed"}
      BY <1>3, <1>12, <2>3 DEF RelistSafety, Summary, list
    <3>2. unset'[s] = list /\ unset' \in [Seeds -> LabelLists] BY <2>2, <3>1
    <3>3. prompts[Safety].versions = <<SafetyVersions[1], SafetyVersions[2]>>
      BY <1>4, <2>1, <2>3, SafetyListed
    <3>4. ReliesOnSafety(s)' /\ ReliesOnJudge(s)'
      BY <1>2, <2>1, <3>1, <3>3 DEF ReliesOnSafety, ReliesOnJudge, NextLabel, registry, Known
    <3>5. \A l \in {"prod", "candidate"} :
            Labelled(Safety, l)' = 1 \/ \E i \in 1 .. Len(list) : list[i] = l
      BY <2>1, <2>2 DEF Listed, Labelled, registry
    <3>6. list = <<>> => LabelsOnOne'
      <4>1. Len(<<>>) = 0 OBVIOUS
      <4> QED BY <3>5, <4>1 DEF LabelsOnOne
    <3>7. ReliesOnLabels(s)'
      BY <1>2, <3>1, <3>2, <3>5, <3>6 DEF ReliesOnLabels, NextLabel, Filled
    <3>8. to # "done" BY <3>1 DEF NextLabel
    <3> QED BY <1>4, <1>7, <2>1, <3>2, <3>4, <3>7, <3>8, SameInOrder
  <2>4. CASE ~(LatestVersion(Safety) = 2 /\ prompts[Safety].description = "marker")
    <3>1. unset' = unset /\ to = "failed"
      BY <1>3, <1>12, <2>4 DEF RelistSafety, Summary
    <3> QED BY <1>8, <2>1, <3>1 DEF Filled
  <2> QED BY <2>3, <2>4
<1>13. CASE PutLabel(s)
  <2>1. PICK list \in LabelLists : list = unset[s] OBVIOUS
  <2>2. /\ SetLabel(Safety, Head(list), 1) /\ unset' = [unset EXCEPT ![s] = Tail(list)]
        /\ to \in {NextLabel(Tail(list)), "failed"} /\ datasetRow' = datasetRow
        /\ seedPc[s] = "putLabel"
    BY <1>3, <1>13, <2>1 DEF PutLabel, fixtureOnly
  <2>3. /\ list # <<>> /\ Known(Safety)
        /\ prompts[Safety].versions = <<SafetyVersions[1], SafetyVersions[2]>>
        /\ \A l \in {"prod", "candidate"} :
             Labelled(Safety, l) = 1 \/ \E i \in 1 .. Len(list) : list[i] = l
    BY <1>4, <2>1, <2>2 DEF ReliesOnSafety, ReliesOnLabels, Filled
  <2>4. /\ Tail(list) \in LabelLists
        /\ \A l : (\E i \in 1 .. Len(list) : list[i] = l)
                    => l = Head(list) \/ \E i \in 1 .. Len(Tail(list)) : Tail(list)[i] = l
    BY <2>3, FirstOfList
  <2>5. unset'[s] = Tail(list) /\ unset' \in [Seeds -> LabelLists] BY <2>2, <2>4
  <2>6. /\ DOMAIN prompts' = DOMAIN prompts
        /\ \A k \in DOMAIN prompts : prompts'[k].versions = prompts[k].versions
        /\ \A l : Labelled(Safety, l)' = IF l = Head(list) THEN 1 ELSE Labelled(Safety, l)
    BY <1>2, <2>2, LabelGrows
  <2>7. InOrder' BY <1>4, <2>6 DEF InOrder, Known
  <2>8. ReliesOnSafety(s)' /\ ReliesOnJudge(s)'
    BY <1>2, <2>2, <2>3, <2>6 DEF ReliesOnSafety, ReliesOnJudge, NextLabel, Known
  <2>9. \A l \in {"prod", "candidate"} :
          Labelled(Safety, l)' = 1 \/ \E i \in 1 .. Len(Tail(list)) : Tail(list)[i] = l
    BY <2>3, <2>4, <2>6
  <2>10. Tail(list) = <<>> => LabelsOnOne'
    <3> SUFFICES ASSUME Tail(list) = <<>> PROVE LabelsOnOne'
      OBVIOUS
    <3>1. Len(Tail(list)) = 0
      <4>1. Len(<<>>) = 0 OBVIOUS
      <4> QED BY <4>1, Zenon
    <3>2. \A i : i \notin 1 .. Len(Tail(list)) BY <3>1
    <3>3. \A l \in {"prod", "candidate"} : Labelled(Safety, l)' = 1 BY <2>9, <3>2
    <3> QED BY <3>3 DEF LabelsOnOne
  <2>11. ReliesOnLabels(s)'
    BY <1>2, <2>2, <2>5, <2>9, <2>10 DEF ReliesOnLabels, NextLabel, Filled
  <2>12. Locked => Locked'
    BY <2>2, <2>6 DEF Locked, FixturesAreLocked, Known
  <2>13. to # "done" BY <2>2 DEF NextLabel
  <2> QED BY <1>7, <2>5, <2>7, <2>8, <2>11, <2>12, <2>13
<1>14. CASE PostJudge(s)
  <2>1. /\ unset' = unset /\ datasetRow' = datasetRow /\ Known(Safety) /\ LabelsOnOne
        /\ prompts[Safety].versions = <<SafetyVersions[1], SafetyVersions[2]>>
    BY <1>4, <1>14 DEF PostJudge, fixtureOnly, ReliesOnSafety, ReliesOnLabels, Filled
  <2>2. CASE Known(Judge)
    <3>1. to \in {"listJudge", "failed"} /\ UNCHANGED registry
      BY <1>3, <1>14, <2>2 DEF PostJudge, PostPrompt
    <3>2. ReliesOnSafety(s)' /\ ReliesOnLabels(s)' /\ ReliesOnJudge(s)'
      BY <1>2, <2>1, <3>1 DEF ReliesOnSafety, ReliesOnLabels, ReliesOnJudge, Filled, LabelsOnOne,
        registry, Known, Labelled
    <3> QED BY <1>4, <1>7, <2>1, <3>1, <3>2, SameInOrder
  <2>3. CASE ~Known(Judge)
    <3>1. CreatePrompt(Judge, "marker") /\ to \in {"addJudge", "failed"}
      BY <1>3, <1>14, <2>3 DEF PostJudge, PostPrompt
    <3>2. /\ InOrder' /\ Known(Judge)' /\ prompts'[Judge].versions = <<>> /\ ~Locked
          /\ Known(Safety)' /\ prompts'[Safety] = prompts[Safety]
      BY <1>2, <1>4, <1>5, <2>1, <3>1, CreatedInOrder
    <3>3. LabelsOnOne' BY <2>1, <3>2 DEF LabelsOnOne, Labelled
    <3>4. ReliesOnSafety(s)' /\ ReliesOnLabels(s)' /\ ReliesOnJudge(s)'
      BY <1>2, <2>1, <3>1, <3>2, <3>3 DEF ReliesOnSafety, ReliesOnLabels, ReliesOnJudge, Filled
    <3> QED BY <1>7, <2>1, <3>1, <3>2, <3>4
  <2> QED BY <2>2, <2>3
<1>15. CASE ListJudge(s)
  <2>1. /\ UNCHANGED <<registry, datasetRow, unset>> /\ Known(Safety) /\ Known(Judge) /\ LabelsOnOne
        /\ prompts[Safety].versions = <<SafetyVersions[1], SafetyVersions[2]>>
    BY <1>4, <1>6, <1>15
      DEF ListJudge, fixtureOnly, ReliesOnSafety, ReliesOnLabels, Filled, NeedsJudgePrompt
  <2>2. /\ to \in {"addJudge", "postDataset", "failed"}
        /\ to = "addJudge" => LatestVersion(Judge) = 0
        /\ to = "postDataset" => LatestVersion(Judge) # 0
    BY <1>3, <1>15 DEF ListJudge, Summary
  <2>3. /\ to = "addJudge" => prompts[Judge].versions = <<>>
        /\ to = "postDataset" => prompts[Judge].versions = <<JudgeVersions[1]>>
    BY <1>4, <2>1, <2>2, JudgeListed
  <2>4. ReliesOnSafety(s)' /\ ReliesOnLabels(s)' /\ ReliesOnJudge(s)'
    BY <1>2, <2>1, <2>2, <2>3 DEF ReliesOnSafety, ReliesOnLabels, ReliesOnJudge, Filled, LabelsOnOne,
      registry, Known, Labelled
  <2> QED BY <1>4, <1>7, <2>1, <2>2, <2>4, SameInOrder
<1>16. CASE AddJudgeVersion(s)
  <2>1. /\ unset' = unset /\ datasetRow' = datasetRow /\ Known(Safety) /\ LabelsOnOne
        /\ prompts[Safety].versions = <<SafetyVersions[1], SafetyVersions[2]>>
        /\ prompts[Judge].versions = <<>>
    BY <1>4, <1>16
      DEF AddJudgeVersion, fixtureOnly, ReliesOnSafety, ReliesOnLabels, ReliesOnJudge, Filled
  <2>2. AddVersion(Judge, JudgeVersions[1]) /\ to \in {"postDataset", "failed"}
    BY <1>3, <1>16 DEF AddJudgeVersion, PostVersion
  <2>3. /\ Known(Judge)' /\ prompts'[Judge].versions = Append(<<>>, JudgeVersions[1])
        /\ Known(Safety)' /\ prompts'[Safety] = prompts[Safety]
    <3>1. JudgeVersions[1] \in Contents BY DEF Contents
    <3> QED BY <1>2, <1>5, <2>1, <2>2, <3>1, AddedInOrder
  <2>4. prompts'[Judge].versions = <<JudgeVersions[1]>> BY <2>3, ListedVersions
  <2>5. InOrder' BY <2>1, <2>3, <2>4 DEF InOrder
  <2>6. LabelsOnOne' BY <2>1, <2>3 DEF LabelsOnOne, Labelled
  <2>7. ReliesOnSafety(s)' /\ ReliesOnLabels(s)' /\ ReliesOnJudge(s)'
    BY <1>2, <2>1, <2>2, <2>3, <2>4, <2>6 DEF ReliesOnSafety, ReliesOnLabels, ReliesOnJudge, Filled
  <2>8. ~Locked
    <3>1. Len(prompts[Judge].versions) = 0 BY <2>1, ListedVersions
    <3>2. Len(JudgeVersions) = 1 BY ListedVersions
    <3> SUFFICES ASSUME Locked PROVE FALSE
      OBVIOUS
    <3>3. prompts[Judge].versions = JudgeVersions BY DEF Locked, FixturesAreLocked
    <3>4. Len(prompts[Judge].versions) = 1 BY <3>2, <3>3
    <3>5. Len(prompts[Judge].versions) \in {0} BY <3>1
    <3> QED BY <3>4, <3>5
  <2> QED BY <1>7, <2>1, <2>2, <2>5, <2>7, <2>8
<1>17. CASE PostDataset(s)
  <2>1. /\ UNCHANGED <<registry, unset>> /\ datasetRow' = TRUE /\ Known(Safety) /\ LabelsOnOne
        /\ prompts[Safety].versions = <<SafetyVersions[1], SafetyVersions[2]>>
        /\ Known(Judge) /\ prompts[Judge].versions = <<JudgeVersions[1]>>
        /\ to \in {"done", "failed"}
    BY <1>3, <1>4, <1>17 DEF PostDataset, ReliesOnSafety, ReliesOnLabels, ReliesOnJudge, Filled
  <2>2. Locked'
    BY <2>1, ListedVersions DEF Locked, FixturesAreLocked, LabelsOnOne, Labelled, registry, Known
  <2>3. ReliesOnSafety(s)' /\ ReliesOnLabels(s)' /\ ReliesOnJudge(s)'
    BY <1>2, <2>1 DEF ReliesOnSafety, ReliesOnLabels, ReliesOnJudge, Filled
  <2> QED BY <1>4, <1>7, <2>1, <2>2, <2>3, SameInOrder
<1> QED
  BY <1>9, <1>10, <1>11, <1>12, <1>13, <1>14, <1>15, <1>16, <1>17 DEF FixtureStep

(* A seed's request, or its end.                                           *)
LEMMA SequentialSeeding ==
  ASSUME SequentialInv, FixturesInv, unset \in [Seeds -> LabelLists], ~open,
         NEW s \in Seeds, SeedStep(s), ~overlapped'
  PROVE  SequentialInv' /\ unset' \in [Seeds -> LabelLists]
<1>1. seedPc \in [Seeds -> Steps] BY DEF FixturesInv
<1>2. /\ seedPc[s] # "done"
      /\ \A t \in Seeds \ {s} : ~Acts(t)
  <2>1. CASE StartSeed(s)
    <3>1. seedPc[s] = "idle" /\ \A t \in Seeds : ~Acts(t) BY <2>1 DEF StartSeed, Acts
    <3> QED BY <3>1
  <2>2. CASE ~StartSeed(s)
    <3>1. seedPc[s] \notin Over
      <4>1. CASE FixtureStep(s) BY <4>1, FixtureStepMoves DEF Fixture, Over
      <4>2. CASE ~FixtureStep(s)
        BY <2>2, <4>2
        DEF SeedStep, FixtureStep, ListKeys, ReadKeyFile, VerifyKey, RelistKeys, ReserveKeyFile,
          CreateKey, PublishKey, SeedGivesUp, KillSeed, Over
      <4> QED BY <4>1, <4>2
    <3> QED BY <3>1 DEF SequentialInv, Acts, Over
  <2> QED BY <2>1, <2>2
<1>3. ASSUME UNCHANGED <<registry, datasetRow, unset>>, NEW to \in Steps,
             seedPc' = [seedPc EXCEPT ![s] = to],
             to = seedPc[s] \/ to \notin Filled \cup {"addV1", "addV2", "done"}
      PROVE  SequentialInv' /\ unset' \in [Seeds -> LabelLists]
  BY <1>1, <1>2, <1>3, SequentialGoesOn
<1>4. CASE KeyStep(s)
  <2>1. UNCHANGED <<registry, datasetRow, unset>>
    BY <1>4 DEF KeyStep, StartSeed, ListKeys, ReadKeyFile, VerifyKey, RelistKeys, ReserveKeyFile,
      CreateKey, PublishKey
  <2>2. PICK to \in {"listKeys", "readFile", "rereadFile", "verifyKey", "relistKeys", "reserveFile",
                     "createKey", "publishKey", "postSafety", "failed"} :
          seedPc' = [seedPc EXCEPT ![s] = to]
    BY <1>4, KeyStepMoves
  <2>3. to \in Steps /\ to \notin Filled \cup {"addV1", "addV2", "done"} BY DEF Steps, Filled
  <2> QED BY <1>3, <2>1, <2>2, <2>3
<1>5. CASE FixtureStep(s) BY <1>2, <1>5, SequentialFixtures
<1>6. CASE SeedGivesUp(s)
  <2>1. UNCHANGED <<registry, datasetRow, unset>> /\ seedPc' = [seedPc EXCEPT ![s] = "failed"]
    BY <1>6 DEF SeedGivesUp
  <2>2. "failed" \in Steps /\ "failed" \notin Filled \cup {"addV1", "addV2", "done"} BY DEF Steps, Filled
  <2> QED BY <1>3, <2>1, <2>2
<1>7. CASE KillSeed(s)
  <2>1. PICK to \in {"failed", seedPc[s]} : seedPc' = [seedPc EXCEPT ![s] = to]
    BY <1>7 DEF KillSeed
  <2>2. UNCHANGED <<registry, datasetRow, unset>> BY <1>7 DEF KillSeed
  <2>3. to \in Steps /\ (to = seedPc[s] \/ to \notin Filled \cup {"addV1", "addV2", "done"})
    BY <1>1 DEF Steps, Filled
  <2> QED BY <1>3, <2>1, <2>2, <2>3
<1> QED BY <1>4, <1>5, <1>6, <1>7 DEF SeedStep, KeyStep, FixtureStep

(* A history of seeds that overlapped stays one.                           *)
LEMMA OverlapStays == ASSUME NEW s \in Seeds, SeedStep(s), overlapped PROVE overlapped'
BY FixtureStepMoves
DEF SeedStep, FixtureStep, StartSeed, ListKeys, ReadKeyFile, VerifyKey, RelistKeys, ReserveKeyFile,
  CreateKey, PublishKey, SeedGivesUp, KillSeed

(* Every step of the gate keeps it.                                        *)
LEMMA CertInductive == FixturesInv /\ CertInv /\ [GateNext]_gateVars => CertInv'
<1> SUFFICES ASSUME FixturesInv, CertInv, [GateNext]_gateVars PROVE CertInv'
  OBVIOUS
<1>1. CASE Seeding
  <2>1. ~open /\ open' = open /\ adminWrites' = adminWrites /\ adminWrites = 0
    BY <1>1 DEF Seeding, CertInv
  <2>2. PICK s \in Seeds : SeedStep(s) BY <1>1 DEF Seeding
  <2>3. CASE overlapped'
    BY <2>1, <2>3 DEF CertInv, SeedCertifies
  <2>4. CASE ~overlapped'
    <3>1. ~overlapped BY <2>2, <2>4, OverlapStays
    <3>2. SequentialInv /\ unset \in [Seeds -> LabelLists] BY <2>1, <3>1 DEF CertInv
    <3>3. SequentialInv' /\ unset' \in [Seeds -> LabelLists]
      BY <2>1, <2>2, <2>4, <3>2, SequentialSeeding
    <3>4. SeedCertifies' BY <3>3 DEF SequentialInv, Locked, SeedCertifies
    <3> QED BY <2>1, <3>3, <3>4 DEF CertInv
  <2> QED BY <2>3, <2>4
<1>2. CASE OpenGate
  <2>1. /\ ~open /\ open' = TRUE /\ SeedSucceeded /\ adminWrites' = adminWrites
        /\ UNCHANGED <<registry, datasetRow, overlapped>>
    BY <1>2 DEF OpenGate
  <2>2. ~overlapped => Locked BY <2>1 DEF CertInv, SequentialInv
  <2>3. Locked => FixturesAreLocked'
    BY <2>1 DEF Locked, FixturesAreLocked, registry, Labelled
  <2> QED BY <2>1, <2>2, <2>3 DEF CertInv, SeedCertifies
<1>3. CASE Evaluating
  <2>1. open /\ UNCHANGED <<seedState, open, adminWrites>> BY <1>3 DEF Evaluating
  <2>2. UNCHANGED registry
    BY <1>3
    DEF Evaluating, BeginRun, RunStep, Freeze, ReadHistory, UpsertDataset, TakeTurn, TimePasses,
      AnswerCase, AnswerJudge, CallBegins, Persist, Verdict, RunFails
  <2>3. SeedCertifies'
    BY <2>1, <2>2
    DEF CertInv, SeedCertifies, SeedSucceeded, FixturesAreLocked, Labelled, seedState, registry
  <2> QED BY <2>1, <2>3 DEF CertInv
<1>4. CASE AdminWrites
  <2>1. open /\ open' = open /\ adminWrites' = adminWrites + 1 BY <1>4 DEF AdminWrites
  <2>2. adminWrites' \in Nat /\ adminWrites' # 0 BY <2>1 DEF CertInv
  <2> QED BY <2>1, <2>2 DEF CertInv, SeedCertifies
<1>5. CASE UNCHANGED gateVars
  <2>1. UNCHANGED <<registry, seedState, open, adminWrites>> BY <1>5 DEF gateVars
  <2>2. SequentialInv => SequentialInv'
    BY <2>1
    DEF SequentialInv, Acts, InOrder, ReliesOnSafety, ReliesOnLabels, ReliesOnJudge, LabelsOnOne,
      Labelled, Known, SeedSucceeded, Locked, FixturesAreLocked, registry, seedState
  <2>3. SeedCertifies'
    BY <2>1 DEF CertInv, SeedCertifies, SeedSucceeded, FixturesAreLocked, Labelled, seedState, registry
  <2> QED BY <2>1, <2>2, <2>3 DEF CertInv, seedState
<1> QED BY <1>1, <1>2, <1>3, <1>4, <1>5 DEF GateNext

(* Nothing is locked before the first seed, and none has succeeded.        *)
LEMMA CertInitially == GateInit => CertInv
<1> SUFFICES ASSUME GateInit PROVE CertInv
  OBVIOUS
<1>1. /\ prompts = <<>> /\ seedPc = [s \in Seeds |-> "idle"] /\ unset = [s \in Seeds |-> <<>>]
      /\ ~open /\ adminWrites = 0
  BY DEF GateInit, SeedInit
<1>2. ~Known(Safety) /\ ~Known(Judge) BY <1>1 DEF Known
<1>3. SequentialInv
  BY <1>1, <1>2
  DEF SequentialInv, Acts, Over, InOrder, ReliesOnSafety, ReliesOnLabels, ReliesOnJudge, Filled,
    SeedSucceeded
<1>4. unset \in [Seeds -> LabelLists] BY <1>1 DEF LabelLists
<1>5. ~SeedSucceeded BY <1>1 DEF SeedSucceeded
<1> QED BY <1>1, <1>3, <1>4, <1>5 DEF CertInv, SeedCertifies

(* Whatever seeds failed, were killed or lost an answer before it, as long *)
(* as no two overlapped and until the admin writes: when one has reported  *)
(* success, the two prompts hold exactly the locked versions in their      *)
(* order, both labels are on version 1 and the dataset row is there        *)
(* (ci-seed.ts seedCi).                                                    *)
THEOREM SuccessCertifies == GateSpec => []SeedCertifies
<1>1. FixturesInv /\ [GateNext]_gateVars => FixturesInv' BY FixturesInductive
<1>2. CertInv => SeedCertifies BY DEF CertInv
<1> QED BY <1>1, <1>2, FixturesInitially, CertInitially, CertInductive, PTL DEF GateSpec
=============================================================================
