------------------------------- MODULE CiSeed -------------------------------
(***************************************************************************)
(* pg-eval seed-ci (evals ci-seed.ts, judge-seed.ts): one process that     *)
(* makes the gateway's only key and hands it over in a file, then brings   *)
(* the two fixture prompts and the dataset row to their locked state.      *)
(*                                                                         *)
(* Every request is one step of the gateway.  Its answer may be lost, and  *)
(* a seed that was killed may have left its request behind, which the      *)
(* gateway handles later or never.  A seed that fails is run again as      *)
(* another seed; nothing but the operator keeps two from overlapping.      *)
(***************************************************************************)
EXTENDS PromptRegistry, FiniteSets

CONSTANTS
  Seeds,                     (* runs of seed-ci                            *)
  Absent, Reserved, Stale    (* a handoff file that holds no key of ours   *)

ASSUME SeedConstants ==
  /\ IsFiniteSet(Seeds)
  /\ Absent # Reserved /\ Reserved # Stale /\ Stale # Absent
  /\ {Absent, Reserved, Stale} \cap Seeds = {}

VARIABLES
  keys,       (* the api_keys rows, each known by the seed that made it    *)
  keyFile,    (* PG_EVAL_KEY_FILE                                          *)
  seedPc,     (* what a seed is about to do                                *)
  handoff,    (* the key a seed read from the file                         *)
  unset,      (* the labels a seed found it must still set, in order       *)
  killed,     (* seeds whose process died                                  *)
  datasetRow,
  overlapped  (* history: a seed started before an earlier one, or a       *)
              (* request it left behind, had finished                      *)

seedState == <<keys, keyFile, seedPc, handoff, unset, killed, datasetRow, overlapped>>

Safety == "safety_screen"
Judge == "judge_rubric_v1"
SafetyVersions == <<"screen v1", "screen v2">>
JudgeVersions == <<"rubric">>
FixtureLabels == <<"prod", "candidate">>   (* both on version 1            *)

LocalWork == {"readFile", "reserveFile", "publishKey", "rereadFile"}
Over == {"idle", "done", "failed"}

SeedInit ==
  /\ keys = {} /\ keyFile \in {Absent, Stale}
  /\ seedPc = [s \in Seeds |-> "idle"]
  /\ handoff = [s \in Seeds |-> Absent]
  /\ unset = [s \in Seeds |-> <<>>]
  /\ killed = {} /\ datasetRow = FALSE /\ overlapped = FALSE

(* A step of a live seed's own.                                            *)
Goes(s, next) == s \notin killed /\ seedPc' = [seedPc EXCEPT ![s] = next]

(* The gateway has handled s's request; the seed goes on to next unless    *)
(* the answer is lost, or it is no longer there.                           *)
Answered(s, next) ==
  \E to \in {"failed"} \cup (IF s \in killed THEN {} ELSE {next}) :
    seedPc' = [seedPc EXCEPT ![s] = to]

StartSeed(s) ==
  /\ seedPc[s] = "idle"
  /\ overlapped' = (overlapped \/ \E o \in Seeds : seedPc[o] \notin Over)
  /\ Goes(s, "listKeys")
  /\ UNCHANGED <<keys, keyFile, handoff, unset, killed, datasetRow, registry>>

-----------------------------------------------------------------------------
(* ensureCiKey.  Every key here is a ci-evals key with the locked budget.  *)

ListKeys(s) ==
  /\ seedPc[s] = "listKeys"
  /\ Answered(s, CASE keys = {} -> "reserveFile"
                   [] Cardinality(keys) = 1 -> "readFile"
                   [] OTHER -> "failed")
  /\ UNCHANGED <<keys, keyFile, handoff, unset, killed, datasetRow, overlapped, registry>>

(* readSecureKeyFile: Stale is well formed, Reserved is empty.             *)
ReadKeyFile(s) ==
  /\ seedPc[s] \in {"readFile", "rereadFile"}
  /\ handoff' = [handoff EXCEPT ![s] = keyFile]
  /\ Goes(s, IF \/ seedPc[s] = "readFile" /\ keyFile \in Seeds \cup {Stale}
                \/ seedPc[s] = "rereadFile" /\ keyFile = s
             THEN "verifyKey" ELSE "failed")
  /\ UNCHANGED <<keys, keyFile, unset, killed, datasetRow, overlapped, registry>>

VerifyKey(s) ==
  /\ seedPc[s] = "verifyKey"
  /\ Answered(s, IF handoff[s] \in keys THEN "relistKeys" ELSE "failed")
  /\ UNCHANGED <<keys, keyFile, handoff, unset, killed, datasetRow, overlapped, registry>>

RelistKeys(s) ==
  /\ seedPc[s] = "relistKeys"
  /\ Answered(s, IF Cardinality(keys) = 1 THEN "postSafety" ELSE "failed")
  /\ UNCHANGED <<keys, keyFile, handoff, unset, killed, datasetRow, overlapped, registry>>

(* open(path, "wx").  Mutant: "w".                                         *)
ReservableAlways == TRUE

Reservable == keyFile = Absent

ReserveKeyFile(s) ==
  /\ seedPc[s] = "reserveFile"
  /\ IF Reservable
     THEN keyFile' = Reserved /\ Goes(s, "createKey")
     ELSE UNCHANGED keyFile /\ Goes(s, "failed")
  /\ UNCHANGED <<keys, handoff, unset, killed, datasetRow, overlapped, registry>>

CreateKey(s) ==
  /\ seedPc[s] = "createKey"
  /\ keys' = keys \cup {s}
  /\ Answered(s, "publishKey")
  /\ UNCHANGED <<keyFile, handoff, unset, killed, datasetRow, overlapped, registry>>

(* publishSecureKeyFile, or a write that fails.                            *)
PublishKey(s) ==
  /\ seedPc[s] = "publishKey"
  /\ \/ keyFile' = s /\ Goes(s, "rereadFile")
     \/ UNCHANGED keyFile /\ Goes(s, "failed")
  /\ UNCHANGED <<keys, handoff, unset, killed, datasetRow, overlapped, registry>>

-----------------------------------------------------------------------------
(* ensureSafetyPrompt and seedJudgeRubric.                                 *)

fixtureOnly == <<keys, keyFile, handoff, killed, datasetRow, overlapped>>

(* POST /prompts: created, or a 409 that sends the seed to the list.       *)
PostPrompt(s, slug, created, conflict) ==
  IF Known(slug)
  THEN Answered(s, conflict) /\ UNCHANGED registry
  ELSE CreatePrompt(slug, "marker") /\ Answered(s, created)

(* POST /versions: the seed goes on if the number is the one it expects.   *)
PostVersion(s, slug, content, expected, next) ==
  /\ AddVersion(slug, content)
  /\ Answered(s, IF LatestVersion(slug) + 1 = expected THEN next ELSE "failed")

PostSafety(s) ==
  /\ seedPc[s] = "postSafety"
  /\ PostPrompt(s, Safety, "addV1", "listSafety")
  /\ UNCHANGED <<fixtureOnly, unset>>

AddSafetyVersion(s) ==
  /\ \/ seedPc[s] = "addV1" /\ PostVersion(s, Safety, SafetyVersions[1], 1, "addV2")
     \/ seedPc[s] = "addV2" /\ PostVersion(s, Safety, SafetyVersions[2], 2, "relistSafety")
  /\ UNCHANGED <<fixtureOnly, unset>>

(* The repair loop starts after the latest version.                        *)
ListSafety(s) ==
  /\ seedPc[s] = "listSafety"
  /\ LET found == Summary(Safety)
     IN Answered(s, IF found.description # "marker" \/ found.latest > 2 THEN "failed"
                    ELSE CASE found.latest = 0 -> "addV1"
                           [] found.latest = 1 -> "addV2"
                           [] OTHER            -> "relistSafety")
  /\ UNCHANGED <<fixtureOnly, unset, registry>>

(* The labels not yet on version 1, in the order of the fixture.  Mutant:  *)
(* the loop ends at the first label that needs nothing.                    *)
IfUnset(labels, l) == IF l \in DOMAIN labels /\ labels[l] = 1 THEN <<>> ELSE <<l>>

UnsetUntilFirst(labels) ==
  LET first == IfUnset(labels, FixtureLabels[1])
  IN IF first = <<>> THEN <<>> ELSE first \o IfUnset(labels, FixtureLabels[2])

Unset(labels) == IfUnset(labels, FixtureLabels[1]) \o IfUnset(labels, FixtureLabels[2])

NextLabel(labels) == IF labels = <<>> THEN "postJudge" ELSE "putLabel"

RelistSafety(s) ==
  /\ seedPc[s] = "relistSafety"
  /\ LET found == Summary(Safety)
     IN IF found.description = "marker" /\ found.latest = 2
        THEN /\ unset' = [unset EXCEPT ![s] = Unset(found.labels)]
             /\ Answered(s, NextLabel(Unset(found.labels)))
        ELSE UNCHANGED unset /\ Answered(s, "failed")
  /\ UNCHANGED <<fixtureOnly, registry>>

PutLabel(s) ==
  /\ seedPc[s] = "putLabel"
  /\ SetLabel(Safety, Head(unset[s]), 1)
  /\ unset' = [unset EXCEPT ![s] = Tail(@)]
  /\ Answered(s, NextLabel(Tail(unset[s])))
  /\ UNCHANGED fixtureOnly

PostJudge(s) ==
  /\ seedPc[s] = "postJudge"
  /\ PostPrompt(s, Judge, "addJudge", "listJudge")
  /\ UNCHANGED <<fixtureOnly, unset>>

ListJudge(s) ==
  /\ seedPc[s] = "listJudge"
  /\ LET found == Summary(Judge)
     IN Answered(s, IF found.description # "marker" \/ found.latest > 1 THEN "failed"
                    ELSE IF found.latest = 0 THEN "addJudge" ELSE "postDataset")
  /\ UNCHANGED <<fixtureOnly, unset, registry>>

AddJudgeVersion(s) ==
  /\ seedPc[s] = "addJudge"
  /\ PostVersion(s, Judge, JudgeVersions[1], 1, "postDataset")
  /\ UNCHANGED <<fixtureOnly, unset>>

PostDataset(s) ==
  /\ seedPc[s] = "postDataset"
  /\ datasetRow' = TRUE
  /\ Answered(s, "done")
  /\ UNCHANGED <<keys, keyFile, handoff, unset, killed, overlapped, registry>>

-----------------------------------------------------------------------------
(* The request never arrives or is refused, or the file system fails; and  *)
(* of a killed seed, the request is dropped.                               *)
SeedGivesUp(s) ==
  /\ seedPc[s] \notin Over
  /\ seedPc' = [seedPc EXCEPT ![s] = "failed"]
  /\ UNCHANGED <<keys, keyFile, handoff, unset, killed, datasetRow, overlapped, registry>>

(* Between two of its own steps, or with a request on the wire.            *)
KillSeed(s) ==
  /\ seedPc[s] \notin Over /\ s \notin killed
  /\ killed' = killed \cup {s}
  /\ seedPc' = [seedPc EXCEPT ![s] = IF @ \in LocalWork THEN "failed" ELSE @]
  /\ UNCHANGED <<keys, keyFile, handoff, unset, datasetRow, overlapped, registry>>

SeedStep(s) ==
  \/ StartSeed(s) \/ ListKeys(s) \/ ReadKeyFile(s) \/ VerifyKey(s) \/ RelistKeys(s)
  \/ ReserveKeyFile(s) \/ CreateKey(s) \/ PublishKey(s)
  \/ PostSafety(s) \/ AddSafetyVersion(s) \/ ListSafety(s) \/ RelistSafety(s)
  \/ PutLabel(s) \/ PostJudge(s) \/ ListJudge(s) \/ AddJudgeVersion(s)
  \/ PostDataset(s) \/ SeedGivesUp(s) \/ KillSeed(s)

-----------------------------------------------------------------------------
SeedSucceeded == \E s \in Seeds : seedPc[s] = "done"

(* Seeds that did not overlap, however often they failed, were killed or   *)
(* lost an answer before: one that reports success leaves exactly the      *)
(* locked contents in the locked order, and both labels on version 1.      *)
FixturesAreLocked ==
  /\ prompts[Safety].versions = SafetyVersions
  /\ \A l \in {"prod", "candidate"} : Labelled(Safety, l) = 1
  /\ prompts[Judge].versions = JudgeVersions
  /\ datasetRow
=============================================================================
