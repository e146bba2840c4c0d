--------------------------- MODULE PromptRegistry ---------------------------
(***************************************************************************)
(* The prompt registry (gateway registry/dao.ts, admin/prompts.ts): prompt *)
(* identities, their append-only versions, the labels that point at them   *)
(* and the history of every move.  Each route runs in one turn of the      *)
(* gateway and each write is one SQLite transaction, so an operation here  *)
(* is one step; its callers are the modules that extend this one.          *)
(*                                                                         *)
(* A version is its content; a prompt's version numbers are the positions  *)
(* of the sequence, which the triggers of 004_registry.sql keep immutable. *)
(***************************************************************************)
EXTENDS Naturals, Sequences

VARIABLES
  prompts,      (* by slug: the description, the versions and the labels   *)
  labelHistory

registry == <<prompts, labelHistory>>

NoVersion == 0  (* NULL, of a label never set and of a prompt never filled *)

(* A table with the row of one key written.                                *)
Upserted(table, key, row) ==
  [k \in DOMAIN table \cup {key} |-> IF k = key THEN row ELSE table[k]]

NewPrompt(description) ==
  [description |-> description, versions |-> <<>>, labels |-> <<>>]

Known(slug) == slug \in DOMAIN prompts

LatestVersion(slug) == Len(prompts[slug].versions)

(* The version a label points at, NULL before it was ever set.             *)
Labelled(slug, label) ==
  IF label \in DOMAIN prompts[slug].labels THEN prompts[slug].labels[label] ELSE NoVersion

(* listPromptSummaries, for one slug.                                      *)
Summary(slug) ==
  [description |-> prompts[slug].description, latest |-> LatestVersion(slug),
   labels |-> prompts[slug].labels]

CreatePrompt(slug, description) ==
  /\ ~Known(slug)
  /\ prompts' = Upserted(prompts, slug, NewPrompt(description))
  /\ UNCHANGED labelHistory

AddVersion(slug, content) ==
  /\ Known(slug)
  /\ prompts' = [prompts EXCEPT ![slug].versions = Append(@, content)]
  /\ UNCHANGED labelHistory

(* The route's 404s are the guards.  Mutant: the row is written before the *)
(* previous pointer is read.                                               *)
MovedAfterWrite(slug, label, version) ==
  [slug |-> slug, label |-> label, from |-> version, to |-> version]

Moved(slug, label, version) ==
  [slug |-> slug, label |-> label, from |-> Labelled(slug, label), to |-> version]

SetLabel(slug, label, version) ==
  /\ Known(slug) /\ version \in 1 .. LatestVersion(slug)
  /\ prompts' = [prompts EXCEPT ![slug].labels = Upserted(@, label, version)]
  /\ labelHistory' = Append(labelHistory, Moved(slug, label, version))

(* resolveRef: by label through the pointer, by number directly; a miss is *)
(* NoVersion, whichever part is unknown.                                   *)
ByLabel(label) == [kind |-> "label", label |-> label]
ByVersion(version) == [kind |-> "version", version |-> version]

ResolveRef(slug, ref) ==
  IF ~Known(slug) THEN NoVersion
  ELSE IF ref.kind = "label" THEN Labelled(slug, ref.label)
  ELSE IF ref.version <= LatestVersion(slug) THEN ref.version
  ELSE NoVersion

(* resolvePromptRequest, of a prompt whose variables the caller supplies.  *)
Rendered(slug, ref) == prompts[slug].versions[ResolveRef(slug, ref)]
=============================================================================
