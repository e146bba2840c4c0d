---------------------------- MODULE PromptsScreen ---------------------------
(***************************************************************************)
(* The prompts screen (dashboard prompts.ts) against the registry: the     *)
(* list, the selected prompt, the comparison of two of its versions and    *)
(* the one action that writes, a confirmed label move followed by a reload.*)
(*                                                                         *)
(* The list, detail and diff requests share one generation, which only     *)
(* tells whether a request is still the one started last: it is modelled   *)
(* by the kind of that request.  The answer of an aborted request is never *)
(* seen, and what awaits it goes on at once, before the next event.        *)
(***************************************************************************)
EXTENDS DashboardPage, PromptRegistry

CONSTANTS Slugs, MaxMoves       (* bound on the label moves                *)

VARIABLES
  page,           (* promptList, selectedSlug, selectedDetail,             *)
                  (* selectedVersions, actionNotice                        *)
  generation,     (* the kind of the request started last                  *)
  listRequest, detailRequest, diffRequest,
  move,           (* performLabelMove: the move and what it waits for      *)
  orphans,        (* PUTs the page gave up that the gateway may yet handle *)
  confirmed       (* history: per prompt, its last move the page was told  *)

promptsState ==
  <<page, generation, listRequest, detailRequest, diffRequest, move, orphans, confirmed>>

LabelName == "prod"
NoSlug == "none"
NotServed == 99

(* asOf: history, the number of label moves the gateway had seen.          *)
NoDetail == [slug |-> NoSlug, version |-> 0, asOf |-> 0]
DetailOf(slug) ==
  [slug |-> slug, version |-> Labelled(slug, LabelName), asOf |-> Len(labelHistory)]
DetailWanted(slug) == [slug |-> slug, version |-> 0, asOf |-> NotServed]

NoList == [by |-> "none", asOf |-> 0]
NoNotice == [slug |-> NoSlug, from |-> 0, to |-> 0]
NoMove == [slug |-> NoSlug, from |-> 0, to |-> 0, phase |-> "none", answer |-> 0]

EmptyPage ==
  [loaded |-> FALSE, asOf |-> 0, slug |-> NoSlug, detail |-> NoDetail, versions |-> {},
   notice |-> NoNotice]

PromptsInit ==
  /\ prompts = [s \in Slugs |-> [description |-> "prompt", versions |-> <<"v1", "v2">>,
                                 labels |-> [l \in {LabelName} |-> 1]]]
  /\ labelHistory = <<>>
  /\ page = EmptyPage /\ generation = "none"
  /\ listRequest = NoList /\ detailRequest = NoDetail /\ diffRequest = NoDetail
  /\ move = NoMove /\ orphans = {} /\ confirmed = [s \in Slugs |-> 0]

-----------------------------------------------------------------------------
(* renderPromptsData: the comparison is drawn with the diff it is given.   *)
DiffBody(versions, diff) == IF Cardinality(versions) = 2 THEN diff ELSE "hint"

Current(p, disabled, diff) ==
  [kind |-> "current", list |-> p.loaded, slug |-> p.slug, detail |-> p.detail,
   disabled |-> disabled, diff |-> IF p.detail = NoDetail THEN "none" ELSE DiffBody(p.versions, diff),
   notice |-> IF p.detail = NoDetail THEN NoNotice ELSE p.notice]

RenderCurrent(p, m) == drawn' = Current(p, m # NoMove, "loading")

(* refreshPrompts, by a click or by the reload of a move.                  *)
RefreshPrompts(by, slug) ==
  /\ generation' = "list"
  /\ listRequest' = [by |-> by, asOf |-> NotServed]
  /\ page' = [page EXCEPT !.slug = slug, !.detail = NoDetail, !.versions = {},
                          !.notice = NoNotice]
  /\ drawn' = Loading

(* selectPrompt up to its request.  Mutant: the detail shown so far stays. *)
SelectingBeside(p, slug) == [p EXCEPT !.slug = slug, !.versions = {}]

Selecting(p, slug) == [p EXCEPT !.slug = slug, !.detail = NoDetail, !.versions = {}]

RequestDetail(slug) ==
  /\ generation' = "detail"
  /\ detailRequest' = DetailWanted(slug)
  /\ diffRequest' = NoDetail

(* performLabelMove, when the registry could not be reloaded after a move. *)
Unconfirmed(p) == [p EXCEPT !.slug = NoSlug, !.detail = NoDetail, !.notice = NoNotice]

-----------------------------------------------------------------------------
(* The user.  Controls are those drawn.                                    *)

ClickRefresh ==
  /\ drawn.kind \in {"current", "error"}
  /\ RefreshPrompts("user", NoSlug)
  /\ UNCHANGED <<route, detailRequest, diffRequest, move, orphans, confirmed, registry>>

(* A reload that waits for its detail loses it to this selection, and      *)
(* undoes the selection.                                                   *)
ClickPrompt(slug) ==
  /\ drawn.kind = "current" /\ drawn.list
  /\ RequestDetail(slug)
  /\ LET selected == Selecting(page, slug)
         reloading == move.phase = "detail"
     IN /\ page' = IF reloading THEN Unconfirmed(selected) ELSE selected
        /\ move' = IF reloading THEN NoMove ELSE move
  /\ RenderCurrent(page', move')
  /\ UNCHANGED <<route, listRequest, orphans, confirmed, registry>>

LoadDiff == generation' = "diff" /\ diffRequest' = page.detail

ToggleVersion(v) ==
  /\ drawn.kind = "current" /\ drawn.detail # NoDetail
  /\ LET next == IF v \in page.versions THEN page.versions \ {v} ELSE page.versions \cup {v}
     IN /\ page' = [page EXCEPT !.versions = next]
        /\ IF Cardinality(next) = 2 THEN LoadDiff
           ELSE diffRequest' = NoDetail /\ UNCHANGED generation
  /\ RenderCurrent(page', move)
  /\ UNCHANGED <<route, listRequest, detailRequest, move, orphans, confirmed, registry>>

ClickRetryDiff ==
  /\ drawn.kind = "current" /\ drawn.diff = "failed"
  /\ LoadDiff
  /\ RenderCurrent(page, move)
  /\ UNCHANGED <<route, page, listRequest, detailRequest, move, orphans, confirmed, registry>>

(* The dialog is answered yes or no.                                       *)
MovesUnderWay == Cardinality(orphans) + (IF move.phase = "put" /\ move.answer = 0 THEN 1 ELSE 0)
MayMove == Len(labelHistory) + MovesUnderWay < MaxMoves

ClickMove(version) ==
  /\ drawn.kind = "current" /\ drawn.detail # NoDetail /\ ~drawn.disabled
  /\ drawn.detail.version # version
  /\ \/ /\ MayMove
        /\ move' = [slug |-> page.detail.slug, from |-> page.detail.version, to |-> version,
                    phase |-> "put", answer |-> 0]
     \/ UNCHANGED move
  /\ RenderCurrent(page, move')
  /\ UNCHANGED <<route, page, generation, listRequest, detailRequest, diffRequest, orphans,
                 confirmed, registry>>

PromptsUser ==
  /\ route = "prompts"
  /\ \/ ClickRefresh \/ ClickRetryDiff
     \/ \E slug \in Slugs : ClickPrompt(slug)
     \/ \E v \in {1, 2} : ToggleVersion(v) \/ ClickMove(v)

-----------------------------------------------------------------------------
(* The gateway handles a request.                                          *)

ServeList ==
  /\ listRequest.by # "none" /\ listRequest.asOf = NotServed
  /\ listRequest' = [listRequest EXCEPT !.asOf = Len(labelHistory)]
  /\ UNCHANGED <<route, drawn, page, generation, detailRequest, diffRequest, move, orphans,
                 confirmed, registry>>

ServeDetail ==
  /\ detailRequest # NoDetail /\ detailRequest.asOf = NotServed
  /\ detailRequest' = DetailOf(detailRequest.slug)
  /\ UNCHANGED <<route, drawn, page, generation, listRequest, diffRequest, move, orphans,
                 confirmed, registry>>

ServeMove ==
  /\ move.phase = "put" /\ move.answer = 0
  /\ SetLabel(move.slug, LabelName, move.to)
  /\ move' = [move EXCEPT !.answer = Len(labelHistory')]
  /\ UNCHANGED <<route, drawn, page, generation, listRequest, detailRequest, diffRequest, orphans,
                 confirmed>>

ServeOrphan ==
  /\ \E m \in orphans :
       /\ orphans' = orphans \ {m}
       /\ \/ SetLabel(m.slug, LabelName, m.to)
          \/ UNCHANGED registry
  /\ UNCHANGED <<route, drawn, page, generation, listRequest, detailRequest, diffRequest, move,
                 confirmed>>

-----------------------------------------------------------------------------
(* An answer arrives.  Mutant: whatever was started since.                 *)
AcceptsAny(kind) == TRUE

Accepts(kind) == generation = kind

(* The end of performLabelMove without its confirmation.                   *)
MoveUnconfirmed ==
  /\ page' = Unconfirmed(page)
  /\ move' = NoMove
  /\ RenderCurrent(page', NoMove)

ListArrives ==
  /\ listRequest.by # "none" /\ listRequest.asOf # NotServed
  /\ listRequest' = NoList
  /\ LET listed == [page EXCEPT !.loaded = TRUE, !.asOf = listRequest.asOf]
     IN CASE Accepts("list") /\ listRequest.by = "reload" ->
               /\ RequestDetail(move.slug)
               /\ page' = Selecting(listed, move.slug)
               /\ move' = [move EXCEPT !.phase = "detail"]
               /\ RenderCurrent(page', move')
          [] Accepts("list") /\ listRequest.by = "user" ->
               /\ page' = listed /\ RenderCurrent(page', move)
               /\ UNCHANGED <<generation, detailRequest, diffRequest, move>>
          [] ~Accepts("list") /\ listRequest.by = "reload" ->
               MoveUnconfirmed /\ UNCHANGED <<generation, detailRequest, diffRequest>>
          [] OTHER -> UNCHANGED <<drawn, page, generation, detailRequest, diffRequest, move>>
  /\ UNCHANGED <<route, orphans, confirmed, registry>>

ListFails ==
  /\ listRequest.by # "none"
  /\ listRequest' = NoList
  /\ IF listRequest.by = "reload" THEN MoveUnconfirmed
     ELSE /\ drawn' = IF Accepts("list") THEN ErrorState ELSE drawn
          /\ UNCHANGED <<page, move>>
  /\ UNCHANGED <<route, generation, detailRequest, diffRequest, orphans, confirmed, registry>>

(* Of a reload: the notice is set once the detail is drawn.                *)
NoticeOf(m) == [slug |-> m.slug, from |-> labelHistory[m.answer].from, to |-> m.to]

DetailArrives ==
  /\ detailRequest # NoDetail /\ detailRequest.asOf # NotServed
  /\ detailRequest' = NoDetail
  /\ LET accepted == Accepts("detail") /\ page.slug = detailRequest.slug
         shown == [page EXCEPT !.detail = detailRequest]
     IN CASE accepted /\ move.phase = "detail" ->
               /\ page' = [shown EXCEPT !.notice = NoticeOf(move)]
               /\ move' = NoMove /\ RenderCurrent(page', NoMove)
          [] accepted /\ move.phase # "detail" ->
               page' = shown /\ RenderCurrent(page', move) /\ UNCHANGED move
          [] ~accepted /\ move.phase = "detail" -> MoveUnconfirmed
          [] OTHER -> UNCHANGED <<drawn, page, move>>
  /\ UNCHANGED <<route, generation, listRequest, diffRequest, orphans, confirmed, registry>>

DetailFails ==
  /\ detailRequest # NoDetail
  /\ detailRequest' = NoDetail
  /\ IF move.phase = "detail" THEN MoveUnconfirmed
     ELSE /\ drawn' = IF Accepts("detail") /\ page.slug = detailRequest.slug THEN ErrorState
                      ELSE drawn
          /\ UNCHANGED <<page, move>>
  /\ UNCHANGED <<route, generation, listRequest, diffRequest, orphans, confirmed, registry>>

DiffAnswered ==
  /\ diffRequest # NoDetail
  /\ diffRequest' = NoDetail
  /\ IF Accepts("diff") /\ page.detail = diffRequest
     THEN \/ drawn' = Current(page, move # NoMove, "shown")
          \/ drawn' = [drawn EXCEPT !.diff = "failed"]
     ELSE UNCHANGED drawn
  /\ UNCHANGED <<route, page, generation, listRequest, detailRequest, move, orphans, confirmed,
                 registry>>

(* movePromptLabel: the answer names the version the label was moved from. *)
MoveAnswered ==
  /\ move.phase = "put" /\ move.answer # 0
  /\ confirmed' = [confirmed EXCEPT ![move.slug] = move.answer]
  /\ RefreshPrompts("reload", move.slug)
  /\ move' = [move EXCEPT !.phase = "list"]
  /\ UNCHANGED <<route, detailRequest, diffRequest, orphans, registry>>

(* The request failed on its way there, or its answer on the way back.     *)
Abandoned(m) == IF m.answer = 0 THEN {[slug |-> m.slug, to |-> m.to]} ELSE {}

MoveFails ==
  /\ move.phase = "put"
  /\ orphans' = orphans \cup Abandoned(move)
  /\ move' = NoMove
  /\ RenderCurrent(page, NoMove)
  /\ UNCHANGED <<route, page, generation, listRequest, detailRequest, diffRequest, confirmed,
                 registry>>

PromptsNetwork ==
  \/ ServeList \/ ServeDetail \/ ServeMove \/ ServeOrphan
  \/ ListArrives \/ ListFails \/ DetailArrives \/ DetailFails \/ DiffAnswered
  \/ MoveAnswered \/ MoveFails

-----------------------------------------------------------------------------
(* disposePrompts, and what the page's continuations still do.  What is    *)
(* left of the page is cleared when the screen is rendered again, before   *)
(* anything reads it.                                                      *)
DisposePrompts ==
  /\ generation' = "none"
  /\ listRequest' = NoList /\ detailRequest' = NoDetail /\ diffRequest' = NoDetail
  /\ orphans' = orphans \cup (IF move.phase = "put" THEN Abandoned(move) ELSE {})
  /\ move' = NoMove
  /\ page' = EmptyPage

(* renderPrompts.                                                          *)
ShowPrompts == RefreshPrompts("user", NoSlug)
=============================================================================
