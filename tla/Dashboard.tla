------------------------------ MODULE Dashboard -----------------------------
(***************************************************************************)
(* The dashboard (dashboard main.ts): one screen at a time, the user who   *)
(* clicks and navigates, the answers that arrive meanwhile, and another    *)
(* administrator who moves labels.                                         *)
(***************************************************************************)
EXTENDS PanelScreens, PromptsScreen

vars == <<route, drawn, panelState, promptsState, registry>>

Init ==
  /\ route = "overview" /\ drawn = Loading
  /\ selectedGroup \in Groups /\ charts = {}
  /\ loads = [p \in Panels |-> IF p = "overview" THEN {Load("none", OverviewParts)} ELSE {}]
  /\ PromptsInit

(* renderRoute, when the hash has changed: the active screen is disposed   *)
(* of, the new one drawn and its first load started.                       *)
PanelToPanel(to) ==
  /\ route \in Panels
  /\ loads' = Shown(Disposed(route), to)
  /\ charts' = charts \ {route, to}
  /\ drawn' = Loading
  /\ UNCHANGED promptsState

PanelToPrompts ==
  /\ route \in Panels
  /\ loads' = Disposed(route) /\ charts' = charts \ {route}
  /\ ShowPrompts
  /\ UNCHANGED <<detailRequest, diffRequest, move, orphans, confirmed>>

PromptsToPanel(to) ==
  /\ route = "prompts"
  /\ DisposePrompts /\ UNCHANGED confirmed
  /\ loads' = Shown(loads, to) /\ charts' = charts \ {to}
  /\ drawn' = Loading

Navigate ==
  /\ \/ PanelToPrompts /\ route' = "prompts"
     \/ \E to \in Panels : (PanelToPanel(to) \/ PromptsToPanel(to)) /\ route' = to
  /\ UNCHANGED <<selectedGroup, registry>>

AdminMoves ==
  /\ MayMove
  /\ \E s \in Slugs, v \in {1, 2} : SetLabel(s, LabelName, v)
  /\ UNCHANGED <<route, drawn, panelState, promptsState>>

User ==
  \/ Navigate
  \/ PanelUser /\ UNCHANGED <<promptsState, registry>>
  \/ PromptsUser /\ UNCHANGED panelState

Network ==
  \/ PanelNetwork /\ UNCHANGED <<promptsState, registry>>
  \/ PromptsNetwork /\ UNCHANGED panelState

Next == User \/ Network \/ AdminMoves

(* A request is answered, or its connection fails.                         *)
Spec == Init /\ [][Next]_vars /\ WF_vars(Network)

-----------------------------------------------------------------------------
(* No answer that was asked for before a label move is shown after the     *)
(* page learned of the move: what is on the screen, and what its buttons   *)
(* move, has seen it (prompts.ts selectPrompt, reloadPromptAfterMove).     *)
NeverBehindAConfirmedMove ==
  route = "prompts" /\ drawn.kind = "current" /\ drawn.detail # NoDetail =>
    drawn.detail.asOf >= confirmed[drawn.detail.slug]

(* The version the label was on when the i-th move was made.               *)
PointerBefore(i) ==
  LET same == {j \in 1 .. i - 1 : labelHistory[j].slug = labelHistory[i].slug}
  IN IF same = {} THEN 1
     ELSE labelHistory[CHOOSE j \in same : \A k \in same : k <= j].to

(* A notice tells a move that was made, from where it was made, and the    *)
(* list and the detail next to it were read after it, whoever else moved   *)
(* the label meanwhile (prompts.ts performLabelMove).                      *)
NoticeTellsTheMove ==
  LET shown == route = "prompts" /\ drawn.kind = "current"
  IN shown /\ drawn.notice # NoNotice =>
       \E i \in DOMAIN labelHistory :
         /\ labelHistory[i].slug = drawn.notice.slug
         /\ labelHistory[i].to = drawn.notice.to /\ PointerBefore(i) = drawn.notice.from
         /\ page.asOf >= i
         /\ drawn.detail.slug = drawn.notice.slug => drawn.detail.asOf >= i

(* A click is handled with the state behind the screen: the buttons drawn  *)
(* are those of the selected detail, none is drawn over a detail that the  *)
(* page still holds, and none can start a second move while one is under   *)
(* way (prompts.ts renderVersionCard, performLabelMove).  Nothing is said  *)
(* of the buttons after a move that failed.                                *)
ControlsAreOfTheDetail ==
  route = "prompts" =>
    IF drawn.kind = "current"
    THEN /\ drawn.detail = page.detail /\ drawn.slug = page.slug
         /\ move # NoMove => drawn.disabled
    ELSE page.detail = NoDetail

(* The data of a panel is labelled with the group it was asked for, the    *)
(* one selected, and no chart outlives the data it was made of             *)
(* (cost-explorer.ts refreshCostExplorer and its siblings).                *)
PanelShowsItsLoad ==
  /\ charts \subseteq {p \in Panels : route = p /\ drawn.kind = "data"}
  /\ route = "cost" /\ drawn.kind = "data" =>
       drawn.of = selectedGroup /\ drawn.labelled = selectedGroup

(* However many requests of a load are refused, the admin is asked for a   *)
(* token at most once (api.ts api).                                        *)
OnePromptPerLoad == \A p \in Panels : \A load \in loads[p] : load.prompts <= 1

(* A loading screen ends in data or an error, unless the user keeps acting.*)
LoadingEnds == []<>(drawn # Loading) \/ []<><<User>>_vars
=============================================================================
