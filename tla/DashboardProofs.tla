--------------------------- MODULE DashboardProofs --------------------------
(***************************************************************************)
(* What holds of the dashboard, for every set of prompts and of groups,    *)
(* any number of requests in a load and any number of label moves.         *)
(*                                                                         *)
(* Of the panels: only the screen that is shown loads anything, one load   *)
(* at a time, and it shows nothing else meanwhile; so what arrives last is *)
(* of the load started last.  Of the prompts screen: an answer that is     *)
(* accepted was asked for when no detail was on the screen, and a          *)
(* confirmed move takes the acceptance away from every answer asked for    *)
(* before it.  Of the registry: the history tells where every move began,  *)
(* so a notice tells a move that was made, from where it was made.         *)
(***************************************************************************)
EXTENDS Dashboard, SequenceTheorems, WellFoundedInduction, TLAPS

LoadRecord ==
  [group : Groups \cup {"none"}, fresh : Nat, again : Nat, prompted : BOOLEAN, prompts : Nat]

PanelTypes ==
  /\ route \in Routes /\ selectedGroup \in Groups /\ charts \subseteq Panels
  /\ loads \in [Panels -> SUBSET LoadRecord]

(* The loads in flight are of the route, which shows that it loads; the    *)
(* cost explorer's is of the selected group.                               *)
OneLoad ==
  \A p \in Panels : \A load \in loads[p] :
    /\ route = p /\ drawn = Loading
    /\ loads[p] = {load}
    /\ p = "cost" => load.group = selectedGroup

PromptedOnce ==
  \A p \in Panels : \A load \in loads[p] : load.prompts = IF load.prompted THEN 1 ELSE 0

(* Off the prompts screen nothing of it is under way.                      *)
PromptsQuiet ==
  route # "prompts" =>
    listRequest = NoList /\ detailRequest = NoDetail /\ diffRequest = NoDetail /\ move = NoMove

PanelInv == PanelTypes /\ OneLoad /\ PromptedOnce /\ PromptsQuiet /\ PanelShowsItsLoad

-----------------------------------------------------------------------------
(* The records of the prompts screen have their fields, whatever is in     *)
(* them.                                                                   *)
PageFields(p) ==
  p \in [loaded : {p.loaded}, asOf : {p.asOf}, slug : {p.slug}, detail : {p.detail},
         versions : {p.versions}, notice : {p.notice}]

MoveFields(m) ==
  m \in [slug : {m.slug}, from : {m.from}, to : {m.to}, phase : {m.phase}, answer : {m.answer}]

DrawnFields(d) ==
  d \in [kind : {d.kind}, list : {d.list}, slug : {d.slug}, detail : {d.detail},
         disabled : {d.disabled}, diff : {d.diff}, notice : {d.notice}]

Shapes ==
  /\ PageFields(page) /\ MoveFields(move)
  /\ listRequest \in [by : {listRequest.by}, asOf : {listRequest.asOf}]

(* What the page draws is of the page as it is.                            *)
DrawnInv ==
  /\ ControlsAreOfTheDetail
  /\ route = "prompts" /\ drawn.kind = "current" => DrawnFields(drawn)

(* A request whose answer will be accepted finds no detail on the page,    *)
(* and a reload is that of the move under way.                             *)
AcceptedFindsNoDetail ==
  /\ generation = "list" => page.detail = NoDetail
  /\ generation = "detail" /\ detailRequest # NoDetail => page.detail = NoDetail
  /\ listRequest.by = "reload" => move.phase = "list"

ControlsInv == Shapes /\ AcceptedFindsNoDetail /\ DrawnInv

(* A page and an answer it will accept have seen what was confirmed, which *)
(* the gateway has recorded.                                               *)
HistoryIsASequence == \E S : labelHistory \in Seq(S)

SlugsKnown ==
  /\ detailRequest # NoDetail => detailRequest.slug \in Slugs
  /\ page.detail # NoDetail => page.detail.slug \in Slugs
  /\ move # NoMove => move.slug \in Slugs

ConfirmedIsRecorded ==
  /\ confirmed \in [Slugs -> Nat] /\ move.answer \in Nat
  /\ move.answer <= Len(labelHistory)
  /\ \A s \in Slugs : confirmed[s] <= Len(labelHistory)

SeenWhatIsConfirmed ==
  /\ generation = "detail" /\ detailRequest # NoDetail /\ detailRequest.asOf # NotServed =>
       detailRequest.asOf >= confirmed[detailRequest.slug]
  /\ page.detail # NoDetail => page.detail.asOf >= confirmed[page.detail.slug]

FreshInv == HistoryIsASequence /\ SlugsKnown /\ ConfirmedIsRecorded /\ SeenWhatIsConfirmed

-----------------------------------------------------------------------------
(* A screen that has just been drawn: one load, which nobody was asked a   *)
(* token for.                                                              *)
LEMMA NewScreen ==
  ASSUME NEW p \in Panels, NEW load \in LoadRecord, ~load.prompted, load.prompts = 0,
         loads' = [q \in Panels |-> IF q = p THEN {load} ELSE {}],
         route' = p, drawn' = Loading, charts' = {}, selectedGroup' \in Groups,
         p = "cost" => load.group = selectedGroup'
  PROVE  PanelTypes' /\ OneLoad' /\ PromptedOnce' /\ PanelShowsItsLoad'
<1>1. PanelTypes'
  <2>1. \A q \in Panels : loads'[q] \in SUBSET LoadRecord OBVIOUS
  <2> QED BY <2>1 DEF PanelTypes, Routes
<1>2. OneLoad' BY DEF OneLoad
<1>3. PromptedOnce' BY DEF PromptedOnce
<1>4. PanelShowsItsLoad' BY DEF PanelShowsItsLoad, Loading
<1> QED BY <1>1, <1>2, <1>3, <1>4

(* The loads the screens start with.                                       *)
LEMMA LoadTyped ==
  ASSUME NEW group \in Groups \cup {"none"}, NEW parts \in Nat
  PROVE  /\ Load(group, parts) \in LoadRecord /\ Load(group, parts).group = group
         /\ ~Load(group, parts).prompted /\ Load(group, parts).prompts = 0
BY DEF Load, LoadRecord

(* Where a load is in flight, it is the only one, and there is no chart.   *)
LEMMA OnlyLoad ==
  ASSUME PanelInv, NEW p \in Panels, NEW load \in loads[p]
  PROVE  /\ load \in LoadRecord /\ route = p /\ drawn = Loading /\ charts = {}
         /\ loads = [q \in Panels |-> IF q = p THEN {load} ELSE {}]
<1>1. load \in LoadRecord BY DEF PanelInv, PanelTypes
<1>2. route = p /\ drawn = Loading /\ loads[p] = {load} BY DEF PanelInv, OneLoad
<1>3. charts = {} BY <1>2 DEF PanelInv, PanelShowsItsLoad, Loading
<1>4. \A q \in Panels : q # p => loads[q] = {} BY <1>2 DEF PanelInv, OneLoad
<1> QED BY <1>1, <1>2, <1>3, <1>4 DEF PanelInv, PanelTypes

(* Off a panel's screen it has neither a load nor a chart.                 *)
LEMMA ElsewhereNothing ==
  ASSUME PanelInv
  PROVE  /\ charts \subseteq {route}
         /\ \A q \in Panels : q # route => loads[q] = {}
BY DEF PanelInv, OneLoad, PanelShowsItsLoad

(* A load that has answers to come is replaced by what is left of it.      *)
LEMMA LoadGoesOn ==
  ASSUME PanelInv, NEW p \in Panels, NEW load \in loads[p], NEW rest \in LoadRecord,
         rest.group = load.group, rest.prompts = IF rest.prompted THEN 1 ELSE 0,
         loads' = [loads EXCEPT ![p] = (@ \ {load}) \cup {rest}],
         drawn' = drawn, charts' = charts, route' = route, selectedGroup' = selectedGroup
  PROVE  PanelTypes' /\ OneLoad' /\ PromptedOnce' /\ PanelShowsItsLoad'
<1>1. /\ load \in LoadRecord /\ route = p /\ drawn = Loading /\ charts = {}
      /\ loads = [q \in Panels |-> IF q = p THEN {load} ELSE {}]
  BY OnlyLoad
<1>2. loads' = [q \in Panels |-> IF q = p THEN {rest} ELSE {}] BY <1>1
<1>3. PanelTypes'
  <2>1. \A q \in Panels : loads'[q] \in SUBSET LoadRecord BY <1>2
  <2> QED BY <1>1, <1>2, <2>1 DEF PanelInv, PanelTypes, Routes
<1>4. OneLoad' BY <1>1, <1>2 DEF PanelInv, OneLoad
<1>5. PromptedOnce' BY <1>2 DEF PromptedOnce
<1>6. PanelShowsItsLoad' BY <1>1 DEF PanelShowsItsLoad, Loading
<1> QED BY <1>3, <1>4, <1>5, <1>6

(* A load that is over leaves the screen what it draws.                    *)
LEMMA LoadEnds ==
  ASSUME PanelInv, NEW p \in Panels, NEW load \in loads[p],
         loads' = [loads EXCEPT ![p] = @ \ {load}],
         route' = route, selectedGroup' = selectedGroup,
         charts' \subseteq {p}, drawn'.kind # "data" => charts' = {},
         p = "cost" /\ drawn'.kind = "data" =>
           drawn'.of = load.group /\ drawn'.labelled = selectedGroup
  PROVE  PanelTypes' /\ OneLoad' /\ PromptedOnce' /\ PanelShowsItsLoad'
<1>1. /\ route = p
      /\ loads = [q \in Panels |-> IF q = p THEN {load} ELSE {}]
  BY OnlyLoad
<1>2. \A q \in Panels : loads'[q] = {} BY <1>1
<1>3. PanelTypes' BY <1>1, <1>2 DEF PanelInv, PanelTypes
<1>4. OneLoad' /\ PromptedOnce' BY <1>2 DEF OneLoad, PromptedOnce
<1>5. p = "cost" => load.group = selectedGroup BY DEF PanelInv, OneLoad
<1>6. PanelShowsItsLoad' BY <1>1, <1>5 DEF PanelShowsItsLoad, Panels
<1> QED BY <1>3, <1>4, <1>6

-----------------------------------------------------------------------------
(* The panels' steps.                                                      *)

ScreensInv == PanelTypes /\ OneLoad /\ PromptedOnce /\ PanelShowsItsLoad

LEMMA RefreshIsNewScreen ==
  ASSUME PanelInv, NEW p \in Panels, NEW load \in LoadRecord, ~load.prompted, load.prompts = 0,
         route = p, route' = p, Refresh(p, load), selectedGroup' \in Groups,
         p = "cost" => load.group = selectedGroup'
  PROVE  ScreensInv'
<1>1. charts' = {} BY ElsewhereNothing DEF Refresh
<1>2. loads' = [q \in Panels |-> IF q = p THEN {load} ELSE {}]
  BY ElsewhereNothing DEF Refresh, Supersede, PanelInv, PanelTypes
<1>3. drawn' = Loading BY DEF Refresh
<1> QED BY <1>1, <1>2, <1>3, NewScreen DEF ScreensInv

LEMMA PanelUserKeeps == ASSUME PanelInv, PanelUser PROVE ScreensInv'
<1>1. OverviewParts \in Nat /\ 1 \in Nat BY PanelConstants
<1>2. selectedGroup \in Groups BY DEF PanelInv, PanelTypes
<1>3. CASE route = "overview" /\ RefreshOverview /\ route' = route
  <2> DEFINE load == Load("none", OverviewParts)
  <2>1. /\ load \in LoadRecord /\ load.group = "none" /\ ~load.prompted /\ load.prompts = 0
    BY <1>1, LoadTyped
  <2>2. Refresh("overview", load) /\ selectedGroup' = selectedGroup BY <1>3 DEF RefreshOverview
  <2> HIDE DEF load
  <2> QED BY <1>2, <1>3, <2>1, <2>2, RefreshIsNewScreen DEF Panels
<1>4. CASE route = "quality" /\ RefreshQuality /\ route' = route
  <2> DEFINE load == Load("none", 1)
  <2>1. /\ load \in LoadRecord /\ load.group = "none" /\ ~load.prompted /\ load.prompts = 0
    BY <1>1, LoadTyped
  <2>2. Refresh("quality", load) /\ selectedGroup' = selectedGroup BY <1>4 DEF RefreshQuality
  <2> HIDE DEF load
  <2> QED BY <1>2, <1>4, <2>1, <2>2, RefreshIsNewScreen DEF Panels
<1>5. ASSUME NEW group \in Groups, route = "cost", RefreshCost(group), route' = route
      PROVE  ScreensInv'
  <2> DEFINE load == Load(group, 1)
  <2>1. /\ load \in LoadRecord /\ load.group = group /\ ~load.prompted /\ load.prompts = 0
    BY <1>1, LoadTyped
  <2>2. Refresh("cost", load) /\ selectedGroup' = group BY <1>5 DEF RefreshCost
  <2> HIDE DEF load
  <2> QED BY <1>5, <2>1, <2>2, RefreshIsNewScreen DEF Panels
<1> QED BY <1>2, <1>3, <1>4, <1>5 DEF PanelUser, ClickRetry, ChooseGroup

(* The answers of a panel's requests.                                      *)
LEMMA PanelNetworkKeeps == ASSUME PanelInv, PanelNetwork PROVE ScreensInv'
<1>1. PICK p \in Panels : \E load \in loads[p] :
        PartAnswered(p, load) \/ PartFails(p, load) \/ PartUnauthorized(p, load)
  BY DEF PanelNetwork
<1>2. PICK load \in loads[p] :
        PartAnswered(p, load) \/ PartFails(p, load) \/ PartUnauthorized(p, load)
  BY <1>1
<1>3. /\ load \in LoadRecord /\ route = p /\ drawn = Loading /\ charts = {}
  BY OnlyLoad
<1>4. load.prompts = IF load.prompted THEN 1 ELSE 0 BY DEF PanelInv, PromptedOnce
<1>5. ASSUME NEW rest \in LoadRecord, rest.group = load.group, rest.prompts = load.prompts,
             rest.prompted = load.prompted, PartArrives(p, load, rest),
             route' = route, selectedGroup' = selectedGroup
      PROVE  ScreensInv'
  <2>1. CASE Outstanding(rest) > 0
    BY <1>4, <1>5, <2>1, LoadGoesOn DEF PartArrives, ScreensInv
  <2>2. CASE ~(Outstanding(rest) > 0)
    <3>1. loads' = [loads EXCEPT ![p] = @ \ {load}] /\ Drawn(p, load)
      BY <1>3, <1>5, <2>2 DEF PartArrives
    <3>2. charts' \subseteq {p} /\ drawn'.kind = "data"
      BY <1>3, <3>1 DEF Drawn, OverviewDrawn, QualityDrawn, CostDrawn, MayChart, Data
    <3>3. p = "cost" => drawn'.of = load.group /\ drawn'.labelled = selectedGroup
      BY <3>1 DEF Drawn, CostDrawn, Data
    <3> QED BY <1>5, <3>1, <3>2, <3>3, LoadEnds DEF ScreensInv
  <2> QED BY <2>1, <2>2
<1>6. CASE PartAnswered(p, load)
  <2>1. [load EXCEPT !.fresh = @ - 1] \in LoadRecord \/ ~(load.fresh > 0)
    BY <1>3 DEF LoadRecord
  <2>2. [load EXCEPT !.again = @ - 1] \in LoadRecord \/ ~(load.again > 0)
    BY <1>3 DEF LoadRecord
  <2>3. CASE load.fresh > 0 /\ PartArrives(p, load, [load EXCEPT !.fresh = @ - 1])
    BY <1>3, <1>5, <1>6, <2>1, <2>3 DEF LoadRecord, PartAnswered
  <2>4. CASE load.again > 0 /\ PartArrives(p, load, [load EXCEPT !.again = @ - 1])
    BY <1>3, <1>5, <1>6, <2>2, <2>4 DEF LoadRecord, PartAnswered
  <2> QED BY <1>6, <2>3, <2>4 DEF PartAnswered
<1>7. ASSUME LoadFails(p, load), route' = route, selectedGroup' = selectedGroup
      PROVE  ScreensInv'
  <2>1. /\ loads' = [loads EXCEPT ![p] = @ \ {load}] /\ charts' = {}
        /\ drawn' = ErrorState
    BY <1>3, <1>7 DEF LoadFails, ScreenAfterFailure
  <2>2. drawn'.kind # "data" BY <2>1 DEF ErrorState
  <2> QED BY <1>7, <2>1, <2>2, LoadEnds DEF ScreensInv
<1>8. CASE PartFails(p, load) BY <1>7, <1>8 DEF PartFails
<1>9. CASE PartUnauthorized(p, load)
  <2> DEFINE again == Resent(load)
             asked == [again EXCEPT !.prompted = TRUE, !.prompts = @ + 1]
  <2>1. /\ again \in LoadRecord /\ again.group = load.group /\ again.prompts = load.prompts
        /\ again.prompted = load.prompted
    <3>1. load.fresh - 1 \in Nat /\ load.again + 1 \in Nat
      BY <1>3, <1>9 DEF LoadRecord, PartUnauthorized
    <3>2. ASSUME NEW f \in Nat, NEW g \in Nat
          PROVE  [load EXCEPT !.fresh = f, !.again = g] \in LoadRecord
      BY <1>3 DEF LoadRecord
    <3>3. again \in LoadRecord BY <3>1, <3>2 DEF Resent
    <3>4. /\ again.group = load.group /\ again.prompts = load.prompts
          /\ again.prompted = load.prompted
      BY <1>3 DEF Resent, LoadRecord
    <3> QED BY <3>3, <3>4
  <2>2. /\ asked \in LoadRecord /\ asked.group = load.group /\ asked.prompts = load.prompts + 1
        /\ asked.prompted
    <3> HIDE DEF again
    <3>1. again.prompts + 1 \in Nat BY <2>1 DEF LoadRecord
    <3>2. ASSUME NEW f \in Nat
          PROVE  [again EXCEPT !.prompted = TRUE, !.prompts = f] \in LoadRecord
      BY <2>1 DEF LoadRecord
    <3>3. asked \in LoadRecord BY <3>1, <3>2
    <3>4. asked.group = again.group /\ asked.prompts = again.prompts + 1 /\ asked.prompted
      BY <2>1 DEF LoadRecord
    <3> HIDE DEF asked
    <3> QED BY <2>1, <3>3, <3>4
  <2>3. route' = route /\ selectedGroup' = selectedGroup BY <1>9 DEF PartUnauthorized
  <2>4. CASE load.prompted
    <3>1. loads' = [loads EXCEPT ![p] = (@ \ {load}) \cup {again}] /\ drawn' = drawn
          /\ charts' = charts
      BY <1>9, <2>4 DEF PartUnauthorized, TokenChanged
    <3> HIDE DEF again
    <3> QED BY <1>4, <2>1, <2>3, <3>1, LoadGoesOn DEF ScreensInv
  <2>5. CASE ~load.prompted
    <3>1. \/ /\ loads' = [loads EXCEPT ![p] = (@ \ {load}) \cup {asked}] /\ drawn' = drawn
             /\ charts' = charts
          \/ LoadFails(p, load)
      BY <1>9, <2>5 DEF PartUnauthorized, TokenChanged
    <3>2. asked.prompts = 1 BY <1>3, <1>4, <2>2, <2>5 DEF LoadRecord
    <3> HIDE DEF asked, again
    <3>3. CASE /\ loads' = [loads EXCEPT ![p] = (@ \ {load}) \cup {asked}] /\ drawn' = drawn
               /\ charts' = charts
      BY <2>2, <2>3, <3>2, <3>3, LoadGoesOn DEF ScreensInv
    <3> QED BY <1>7, <2>3, <3>1, <3>3
  <2> QED BY <2>4, <2>5
<1> QED BY <1>2, <1>6, <1>8, <1>9

(* The hash changes.                                                       *)
LEMMA NavigateKeeps == ASSUME PanelInv, Navigate PROVE ScreensInv'
<1>1. selectedGroup' = selectedGroup /\ selectedGroup \in Groups
  BY DEF Navigate, PanelInv, PanelTypes
<1>2. ASSUME NEW to \in Panels, route' = to, drawn' = Loading, charts' = {},
             NEW from, from = loads \/ from = Disposed(route), loads' = Shown(from, to),
             \A q \in Panels : q # to => from[q] = {}
      PROVE  ScreensInv'
  <2> DEFINE load == IF to = "cost" THEN Load(selectedGroup, 1)
                     ELSE Load("none", IF to = "overview" THEN OverviewParts ELSE 1)
  <2>1. /\ load \in LoadRecord /\ ~load.prompted /\ load.prompts = 0
        /\ to = "cost" => load.group = selectedGroup'
    BY <1>1, PanelConstants, LoadTyped
  <2>2. from \in [Panels -> SUBSET LoadRecord] BY <1>2 DEF PanelInv, PanelTypes, Disposed
  <2>3. loads' = [from EXCEPT ![to] = {load}] BY <1>2 DEF Shown, Supersede
  <2> HIDE DEF load
  <2>4. loads' = [q \in Panels |-> IF q = to THEN {load} ELSE {}] BY <1>2, <2>2, <2>3
  <2> QED BY <1>1, <1>2, <2>1, <2>4, NewScreen DEF ScreensInv
<1>3. ASSUME NEW to \in Panels, PanelToPanel(to), route' = to PROVE ScreensInv'
  <2>1. charts' = {} BY <1>3, ElsewhereNothing DEF PanelToPanel
  <2>2. \A q \in Panels : q # to => Disposed(route)[q] = {}
    BY ElsewhereNothing DEF Disposed, PanelInv, PanelTypes
  <2> QED BY <1>2, <1>3, <2>1, <2>2 DEF PanelToPanel
<1>4. ASSUME NEW to \in Panels, PromptsToPanel(to), route' = to PROVE ScreensInv'
  <2>1. charts' = {} BY <1>4, ElsewhereNothing DEF PromptsToPanel, PanelInv, PanelTypes, Panels
  <2>2. \A q \in Panels : loads[q] = {}
    BY <1>4, ElsewhereNothing DEF PromptsToPanel, Panels
  <2> QED BY <1>2, <1>4, <2>1, <2>2 DEF PromptsToPanel
<1>5. CASE PanelToPrompts /\ route' = "prompts"
  <2>1. charts' = {} BY <1>5, ElsewhereNothing DEF PanelToPrompts
  <2>2. \A q \in Panels : loads'[q] = {}
    BY <1>5, ElsewhereNothing DEF PanelToPrompts, Disposed, PanelInv, PanelTypes
  <2>3. loads' \in [Panels -> SUBSET LoadRecord]
    BY <1>5 DEF PanelToPrompts, Disposed, PanelInv, PanelTypes
  <2> QED
    BY <1>1, <1>5, <2>1, <2>2, <2>3
    DEF ScreensInv, PanelTypes, OneLoad, PromptedOnce, PanelShowsItsLoad, Routes
<1> QED BY <1>3, <1>4, <1>5 DEF Navigate

-----------------------------------------------------------------------------
(* A step of the prompts screen, or of what it left behind, leaves the     *)
(* route alone, and off the screen it draws nothing and starts nothing.    *)
LEMMA PromptsStepsAreQuiet ==
  ASSUME PromptsQuiet, PromptsUser \/ PromptsNetwork
  PROVE  /\ route' = route /\ PromptsQuiet'
         /\ route # "prompts" => drawn' = drawn
<1>1. CASE route = "prompts"
  <2>1. ASSUME PromptsUser PROVE route' = route
    BY <2>1 DEF PromptsUser, ClickRefresh, ClickRetryDiff, ClickPrompt, ToggleVersion, ClickMove
  <2>2. ASSUME PromptsNetwork PROVE route' = route
    BY <2>2 DEF PromptsNetwork, ServeList, ServeDetail, ServeMove, ServeOrphan, ListArrives,
      ListFails, DetailArrives, DetailFails, DiffAnswered, MoveAnswered, MoveFails
  <2> QED BY <1>1, <2>1, <2>2 DEF PromptsQuiet
<1>2. CASE route # "prompts"
  <2>1. /\ listRequest = NoList /\ detailRequest = NoDetail /\ diffRequest = NoDetail
        /\ move = NoMove
    BY <1>2 DEF PromptsQuiet
  <2>2. listRequest.by = "none" /\ move.phase = "none" BY <2>1 DEF NoList, NoMove
  <2>3. ServeOrphan
    BY <1>2, <2>1, <2>2 DEF PromptsUser, PromptsNetwork, ServeList, ServeDetail, ServeMove,
      ListArrives, ListFails, DetailArrives, DetailFails, DiffAnswered, MoveAnswered, MoveFails
  <2> QED BY <1>2, <2>1, <2>3 DEF ServeOrphan, PromptsQuiet
<1> QED BY <1>1, <1>2

(* Where the screen is the prompts', the panels have nothing to lose.      *)
LEMMA PromptsKeepPanels ==
  ASSUME PanelInv, PromptsUser \/ PromptsNetwork, UNCHANGED panelState
  PROVE  ScreensInv'
<1>1. route' = route /\ (route # "prompts" => drawn' = drawn)
  BY PromptsStepsAreQuiet DEF PanelInv
<1>2. loads' = loads /\ charts' = charts /\ selectedGroup' = selectedGroup BY DEF panelState
<1>3. CASE route # "prompts"
  BY <1>1, <1>2, <1>3
  DEF PanelInv, ScreensInv, PanelTypes, OneLoad, PromptedOnce, PanelShowsItsLoad
<1>4. CASE route = "prompts"
  <2>1. charts = {} BY <1>4, ElsewhereNothing DEF PanelInv, PanelTypes, Panels
  <2>2. \A q \in Panels : loads[q] = {} BY <1>4, ElsewhereNothing DEF Panels
  <2> QED
    BY <1>1, <1>2, <1>4, <2>1, <2>2
    DEF PanelInv, ScreensInv, PanelTypes, OneLoad, PromptedOnce, PanelShowsItsLoad
<1> QED BY <1>3, <1>4

LEMMA PanelInductive == PanelInv /\ [Next]_vars => PanelInv'
<1> SUFFICES ASSUME PanelInv, [Next]_vars PROVE PanelInv'
  OBVIOUS
<1>1. ASSUME ScreensInv', PromptsQuiet' PROVE PanelInv'
  BY <1>1 DEF ScreensInv, PanelInv
<1>2. CASE Navigate
  <2>1. PromptsQuiet'
    <3>1. CASE PanelToPrompts /\ route' = "prompts" BY <3>1 DEF PromptsQuiet
    <3>2. ASSUME NEW to \in Panels, PanelToPanel(to), route' = to PROVE PromptsQuiet'
      BY <3>2 DEF PanelToPanel, promptsState, PanelInv, PromptsQuiet, Panels
    <3>3. ASSUME NEW to \in Panels, PromptsToPanel(to), route' = to PROVE PromptsQuiet'
      BY <3>3 DEF PromptsToPanel, DisposePrompts, PromptsQuiet
    <3> QED BY <1>2, <3>1, <3>2, <3>3 DEF Navigate
  <2> QED BY <1>1, <1>2, <2>1, NavigateKeeps
<1>3. CASE PanelUser /\ UNCHANGED <<promptsState, registry>>
  <2>1. PromptsQuiet'
    BY <1>3 DEF PanelUser, ClickRetry, ChooseGroup, promptsState, PanelInv, PromptsQuiet
  <2> QED BY <1>1, <1>3, <2>1, PanelUserKeeps
<1>4. CASE PanelNetwork /\ UNCHANGED <<promptsState, registry>>
  <2>1. PromptsQuiet'
    BY <1>4 DEF PanelNetwork, PartAnswered, PartFails, PartUnauthorized, promptsState, PanelInv,
      PromptsQuiet
  <2> QED BY <1>1, <1>4, <2>1, PanelNetworkKeeps
<1>5. CASE (PromptsUser \/ PromptsNetwork) /\ UNCHANGED panelState
  BY <1>1, <1>5, PromptsStepsAreQuiet, PromptsKeepPanels DEF PanelInv
<1>6. CASE AdminMoves \/ UNCHANGED vars
  <2>1. UNCHANGED <<route, drawn, panelState, promptsState>> BY <1>6 DEF AdminMoves, vars
  <2> QED
    BY <2>1 DEF panelState, promptsState, PanelInv, PanelTypes, OneLoad, PromptedOnce, PromptsQuiet,
      PanelShowsItsLoad
<1> QED BY <1>2, <1>3, <1>4, <1>5, <1>6 DEF Next, User, Network

LEMMA PanelInitially == Init => PanelInv
<1> SUFFICES ASSUME Init PROVE PanelInv
  OBVIOUS
<1> DEFINE load == Load("none", OverviewParts)
<1>1. load \in LoadRecord /\ ~load.prompted /\ load.prompts = 0
  BY PanelConstants, LoadTyped
<1>2. loads = [p \in Panels |-> IF p = "overview" THEN {load} ELSE {}] BY DEF Init
<1> HIDE DEF load
<1>3. PanelTypes BY <1>1, <1>2 DEF Init, PanelTypes, Routes, Panels
<1>4. OneLoad /\ PromptedOnce BY <1>1, <1>2 DEF Init, OneLoad, PromptedOnce
<1>5. PromptsQuiet BY DEF Init, PromptsInit, PromptsQuiet
<1>6. PanelShowsItsLoad BY DEF Init, PanelShowsItsLoad
<1> QED BY <1>3, <1>4, <1>5, <1>6 DEF PanelInv

LEMMA PanelAlways == Spec => []PanelInv
BY PanelInitially, PanelInductive, PTL DEF Spec

(* Whatever is clicked while whatever is in flight, however many requests  *)
(* a load has: the data shown is of the load started last, under the group *)
(* that is selected (overview.ts, cost-explorer.ts, quality-drift.ts).     *)
THEOREM PanelsShowTheirLoad == Spec => []PanelShowsItsLoad
BY PanelAlways, PTL DEF PanelInv

(* However many requests of a load are refused, one prompt                 *)
(* (api.ts api).                                                           *)
THEOREM PromptsOnce == Spec => []OnePromptPerLoad
<1>1. PanelInv => OnePromptPerLoad BY DEF PanelInv, PromptedOnce, OnePromptPerLoad
<1> QED BY <1>1, PanelAlways, PTL

-----------------------------------------------------------------------------
(* The updates of the page, of the move and of the screen, field by field. *)

LEMMA SelectingClears ==
  ASSUME NEW p, PageFields(p), NEW slug
  PROVE  /\ PageFields(Selecting(p, slug))
         /\ Selecting(p, slug).slug = slug /\ Selecting(p, slug).detail = NoDetail
<1>1. PageFields(Selecting(p, slug)) BY DEF PageFields, Selecting
<1>2. Selecting(p, slug).slug = slug /\ Selecting(p, slug).detail = NoDetail
  BY DEF PageFields, Selecting
<1> QED BY <1>1, <1>2

LEMMA UnconfirmedClears ==
  ASSUME NEW p, PageFields(p)
  PROVE  PageFields(Unconfirmed(p)) /\ Unconfirmed(p).detail = NoDetail
<1>1. PageFields(Unconfirmed(p)) BY DEF PageFields, Unconfirmed
<1>2. Unconfirmed(p).detail = NoDetail BY DEF PageFields, Unconfirmed
<1> QED BY <1>1, <1>2

LEMMA PageUpdates ==
  ASSUME NEW p, PageFields(p), NEW new
  PROVE  /\ PageFields([p EXCEPT !.versions = new])
         /\ [p EXCEPT !.versions = new].detail = p.detail
         /\ [p EXCEPT !.versions = new].slug = p.slug
         /\ PageFields([p EXCEPT !.detail = new])
         /\ [p EXCEPT !.detail = new].detail = new /\ [p EXCEPT !.detail = new].slug = p.slug
         /\ PageFields([p EXCEPT !.notice = new])
         /\ [p EXCEPT !.notice = new].detail = p.detail /\ [p EXCEPT !.notice = new].slug = p.slug
         /\ PageFields([p EXCEPT !.loaded = TRUE, !.asOf = new])
         /\ [p EXCEPT !.loaded = TRUE, !.asOf = new].detail = p.detail
<1>1. /\ PageFields([p EXCEPT !.versions = new])
      /\ [p EXCEPT !.versions = new].detail = p.detail
      /\ [p EXCEPT !.versions = new].slug = p.slug
  BY DEF PageFields
<1>2. /\ PageFields([p EXCEPT !.detail = new])
      /\ [p EXCEPT !.detail = new].detail = new /\ [p EXCEPT !.detail = new].slug = p.slug
  BY DEF PageFields
<1>3. /\ PageFields([p EXCEPT !.notice = new])
      /\ [p EXCEPT !.notice = new].detail = p.detail /\ [p EXCEPT !.notice = new].slug = p.slug
  BY DEF PageFields
<1>4. PageFields([p EXCEPT !.loaded = TRUE, !.asOf = new]) BY DEF PageFields
<1>5. [p EXCEPT !.loaded = TRUE, !.asOf = new].detail = p.detail BY DEF PageFields
<1> QED BY <1>1, <1>2, <1>3, <1>4, <1>5

LEMMA MoveUpdates ==
  ASSUME NEW m, MoveFields(m), NEW new
  PROVE  /\ MoveFields([m EXCEPT !.phase = new]) /\ [m EXCEPT !.phase = new].phase = new
         /\ [m EXCEPT !.phase = new].slug = m.slug /\ [m EXCEPT !.phase = new].answer = m.answer
         /\ MoveFields([m EXCEPT !.answer = new]) /\ [m EXCEPT !.answer = new].phase = m.phase
         /\ [m EXCEPT !.answer = new].slug = m.slug /\ [m EXCEPT !.answer = new].answer = new
BY DEF MoveFields

LEMMA CurrentShows ==
  ASSUME NEW p, NEW disabled, NEW diff
  PROVE  /\ Current(p, disabled, diff).kind = "current"
         /\ Current(p, disabled, diff).slug = p.slug
         /\ Current(p, disabled, diff).detail = p.detail
         /\ Current(p, disabled, diff).disabled = disabled
         /\ DrawnFields(Current(p, disabled, diff))
BY DEF Current, DrawnFields

(* What the page draws of itself, and the screens without a prompt.        *)
LEMMA RenderedIsCurrent ==
  ASSUME NEW diff, drawn' = Current(page', move' # NoMove, diff)
  PROVE  DrawnInv'
<1>1. /\ drawn'.kind = "current" /\ drawn'.slug = page'.slug /\ drawn'.detail = page'.detail
      /\ DrawnFields(drawn)'
  BY CurrentShows DEF DrawnFields
<1>2. move' # NoMove => drawn'.disabled BY CurrentShows
<1> QED BY <1>1, <1>2 DEF DrawnInv, ControlsAreOfTheDetail

LEMMA BlankIsCurrent ==
  ASSUME drawn' = Loading \/ drawn' = ErrorState, page'.detail = NoDetail
  PROVE  DrawnInv'
BY DEF DrawnInv, ControlsAreOfTheDetail, Loading, ErrorState

LEMMA RefreshBlanks ==
  ASSUME Shapes, NEW by, NEW slug, RefreshPrompts(by, slug)
  PROVE  /\ PageFields(page)' /\ page'.detail = NoDetail /\ page'.slug = slug
         /\ generation' = "list" /\ DrawnInv'
         /\ listRequest' \in [by : {listRequest'.by}, asOf : {listRequest'.asOf}]
         /\ listRequest'.by = by
<1>1. page' = [page EXCEPT !.slug = slug, !.detail = NoDetail, !.versions = {},
                           !.notice = NoNotice]
  BY DEF RefreshPrompts
<1>2. PageFields(page') BY <1>1 DEF Shapes, PageFields
<1>3. page'.detail = NoDetail /\ page'.slug = slug BY <1>1 DEF Shapes, PageFields
<1>4. drawn' = Loading /\ generation' = "list" /\ listRequest' = [by |-> by, asOf |-> NotServed]
  BY DEF RefreshPrompts
<1>5. DrawnInv' BY <1>3, <1>4, BlankIsCurrent
<1> QED BY <1>2, <1>3, <1>4, <1>5 DEF PageFields

(* The end of a move without its confirmation, whatever was drawn.         *)
LEMMA UnconfirmedIsCurrent ==
  ASSUME Shapes, MoveUnconfirmed
  PROVE  PageFields(page)' /\ page'.detail = NoDetail /\ move' = NoMove /\ DrawnInv'
<1>1. page' = Unconfirmed(page) /\ move' = NoMove /\ drawn' = Current(page', NoMove # NoMove, "loading")
  BY DEF MoveUnconfirmed, RenderCurrent
<1>2. PageFields(page') /\ page'.detail = NoDetail
  BY <1>1, UnconfirmedClears DEF Shapes
<1>3. DrawnInv' BY <1>1, RenderedIsCurrent
<1> QED BY <1>1, <1>2, <1>3 DEF PageFields

LEMMA UnmovedIsTyped == MoveFields(NoMove) /\ NoMove.phase = "none" /\ NoList.by = "none"
BY DEF NoMove, MoveFields, NoList

(* The user's steps.                                                       *)
LEMMA ControlsOfUser == ASSUME ControlsInv, PromptsUser PROVE ControlsInv'
<1> USE DEF ControlsInv
<1>1. route = "prompts" BY DEF PromptsUser
<1>2. CASE ClickRefresh
  <2>1. /\ RefreshPrompts("user", NoSlug) /\ move' = move BY <1>2 DEF ClickRefresh
  <2>2. Shapes' BY <2>1, RefreshBlanks DEF Shapes, MoveFields
  <2>3. AcceptedFindsNoDetail' BY <2>1, RefreshBlanks DEF AcceptedFindsNoDetail
  <2> QED BY <2>1, <2>2, <2>3, RefreshBlanks
<1>3. CASE ClickRetryDiff
  <2>1. /\ page' = page /\ move' = move /\ listRequest' = listRequest /\ generation' = "diff"
        /\ drawn' = Current(page', move' # NoMove, "loading")
    BY <1>3 DEF ClickRetryDiff, LoadDiff, RenderCurrent
  <2>2. Shapes' /\ AcceptedFindsNoDetail'
    BY <2>1 DEF Shapes, AcceptedFindsNoDetail, PageFields, MoveFields
  <2> QED BY <2>1, <2>2, RenderedIsCurrent
<1>4. ASSUME NEW slug \in Slugs, ClickPrompt(slug) PROVE ControlsInv'
  <2> DEFINE selected == Selecting(page, slug)
  <2>1. /\ generation' = "detail" /\ listRequest' = listRequest
        /\ drawn' = Current(page', move' # NoMove, "loading")
        /\ page' = IF move.phase = "detail" THEN Unconfirmed(selected) ELSE selected
        /\ move' = IF move.phase = "detail" THEN NoMove ELSE move
    BY <1>4 DEF ClickPrompt, RequestDetail, RenderCurrent
  <2>2. PageFields(selected) /\ selected.detail = NoDetail
    <3>1. PageFields(page) BY DEF Shapes
    <3> QED BY <3>1, SelectingClears
  <2> HIDE DEF selected
  <2>3. PageFields(page') /\ page'.detail = NoDetail BY <2>1, <2>2, UnconfirmedClears
  <2>4. MoveFields(move') BY <2>1, UnmovedIsTyped DEF Shapes
  <2>5. Shapes' BY <2>1, <2>3, <2>4 DEF Shapes, PageFields, MoveFields
  <2>6. AcceptedFindsNoDetail' BY <2>1, <2>3 DEF AcceptedFindsNoDetail
  <2> QED BY <2>1, <2>5, <2>6, RenderedIsCurrent
<1>5. ASSUME NEW v \in {1, 2}, ToggleVersion(v) PROVE ControlsInv'
  <2>1. PICK next :
          /\ page' = [page EXCEPT !.versions = next]
          /\ IF Cardinality(next) = 2 THEN LoadDiff
             ELSE diffRequest' = NoDetail /\ UNCHANGED generation
    BY <1>5 DEF ToggleVersion
  <2>2. /\ move' = move /\ listRequest' = listRequest /\ detailRequest' = detailRequest
        /\ drawn' = Current(page', move' # NoMove, "loading")
        /\ generation' = generation \/ generation' = "diff"
    BY <1>5, <2>1 DEF ToggleVersion, RenderCurrent, LoadDiff
  <2>3. PageFields(page') /\ page'.detail = page.detail BY <2>1, PageUpdates DEF Shapes
  <2>4. Shapes' BY <2>2, <2>3 DEF Shapes, PageFields, MoveFields
  <2>5. AcceptedFindsNoDetail' BY <2>2, <2>3 DEF AcceptedFindsNoDetail
  <2> QED BY <2>2, <2>4, <2>5, RenderedIsCurrent
<1>6. ASSUME NEW v \in {1, 2}, ClickMove(v) PROVE ControlsInv'
  <2>1. move = NoMove
    BY <1>1, <1>6 DEF ClickMove, DrawnInv, ControlsAreOfTheDetail
  <2>2. listRequest.by # "reload" BY <2>1, UnmovedIsTyped DEF AcceptedFindsNoDetail
  <2>3. /\ page' = page /\ listRequest' = listRequest /\ detailRequest' = detailRequest
        /\ generation' = generation /\ drawn' = Current(page', move' # NoMove, "loading")
    BY <1>6 DEF ClickMove, RenderCurrent
  <2>4. MoveFields(move')
    BY <1>6 DEF ClickMove, MoveFields, Shapes
  <2>5. Shapes' BY <2>3, <2>4 DEF Shapes, PageFields, MoveFields
  <2>6. AcceptedFindsNoDetail' BY <2>2, <2>3 DEF AcceptedFindsNoDetail
  <2> QED BY <2>3, <2>5, <2>6, RenderedIsCurrent
<1> QED BY <1>2, <1>3, <1>4, <1>5, <1>6 DEF PromptsUser

(* The answers' steps.                                                     *)
LEMMA ControlsOfList ==
  ASSUME ControlsInv, ListArrives \/ ListFails PROVE ControlsInv'
<1> USE DEF ControlsInv
<1>1. listRequest' = NoList /\ NoList.by # "reload" /\ NoList \in [by : {NoList.by}, asOf : {NoList.asOf}]
  BY DEF ListArrives, ListFails, NoList
<1>2. ASSUME MoveUnconfirmed, generation' = generation, detailRequest' = detailRequest
      PROVE  ControlsInv'
  <2>1. PageFields(page)' /\ page'.detail = NoDetail /\ move' = NoMove /\ DrawnInv'
    BY <1>2, UnconfirmedIsCurrent
  <2>2. Shapes' BY <1>1, <2>1, UnmovedIsTyped DEF Shapes, MoveFields
  <2>3. AcceptedFindsNoDetail' BY <1>1, <2>1 DEF AcceptedFindsNoDetail
  <2> QED BY <2>1, <2>2, <2>3
<1>3. CASE ListArrives
  <2> DEFINE listed == [page EXCEPT !.loaded = TRUE, !.asOf = listRequest.asOf]
  <2>1. PageFields(listed) /\ listed.detail = page.detail
    <3>1. PageFields(page) BY DEF Shapes
    <3> QED BY <3>1, PageUpdates
  <2>2. CASE Accepts("list") /\ listRequest.by = "reload"
    <3>1. /\ RequestDetail(move.slug) /\ page' = Selecting(listed, move.slug)
          /\ move' = [move EXCEPT !.phase = "detail"] /\ RenderCurrent(page', move')
      BY <1>3, <2>2 DEF ListArrives
    <3> HIDE DEF listed
    <3>2. PageFields(page') /\ page'.detail = NoDetail BY <2>1, <3>1, SelectingClears
    <3>3. MoveFields(move')
      <4>1. MoveFields(move) BY DEF Shapes
      <4> QED BY <3>1, <4>1, MoveUpdates
    <3>4. DrawnInv' BY <3>1, RenderedIsCurrent DEF RenderCurrent
    <3>5. Shapes' BY <1>1, <3>2, <3>3 DEF Shapes, PageFields, MoveFields
    <3>6. AcceptedFindsNoDetail' BY <1>1, <3>1, <3>2 DEF AcceptedFindsNoDetail, RequestDetail
    <3> QED BY <3>4, <3>5, <3>6
  <2>3. CASE Accepts("list") /\ listRequest.by = "user"
    <3>1. /\ page' = listed /\ RenderCurrent(page', move)
          /\ UNCHANGED <<generation, detailRequest, diffRequest, move>>
      BY <1>3, <2>3 DEF ListArrives
    <3>2. page.detail = NoDetail BY <2>3 DEF Accepts, AcceptedFindsNoDetail
    <3> HIDE DEF listed
    <3>3. DrawnInv' BY <3>1, RenderedIsCurrent DEF RenderCurrent
    <3>4. Shapes' BY <1>1, <2>1, <3>1 DEF Shapes, PageFields, MoveFields
    <3>5. AcceptedFindsNoDetail' BY <1>1, <2>1, <3>1, <3>2 DEF AcceptedFindsNoDetail
    <3> QED BY <3>3, <3>4, <3>5
  <2>4. CASE ~Accepts("list") /\ listRequest.by = "reload"
    BY <1>2, <1>3, <2>4 DEF ListArrives
  <2>5. CASE ~Accepts("list") /\ listRequest.by # "reload"
    <3>1. UNCHANGED <<drawn, page, generation, detailRequest, diffRequest, move>> /\ route' = route
      BY <1>3, <2>5 DEF ListArrives
    <3> QED
      BY <1>1, <3>1 DEF Shapes, AcceptedFindsNoDetail, DrawnInv, ControlsAreOfTheDetail, PageFields,
        MoveFields, DrawnFields
  <2>6. CASE Accepts("list") /\ listRequest.by \notin {"user", "reload"}
    <3>1. UNCHANGED <<drawn, page, generation, detailRequest, diffRequest, move>> /\ route' = route
      BY <1>3, <2>6 DEF ListArrives
    <3> QED
      BY <1>1, <3>1 DEF Shapes, AcceptedFindsNoDetail, DrawnInv, ControlsAreOfTheDetail, PageFields,
        MoveFields, DrawnFields
  <2> QED BY <2>2, <2>3, <2>4, <2>5, <2>6
<1>4. CASE ListFails
  <2>1. CASE listRequest.by = "reload" BY <1>2, <1>4, <2>1 DEF ListFails
  <2>2. CASE listRequest.by # "reload"
    <3>1. /\ drawn' = IF Accepts("list") THEN ErrorState ELSE drawn
          /\ UNCHANGED <<route, page, move, generation, detailRequest>>
      BY <1>4, <2>2 DEF ListFails
    <3>2. Shapes' /\ AcceptedFindsNoDetail'
      BY <1>1, <3>1 DEF Shapes, AcceptedFindsNoDetail, PageFields, MoveFields
    <3>3. CASE Accepts("list")
      <4>1. page'.detail = NoDetail BY <3>1, <3>3 DEF Accepts, AcceptedFindsNoDetail
      <4>2. DrawnInv' BY <3>1, <3>3, <4>1, BlankIsCurrent
      <4> QED BY <3>2, <4>2
    <3>4. CASE ~Accepts("list")
      BY <3>1, <3>2, <3>4 DEF DrawnInv, ControlsAreOfTheDetail, DrawnFields
    <3> QED BY <3>3, <3>4
  <2> QED BY <2>1, <2>2
<1> QED BY <1>3, <1>4

LEMMA ControlsOfDetail ==
  ASSUME ControlsInv, DetailArrives \/ DetailFails PROVE ControlsInv'
<1> USE DEF ControlsInv
<1>1. /\ detailRequest # NoDetail /\ detailRequest' = NoDetail
      /\ UNCHANGED <<route, generation, listRequest, diffRequest>>
  BY DEF DetailArrives, DetailFails
<1>2. ASSUME MoveUnconfirmed, move.phase = "detail" PROVE ControlsInv'
  <2>1. PageFields(page)' /\ page'.detail = NoDetail /\ move' = NoMove /\ DrawnInv'
    BY <1>2, UnconfirmedIsCurrent
  <2>2. Shapes' BY <1>1, <2>1, UnmovedIsTyped DEF Shapes, MoveFields
  <2>3. AcceptedFindsNoDetail' BY <1>1, <1>2, <2>1 DEF AcceptedFindsNoDetail
  <2> QED BY <2>1, <2>2, <2>3
<1>3. ASSUME UNCHANGED <<drawn, page, move>> PROVE ControlsInv'
  BY <1>1, <1>3 DEF Shapes, AcceptedFindsNoDetail, DrawnInv, ControlsAreOfTheDetail, PageFields,
    MoveFields, DrawnFields
<1>4. CASE DetailArrives
  <2> DEFINE accepted == Accepts("detail") /\ page.slug = detailRequest.slug
             shown == [page EXCEPT !.detail = detailRequest]
             noticed == [shown EXCEPT !.notice = NoticeOf(move)]
  <2>1. PageFields(shown) /\ PageFields(noticed)
    <3>1. PageFields(page) BY DEF Shapes
    <3>2. PageFields(shown) BY <3>1, PageUpdates
    <3> HIDE DEF shown
    <3> QED BY <3>2, PageUpdates
  <2>2. CASE accepted
    <3>1. /\ page' = shown \/ page' = noticed
          /\ RenderCurrent(page', move')
          /\ move' \in {move, NoMove} /\ (move' # move => move.phase = "detail")
      <4>1. CASE move.phase = "detail" BY <1>4, <2>2, <4>1 DEF DetailArrives
      <4>2. CASE move.phase # "detail" BY <1>4, <2>2, <4>2 DEF DetailArrives, RenderCurrent
      <4> QED BY <4>1, <4>2
    <3> HIDE DEF shown, noticed
    <3>2. DrawnInv' BY <3>1, RenderedIsCurrent DEF RenderCurrent
    <3>3. Shapes' BY <1>1, <2>1, <3>1, UnmovedIsTyped DEF Shapes, PageFields, MoveFields
    <3>4. AcceptedFindsNoDetail' BY <1>1, <2>2, <3>1 DEF AcceptedFindsNoDetail, Accepts
    <3> QED BY <3>2, <3>3, <3>4
  <2>3. CASE ~accepted /\ move.phase = "detail" BY <1>2, <1>4, <2>3 DEF DetailArrives
  <2>4. CASE ~accepted /\ move.phase # "detail" BY <1>3, <1>4, <2>4 DEF DetailArrives
  <2> QED BY <2>2, <2>3, <2>4
<1>5. CASE DetailFails
  <2>1. CASE move.phase = "detail" BY <1>2, <1>5, <2>1 DEF DetailFails
  <2>2. CASE move.phase # "detail"
    <3>1. /\ drawn' = IF Accepts("detail") /\ page.slug = detailRequest.slug THEN ErrorState
                      ELSE drawn
          /\ UNCHANGED <<page, move>>
      BY <1>5, <2>2 DEF DetailFails
    <3>2. CASE Accepts("detail") /\ page.slug = detailRequest.slug
      <4>1. page'.detail = NoDetail BY <1>1, <3>1, <3>2 DEF Accepts, AcceptedFindsNoDetail
      <4>2. DrawnInv' BY <3>1, <3>2, <4>1, BlankIsCurrent
      <4> QED
        BY <1>1, <3>1, <4>2 DEF Shapes, AcceptedFindsNoDetail, PageFields, MoveFields
    <3>3. CASE ~(Accepts("detail") /\ page.slug = detailRequest.slug)
      BY <1>3, <3>1, <3>3
    <3> QED BY <3>2, <3>3
  <2> QED BY <2>1, <2>2
<1> QED BY <1>4, <1>5

LEMMA ControlsOfMove ==
  ASSUME ControlsInv, ServeMove \/ MoveAnswered \/ MoveFails PROVE ControlsInv'
<1> USE DEF ControlsInv
<1>1. move.phase = "put" /\ move # NoMove /\ listRequest.by # "reload"
  BY UnmovedIsTyped DEF ServeMove, MoveAnswered, MoveFails, AcceptedFindsNoDetail
<1>2. CASE ServeMove
  <2>1. /\ UNCHANGED <<route, drawn, page, generation, listRequest, detailRequest>>
        /\ move' = [move EXCEPT !.answer = Len(labelHistory')]
    BY <1>2 DEF ServeMove
  <2>2. MoveFields(move') /\ move'.phase = "put"
    <3>1. MoveFields(move) BY DEF Shapes
    <3> QED BY <1>1, <2>1, <3>1, MoveUpdates
  <2>3. move' # NoMove BY <2>2, UnmovedIsTyped
  <2>4. Shapes' /\ AcceptedFindsNoDetail'
    BY <1>1, <2>1, <2>2 DEF Shapes, AcceptedFindsNoDetail, PageFields, MoveFields
  <2>5. DrawnInv'
    BY <1>1, <2>1, <2>3 DEF DrawnInv, ControlsAreOfTheDetail, DrawnFields
  <2> QED BY <2>4, <2>5
<1>3. CASE MoveAnswered
  <2>1. /\ RefreshPrompts("reload", move.slug) /\ move' = [move EXCEPT !.phase = "list"]
    BY <1>3 DEF MoveAnswered
  <2>2. MoveFields(move') /\ move'.phase = "list"
    <3>1. MoveFields(move) BY DEF Shapes
    <3> QED BY <2>1, <3>1, MoveUpdates
  <2>3. Shapes' BY <2>1, <2>2, RefreshBlanks DEF Shapes, MoveFields
  <2>4. AcceptedFindsNoDetail' BY <2>1, <2>2, RefreshBlanks DEF AcceptedFindsNoDetail
  <2> QED BY <2>1, <2>3, <2>4, RefreshBlanks
<1>4. CASE MoveFails
  <2>1. /\ UNCHANGED <<page, generation, listRequest, detailRequest>> /\ move' = NoMove
        /\ drawn' = Current(page, NoMove # NoMove, "loading")
    BY <1>4 DEF MoveFails, RenderCurrent
  <2>2. Shapes' /\ AcceptedFindsNoDetail'
    BY <1>1, <2>1, UnmovedIsTyped DEF Shapes, AcceptedFindsNoDetail, PageFields, MoveFields
  <2>3. DrawnInv' BY <2>1, RenderedIsCurrent
  <2> QED BY <2>2, <2>3
<1> QED BY <1>2, <1>3, <1>4

LEMMA ControlsOfRequests ==
  ASSUME ControlsInv, PromptsQuiet, ServeList \/ ServeDetail \/ ServeOrphan \/ DiffAnswered
  PROVE  ControlsInv'
<1> USE DEF ControlsInv
<1>1. UNCHANGED <<route, page, generation, move>>
  BY DEF ServeList, ServeDetail, ServeOrphan, DiffAnswered
<1>2. Shapes'
  <2>1. CASE ServeList
    <3>1. listRequest' = [listRequest EXCEPT !.asOf = Len(labelHistory)] BY <2>1 DEF ServeList
    <3>2. listRequest' \in [by : {listRequest'.by}, asOf : {listRequest'.asOf}]
      BY <3>1 DEF Shapes
    <3> QED BY <1>1, <3>2 DEF Shapes, PageFields, MoveFields
  <2>2. CASE ServeDetail \/ ServeOrphan \/ DiffAnswered
    BY <1>1, <2>2 DEF Shapes, PageFields, MoveFields, ServeDetail, ServeOrphan, DiffAnswered
  <2> QED BY <2>1, <2>2
<1>3. AcceptedFindsNoDetail'
  <2>1. CASE ServeList
    <3>1. listRequest' = [listRequest EXCEPT !.asOf = Len(labelHistory)] BY <2>1 DEF ServeList
    <3>2. listRequest'.by = listRequest.by BY <3>1 DEF Shapes
    <3> QED BY <1>1, <2>1, <3>2 DEF AcceptedFindsNoDetail, ServeList
  <2>2. CASE ServeDetail
    BY <1>1, <2>2 DEF AcceptedFindsNoDetail, ServeDetail
  <2>3. CASE ServeOrphan \/ DiffAnswered
    BY <1>1, <2>3 DEF AcceptedFindsNoDetail, ServeOrphan, DiffAnswered
  <2> QED BY <2>1, <2>2, <2>3
<1>4. DrawnInv'
  <2>1. CASE drawn' = drawn BY <1>1, <2>1 DEF DrawnInv, ControlsAreOfTheDetail, DrawnFields
  <2>2. CASE drawn' = Current(page, move # NoMove, "shown") BY <1>1, <2>2, RenderedIsCurrent
  <2>3. CASE /\ drawn' = [drawn EXCEPT !.diff = "failed"]
             /\ diffRequest # NoDetail /\ page.detail = diffRequest
    <3>1. route = "prompts" BY <2>3 DEF PromptsQuiet
    <3>2. drawn.kind = "current" /\ DrawnFields(drawn)
      BY <2>3, <3>1 DEF DrawnInv, ControlsAreOfTheDetail
    <3>3. /\ drawn'.kind = drawn.kind /\ drawn'.slug = drawn.slug /\ drawn'.detail = drawn.detail
          /\ drawn'.disabled = drawn.disabled
      BY <2>3, <3>2 DEF DrawnFields
    <3>4. DrawnFields(drawn') BY <2>3, <3>2 DEF DrawnFields
    <3> QED
      BY <1>1, <3>1, <3>2, <3>3, <3>4 DEF DrawnInv, ControlsAreOfTheDetail, DrawnFields
  <2> QED BY <2>1, <2>2, <2>3 DEF ServeList, ServeDetail, ServeOrphan, DiffAnswered
<1> QED BY <1>2, <1>3, <1>4

LEMMA ControlsInductive ==
  PanelInv /\ ControlsInv /\ [Next]_vars => ControlsInv'
<1> SUFFICES ASSUME PanelInv, ControlsInv, [Next]_vars PROVE ControlsInv'
  OBVIOUS
<1>1. ASSUME UNCHANGED promptsState, route' = route, route # "prompts" \/ drawn' = drawn
      PROVE  ControlsInv'
  BY <1>1 DEF promptsState, ControlsInv, Shapes, AcceptedFindsNoDetail, DrawnInv,
    ControlsAreOfTheDetail, PageFields, MoveFields, DrawnFields
<1>2. CASE PanelUser /\ UNCHANGED <<promptsState, registry>>
  <2>1. route \in Panels /\ route' = route BY <1>2 DEF PanelUser, ClickRetry, ChooseGroup, Panels
  <2> QED BY <1>1, <1>2, <2>1 DEF Panels
<1>3. CASE PanelNetwork /\ UNCHANGED <<promptsState, registry>>
  <2>1. route \in Panels BY <1>3 DEF PanelNetwork, PanelInv, OneLoad
  <2>2. route' = route
    BY <1>3 DEF PanelNetwork, PartAnswered, PartFails, PartUnauthorized
  <2> QED BY <1>1, <1>3, <2>1, <2>2 DEF Panels
<1>4. CASE AdminMoves \/ UNCHANGED vars BY <1>1, <1>4 DEF AdminMoves, vars
<1>5. CASE PromptsUser \/ PromptsNetwork
  BY <1>5, ControlsOfUser, ControlsOfList, ControlsOfDetail, ControlsOfMove, ControlsOfRequests
  DEF PromptsNetwork, PanelInv
<1>6. CASE Navigate
  <2>1. ASSUME NEW to \in Panels, PanelToPanel(to), route' = to PROVE ControlsInv'
    BY <2>1 DEF PanelToPanel, promptsState, Panels, ControlsInv, Shapes, AcceptedFindsNoDetail,
      DrawnInv, ControlsAreOfTheDetail, PageFields, MoveFields
  <2>2. ASSUME NEW to \in Panels, PromptsToPanel(to), route' = to PROVE ControlsInv'
    <3>1. /\ page' = EmptyPage /\ move' = NoMove /\ listRequest' = NoList /\ generation' = "none"
      BY <2>2 DEF PromptsToPanel, DisposePrompts
    <3>2. PageFields(EmptyPage) /\ EmptyPage.detail = NoDetail BY DEF EmptyPage, PageFields
    <3>3. NoList \in [by : {NoList.by}, asOf : {NoList.asOf}] BY DEF NoList
    <3>4. Shapes' BY <3>1, <3>2, <3>3, UnmovedIsTyped DEF Shapes, PageFields, MoveFields
    <3>5. AcceptedFindsNoDetail' BY <3>1, UnmovedIsTyped DEF AcceptedFindsNoDetail
    <3>6. DrawnInv' BY <2>2 DEF DrawnInv, ControlsAreOfTheDetail, Panels
    <3> QED BY <3>4, <3>5, <3>6 DEF ControlsInv
  <2>3. CASE PanelToPrompts /\ route' = "prompts"
    <3>1. RefreshPrompts("user", NoSlug) /\ move' = move
      BY <2>3 DEF PanelToPrompts, ShowPrompts
    <3>2. Shapes' BY <3>1, RefreshBlanks DEF ControlsInv, Shapes, MoveFields
    <3>3. AcceptedFindsNoDetail' BY <3>1, RefreshBlanks DEF ControlsInv, AcceptedFindsNoDetail
    <3> QED BY <3>1, <3>2, <3>3, RefreshBlanks DEF ControlsInv
  <2> QED BY <1>6, <2>1, <2>2, <2>3 DEF Navigate
<1> QED BY <1>2, <1>3, <1>4, <1>5, <1>6 DEF Next, User, Network

LEMMA ControlsInitially == Init => ControlsInv
<1> SUFFICES ASSUME Init PROVE ControlsInv
  OBVIOUS
<1>1. /\ page = EmptyPage /\ move = NoMove /\ listRequest = NoList /\ generation = "none"
      /\ route = "overview"
  BY DEF Init, PromptsInit
<1>2. PageFields(EmptyPage) BY DEF EmptyPage, PageFields
<1>3. NoList \in [by : {NoList.by}, asOf : {NoList.asOf}] BY DEF NoList
<1> QED
  BY <1>1, <1>2, <1>3, UnmovedIsTyped
  DEF ControlsInv, Shapes, AcceptedFindsNoDetail, DrawnInv, ControlsAreOfTheDetail

LEMMA ControlsAlways == Spec => []ControlsInv
BY ControlsInitially, ControlsInductive, PanelAlways, PTL DEF Spec

(* Whatever is clicked, answered late or abandoned: a click is handled     *)
(* with the detail its button was drawn for, and no move can be started    *)
(* while one is under way (prompts.ts renderVersionCard,                   *)
(* performLabelMove).                                                      *)
THEOREM ClicksMeetTheirDetail == Spec => []ControlsAreOfTheDetail
BY ControlsAlways, PTL DEF ControlsInv, DrawnInv

-----------------------------------------------------------------------------
(* The history only grows.                                                 *)
LEMMA HistoryGrows ==
  ASSUME HistoryIsASequence, NEW slug, NEW label, NEW version, SetLabel(slug, label, version)
  PROVE  /\ HistoryIsASequence' /\ Len(labelHistory) \in Nat
         /\ Len(labelHistory') = Len(labelHistory) + 1
<1>1. PICK S : labelHistory \in Seq(S) BY DEF HistoryIsASequence
<1> DEFINE move1 == Moved(slug, label, version)
           T == S \cup {move1}
<1>2. labelHistory \in Seq(T) BY <1>1, SeqMonotonic
<1>3. labelHistory' = Append(labelHistory, move1) BY DEF SetLabel
<1> HIDE DEF move1
<1>4. labelHistory' \in Seq(T) /\ Len(labelHistory') = Len(labelHistory) + 1
  BY <1>2, <1>3, AppendProperties
<1>5. Len(labelHistory) \in Nat BY <1>2
<1> QED BY <1>4, <1>5 DEF HistoryIsASequence

LEMMA HistoryStands ==
  ASSUME HistoryIsASequence, labelHistory' = labelHistory
  PROVE  /\ HistoryIsASequence' /\ Len(labelHistory) \in Nat
         /\ Len(labelHistory') = Len(labelHistory)
<1>1. PICK S : labelHistory \in Seq(S) BY DEF HistoryIsASequence
<1>2. Len(labelHistory) \in Nat BY <1>1
<1> QED BY <1>1, <1>2 DEF HistoryIsASequence

(* A step that starts no request for a detail, shows none and confirms     *)
(* nothing.                                                                *)
LEMMA FreshUndisturbed ==
  ASSUME FreshInv, HistoryIsASequence', Len(labelHistory) \in Nat, Len(labelHistory') \in Nat,
         Len(labelHistory') >= Len(labelHistory), confirmed' = confirmed,
         detailRequest' \in {detailRequest, NoDetail},
         page'.detail \in {page.detail, NoDetail},
         generation' = "detail" /\ detailRequest' # NoDetail => generation = "detail",
         \/ move' \in {move, NoMove}
         \/ move # NoMove /\ move'.slug = move.slug /\ move'.answer = move.answer
  PROVE  FreshInv'
<1> USE DEF FreshInv
<1>1. move'.answer \in {move.answer, 0} BY DEF NoMove
<1>2. SlugsKnown' BY DEF SlugsKnown
<1>3. ConfirmedIsRecorded' BY <1>1 DEF ConfirmedIsRecorded
<1>4. SeenWhatIsConfirmed' BY DEF SeenWhatIsConfirmed
<1> QED BY <1>2, <1>3, <1>4

LEMMA FreshOfUser ==
  ASSUME ControlsInv, FreshInv, PromptsUser PROVE FreshInv'
<1>1. labelHistory' = labelHistory /\ confirmed' = confirmed
  BY DEF PromptsUser, ClickRefresh, ClickRetryDiff, ClickPrompt, ToggleVersion, ClickMove, registry
<1>2. /\ HistoryIsASequence' /\ Len(labelHistory) \in Nat
      /\ Len(labelHistory') = Len(labelHistory)
  BY <1>1, HistoryStands DEF FreshInv
<1>3. Shapes /\ PageFields(page) /\ MoveFields(move) BY DEF ControlsInv, Shapes
<1>4. CASE ClickRefresh
  <2>1. /\ RefreshPrompts("user", NoSlug) /\ move' = move /\ detailRequest' = detailRequest
    BY <1>4 DEF ClickRefresh
  <2>2. page'.detail = NoDetail /\ generation' = "list" BY <1>3, <2>1, RefreshBlanks
  <2> QED BY <1>1, <1>2, <2>1, <2>2, FreshUndisturbed
<1>5. CASE ClickRetryDiff
  BY <1>1, <1>2, <1>5, FreshUndisturbed DEF ClickRetryDiff, LoadDiff
<1>6. ASSUME NEW slug \in Slugs, ClickPrompt(slug) PROVE FreshInv'
  <2> DEFINE selected == Selecting(page, slug)
  <2>1. /\ detailRequest' = DetailWanted(slug) /\ move' \in {move, NoMove}
        /\ page' \in {selected, Unconfirmed(selected)}
    BY <1>6 DEF ClickPrompt, RequestDetail
  <2>2. PageFields(selected) /\ selected.detail = NoDetail BY <1>3, SelectingClears
  <2> HIDE DEF selected
  <2>3. page'.detail = NoDetail BY <2>1, <2>2, UnconfirmedClears
  <2>4. detailRequest'.slug = slug /\ detailRequest'.asOf = NotServed
    BY <2>1 DEF DetailWanted
  <2>5. SlugsKnown' BY <2>1, <2>3, <2>4 DEF FreshInv, SlugsKnown
  <2>6. ConfirmedIsRecorded'
    BY <1>1, <2>1 DEF FreshInv, ConfirmedIsRecorded, NoMove
  <2>7. SeenWhatIsConfirmed' BY <2>3, <2>4 DEF SeenWhatIsConfirmed
  <2> QED BY <1>2, <2>5, <2>6, <2>7 DEF FreshInv
<1>7. ASSUME NEW v \in {1, 2}, ToggleVersion(v) PROVE FreshInv'
  <2>1. PICK next :
          /\ page' = [page EXCEPT !.versions = next]
          /\ IF Cardinality(next) = 2 THEN LoadDiff
             ELSE diffRequest' = NoDetail /\ UNCHANGED generation
    BY <1>7 DEF ToggleVersion
  <2>2. page'.detail = page.detail BY <1>3, <2>1, PageUpdates
  <2>3. generation' \in {generation, "diff"} BY <2>1 DEF LoadDiff
  <2> QED BY <1>1, <1>2, <1>7, <2>2, <2>3, FreshUndisturbed DEF ToggleVersion
<1>8. ASSUME NEW v \in {1, 2}, ClickMove(v) PROVE FreshInv'
  <2>1. page.detail # NoDetail
    BY <1>8 DEF PromptsUser, ClickMove, ControlsInv, DrawnInv, ControlsAreOfTheDetail
  <2>2. \/ move' = move
        \/ move'.slug = page.detail.slug /\ move'.answer = 0
    BY <1>8 DEF ClickMove
  <2>3. UNCHANGED <<page, generation, detailRequest>> BY <1>8 DEF ClickMove
  <2>4. SlugsKnown' BY <2>1, <2>2, <2>3 DEF FreshInv, SlugsKnown
  <2>5. ConfirmedIsRecorded' BY <1>1, <1>2, <2>2 DEF FreshInv, ConfirmedIsRecorded
  <2>6. SeenWhatIsConfirmed' BY <1>1, <2>3 DEF FreshInv, SeenWhatIsConfirmed
  <2> QED BY <1>2, <2>4, <2>5, <2>6 DEF FreshInv
<1> QED BY <1>4, <1>5, <1>6, <1>7, <1>8 DEF PromptsUser

(* The steps of the network that neither change the registry nor answer a  *)
(* move.                                                                   *)
LEMMA FreshOfAnswers ==
  ASSUME ControlsInv, FreshInv,
         ServeList \/ ServeDetail \/ ListArrives \/ ListFails \/ DetailArrives \/ DetailFails
           \/ DiffAnswered \/ MoveFails
  PROVE  FreshInv'
<1>1. labelHistory' = labelHistory /\ confirmed' = confirmed
  BY DEF ServeList, ServeDetail, ListArrives, ListFails, DetailArrives, DetailFails, DiffAnswered,
    MoveFails, registry
<1>2. /\ HistoryIsASequence' /\ Len(labelHistory) \in Nat
      /\ Len(labelHistory') = Len(labelHistory)
  BY <1>1, HistoryStands DEF FreshInv
<1>3. Shapes /\ PageFields(page) /\ MoveFields(move) BY DEF ControlsInv, Shapes
<1>4. ASSUME MoveUnconfirmed PROVE page'.detail = NoDetail /\ move' = NoMove
  BY <1>3, <1>4, UnconfirmedClears DEF MoveUnconfirmed
<1>5. CASE ServeList \/ DiffAnswered \/ MoveFails
  BY <1>1, <1>2, <1>5, FreshUndisturbed DEF ServeList, DiffAnswered, MoveFails
<1>6. CASE ServeDetail
  <2>1. /\ detailRequest # NoDetail /\ detailRequest' = DetailOf(detailRequest.slug)
        /\ UNCHANGED <<page, generation, move>>
    BY <1>6 DEF ServeDetail
  <2>2. detailRequest'.slug = detailRequest.slug /\ detailRequest'.asOf = Len(labelHistory)
    BY <2>1 DEF DetailOf
  <2>3. SlugsKnown' BY <2>1, <2>2 DEF FreshInv, SlugsKnown
  <2>4. ConfirmedIsRecorded' BY <1>1, <2>1 DEF FreshInv, ConfirmedIsRecorded
  <2>5. SeenWhatIsConfirmed'
    <3>1. detailRequest.slug \in Slugs BY <2>1 DEF FreshInv, SlugsKnown
    <3>2. Len(labelHistory) >= confirmed[detailRequest.slug]
      BY <1>2, <3>1 DEF FreshInv, ConfirmedIsRecorded
    <3> QED BY <1>1, <2>1, <2>2, <3>2 DEF FreshInv, SeenWhatIsConfirmed
  <2> QED BY <1>2, <2>3, <2>4, <2>5 DEF FreshInv
<1>7. CASE ListArrives
  <2> DEFINE listed == [page EXCEPT !.loaded = TRUE, !.asOf = listRequest.asOf]
  <2>1. PageFields(listed) /\ listed.detail = page.detail BY <1>3, PageUpdates
  <2>2. CASE Accepts("list") /\ listRequest.by = "reload"
    <3>1. /\ detailRequest' = DetailWanted(move.slug) /\ page' = Selecting(listed, move.slug)
          /\ move' = [move EXCEPT !.phase = "detail"]
      BY <1>7, <2>2 DEF ListArrives, RequestDetail
    <3> HIDE DEF listed
    <3>2. page'.detail = NoDetail BY <2>1, <3>1, SelectingClears
    <3>3. move # NoMove
      BY <2>2, UnmovedIsTyped DEF ControlsInv, AcceptedFindsNoDetail
    <3>4. move.slug \in Slugs BY <3>3 DEF FreshInv, SlugsKnown
    <3>5. move'.slug = move.slug /\ move'.answer = move.answer BY <1>3, <3>1, MoveUpdates
    <3>6. detailRequest'.slug = move.slug /\ detailRequest'.asOf = NotServed
      BY <3>1 DEF DetailWanted
    <3>7. SlugsKnown' BY <3>2, <3>4, <3>5, <3>6 DEF SlugsKnown
    <3>8. ConfirmedIsRecorded' BY <1>1, <3>5 DEF FreshInv, ConfirmedIsRecorded
    <3>9. SeenWhatIsConfirmed' BY <3>2, <3>6 DEF SeenWhatIsConfirmed
    <3> QED BY <1>2, <3>7, <3>8, <3>9 DEF FreshInv
  <2>3. CASE ~(Accepts("list") /\ listRequest.by = "reload")
    <3>1. /\ UNCHANGED <<generation, detailRequest>>
          /\ \/ MoveUnconfirmed
             \/ page' \in {page, listed} /\ move' = move
      BY <1>7, <2>3 DEF ListArrives
    <3> HIDE DEF listed
    <3>2. page'.detail \in {page.detail, NoDetail} /\ move' \in {move, NoMove}
      BY <1>4, <2>1, <3>1
    <3> QED BY <1>1, <1>2, <3>1, <3>2, FreshUndisturbed
  <2> QED BY <2>2, <2>3
<1>8. CASE ListFails
  <2>1. page'.detail \in {page.detail, NoDetail} /\ move' \in {move, NoMove}
    BY <1>4, <1>8 DEF ListFails
  <2> QED BY <1>1, <1>2, <1>8, <2>1, FreshUndisturbed DEF ListFails
<1>9. CASE DetailFails
  <2>1. page'.detail \in {page.detail, NoDetail} /\ move' \in {move, NoMove}
    BY <1>4, <1>9 DEF DetailFails
  <2> QED BY <1>1, <1>2, <1>9, <2>1, FreshUndisturbed DEF DetailFails
<1>10. CASE DetailArrives
  <2> DEFINE accepted == Accepts("detail") /\ page.slug = detailRequest.slug
             shown == [page EXCEPT !.detail = detailRequest]
             noticed == [shown EXCEPT !.notice = NoticeOf(move)]
  <2>1. shown.detail = detailRequest /\ noticed.detail = detailRequest
    <3>1. PageFields(shown) /\ shown.detail = detailRequest BY <1>3, PageUpdates
    <3> HIDE DEF shown
    <3> QED BY <3>1, PageUpdates
  <2>2. /\ detailRequest # NoDetail /\ detailRequest.asOf # NotServed
        /\ detailRequest' = NoDetail /\ generation' = generation
    BY <1>10 DEF DetailArrives
  <2>3. CASE accepted
    <3>1. page' \in {shown, noticed} /\ move' \in {move, NoMove}
      <4>1. CASE move.phase = "detail" BY <1>10, <2>3, <4>1 DEF DetailArrives
      <4>2. CASE move.phase # "detail" BY <1>10, <2>3, <4>2 DEF DetailArrives
      <4> QED BY <4>1, <4>2
    <3> HIDE DEF shown, noticed
    <3>2. page'.detail = detailRequest BY <2>1, <3>1
    <3>3. SlugsKnown' BY <2>2, <3>1, <3>2 DEF FreshInv, SlugsKnown
    <3>4. ConfirmedIsRecorded' BY <1>1, <3>1 DEF FreshInv, ConfirmedIsRecorded, NoMove
    <3>5. SeenWhatIsConfirmed'
      BY <1>1, <2>2, <2>3, <3>2 DEF FreshInv, SeenWhatIsConfirmed, Accepts
    <3> QED BY <1>2, <3>3, <3>4, <3>5 DEF FreshInv
  <2>4. CASE ~accepted
    <3>1. \/ MoveUnconfirmed
          \/ page' = page /\ move' = move
      <4>1. CASE move.phase = "detail" BY <1>10, <2>4, <4>1 DEF DetailArrives
      <4>2. CASE move.phase # "detail" BY <1>10, <2>4, <4>2 DEF DetailArrives
      <4> QED BY <4>1, <4>2
    <3>2. page'.detail \in {page.detail, NoDetail} /\ move' \in {move, NoMove} BY <1>4, <3>1
    <3> QED BY <1>1, <1>2, <2>2, <3>2, FreshUndisturbed
  <2> QED BY <2>3, <2>4
<1> QED BY <1>5, <1>6, <1>7, <1>8, <1>9, <1>10

(* The steps that move a label, and the one that tells the page.           *)
LEMMA FreshOfMoves ==
  ASSUME ControlsInv, FreshInv, ServeMove \/ ServeOrphan \/ MoveAnswered \/ AdminMoves
  PROVE  FreshInv'
<1>1. Shapes /\ MoveFields(move) BY DEF ControlsInv, Shapes
<1>2. ASSUME ServeOrphan \/ AdminMoves PROVE FreshInv'
  <2>1. /\ UNCHANGED <<page, generation, detailRequest, move, confirmed>>
        /\ labelHistory' = labelHistory
           \/ \E s, v : SetLabel(s, LabelName, v)
    BY <1>2 DEF ServeOrphan, AdminMoves, promptsState, registry
  <2>2. /\ HistoryIsASequence' /\ Len(labelHistory) \in Nat /\ Len(labelHistory') \in Nat
        /\ Len(labelHistory') >= Len(labelHistory)
    BY <2>1, HistoryStands, HistoryGrows DEF FreshInv
  <2> QED BY <2>1, <2>2, FreshUndisturbed
<1>3. CASE ServeMove
  <2>1. /\ move.phase = "put" /\ SetLabel(move.slug, LabelName, move.to)
        /\ move' = [move EXCEPT !.answer = Len(labelHistory')]
        /\ UNCHANGED <<page, generation, detailRequest, confirmed>>
    BY <1>3 DEF ServeMove
  <2>2. /\ HistoryIsASequence' /\ Len(labelHistory) \in Nat
        /\ Len(labelHistory') = Len(labelHistory) + 1
    BY <2>1, HistoryGrows DEF FreshInv
  <2>3. move'.slug = move.slug /\ move'.answer = Len(labelHistory')
    BY <1>1, <2>1, MoveUpdates
  <2>4. move # NoMove BY <2>1, UnmovedIsTyped
  <2>5. SlugsKnown' BY <2>1, <2>3, <2>4 DEF FreshInv, SlugsKnown
  <2>6. ConfirmedIsRecorded' BY <2>1, <2>2, <2>3 DEF FreshInv, ConfirmedIsRecorded
  <2>7. SeenWhatIsConfirmed' BY <2>1 DEF FreshInv, SeenWhatIsConfirmed
  <2> QED BY <2>2, <2>5, <2>6, <2>7 DEF FreshInv
<1>4. CASE MoveAnswered
  <2>1. /\ move.phase = "put" /\ RefreshPrompts("reload", move.slug)
        /\ move' = [move EXCEPT !.phase = "list"] /\ labelHistory' = labelHistory
        /\ confirmed' = [confirmed EXCEPT ![move.slug] = move.answer]
        /\ detailRequest' = detailRequest
    BY <1>4 DEF MoveAnswered, registry
  <2>2. /\ HistoryIsASequence' /\ Len(labelHistory) \in Nat
        /\ Len(labelHistory') = Len(labelHistory)
    BY <2>1, HistoryStands DEF FreshInv
  <2>3. page'.detail = NoDetail /\ generation' = "list" BY <1>1, <2>1, RefreshBlanks
  <2>4. move'.slug = move.slug /\ move'.answer = move.answer BY <1>1, <2>1, MoveUpdates
  <2>5. move # NoMove BY <2>1, UnmovedIsTyped
  <2>6. SlugsKnown' BY <2>1, <2>3, <2>4, <2>5 DEF FreshInv, SlugsKnown
  <2>7. ConfirmedIsRecorded' BY <2>1, <2>2, <2>4 DEF FreshInv, ConfirmedIsRecorded
  <2>8. SeenWhatIsConfirmed' BY <2>3 DEF SeenWhatIsConfirmed
  <2> QED BY <2>2, <2>6, <2>7, <2>8 DEF FreshInv
<1> QED BY <1>2, <1>3, <1>4

LEMMA FreshInductive ==
  ControlsInv /\ FreshInv /\ [Next]_vars => FreshInv'
<1> SUFFICES ASSUME ControlsInv, FreshInv, [Next]_vars PROVE FreshInv'
  OBVIOUS
<1>1. CASE PromptsUser BY <1>1, FreshOfUser
<1>2. CASE PromptsNetwork BY <1>2, FreshOfAnswers, FreshOfMoves DEF PromptsNetwork
<1>3. CASE AdminMoves BY <1>3, FreshOfMoves
<1>4. ASSUME labelHistory' = labelHistory, confirmed' = confirmed,
             detailRequest' \in {detailRequest, NoDetail}, page'.detail \in {page.detail, NoDetail},
             move' \in {move, NoMove}, generation' \in {generation, "list", "none"}
      PROVE  FreshInv'
  BY <1>4, HistoryStands, FreshUndisturbed DEF FreshInv
<1>5. CASE UNCHANGED <<promptsState, registry>>
  BY <1>4, <1>5 DEF promptsState, registry
<1>6. CASE Navigate
  <2>1. labelHistory' = labelHistory BY <1>6 DEF Navigate, registry
  <2>2. ASSUME NEW to \in Panels, PanelToPanel(to) PROVE FreshInv'
    BY <1>4, <2>1, <2>2 DEF PanelToPanel, promptsState
  <2>3. ASSUME NEW to \in Panels, PromptsToPanel(to) PROVE FreshInv'
    BY <1>4, <2>1, <2>3 DEF PromptsToPanel, DisposePrompts, EmptyPage
  <2>4. CASE PanelToPrompts
    <3>1. /\ RefreshPrompts("user", NoSlug)
          /\ UNCHANGED <<detailRequest, move, confirmed>>
      BY <2>4 DEF PanelToPrompts, ShowPrompts
    <3>2. page'.detail = NoDetail /\ generation' = "list" BY <3>1, RefreshBlanks DEF ControlsInv
    <3> QED BY <1>4, <2>1, <3>1, <3>2
  <2> QED BY <1>6, <2>2, <2>3, <2>4 DEF Navigate
<1> QED BY <1>1, <1>2, <1>3, <1>5, <1>6 DEF Next, User, Network, vars

LEMMA FreshInitially == Init => FreshInv
<1> SUFFICES ASSUME Init PROVE FreshInv
  OBVIOUS
<1>1. /\ labelHistory = <<>> /\ confirmed = [s \in Slugs |-> 0] /\ move = NoMove
      /\ page = EmptyPage /\ detailRequest = NoDetail
  BY DEF Init, PromptsInit
<1>2. labelHistory \in Seq(Nat) /\ Len(labelHistory) = 0 BY <1>1
<1>3. page.detail = NoDetail BY <1>1 DEF EmptyPage
<1>4. move.answer = 0 BY <1>1 DEF NoMove
<1> QED
  BY <1>1, <1>2, <1>3, <1>4
  DEF FreshInv, HistoryIsASequence, SlugsKnown, ConfirmedIsRecorded, SeenWhatIsConfirmed

(* However many label moves the page and others make, and whatever the     *)
(* order of the answers: no detail on the screen, and so no button, is of  *)
(* before a move the page was told of (prompts.ts selectPrompt,            *)
(* reloadPromptAfterMove).                                                 *)
THEOREM NothingShownIsStale == Spec => []NeverBehindAConfirmedMove
<1>1. ControlsInv /\ FreshInv => NeverBehindAConfirmedMove
  BY DEF ControlsInv, DrawnInv, ControlsAreOfTheDetail, FreshInv, SeenWhatIsConfirmed,
    NeverBehindAConfirmedMove
<1> QED
  BY <1>1, FreshInitially, FreshInductive, ControlsAlways, PTL DEF Spec

-----------------------------------------------------------------------------
(* The registry and its history: where a label points is where its last    *)
(* move put it, and a history row begins where the row before it ended.    *)

RegistryShape ==
  /\ prompts = [s \in Slugs |-> prompts[s]]
  /\ \A s \in Slugs :
       prompts[s] \in [description : {prompts[s].description}, versions : {prompts[s].versions},
                      labels : {prompts[s].labels}]

MovesOf(slug, n) == {j \in 1 .. n : labelHistory[j].slug = slug}
LastOf(S) == CHOOSE j \in S : \A k \in S : k <= j

PointerAfter(slug, n) ==
  IF MovesOf(slug, n) = {} THEN 1 ELSE labelHistory[LastOf(MovesOf(slug, n))].to

LabelIsOfLastMove ==
  \A s \in Slugs : Labelled(s, LabelName) = PointerAfter(s, Len(labelHistory))

MovesBeginWhereLastEnded ==
  \A i \in 1 .. Len(labelHistory) : labelHistory[i].from = PointerBefore(i)

RegistryInv == RegistryShape /\ LabelIsOfLastMove /\ MovesBeginWhereLastEnded

(* Nothing recorded is ever changed.                                       *)
HistoryExtends ==
  /\ Len(labelHistory) \in Nat /\ Len(labelHistory') \in Nat
  /\ Len(labelHistory') >= Len(labelHistory)
  /\ \A i \in 1 .. Len(labelHistory) : labelHistory'[i] = labelHistory[i]

(* A set of positions has a last one.                                      *)
LEMMA LastExists ==
  ASSUME NEW n \in Nat, NEW S \in SUBSET (1 .. n), S # {}
  PROVE  LastOf(S) \in S /\ \A k \in S : k <= LastOf(S)
<1> DEFINE T == {m \in Nat : n - m \in S}
           R == OpToRel(<, Nat)
<1>1. T \subseteq Nat /\ T # {}
  <2>1. PICK j \in S : TRUE OBVIOUS
  <2>2. n - j \in Nat /\ n - (n - j) = j OBVIOUS
  <2> QED BY <2>2
<1>2. PICK m \in T : \A y \in T : ~(<<y, m>> \in R)
  <2>1. IsWellFoundedOn(R, Nat) BY NatLessThanWellFounded
  <2> HIDE DEF T, R
  <2> QED BY <1>1, <2>1, WFMin
<1>3. \A y \in T : ~(y < m) BY <1>1, <1>2 DEF OpToRel
<1>4. \A k \in S : k <= n - m
  <2>1. TAKE k \in S
  <2>2. n - k \in T OBVIOUS
  <2> QED BY <2>2, <1>3
<1>5. \E j \in S : \A k \in S : k <= j BY <1>4
<1> QED BY <1>5 DEF LastOf

LEMMA PointerBeforeIs ==
  \A i : PointerBefore(i) = PointerAfter(labelHistory[i].slug, i - 1)
BY DEF PointerBefore, PointerAfter, MovesOf, LastOf

(* The pointer after the first n moves is not changed by what is appended. *)
LEMMA PointerStands ==
  ASSUME HistoryExtends, NEW n \in 0 .. Len(labelHistory), NEW slug
  PROVE  PointerAfter(slug, n)' = PointerAfter(slug, n)
<1>1. \A j \in 1 .. n : labelHistory'[j] = labelHistory[j] BY DEF HistoryExtends
<1>2. MovesOf(slug, n)' = MovesOf(slug, n) BY <1>1 DEF MovesOf
<1>3. CASE MovesOf(slug, n) = {} BY <1>2, <1>3 DEF PointerAfter
<1>4. CASE MovesOf(slug, n) # {}
  <2>1. MovesOf(slug, n) \in SUBSET (1 .. n) /\ n \in Nat BY DEF MovesOf, HistoryExtends
  <2>2. LastOf(MovesOf(slug, n)) \in 1 .. n BY <1>4, <2>1, LastExists
  <2> QED BY <1>1, <1>2, <1>4, <2>2 DEF PointerAfter
<1> QED BY <1>3, <1>4

(* What a move of the label does to the registry.                          *)
LEMMA LabelMoves ==
  ASSUME RegistryShape, HistoryIsASequence, NEW slug, NEW version,
         SetLabel(slug, LabelName, version)
  PROVE  /\ RegistryShape' /\ HistoryExtends /\ slug \in Slugs
         /\ Len(labelHistory') = Len(labelHistory) + 1
         /\ labelHistory'[Len(labelHistory')] = Moved(slug, LabelName, version)
         /\ Labelled(slug, LabelName)' = version
         /\ \A s \in Slugs : s # slug => Labelled(s, LabelName)' = Labelled(s, LabelName)
<1>1. slug \in Slugs BY DEF SetLabel, Known, RegistryShape
<1>2. PICK S : labelHistory \in Seq(S) BY DEF HistoryIsASequence
<1> DEFINE row == Moved(slug, LabelName, version)
<1>3. /\ Len(labelHistory') = Len(labelHistory) + 1
      /\ labelHistory'[Len(labelHistory')] = row
      /\ HistoryExtends
  <2>1. labelHistory' = Append(labelHistory, row) BY DEF SetLabel
  <2>2. labelHistory \in Seq(S \cup {row}) BY <1>2, SeqMonotonic
  <2> HIDE DEF row
  <2>3. Len(labelHistory) \in Nat BY <1>2
  <2> QED BY <2>1, <2>2, <2>3, AppendProperties DEF HistoryExtends
<1> DEFINE labels == Upserted(prompts[slug].labels, LabelName, version)
<1>4. LabelName \in DOMAIN labels /\ labels[LabelName] = version BY DEF Upserted
<1> HIDE DEF labels
<1>5. prompts' = [prompts EXCEPT ![slug] = [@ EXCEPT !.labels = labels]]
  BY DEF SetLabel, labels
<1>6. \A s \in Slugs : prompts'[s] = IF s = slug THEN [prompts[s] EXCEPT !.labels = labels]
                                     ELSE prompts[s]
  BY <1>5 DEF RegistryShape
<1>7. prompts' = [s \in Slugs |-> prompts'[s]] BY <1>5 DEF RegistryShape
<1>8. prompts'[slug].labels = labels BY <1>1, <1>6 DEF RegistryShape
<1>9. RegistryShape'
  <2>1. ASSUME NEW s \in Slugs
        PROVE  prompts'[s] \in [description : {prompts'[s].description},
                               versions : {prompts'[s].versions}, labels : {prompts'[s].labels}]
    BY <1>6 DEF RegistryShape
  <2> QED BY <1>7, <2>1 DEF RegistryShape
<1>10. Labelled(slug, LabelName)' = version BY <1>4, <1>8 DEF Labelled
<1>11. \A s \in Slugs : s # slug => Labelled(s, LabelName)' = Labelled(s, LabelName)
  BY <1>6 DEF Labelled
<1> QED BY <1>1, <1>3, <1>9, <1>10, <1>11

LEMMA RegistryAfterMove ==
  ASSUME RegistryInv, HistoryIsASequence, NEW slug, NEW version,
         SetLabel(slug, LabelName, version)
  PROVE  RegistryInv'
<1>0. PICK n \in Nat : n = Len(labelHistory)
  <2>1. PICK S : labelHistory \in Seq(S) BY DEF HistoryIsASequence
  <2> QED BY <2>1
<1>1. /\ RegistryShape' /\ HistoryExtends /\ slug \in Slugs /\ Len(labelHistory') = n + 1
      /\ labelHistory'[n + 1] = Moved(slug, LabelName, version)
      /\ Labelled(slug, LabelName)' = version
      /\ \A s \in Slugs : s # slug => Labelled(s, LabelName)' = Labelled(s, LabelName)
  BY <1>0, LabelMoves DEF RegistryInv
<1>2. n \in Nat /\ n \in 0 .. n /\ \A j \in 1 .. n : labelHistory'[j] = labelHistory[j]
  BY <1>0, <1>1 DEF HistoryExtends
<1>3. /\ labelHistory'[n + 1].slug = slug /\ labelHistory'[n + 1].to = version
      /\ labelHistory'[n + 1].from = Labelled(slug, LabelName)
  BY <1>1 DEF Moved
<1>4. LabelIsOfLastMove'
  <2>1. ASSUME NEW s \in Slugs, s # slug
        PROVE  Labelled(s, LabelName)' = PointerAfter(s, Len(labelHistory))'
    <3>1. MovesOf(s, n + 1)' = MovesOf(s, n)' BY <1>2, <1>3, <2>1 DEF MovesOf
    <3>2. PointerAfter(s, n + 1)' = PointerAfter(s, n)' BY <3>1 DEF PointerAfter
    <3>3. PointerAfter(s, n)' = PointerAfter(s, n) BY <1>0, <1>1, <1>2, PointerStands
    <3>4. Labelled(s, LabelName) = PointerAfter(s, n) BY <1>0 DEF RegistryInv, LabelIsOfLastMove
    <3> QED BY <1>1, <2>1, <3>2, <3>3, <3>4
  <2>2. PointerAfter(slug, Len(labelHistory))' = version
    <3> DEFINE moves == MovesOf(slug, n + 1)'
    <3>1. moves \in SUBSET (1 .. n + 1) /\ n + 1 \in moves BY <1>2, <1>3 DEF MovesOf
    <3> HIDE DEF moves
    <3>2. LastOf(moves) \in moves /\ \A k \in moves : k <= LastOf(moves)
      BY <1>2, <3>1, LastExists
    <3>3. LastOf(moves) = n + 1
      <4>1. LastOf(moves) \in 1 .. n + 1 /\ n + 1 <= LastOf(moves) BY <3>1, <3>2
      <4> QED BY <4>1
    <3> QED BY <1>1, <1>3, <3>1, <3>3 DEF PointerAfter, moves
  <2> QED BY <1>1, <2>1, <2>2 DEF LabelIsOfLastMove
<1>5. MovesBeginWhereLastEnded'
  <2>1. ASSUME NEW i \in 1 .. n + 1
        PROVE  labelHistory'[i].from = PointerAfter(labelHistory[i].slug, i - 1)'
    <3>1. CASE i = n + 1
      <4>1. PointerAfter(slug, n)' = PointerAfter(slug, n) BY <1>0, <1>1, <1>2, PointerStands
      <4>2. Labelled(slug, LabelName) = PointerAfter(slug, n)
        BY <1>0, <1>1 DEF RegistryInv, LabelIsOfLastMove
      <4> QED BY <1>2, <1>3, <3>1, <4>1, <4>2
    <3>2. CASE i # n + 1
      <4>1. i \in 1 .. n /\ i - 1 \in 0 .. n /\ labelHistory'[i] = labelHistory[i]
        BY <1>2, <3>2
      <4>2. labelHistory[i].from = PointerAfter(labelHistory[i].slug, i - 1)
        BY <1>0, <4>1, PointerBeforeIs DEF RegistryInv, MovesBeginWhereLastEnded
      <4>3. \A s : PointerAfter(s, i - 1)' = PointerAfter(s, i - 1)
        BY <1>0, <1>1, <4>1, PointerStands
      <4> QED BY <4>1, <4>2, <4>3
    <3> QED BY <3>1, <3>2
  <2>2. (\A i : PointerBefore(i) = PointerAfter(labelHistory[i].slug, i - 1))'
    BY PointerBeforeIs, PTL
  <2> QED BY <1>1, <2>1, <2>2 DEF MovesBeginWhereLastEnded
<1> QED BY <1>1, <1>4, <1>5 DEF RegistryInv

LEMMA RegistryStep ==
  ASSUME [Next]_vars
  PROVE  UNCHANGED registry \/ \E s, v : SetLabel(s, LabelName, v)
<1>1. CASE PromptsUser
  BY <1>1 DEF PromptsUser, ClickRefresh, ClickRetryDiff, ClickPrompt, ToggleVersion, ClickMove
<1>2. CASE PromptsNetwork
  BY <1>2 DEF PromptsNetwork, ServeList, ServeDetail, ServeMove, ServeOrphan, ListArrives,
    ListFails, DetailArrives, DetailFails, DiffAnswered, MoveAnswered, MoveFails
<1>3. CASE AdminMoves BY <1>3 DEF AdminMoves
<1>4. CASE Navigate \/ UNCHANGED vars BY <1>4 DEF Navigate, vars
<1> QED BY <1>1, <1>2, <1>3, <1>4 DEF Next, User, Network

LEMMA RegistryInductive ==
  ASSUME FreshInv, RegistryInv, [Next]_vars
  PROVE  RegistryInv' /\ HistoryExtends
<1>1. CASE UNCHANGED registry
  <2>1. prompts' = prompts /\ labelHistory' = labelHistory BY <1>1 DEF registry
  <2>2. HistoryExtends
    BY <2>1, HistoryStands DEF FreshInv, HistoryExtends
  <2>3. \A s, n : PointerAfter(s, n)' = PointerAfter(s, n) BY <2>1 DEF PointerAfter, MovesOf
  <2>4. RegistryShape' /\ LabelIsOfLastMove'
    BY <2>1, <2>3 DEF RegistryInv, RegistryShape, LabelIsOfLastMove, Labelled
  <2>5. (\A i : PointerBefore(i) = PointerAfter(labelHistory[i].slug, i - 1))'
    BY PointerBeforeIs, PTL
  <2>6. MovesBeginWhereLastEnded'
    BY <2>1, <2>3, <2>5, PointerBeforeIs DEF RegistryInv, MovesBeginWhereLastEnded
  <2> QED BY <2>2, <2>4, <2>6 DEF RegistryInv
<1>2. ASSUME NEW s, NEW v, SetLabel(s, LabelName, v) PROVE RegistryInv' /\ HistoryExtends
  BY <1>2, RegistryAfterMove, LabelMoves DEF FreshInv, RegistryInv
<1> QED BY <1>1, <1>2, RegistryStep

LEMMA RegistryInitially == Init => RegistryInv
<1> SUFFICES ASSUME Init PROVE RegistryInv
  OBVIOUS
<1>1. /\ labelHistory = <<>>
      /\ prompts = [s \in Slugs |-> [description |-> "prompt", versions |-> <<"v1", "v2">>,
                                     labels |-> [l \in {LabelName} |-> 1]]]
  BY DEF Init, PromptsInit
<1>2. RegistryShape BY <1>1 DEF RegistryShape
<1>3. \A s \in Slugs : Labelled(s, LabelName) = 1 BY <1>1 DEF Labelled
<1>4. 1 .. Len(labelHistory) = {} BY <1>1
<1>5. \A s : PointerAfter(s, Len(labelHistory)) = 1 BY <1>4 DEF PointerAfter, MovesOf
<1> QED
  BY <1>2, <1>3, <1>4, <1>5 DEF RegistryInv, LabelIsOfLastMove, MovesBeginWhereLastEnded

-----------------------------------------------------------------------------
(* What is drawn carries the notice of the page, next to a detail only.    *)
DrawnNotice ==
  route = "prompts" /\ drawn.kind = "current" =>
    drawn.notice = IF page.detail = NoDetail THEN NoNotice ELSE page.notice

LEMMA RenderedNotice ==
  ASSUME NEW disabled, NEW diff, drawn' = Current(page', disabled, diff)
  PROVE  DrawnNotice'
BY DEF DrawnNotice, Current

LEMMA BlankNotice ==
  ASSUME drawn' = Loading \/ drawn' = ErrorState PROVE DrawnNotice'
BY DEF DrawnNotice, Loading, ErrorState

LEMMA SameNotice ==
  ASSUME DrawnNotice, UNCHANGED <<route, page, drawn>> PROVE DrawnNotice'
BY DEF DrawnNotice

LEMMA NoticeDrawnByUser ==
  ASSUME DrawnNotice, PromptsUser PROVE DrawnNotice'
<1>1. CASE ClickRefresh BY <1>1, BlankNotice DEF ClickRefresh, RefreshPrompts
<1>2. CASE ClickRetryDiff BY <1>2, RenderedNotice DEF ClickRetryDiff, RenderCurrent
<1>3. ASSUME NEW slug \in Slugs, ClickPrompt(slug) PROVE DrawnNotice'
  BY <1>3, RenderedNotice DEF ClickPrompt, RenderCurrent
<1>4. ASSUME NEW v \in {1, 2}, ToggleVersion(v) \/ ClickMove(v) PROVE DrawnNotice'
  BY <1>4, RenderedNotice DEF ToggleVersion, ClickMove, RenderCurrent
<1> QED BY <1>1, <1>2, <1>3, <1>4 DEF PromptsUser

LEMMA NoticeDrawnByNetwork ==
  ASSUME ControlsInv, PromptsQuiet, DrawnNotice, PromptsNetwork PROVE DrawnNotice'
<1>1. CASE ServeList \/ ServeDetail \/ ServeMove \/ ServeOrphan
  BY <1>1, SameNotice DEF ServeList, ServeDetail, ServeMove, ServeOrphan
<1>2. ASSUME MoveUnconfirmed PROVE DrawnNotice'
  BY <1>2, RenderedNotice DEF MoveUnconfirmed, RenderCurrent
<1>3. CASE ListArrives
  <2>1. CASE Accepts("list") /\ listRequest.by \in {"reload", "user"}
    BY <1>3, <2>1, RenderedNotice DEF ListArrives, RenderCurrent
  <2>2. CASE ~Accepts("list") /\ listRequest.by = "reload"
    BY <1>2, <1>3, <2>2 DEF ListArrives
  <2>3. CASE ~(Accepts("list") /\ listRequest.by \in {"reload", "user"})
             /\ ~(~Accepts("list") /\ listRequest.by = "reload")
    BY <1>3, <2>3, SameNotice DEF ListArrives
  <2> QED BY <2>1, <2>2, <2>3
<1>4. CASE ListFails
  BY <1>2, <1>4, SameNotice, BlankNotice DEF ListFails
<1>5. CASE DetailArrives
  <2>1. CASE Accepts("detail") /\ page.slug = detailRequest.slug
    <3>1. RenderCurrent(page', NoMove) \/ RenderCurrent(page', move)
      <4>1. CASE move.phase = "detail" BY <1>5, <2>1, <4>1 DEF DetailArrives
      <4>2. CASE move.phase # "detail" BY <1>5, <2>1, <4>2 DEF DetailArrives
      <4> QED BY <4>1, <4>2
    <3> QED BY <3>1, RenderedNotice DEF RenderCurrent
  <2>2. CASE ~(Accepts("detail") /\ page.slug = detailRequest.slug)
    <3>1. MoveUnconfirmed \/ UNCHANGED <<route, page, drawn>>
      <4>1. CASE move.phase = "detail" BY <1>5, <2>2, <4>1 DEF DetailArrives
      <4>2. CASE move.phase # "detail" BY <1>5, <2>2, <4>2 DEF DetailArrives
      <4> QED BY <4>1, <4>2
    <3> QED BY <1>2, <3>1, SameNotice
  <2> QED BY <2>1, <2>2
<1>6. CASE DetailFails
  BY <1>2, <1>6, SameNotice, BlankNotice DEF DetailFails
<1>7. CASE DiffAnswered
  <2>1. page' = page /\ route' = route /\ diffRequest # NoDetail BY <1>7 DEF DiffAnswered
  <2>2. CASE drawn' = [drawn EXCEPT !.diff = "failed"] /\ page.detail = diffRequest
    <3>1. route = "prompts" BY <2>1 DEF PromptsQuiet
    <3>2. drawn.kind = "current" /\ DrawnFields(drawn)
      BY <2>1, <2>2, <3>1 DEF ControlsInv, DrawnInv, ControlsAreOfTheDetail
    <3>3. drawn'.notice = drawn.notice BY <2>2, <3>2 DEF DrawnFields
    <3> QED BY <2>1, <3>1, <3>2, <3>3 DEF DrawnNotice
  <2>3. CASE drawn' = Current(page, move # NoMove, "shown") BY <2>1, <2>3, RenderedNotice
  <2>4. CASE drawn' = drawn BY <2>1, <2>4, SameNotice
  <2> QED BY <1>7, <2>2, <2>3, <2>4 DEF DiffAnswered
<1>8. CASE MoveAnswered BY <1>8, BlankNotice DEF MoveAnswered, RefreshPrompts
<1>9. CASE MoveFails
  BY <1>9, RenderedNotice DEF MoveFails, RenderCurrent
<1> QED BY <1>1, <1>3, <1>4, <1>5, <1>6, <1>7, <1>8, <1>9 DEF PromptsNetwork

-----------------------------------------------------------------------------
(* A move that was answered is on record; the reload that follows it sees  *)
(* it, and so does the page that waits for its detail; the notice names    *)
(* the last move of its prompt that the page was told of.                  *)
IsMove(i, slug, to) ==
  /\ i \in 1 .. Len(labelHistory)
  /\ labelHistory[i].slug = slug /\ labelHistory[i].to = to

MoveOnRecord ==
  /\ move.answer # 0 => IsMove(move.answer, move.slug, move.to)
  /\ move.phase \in {"list", "detail"} => move.answer # 0 /\ confirmed[move.slug] = move.answer

ReloadSeesMove ==
  /\ listRequest.by = "reload" /\ listRequest.asOf # NotServed => listRequest.asOf >= move.answer
  /\ move.phase = "detail" /\ generation = "detail" => page.asOf >= move.answer

NoticeOnRecord ==
  page.notice # NoNotice =>
    LET told == confirmed[page.notice.slug]
    IN /\ page.notice.slug \in Slugs
       /\ IsMove(told, page.notice.slug, page.notice.to)
       /\ labelHistory[told].from = page.notice.from
       /\ page.asOf >= told
       /\ generation # "list"

RecordInv == MoveOnRecord /\ ReloadSeesMove /\ NoticeOnRecord

LEMMA StillAMove ==
  ASSUME HistoryExtends, NEW i, NEW slug, NEW to, IsMove(i, slug, to)
  PROVE  IsMove(i, slug, to)' /\ labelHistory'[i] = labelHistory[i]
BY DEF HistoryExtends, IsMove

(* A step that confirms nothing, sets no notice and goes on with no move.  *)
LEMMA RecordUndisturbed ==
  ASSUME RecordInv, HistoryExtends, confirmed' = confirmed, move' \in {move, NoMove},
         \/ listRequest' = listRequest
         \/ listRequest'.by # "reload" \/ listRequest'.asOf = NotServed,
         \/ page'.notice = NoNotice
         \/ page'.notice = page.notice /\ page'.asOf = page.asOf /\ generation' # "list"
         \/ page'.notice = page.notice /\ page'.asOf = page.asOf /\ generation' = generation,
         move'.phase = "detail" /\ generation' = "detail" =>
           generation = "detail" /\ page'.asOf = page.asOf,
         listRequest.by = "reload" => move.answer \in Nat,
         listRequest'.by = "reload" => move' = move
  PROVE  RecordInv'
<1>1. NoMove.phase = "none" /\ NoMove.answer = 0 BY DEF NoMove
<1>2. MoveOnRecord'
  BY <1>1, StillAMove DEF RecordInv, MoveOnRecord
<1>3. ReloadSeesMove'
  BY <1>1 DEF RecordInv, ReloadSeesMove
<1>4. NoticeOnRecord'
  BY StillAMove DEF RecordInv, NoticeOnRecord
<1> QED BY <1>2, <1>3, <1>4 DEF RecordInv

(* The updates of the page, as far as the notice goes.                     *)
LEMMA NoticeUpdates ==
  ASSUME NEW p, PageFields(p), NEW new
  PROVE  /\ Selecting(p, new).notice = p.notice /\ Selecting(p, new).asOf = p.asOf
         /\ Unconfirmed(p).notice = NoNotice /\ Unconfirmed(p).asOf = p.asOf
         /\ [p EXCEPT !.versions = new].notice = p.notice
         /\ [p EXCEPT !.versions = new].asOf = p.asOf
         /\ [p EXCEPT !.detail = new].notice = p.notice
         /\ [p EXCEPT !.detail = new].asOf = p.asOf
         /\ [p EXCEPT !.notice = new].notice = new /\ [p EXCEPT !.notice = new].asOf = p.asOf
         /\ [p EXCEPT !.loaded = TRUE, !.asOf = new].notice = p.notice
         /\ [p EXCEPT !.loaded = TRUE, !.asOf = new].asOf = new
<1>1. /\ Selecting(p, new).notice = p.notice /\ Selecting(p, new).asOf = p.asOf
      /\ Unconfirmed(p).notice = NoNotice /\ Unconfirmed(p).asOf = p.asOf
  BY DEF PageFields, Selecting, Unconfirmed
<1>2. /\ [p EXCEPT !.versions = new].notice = p.notice
      /\ [p EXCEPT !.versions = new].asOf = p.asOf
      /\ [p EXCEPT !.detail = new].notice = p.notice
      /\ [p EXCEPT !.detail = new].asOf = p.asOf
  BY DEF PageFields
<1>3. /\ [p EXCEPT !.notice = new].notice = new /\ [p EXCEPT !.notice = new].asOf = p.asOf
      /\ [p EXCEPT !.loaded = TRUE, !.asOf = new].notice = p.notice
      /\ [p EXCEPT !.loaded = TRUE, !.asOf = new].asOf = new
  BY DEF PageFields
<1> QED BY <1>1, <1>2, <1>3

LEMMA RefreshForgets ==
  ASSUME PageFields(page), NEW by, NEW slug, RefreshPrompts(by, slug)
  PROVE  /\ page'.notice = NoNotice /\ page'.asOf = page.asOf /\ generation' = "list"
         /\ listRequest'.by = by /\ listRequest'.asOf = NotServed
BY DEF PageFields, RefreshPrompts

LEMMA RecordOfUser ==
  ASSUME ControlsInv, FreshInv, RecordInv, HistoryExtends, PromptsUser PROVE RecordInv'
<1>1. /\ PageFields(page) /\ MoveFields(move) /\ confirmed' = confirmed
      /\ move.answer \in Nat /\ (listRequest.by = "reload" => move.phase = "list")
  BY DEF ControlsInv, Shapes, AcceptedFindsNoDetail, FreshInv, ConfirmedIsRecorded, PromptsUser,
    ClickRefresh, ClickRetryDiff, ClickPrompt, ToggleVersion, ClickMove
<1>2. CASE ClickRefresh
  <2>1. RefreshPrompts("user", NoSlug) /\ move' = move BY <1>2 DEF ClickRefresh
  <2> QED BY <1>1, <2>1, RefreshForgets, RecordUndisturbed
<1>3. CASE ClickRetryDiff
  BY <1>1, <1>3, RecordUndisturbed DEF ClickRetryDiff, LoadDiff
<1>4. ASSUME NEW slug \in Slugs, ClickPrompt(slug) PROVE RecordInv'
  <2> DEFINE selected == Selecting(page, slug)
  <2>1. /\ generation' = "detail" /\ listRequest' = listRequest
        /\ IF move.phase = "detail" THEN page' = Unconfirmed(selected) /\ move' = NoMove
           ELSE page' = selected /\ move' = move
    BY <1>4 DEF ClickPrompt, RequestDetail
  <2>2. PageFields(selected) /\ selected.notice = page.notice /\ selected.asOf = page.asOf
    BY <1>1, SelectingClears, NoticeUpdates
  <2> HIDE DEF selected
  <2>3. /\ page'.notice \in {page.notice, NoNotice} /\ page'.asOf = page.asOf
    BY <2>1, <2>2, NoticeUpdates
  <2>4. move'.phase # "detail" BY <2>1, UnmovedIsTyped
  <2>5. listRequest'.by = "reload" => move' = move BY <1>1, <2>1
  <2> QED BY <1>1, <2>1, <2>3, <2>4, <2>5, RecordUndisturbed
<1>5. ASSUME NEW v \in {1, 2}, ToggleVersion(v) PROVE RecordInv'
  <2>1. PICK next :
          /\ page' = [page EXCEPT !.versions = next]
          /\ IF Cardinality(next) = 2 THEN LoadDiff
             ELSE diffRequest' = NoDetail /\ UNCHANGED generation
    BY <1>5 DEF ToggleVersion
  <2>2. page'.notice = page.notice /\ page'.asOf = page.asOf BY <1>1, <2>1, NoticeUpdates
  <2>3. generation' \in {generation, "diff"} BY <2>1 DEF LoadDiff
  <2> QED BY <1>1, <1>5, <2>2, <2>3, RecordUndisturbed DEF ToggleVersion
<1>6. ASSUME NEW v \in {1, 2}, ClickMove(v) PROVE RecordInv'
  <2>1. UNCHANGED <<page, generation, listRequest>> BY <1>6 DEF ClickMove
  <2>2. CASE move' = move BY <1>1, <2>1, <2>2, RecordUndisturbed
  <2>3. CASE move'.phase = "put" /\ move'.answer = 0
    <3>1. move = NoMove
      BY <1>6 DEF PromptsUser, ClickMove, ControlsInv, DrawnInv, ControlsAreOfTheDetail
    <3>2. listRequest.by # "reload" BY <1>1, <3>1, UnmovedIsTyped
    <3>3. MoveOnRecord' BY <2>3 DEF MoveOnRecord
    <3>4. ReloadSeesMove' BY <2>1, <2>3, <3>2 DEF ReloadSeesMove
    <3>5. NoticeOnRecord' BY <1>1, <2>1, StillAMove DEF RecordInv, NoticeOnRecord
    <3> QED BY <3>3, <3>4, <3>5 DEF RecordInv
  <2> QED BY <1>6, <2>2, <2>3 DEF ClickMove
<1> QED BY <1>2, <1>3, <1>4, <1>5, <1>6 DEF PromptsUser

(* The steps of the network that start, serve or end a request.            *)
LEMMA RecordOfAnswers ==
  ASSUME ControlsInv, FreshInv, RecordInv, HistoryExtends,
         ServeList \/ ServeDetail \/ ServeOrphan \/ ListFails \/ DetailFails \/ DiffAnswered
           \/ MoveFails
  PROVE  RecordInv'
<1>1. /\ Shapes /\ PageFields(page) /\ MoveFields(move) /\ confirmed' = confirmed
      /\ move.answer \in Nat /\ (listRequest.by = "reload" => move.phase = "list")
      /\ generation' = generation
  BY DEF ControlsInv, Shapes, AcceptedFindsNoDetail, FreshInv, ConfirmedIsRecorded, ServeList,
    ServeDetail, ServeOrphan, ListFails, DetailFails, DiffAnswered, MoveFails
<1>2. CASE ServeDetail \/ ServeOrphan \/ DiffAnswered
  BY <1>1, <1>2, RecordUndisturbed DEF ServeDetail, ServeOrphan, DiffAnswered
<1>3. CASE ServeList
  <2>1. /\ listRequest' = [listRequest EXCEPT !.asOf = Len(labelHistory)]
        /\ UNCHANGED <<page, generation, move>>
    BY <1>3 DEF ServeList
  <2>2. listRequest'.by = listRequest.by /\ listRequest'.asOf = Len(labelHistory)
    BY <1>1, <2>1 DEF Shapes
  <2>3. Len(labelHistory) >= move.answer
    BY <1>1 DEF HistoryExtends, FreshInv, ConfirmedIsRecorded
  <2>4. MoveOnRecord' BY <1>1, <2>1, StillAMove DEF RecordInv, MoveOnRecord
  <2>5. ReloadSeesMove' BY <2>1, <2>2, <2>3 DEF RecordInv, ReloadSeesMove
  <2>6. NoticeOnRecord' BY <1>1, <2>1, StillAMove DEF RecordInv, NoticeOnRecord
  <2> QED BY <2>4, <2>5, <2>6 DEF RecordInv
<1>4. NoList.by # "reload" BY UnmovedIsTyped
<1>5. ASSUME MoveUnconfirmed PROVE page'.notice = NoNotice /\ page'.asOf = page.asOf /\ move' = NoMove
  BY <1>1, <1>5, NoticeUpdates DEF MoveUnconfirmed
<1>6. CASE ListFails
  <2>1. listRequest' = NoList BY <1>6 DEF ListFails
  <2>2. \/ page'.notice = NoNotice /\ page'.asOf = page.asOf /\ move' = NoMove
        \/ page' = page /\ move' = move
    BY <1>5, <1>6 DEF ListFails
  <2> QED BY <1>1, <1>4, <2>1, <2>2, RecordUndisturbed
<1>7. CASE DetailFails
  <2>1. listRequest' = listRequest BY <1>7 DEF DetailFails
  <2>2. \/ page'.notice = NoNotice /\ page'.asOf = page.asOf /\ move' = NoMove
           /\ move.phase = "detail"
        \/ page' = page /\ move' = move
    BY <1>5, <1>7 DEF DetailFails
  <2> QED BY <1>1, <2>1, <2>2, RecordUndisturbed
<1>8. CASE MoveFails
  <2>1. UNCHANGED <<page, listRequest>> /\ move' = NoMove /\ move.phase = "put"
    BY <1>8 DEF MoveFails
  <2> QED BY <1>1, <2>1, RecordUndisturbed
<1> QED BY <1>2, <1>3, <1>6, <1>7, <1>8

LEMMA RecordOfList ==
  ASSUME ControlsInv, FreshInv, RecordInv, HistoryExtends, ListArrives PROVE RecordInv'
<1>1. /\ Shapes /\ PageFields(page) /\ MoveFields(move) /\ confirmed' = confirmed
      /\ move.answer \in Nat /\ (listRequest.by = "reload" => move.phase = "list")
      /\ listRequest.asOf # NotServed /\ listRequest' = NoList
  BY DEF ControlsInv, Shapes, AcceptedFindsNoDetail, FreshInv, ConfirmedIsRecorded, ListArrives
<1>2. NoList.by # "reload" BY UnmovedIsTyped
<1> DEFINE listed == [page EXCEPT !.loaded = TRUE, !.asOf = listRequest.asOf]
<1>3. /\ PageFields(listed) /\ listed.notice = page.notice /\ listed.asOf = listRequest.asOf
  <2>1. PageFields(listed) BY <1>1, PageUpdates
  <2>2. listed.notice = page.notice /\ listed.asOf = listRequest.asOf BY <1>1, NoticeUpdates
  <2> QED BY <2>1, <2>2
<1>4. generation = "list" => page.notice = NoNotice BY DEF RecordInv, NoticeOnRecord
<1>5. CASE Accepts("list") /\ listRequest.by = "reload"
  <2>1. /\ page' = Selecting(listed, move.slug) /\ move' = [move EXCEPT !.phase = "detail"]
    BY <1>5 DEF ListArrives
  <2>2. /\ move'.slug = move.slug /\ move'.to = move.to /\ move'.answer = move.answer
    BY <1>1, <2>1 DEF MoveFields
  <2>3. move.phase = "list" /\ generation = "list" BY <1>1, <1>5 DEF Accepts
  <2> HIDE DEF listed
  <2>4. page'.notice = page.notice /\ page'.asOf = listRequest.asOf
    BY <1>3, <2>1, NoticeUpdates
  <2>5. MoveOnRecord' BY <1>1, <2>2, <2>3, StillAMove DEF RecordInv, MoveOnRecord
  <2>6. ReloadSeesMove' BY <1>1, <1>2, <1>5, <2>2, <2>4 DEF RecordInv, ReloadSeesMove
  <2>7. NoticeOnRecord' BY <1>4, <2>3, <2>4 DEF NoticeOnRecord
  <2> QED BY <2>5, <2>6, <2>7 DEF RecordInv
<1>6. CASE Accepts("list") /\ listRequest.by = "user"
  <2>1. page' = listed /\ generation' = "list" /\ move' = move
    BY <1>6 DEF ListArrives, Accepts
  <2>2. page.notice = NoNotice BY <1>4, <1>6 DEF Accepts
  <2> HIDE DEF listed
  <2> QED BY <1>1, <1>2, <1>3, <2>1, <2>2, RecordUndisturbed
<1>7. CASE ~Accepts("list") /\ listRequest.by = "reload"
  <2>1. MoveUnconfirmed /\ generation' = generation BY <1>7 DEF ListArrives
  <2>2. page'.notice = NoNotice /\ page'.asOf = page.asOf /\ move' = NoMove
    BY <1>1, <2>1, NoticeUpdates DEF MoveUnconfirmed
  <2> QED BY <1>1, <1>2, <2>1, <2>2, RecordUndisturbed
<1>8. CASE /\ ~(Accepts("list") /\ listRequest.by = "reload")
           /\ ~(Accepts("list") /\ listRequest.by = "user")
           /\ ~(~Accepts("list") /\ listRequest.by = "reload")
  <2>1. UNCHANGED <<page, generation, move>> BY <1>8 DEF ListArrives
  <2> QED BY <1>1, <1>2, <2>1, RecordUndisturbed
<1> QED BY <1>5, <1>6, <1>7, <1>8

LEMMA RecordOfDetail ==
  ASSUME ControlsInv, FreshInv, RecordInv, HistoryExtends, DetailArrives PROVE RecordInv'
<1>1. /\ Shapes /\ PageFields(page) /\ MoveFields(move) /\ confirmed' = confirmed
      /\ move.answer \in Nat /\ (listRequest.by = "reload" => move.phase = "list")
      /\ UNCHANGED <<generation, listRequest>>
  BY DEF ControlsInv, Shapes, AcceptedFindsNoDetail, FreshInv, ConfirmedIsRecorded, DetailArrives
<1> DEFINE accepted == Accepts("detail") /\ page.slug = detailRequest.slug
           shown == [page EXCEPT !.detail = detailRequest]
<1>2. PageFields(shown) /\ shown.notice = page.notice /\ shown.asOf = page.asOf
  <2>1. PageFields(shown) BY <1>1, PageUpdates
  <2>2. shown.notice = page.notice /\ shown.asOf = page.asOf BY <1>1, NoticeUpdates
  <2> QED BY <2>1, <2>2
<1>3. CASE accepted /\ move.phase = "detail"
  <2>1. page' = [shown EXCEPT !.notice = NoticeOf(move)] /\ move' = NoMove
    BY <1>3 DEF DetailArrives
  <2> HIDE DEF shown
  <2>2. page'.notice = NoticeOf(move) /\ page'.asOf = page.asOf
    BY <1>2, <2>1, NoticeUpdates
  <2>3. /\ page'.notice.slug = move.slug /\ page'.notice.to = move.to
        /\ page'.notice.from = labelHistory[move.answer].from
    BY <2>2 DEF NoticeOf
  <2>4. move # NoMove /\ generation' = "detail" BY <1>1, <1>3, UnmovedIsTyped DEF Accepts
  <2>5. /\ confirmed'[move.slug] = move.answer /\ move.slug \in Slugs
        /\ IsMove(move.answer, move.slug, move.to)
    BY <1>1, <1>3, <2>4 DEF RecordInv, MoveOnRecord, FreshInv, SlugsKnown
  <2>6. page.asOf >= move.answer BY <1>1, <1>3, <2>4 DEF RecordInv, ReloadSeesMove
  <2>7. NoticeOnRecord'
    <3>1. labelHistory' = labelHistory BY DEF DetailArrives, registry
    <3> QED BY <2>2, <2>3, <2>4, <2>5, <2>6, <3>1 DEF NoticeOnRecord, IsMove
  <2>8. MoveOnRecord' /\ ReloadSeesMove'
    <3>1. NoMove.phase = "none" /\ NoMove.answer = 0 BY DEF NoMove
    <3>2. listRequest'.by # "reload" BY <1>1, <1>3
    <3> QED BY <2>1, <3>1, <3>2 DEF MoveOnRecord, ReloadSeesMove
  <2> QED BY <2>7, <2>8 DEF RecordInv
<1>4. CASE accepted /\ move.phase # "detail"
  <2>1. page' = shown /\ move' = move BY <1>4 DEF DetailArrives
  <2> HIDE DEF shown
  <2> QED BY <1>1, <1>2, <1>4, <2>1, RecordUndisturbed
<1>5. CASE ~accepted /\ move.phase = "detail"
  <2>1. MoveUnconfirmed BY <1>5 DEF DetailArrives
  <2>2. page'.notice = NoNotice /\ page'.asOf = page.asOf /\ move' = NoMove
    BY <1>1, <2>1, NoticeUpdates DEF MoveUnconfirmed
  <2> QED BY <1>1, <1>5, <2>2, UnmovedIsTyped, RecordUndisturbed
<1>6. CASE ~accepted /\ move.phase # "detail"
  <2>1. UNCHANGED <<page, move>> BY <1>6 DEF DetailArrives
  <2> QED BY <1>1, <2>1, RecordUndisturbed
<1> QED BY <1>3, <1>4, <1>5, <1>6

(* The page's own move is handled, and its answer arrives.                 *)
LEMMA RecordOfMove ==
  ASSUME ControlsInv, FreshInv, RecordInv, HistoryExtends, ServeMove \/ MoveAnswered
  PROVE  RecordInv'
<1>1. /\ Shapes /\ PageFields(page) /\ MoveFields(move) /\ move.phase = "put"
      /\ move.answer \in Nat /\ (listRequest.by = "reload" => move.phase = "list")
      /\ move # NoMove
  BY UnmovedIsTyped DEF ControlsInv, Shapes, AcceptedFindsNoDetail, FreshInv,
    ConfirmedIsRecorded, ServeMove, MoveAnswered
<1>2. CASE ServeMove
  <2>1. /\ SetLabel(move.slug, LabelName, move.to)
        /\ move' = [move EXCEPT !.answer = Len(labelHistory')]
        /\ UNCHANGED <<page, generation, listRequest, confirmed>>
    BY <1>2 DEF ServeMove
  <2>2. move'.phase = "put" /\ move'.answer = Len(labelHistory')
        /\ move'.slug = move.slug /\ move'.to = move.to
    BY <1>1, <2>1 DEF MoveFields
  <2>3. /\ Len(labelHistory') \in 1 .. Len(labelHistory')
        /\ labelHistory'[Len(labelHistory')] = Moved(move.slug, LabelName, move.to)
    <3> DEFINE row == Moved(move.slug, LabelName, move.to)
    <3>1. labelHistory' = Append(labelHistory, row) BY <2>1 DEF SetLabel
    <3>2. PICK S : labelHistory \in Seq(S) BY DEF FreshInv, HistoryIsASequence
    <3>3. labelHistory \in Seq(S \cup {row}) BY <3>2, SeqMonotonic
    <3> HIDE DEF row
    <3>4. /\ Len(labelHistory') = Len(labelHistory) + 1 /\ Len(labelHistory) \in Nat
          /\ labelHistory'[Len(labelHistory) + 1] = row
      BY <3>1, <3>3, AppendProperties
    <3> QED BY <3>4 DEF row
  <2>4. MoveOnRecord' BY <2>2, <2>3 DEF MoveOnRecord, IsMove, Moved
  <2>5. ReloadSeesMove' BY <1>1, <2>1, <2>2 DEF ReloadSeesMove
  <2>6. NoticeOnRecord' BY <2>1, StillAMove DEF RecordInv, NoticeOnRecord
  <2> QED BY <2>4, <2>5, <2>6 DEF RecordInv
<1>3. CASE MoveAnswered
  <2>1. /\ RefreshPrompts("reload", move.slug) /\ move' = [move EXCEPT !.phase = "list"]
        /\ confirmed' = [confirmed EXCEPT ![move.slug] = move.answer] /\ move.answer # 0
    BY <1>3 DEF MoveAnswered
  <2>2. move'.phase = "list" /\ move'.answer = move.answer
        /\ move'.slug = move.slug /\ move'.to = move.to
    BY <1>1, <2>1 DEF MoveFields
  <2>3. confirmed'[move.slug] = move.answer
    BY <1>1, <2>1 DEF FreshInv, SlugsKnown, ConfirmedIsRecorded
  <2>4. MoveOnRecord' BY <2>1, <2>2, <2>3, StillAMove DEF RecordInv, MoveOnRecord
  <2>5. ReloadSeesMove' BY <1>1, <2>1, <2>2, RefreshForgets DEF ReloadSeesMove
  <2>6. NoticeOnRecord' BY <1>1, <2>1, RefreshForgets DEF NoticeOnRecord
  <2> QED BY <2>4, <2>5, <2>6 DEF RecordInv
<1> QED BY <1>2, <1>3

NoticeInv == RegistryInv /\ DrawnNotice /\ RecordInv

LEMMA NoticeInductive ==
  PanelInv /\ ControlsInv /\ FreshInv /\ NoticeInv /\ [Next]_vars => NoticeInv'
<1> SUFFICES ASSUME PanelInv, ControlsInv, FreshInv, NoticeInv, [Next]_vars PROVE NoticeInv'
  OBVIOUS
<1>1. RegistryInv' /\ HistoryExtends BY RegistryInductive DEF NoticeInv
<1>2. DrawnNotice /\ RecordInv /\ PromptsQuiet BY DEF NoticeInv, PanelInv
<1>3. /\ PageFields(page) /\ move.answer \in Nat /\ (listRequest.by = "reload" => move.phase = "list")
  BY DEF ControlsInv, Shapes, AcceptedFindsNoDetail, FreshInv, ConfirmedIsRecorded
<1>4. ASSUME UNCHANGED promptsState PROVE RecordInv'
  BY <1>1, <1>2, <1>3, <1>4, RecordUndisturbed DEF promptsState
<1>5. CASE PromptsUser
  BY <1>1, <1>2, <1>5, NoticeDrawnByUser, RecordOfUser DEF NoticeInv
<1>6. CASE PromptsNetwork
  BY <1>1, <1>2, <1>6, NoticeDrawnByNetwork, RecordOfAnswers, RecordOfList, RecordOfDetail,
    RecordOfMove
  DEF NoticeInv, PromptsNetwork
<1>7. CASE AdminMoves \/ UNCHANGED vars
  <2>1. UNCHANGED <<route, drawn, promptsState>> BY <1>7 DEF AdminMoves, vars
  <2> QED BY <1>1, <1>2, <1>4, <2>1, SameNotice DEF NoticeInv, promptsState
<1>8. CASE (PanelUser \/ PanelNetwork) /\ UNCHANGED promptsState
  <2>1. route \in Panels BY <1>8 DEF PanelUser, ClickRetry, ChooseGroup, PanelNetwork, Panels, PanelInv, OneLoad
  <2>2. route' = route
    BY <1>8 DEF PanelUser, ClickRetry, ChooseGroup, PanelNetwork, PartAnswered, PartFails,
      PartUnauthorized
  <2>3. DrawnNotice' BY <2>1, <2>2 DEF DrawnNotice, Panels
  <2> QED BY <1>1, <1>4, <1>8, <2>3 DEF NoticeInv
<1>9. CASE Navigate
  <2>1. ASSUME NEW to \in Panels, PanelToPanel(to), route' = to PROVE NoticeInv'
    <3>1. DrawnNotice' BY <2>1 DEF DrawnNotice, Panels
    <3> QED BY <1>1, <1>4, <2>1, <3>1 DEF NoticeInv, PanelToPanel
  <2>2. ASSUME NEW to \in Panels, PromptsToPanel(to), route' = to PROVE NoticeInv'
    <3>1. /\ page' = EmptyPage /\ move' = NoMove /\ listRequest' = NoList /\ confirmed' = confirmed
      BY <2>2 DEF PromptsToPanel, DisposePrompts
    <3>2. page'.notice = NoNotice BY <3>1 DEF EmptyPage
    <3>3. DrawnNotice' BY <2>2 DEF DrawnNotice, Panels
    <3>4. RecordInv' BY <1>1, <1>2, <1>3, <3>1, <3>2, UnmovedIsTyped, RecordUndisturbed
    <3> QED BY <1>1, <3>3, <3>4 DEF NoticeInv
  <2>3. CASE PanelToPrompts
    <3>1. RefreshPrompts("user", NoSlug) /\ move' = move /\ confirmed' = confirmed
      BY <2>3 DEF PanelToPrompts, ShowPrompts
    <3>2. DrawnNotice' BY <3>1, BlankNotice DEF RefreshPrompts
    <3>3. RecordInv' BY <1>1, <1>2, <1>3, <3>1, RefreshForgets, RecordUndisturbed
    <3> QED BY <1>1, <3>2, <3>3 DEF NoticeInv
  <2> QED BY <1>9, <2>1, <2>2, <2>3 DEF Navigate
<1> QED BY <1>5, <1>6, <1>7, <1>8, <1>9 DEF Next, User, Network

LEMMA NoticeInitially == Init => NoticeInv
<1> SUFFICES ASSUME Init PROVE NoticeInv
  OBVIOUS
<1>1. route = "overview" /\ page = EmptyPage /\ move = NoMove /\ listRequest = NoList
  BY DEF Init, PromptsInit
<1>2. page.notice = NoNotice BY <1>1 DEF EmptyPage
<1>3. move.answer = 0 /\ move.phase = "none" BY <1>1 DEF NoMove
<1>4. DrawnNotice BY <1>1 DEF DrawnNotice
<1>5. RecordInv
  BY <1>1, <1>2, <1>3, UnmovedIsTyped DEF RecordInv, MoveOnRecord, ReloadSeesMove, NoticeOnRecord
<1> QED BY <1>4, <1>5, RegistryInitially DEF NoticeInv

(* However many moves the page, the requests it gave up and other          *)
(* administrators make: the notice next to a detail names a move that was  *)
(* made, from where the label then stood, and the list and the detail next *)
(* to it were read after it (prompts.ts performLabelMove).                 *)
THEOREM NoticeIsTrue == Spec => []NoticeTellsTheMove
<1>1. ASSUME ControlsInv, FreshInv, NoticeInv PROVE NoticeTellsTheMove
  <2> SUFFICES ASSUME route = "prompts", drawn.kind = "current", drawn.notice # NoNotice
               PROVE  \E i \in DOMAIN labelHistory :
                        /\ labelHistory[i].slug = drawn.notice.slug
                        /\ labelHistory[i].to = drawn.notice.to
                        /\ PointerBefore(i) = drawn.notice.from
                        /\ page.asOf >= i
                        /\ drawn.detail.slug = drawn.notice.slug => drawn.detail.asOf >= i
    BY DEF NoticeTellsTheMove
  <2>1. page.detail # NoDetail /\ drawn.notice = page.notice /\ drawn.detail = page.detail
    BY <1>1 DEF NoticeInv, DrawnNotice, ControlsInv, DrawnInv, ControlsAreOfTheDetail
  <2> DEFINE told == confirmed[page.notice.slug]
  <2>2. /\ IsMove(told, page.notice.slug, page.notice.to)
        /\ labelHistory[told].from = page.notice.from /\ page.asOf >= told
    BY <1>1, <2>1 DEF NoticeInv, RecordInv, NoticeOnRecord
  <2>3. PointerBefore(told) = page.notice.from
    BY <1>1, <2>2 DEF NoticeInv, RegistryInv, MovesBeginWhereLastEnded, IsMove
  <2>4. told \in DOMAIN labelHistory
    <3>1. PICK S : labelHistory \in Seq(S) BY <1>1 DEF FreshInv, HistoryIsASequence
    <3> QED BY <2>2, <3>1 DEF IsMove
  <2>5. page.detail.slug = page.notice.slug => page.detail.asOf >= told
    BY <1>1, <2>1 DEF FreshInv, SeenWhatIsConfirmed
  <2> WITNESS told \in DOMAIN labelHistory
  <2> QED BY <2>1, <2>2, <2>3, <2>5 DEF IsMove
<1>2. Spec => [](ControlsInv /\ FreshInv /\ NoticeInv)
  BY FreshInitially, FreshInductive, ControlsAlways, PanelAlways, NoticeInitially, NoticeInductive,
    PTL DEF Spec
<1> QED BY <1>1, <1>2, PTL
=============================================================================
