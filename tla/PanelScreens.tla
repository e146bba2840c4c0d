---------------------------- MODULE PanelScreens ----------------------------
(***************************************************************************)
(* The read-only screens (dashboard overview.ts, cost-explorer.ts,         *)
(* quality-drift.ts) and the token recovery of their requests (api.ts).    *)
(* A screen has a generation and an AbortController; they change together, *)
(* so a load in flight is the one that owns the screen.  The answer of an  *)
(* aborted request is never seen: its promise is rejected before the next  *)
(* event.  Each load is one request, the overview's several.               *)
(***************************************************************************)
EXTENDS DashboardPage

CONSTANTS
  OverviewParts,   (* requests of one overview load: seven in the code     *)
  Groups           (* model, key, feature                                  *)

ASSUME PanelConstants == OverviewParts \in Nat \ {0} /\ Groups # {}

VARIABLES
  loads,           (* per panel, its loads in flight                       *)
  charts,          (* the panels whose charts are alive                    *)
  selectedGroup

panelState == <<loads, charts, selectedGroup>>

PanelInit ==
  /\ loads = [p \in Panels |-> {}]
  /\ charts = {} /\ selectedGroup \in Groups

(* fresh: requests not yet answered; again: those sent once more after a   *)
(* 401; prompted: api.ts's token generation has moved since they were sent.*)
Load(group, parts) ==
  [group |-> group, fresh |-> parts, again |-> 0, prompted |-> FALSE, prompts |-> 0]

(* A load that starts ends the one before it.  Mutant: it does not.        *)
StartBeside(inFlight, load) == inFlight \cup {load}

Supersede(inFlight, load) == {load}

Refresh(p, load) ==
  /\ loads' = [loads EXCEPT ![p] = Supersede(@, load)]
  /\ charts' = charts \ {p}
  /\ drawn' = Loading

RefreshOverview == Refresh("overview", Load("none", OverviewParts)) /\ UNCHANGED selectedGroup
RefreshQuality == Refresh("quality", Load("none", 1)) /\ UNCHANGED selectedGroup
RefreshCost(group) == Refresh("cost", Load(group, 1)) /\ selectedGroup' = group

(* The overview has its button in the data and in the error, the others    *)
(* also in their chrome.                                                   *)
ClickRetry ==
  /\ \/ route = "overview" /\ drawn # Loading /\ RefreshOverview
     \/ route = "quality" /\ RefreshQuality
     \/ route = "cost" /\ RefreshCost(selectedGroup)
  /\ UNCHANGED route

ChooseGroup ==
  /\ route = "cost"
  /\ \E group \in Groups \ {selectedGroup} : RefreshCost(group)
  /\ UNCHANGED route

(* The route changes: dispose of one panel, render another.                *)
Disposed(p) == [loads EXCEPT ![p] = {}]

Shown(inFlight, p) ==
  LET load == IF p = "cost" THEN Load(selectedGroup, 1)
              ELSE Load("none", IF p = "overview" THEN OverviewParts ELSE 1)
  IN [inFlight EXCEPT ![p] = Supersede(@, load)]

-----------------------------------------------------------------------------
(* What a complete load draws, if its screen is still there; a panel       *)
(* without points has no chart.                                            *)

Data(of, labelled) == [kind |-> "data", of |-> of, labelled |-> labelled]

MayChart(p) == charts' \in {charts, charts \cup {p}}

OverviewDrawn(load) == drawn' = Data("none", "none") /\ MayChart("overview")
QualityDrawn(load) == drawn' = Data("none", "none") /\ MayChart("quality")
CostDrawn(load) == drawn' = Data(load.group, selectedGroup) /\ charts' = charts \cup {"cost"}

Drawn(p, load) ==
  \/ p = "overview" /\ OverviewDrawn(load)
  \/ p = "cost" /\ CostDrawn(load)
  \/ p = "quality" /\ QualityDrawn(load)

Outstanding(load) == load.fresh + load.again

PartArrives(p, load, rest) ==
  IF Outstanding(rest) > 0
  THEN /\ loads' = [loads EXCEPT ![p] = (@ \ {load}) \cup {rest}]
       /\ UNCHANGED <<drawn, charts>>
  ELSE /\ loads' = [loads EXCEPT ![p] = @ \ {load}]
       /\ IF route = p THEN Drawn(p, load) ELSE UNCHANGED <<drawn, charts>>

PartAnswered(p, load) ==
  /\ \/ load.fresh > 0 /\ PartArrives(p, load, [load EXCEPT !.fresh = @ - 1])
     \/ load.again > 0 /\ PartArrives(p, load, [load EXCEPT !.again = @ - 1])
  /\ UNCHANGED <<route, selectedGroup>>

(* The first failure stops the siblings.  Mutant: whether the load had     *)
(* been superseded is asked after that.                                    *)
NoErrorAfterAbort == drawn

ScreenAfterFailure == ErrorState

LoadFails(p, load) ==
  /\ loads' = [loads EXCEPT ![p] = @ \ {load}]
  /\ drawn' = IF route = p THEN ScreenAfterFailure ELSE drawn
  /\ UNCHANGED charts

PartFails(p, load) == LoadFails(p, load) /\ UNCHANGED <<route, selectedGroup>>

(* api's 401.  The token changed since the request was sent: it is sent    *)
(* again.  Otherwise the admin is asked, and either gives one or not.      *)
(* Mutant: the generation is read when the answer is.                      *)
TokenOfNow(load) == FALSE

TokenChanged(load) == load.prompted

Resent(load) == [load EXCEPT !.fresh = @ - 1, !.again = @ + 1]

PartUnauthorized(p, load) ==
  /\ load.fresh > 0
  /\ IF TokenChanged(load)
     THEN /\ loads' = [loads EXCEPT ![p] = (@ \ {load}) \cup {Resent(load)}]
          /\ UNCHANGED <<drawn, charts>>
     ELSE \/ /\ loads' = [loads EXCEPT ![p] = (@ \ {load}) \cup
                {[Resent(load) EXCEPT !.prompted = TRUE, !.prompts = @ + 1]}]
             /\ UNCHANGED <<drawn, charts>>
          \/ LoadFails(p, load)
  /\ UNCHANGED <<route, selectedGroup>>

PanelNetwork ==
  \E p \in Panels : \E load \in loads[p] :
    PartAnswered(p, load) \/ PartFails(p, load) \/ PartUnauthorized(p, load)

PanelUser == ClickRetry \/ ChooseGroup
=============================================================================
