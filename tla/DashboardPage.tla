---------------------------- MODULE DashboardPage ---------------------------
(***************************************************************************)
(* The one document of the dashboard (dashboard main.ts): the route the    *)
(* hash names, and what the active screen last wrote into it.              *)
(***************************************************************************)
EXTENDS Naturals, FiniteSets, TLC

VARIABLES
  route,
  drawn    (* the results section: what it shows and which controls it has *)

Panels == {"overview", "cost", "quality"}
Routes == Panels \cup {"prompts"}

Loading == [kind |-> "loading"]
ErrorState == [kind |-> "error"]
=============================================================================
