--------------------------- MODULE MCRouteController ---------------------------
(******************************************************************************)
(* RouteController for TLC.  MaxChanges and MaxBreaks bound the behaviours;   *)
(* every change adds two events to the queue at most.                         *)
(******************************************************************************)
EXTENDS RouteController

=============================================================================
