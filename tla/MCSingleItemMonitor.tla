-------------------------- MODULE MCSingleItemMonitor --------------------------
(******************************************************************************)
(* SingleItemMonitor for TLC.  Nothing is bounded: the state is finite.       *)
(******************************************************************************)
EXTENDS SingleItemMonitor

=============================================================================
