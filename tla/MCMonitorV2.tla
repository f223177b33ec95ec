-------------------------------- MODULE MCMonitorV2 --------------------------------
(******************************************************************************)
(* MonitorV2 for TLC.  The state is finite: the memory of Objects is used     *)
(* again.                                                                     *)
(******************************************************************************)
EXTENDS MonitorV2

=============================================================================
