-------------------------------- MODULE MCMonitorV1 --------------------------------
(******************************************************************************)
(* MonitorV1 for TLC.  MaxRefs and Objects bound the length of a behaviour.   *)
(******************************************************************************)
EXTENDS MonitorV1

=============================================================================
