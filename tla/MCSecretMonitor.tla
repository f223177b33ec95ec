---------------------------- MODULE MCSecretMonitor ----------------------------
(******************************************************************************)
(* SecretMonitor for TLC.  Items and Handles bound the length of a behaviour: *)
(* none is used twice, and when they are used up no Add can take place.       *)
(******************************************************************************)
EXTENDS SecretMonitor

=============================================================================
