------------------------------- MODULE MCManager -------------------------------
(******************************************************************************)
(* Manager for TLC.  As in MCSecretMonitor, Items and Handles bound the       *)
(* length of a behaviour.                                                     *)
(******************************************************************************)
EXTENDS Manager, TLC

\* Sound as the run checks no liveness.
Symmetry ==
  Permutations(Items) \cup Permutations(Handles) \cup Permutations(Keys)
    \cup Permutations(Routes)

=============================================================================
