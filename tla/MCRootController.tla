--------------------------- MODULE MCRootController ---------------------------
(******************************************************************************)
(* RootController for TLC.  Every route and every change of one may need a    *)
(* registration and an informer, which are never used twice.                  *)
(******************************************************************************)
EXTENDS RootController, TLC

CONSTANTS k1, k2, s1, s2, s3

\* Two of the three specs name the same secret.
MCSecretOf == (s1 :> k1) @@ (s2 :> k1) @@ (s3 :> k2)

=============================================================================
