------------------------------- MODULE RouteWatch -------------------------------
(******************************************************************************)
(* What the Manager of monitorv4/manager.go promises its callers, without     *)
(* locks, informers or counters: a route watches one secret at most, and a    *)
(* secret is followed as long as any route watches it.                        *)
(******************************************************************************)
CONSTANTS Routes, Keys, None

VARIABLES
  watch,      \* the secret each route watches, or None
  following   \* the secrets that are followed

rwVars == <<watch, following>>

TypeOK ==
  /\ watch \in [Routes -> Keys \cup {None}]
  /\ following \in SUBSET Keys

Init ==
  /\ watch = [r \in Routes |-> None]
  /\ following = {}

\* To follow a secret is the first half of the first route's registration.
Follow(k) ==
  /\ following' = following \cup {k}
  /\ UNCHANGED watch

\* A route that watches nothing watches a secret that is followed by now.
Register(r, k) ==
  /\ watch[r] = None
  /\ k \in following
  /\ watch' = [watch EXCEPT ![r] = k]
  /\ UNCHANGED following

Unregister(r) ==
  /\ watch' = [watch EXCEPT ![r] = None]
  /\ UNCHANGED following

\* Only a secret that no route watches is followed no more.
Forget(k) ==
  /\ \A r \in Routes : watch[r] # k
  /\ following' = following \ {k}
  /\ UNCHANGED watch

Next ==
  \/ \E k \in Keys : Follow(k) \/ Forget(k)
  \/ \E r \in Routes : Unregister(r) \/ \E k \in Keys : Register(r, k)

Spec == Init /\ [][Next]_rwVars

\* The promise: what a route watches is followed.
WatchedIsFollowed == \A r \in Routes : watch[r] # None => watch[r] \in following

=============================================================================
