------------------------------ MODULE RootController ------------------------------
(******************************************************************************)
(* The root program: the handlers of route events call the Manager of         *)
(* monitorv3 themselves, one event at a time, in the goroutine of the         *)
(* informer; the handlers of secrets fill a work queue, whose one worker      *)
(* throws every key away.                                                     *)
(*                                                                            *)
(* A call of the Manager that fails is logged and changes nothing.  Routes    *)
(* name a secret.  Mutants are not the code: they are what properties are     *)
(* checked against.                                                           *)
(******************************************************************************)
EXTENDS MonitorV3

CONSTANTS
  Specs,       \* what the Spec of a route may be
  SecretOf,    \* SecretOf[s]: the secret that spec s names
  MaxChanges,  \* bound: changes of routes and deletions of secrets
  MaxBreaks    \* bound: how often a watch breaks

ASSUME RootControllerAssumption ==
  /\ None \notin Specs
  /\ SecretOf \in [Specs -> Keys]
  /\ MaxChanges \in Nat
  /\ MaxBreaks \in Nat

VARIABLES
  api, watching, deltas, known, changes, breaks,
               \* the informer; of a route, its Spec
  phase,       \* where the goroutine of the informer is in a handler
  new,         \* the key of the route that UpdateFunc was given
  queued,      \* "sandbox/route" is to be processed
  crashed      \* a handler has panicked

RI == INSTANCE RouteInformer WITH Objects <- Specs

informerVars == <<api, watching, deltas, known, changes, breaks>>
vars == <<v3Vars, informerVars, phase, new, queued, crashed>>

RootTypeOK ==
  /\ TypeOK
  /\ RI!TypeOK
  /\ phase \in {"idle", "register", "get"}
  /\ new \in Pairs \cup {None}
  /\ queued \in BOOLEAN
  /\ crashed \in BOOLEAN

RootInit ==
  /\ Init
  /\ RI!Init
  /\ phase = "idle"
  /\ new = None
  /\ queued = FALSE
  /\ crashed = FALSE

-----------------------------------------------------------------------------
(* The handlers of route events.                                              *)

ChangeRoutes ==
  /\ RI!ApiServer
  /\ UNCHANGED <<v3Vars, phase, new, queued, crashed>>

ListRoutes ==
  /\ RI!List
  /\ UNCHANGED <<v3Vars, phase, new, queued, crashed>>

KeyOf(r, s) == <<r, SecretOf[s]>>

\* secretManager.UnregisterRoute, for a key that may not be registered.
Unregister(p) ==
  IF registeredHandlers[p] # None THEN UnregisterRoute(p) ELSE UNCHANGED v3Vars

AddFunc(r) ==
  /\ phase = "idle"
  /\ \E s \in Specs : RI!Added(r, s) /\ RegisterRoute(KeyOf(r, s))
  /\ UNCHANGED <<phase, new, queued, crashed>>

\* Mutants: UpdateFunc unregisters the new route; it keeps the registration of a
\* route that names the same secret as before.
UnregisterNew(r, s) == Unregister(KeyOf(r, s))
UnregisterIfOther(r, s) ==
  IF KeyOf(r, known[r]) # KeyOf(r, s) THEN Unregister(KeyOf(r, known[r])) ELSE UNCHANGED v3Vars

\* The old watch goes.
UnregisterOld(r, s) == Unregister(KeyOf(r, known[r]))

\* A new Spec, with another secret or not, is a new watch; the secret is read in
\* any case.
UpdateFunc(r) ==
  /\ phase = "idle"
  /\ \E s \in Specs :
       /\ RI!Updated(r, s)
       /\ new' = KeyOf(r, s)
       /\ \/ s # known[r] /\ UnregisterOld(r, s) /\ phase' = "register"
          \/ s = known[r] /\ phase' = "get" /\ UNCHANGED v3Vars
  /\ UNCHANGED <<queued, crashed>>

RegisterNew ==
  /\ phase = "register"
  /\ RegisterRoute(new)
  /\ phase' = "get"
  /\ UNCHANGED <<informerVars, new, queued, crashed>>

ReadNew ==
  /\ phase = "get"
  /\ reading = None
  /\ GetSecret(new)
  /\ UNCHANGED <<informerVars, phase, new, queued, crashed>>

UpdateDone ==
  /\ GetSecretReturn
  /\ phase' = "idle"
  /\ new' = None
  /\ UNCHANGED <<informerVars, queued, crashed>>

\* The object is taken for a Route, which a tombstone is not.
DeleteFunc(r) ==
  /\ phase = "idle"
  /\ \/ /\ RI!Removed(r, RI!Deleted)
        /\ Unregister(KeyOf(r, known[r]))
        /\ UNCHANGED crashed
     \/ /\ RI!Removed(r, RI!Tombstone)
        /\ crashed' = TRUE
        /\ UNCHANGED v3Vars
  /\ UNCHANGED <<phase, new, queued>>

-----------------------------------------------------------------------------
(* The handlers of secrets, and the worker.                                   *)

\* The informer of a registered key has something to tell.  The queue holds the
\* one key once: to add it again changes nothing.
SecretHandler(i) ==
  /\ ~queued
  /\ runner[i] = "running"
  /\ HandlersOf(i) \cap listening # {}
  /\ queued' = TRUE
  /\ UNCHANGED <<v3Vars, informerVars, phase, new, crashed>>

\* The secret was deleted while the watch was broken: DeleteFunc takes a tombstone
\* for a Secret.
MissSecretDelete(i) ==
  /\ changes < MaxChanges
  /\ breaks < MaxBreaks
  /\ changes' = changes + 1
  /\ breaks' = breaks + 1
  /\ runner[i] = "running"
  /\ HandlersOf(i) \cap listening # {}
  /\ crashed' = TRUE
  /\ UNCHANGED <<v3Vars, api, watching, deltas, known, phase, new, queued>>

\* processNextItem takes the key and skips it, since it is a string.  What is added
\* meanwhile is taken next.
SkipItem ==
  /\ queued
  /\ queued' = FALSE
  /\ UNCHANGED <<v3Vars, informerVars, phase, new, crashed>>

-----------------------------------------------------------------------------

RouteHandlers == \E r \in Routes : AddFunc(r) \/ UpdateFunc(r) \/ DeleteFunc(r)

UpdateSteps == RegisterNew \/ ReadNew \/ UpdateDone

InformerSteps(i) ==
  Informer(i) /\ UNCHANGED <<informerVars, phase, new, queued, crashed>>

RootNext ==
  /\ ~crashed
  /\ \/ ChangeRoutes
     \/ ListRoutes
     \/ RouteHandlers
     \/ UpdateSteps
     \/ \E i \in Items : SecretHandler(i) \/ MissSecretDelete(i) \/ InformerSteps(i)
     \/ SkipItem

RootSpec == RootInit /\ [][RootNext]_vars

\* The reflector, which lists again after an error, the handlers of routes and the
\* informers.
Progress ==
  \/ ListRoutes
  \/ RouteHandlers
  \/ UpdateSteps
  \/ \E i \in Items : InformerSteps(i)

\* While one of their goroutines can run, one of them does.  That is less than Go
\* gives, and enough.
RootFairness == WF_vars(~crashed /\ Progress)

FairRootSpec == RootSpec /\ RootFairness

-----------------------------------------------------------------------------

Registered(routes) == {KeyOf(r, routes[r]) : r \in {q \in Routes : routes[q] # None}}

\* Between events, the Manager has the registrations of the routes the informer
\* knows, each under the key of its last Spec, and no other.
RegisteredIsKnown ==
  phase = "idle" /\ ~crashed =>
    {p \in Pairs : registeredHandlers[p] # None} = Registered(known)

\* The handlers never register what is registered, although they register again a
\* route whose secret stays the same: the behaviours are those of MonitorV3.
UsesV3Properly == Spec

\* When the routes stop changing, the registrations end up being those of the
\* routes at the API server, and the goroutines of all other informers end, also of
\* those that were stopped before they ran.
RootConverges ==
  <>[](\/ crashed
       \/ /\ {p \in Pairs : registeredHandlers[p] # None} = Registered(api)
          /\ \A i \in Items : stopped[i] => runner[i] = "returned")

=============================================================================
