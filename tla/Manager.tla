--------------------------------- MODULE Manager ---------------------------------
(******************************************************************************)
(* monitorv4/manager.go: the Manager, which registers routes for secrets with *)
(* secretMonitor.  RegisterRoute, UnregisterRoute and GetSecret hold m.lock   *)
(* for their whole body, so that one thread at a time is inside secretMonitor;*)
(* WithSecretHandler takes no lock.                                           *)
(*                                                                            *)
(* As in SecretMonitor, a call that changes nothing has no action: that for a *)
(* route that is registered already, or not at all.  Mutants are not the code:*)
(* they are what properties are checked against.                              *)
(******************************************************************************)
EXTENDS SecretMonitor

CONSTANT Routes  \* the routes, each a key <namespace>/<name>

ASSUME ManagerAssumption == None \notin Routes

VARIABLES
  registeredHandlers,  \* m.registeredHandlers: the registration of each route
  secretHandler,       \* m.secretHandler, by the route whose closure it is
  handlerOf,           \* the handler that each registration was attached with
  route,               \* the route that each thread is working on
  handler              \* the handler that its AddSecretEventHandler was given

managerVars == <<registeredHandlers, secretHandler, handlerOf, route, handler>>
allVars == <<vars, managerVars>>

ManagerTypeOK ==
  /\ registeredHandlers \in [Routes -> Handles \cup {None}]
  /\ secretHandler \in Routes \cup {None}
  /\ handlerOf \in [Handles -> Routes \cup {None}]
  /\ route \in [Threads -> Routes \cup {None}]
  /\ handler \in [Threads -> Routes \cup {None}]

ManagerInit ==
  /\ Init
  /\ registeredHandlers = [r \in Routes |-> None]
  /\ secretHandler = None
  /\ handlerOf = [h \in Handles |-> None]
  /\ route = [t \in Threads |-> None]
  /\ handler = [t \in Threads |-> None]

\* The call of thread t is over.
Done(t) == route' = [route EXCEPT ![t] = None]

-----------------------------------------------------------------------------

\* Mutant: only the first handler is taken.
WithFirstHandler(t, r) ==
  /\ pc[t] = "idle" /\ route[t] = None
  /\ secretHandler' = IF secretHandler = None THEN r ELSE secretHandler
  /\ route' = [route EXCEPT ![t] = r]
  /\ UNCHANGED <<vars, registeredHandlers, handlerOf, handler>>

\* localRegisterRoute sets the handler that the registration shall use, ...
WithSecretHandler(t, r) ==
  /\ pc[t] = "idle" /\ route[t] = None
  /\ secretHandler' = r
  /\ route' = [route EXCEPT ![t] = r]
  /\ UNCHANGED <<vars, registeredHandlers, handlerOf, handler>>

\* Mutants: a registered route is registered again, or secrets are taken for routes.
RegisterAgain(t, k, c) ==
  /\ route[t] # None
  /\ AddSecretEventHandler(t, k, c)
  /\ handler' = [handler EXCEPT ![t] = secretHandler]
  /\ UNCHANGED <<registeredHandlers, secretHandler, handlerOf, route>>
RegisterSecret(t, k, c) ==
  /\ route[t] # None
  /\ registeredHandlers[route[t]] = None
  /\ AddSecretEventHandler(t, k, c)
  /\ handler' = [handler EXCEPT ![t] = k]
  /\ UNCHANGED <<registeredHandlers, secretHandler, handlerOf, route>>

\* ... and then calls RegisterRoute, which adds whatever handler is set by now,
\* unless the route is registered.
RegisterRoute(t, k, c) ==
  /\ route[t] # None
  /\ registeredHandlers[route[t]] = None
  /\ AddSecretEventHandler(t, k, c)
  /\ handler' = [handler EXCEPT ![t] = secretHandler]
  /\ UNCHANGED <<registeredHandlers, secretHandler, handlerOf, route>>

RegisterRefused(t) ==
  /\ CanLock
  /\ route[t] # None
  /\ registeredHandlers[route[t]] # None
  /\ Done(t)
  /\ UNCHANGED <<vars, registeredHandlers, secretHandler, handlerOf, handler>>

\* The rest of RegisterRoute: the registration is noted under the route.
RouteSynced(t) == AwaitSync(t) /\ UNCHANGED managerVars

RouteRegistered(t, h) ==
  /\ AttachHandler(t, h)
  /\ registeredHandlers' = [registeredHandlers EXCEPT ![route[t]] = h]
  /\ handlerOf' = [handlerOf EXCEPT ![h] = handler[t]]
  /\ Done(t)
  /\ UNCHANGED <<secretHandler, handler>>

RegisterFailed(t) ==
  /\ AttachRefused(t)
  /\ Done(t)
  /\ UNCHANGED <<registeredHandlers, secretHandler, handlerOf, handler>>

\* Mutant: the route stays in the map if others watch the same secret.
UnregisterKeepsRoute(t, r) ==
  /\ route[t] = None
  /\ registeredHandlers[r] # None
  /\ RemoveSecretEventHandler(t, registeredHandlers[r])
  /\ route' = IF pc'[t] = "stop" THEN [route EXCEPT ![t] = r] ELSE route
  /\ UNCHANGED <<registeredHandlers, secretHandler, handlerOf, handler>>

\* UnregisterRoute removes the handler and then the route, which has to wait for
\* the informer to be stopped if the handler was the last.
UnregisterRoute(t, r) ==
  /\ route[t] = None
  /\ registeredHandlers[r] # None
  /\ RemoveSecretEventHandler(t, registeredHandlers[r])
  /\ \/ /\ pc'[t] = "stop"
        /\ route' = [route EXCEPT ![t] = r]
        /\ UNCHANGED registeredHandlers
     \/ /\ pc'[t] # "stop"
        /\ registeredHandlers' = [registeredHandlers EXCEPT ![r] = None]
        /\ UNCHANGED route
  /\ UNCHANGED <<secretHandler, handlerOf, handler>>

\* Mutant: the route stays in the map.
StoppedKeepsRoute(t) ==
  /\ StopMonitor(t)
  /\ Done(t)
  /\ UNCHANGED <<registeredHandlers, secretHandler, handlerOf, handler>>

\* The rest of UnregisterRoute, after the informer was stopped.
RouteUnregistered(t) ==
  /\ StopMonitor(t)
  /\ registeredHandlers' = [registeredHandlers EXCEPT ![route[t]] = None]
  /\ Done(t)
  /\ UNCHANGED <<secretHandler, handlerOf, handler>>

GetRouteSecret(t, r) ==
  /\ CanLock
  /\ route[t] = None
  /\ registeredHandlers[r] # None
  /\ GetSecret(t, registeredHandlers[r])
  /\ UNCHANGED managerVars

GetRouteSecretReturn(t) == GetSecretReturn(t) /\ UNCHANGED managerVars

-----------------------------------------------------------------------------

Register(t) ==
  \/ \E r \in Routes : WithSecretHandler(t, r)
  \/ \E k \in Keys, c \in Contexts : RegisterRoute(t, k, c)
  \/ RegisterRefused(t)

ManagerContinue(t) ==
  \/ RouteSynced(t)
  \/ \E h \in Handles : RouteRegistered(t, h)
  \/ RegisterFailed(t)
  \/ RouteUnregistered(t)
  \/ GetRouteSecretReturn(t)

ManagerNext ==
  \/ Environment /\ UNCHANGED managerVars
  \/ \E t \in Threads :
       \/ Register(t)
       \/ \E r \in Routes : UnregisterRoute(t, r) \/ GetRouteSecret(t, r)
       \/ ManagerContinue(t)

ManagerSpec == ManagerInit /\ [][ManagerNext]_allVars

-----------------------------------------------------------------------------

\* Between calls, the registrations that secretMonitor counts are those the
\* Manager can still remove, one for each registered route.
OwnsRegistrations ==
  CanLock =>
    /\ held = {registeredHandlers[r] : r \in Routes} \ {None}
    /\ \A r, s \in Routes :
         registeredHandlers[r] # None /\ registeredHandlers[r] = registeredHandlers[s]
           => r = s

\* Between calls, and unless contexts are cancelled, an informer runs for exactly
\* the secrets of registered routes.
FollowsRegistered ==
  CanLock /\ ctxDone = {} =>
    {k \in Keys : monitors[k] # None} =
      {itemKey[reg[h]] : h \in {registeredHandlers[r] : r \in Routes} \ {None}}

\* The events of a secret reach the route that was registered for it, and no
\* other: its registration carries the handler that was made for it.
HandlerIsOfRoute ==
  \A r \in Routes :
    registeredHandlers[r] # None => handlerOf[registeredHandlers[r]] = r

\* What the callers see of all this.  A route counts as registered from when its
\* handler is attached to when it is removed, and a secret as followed while its
\* informer runs or would, had its context not been cancelled.
WatchOf(r) ==
  IF registeredHandlers[r] \in held THEN itemKey[reg[registeredHandlers[r]]] ELSE None
Following ==
  {k \in Keys :
     /\ monitors[k] # None
     /\ ~stopped[monitors[k]] \/ itemCtx[monitors[k]] \in ctxDone}

RW == INSTANCE RouteWatch WITH
  watch <- [r \in Routes |-> WatchOf(r)],
  following <- Following

\* At every moment, in the middle of calls too, the secret of a route whose handler
\* is attached is followed by an informer that runs, or was cancelled.
RegisteredIsFollowed == RW!WatchedIsFollowed

\* Every behaviour of the Manager is one of RouteWatch.
ImplementsRouteWatch == RW!Spec

\* The Manager uses secretMonitor as one of the clients that Spec allows, which
\* never use a registration again after its removal.
UsesMonitorProperly == Spec

=============================================================================
