----------------------------- MODULE RouteController -----------------------------
(******************************************************************************)
(* routecontroller: the handlers of route events (routes are ConfigMaps in    *)
(* this code), the work queue that they and the secret handlers fill, and the *)
(* workers that empty it by calling the Manager.                              *)
(*                                                                            *)
(* The Manager is what RouteWatch promises of it: its variables and actions   *)
(* are those of that module.  RegisterRoute fails for a route that watches a  *)
(* secret, UnregisterRoute and GetSecret for one that does not; a failed call *)
(* changes nothing.  Mutants are not the code: they are what properties are   *)
(* checked against.                                                           *)
(******************************************************************************)
EXTENDS RouteWatch, Naturals, SequencesExt

CONSTANTS
  Workers,     \* the goroutines that run runWorker
  MaxChanges,  \* bound: changes of routes and secrets at the API server
  MaxBreaks    \* bound: how often the watch for routes breaks

ASSUME RouteControllerAssumption ==
  /\ None \notin Routes \cup Keys
  /\ MaxChanges \in Nat
  /\ MaxBreaks \in Nat

VARIABLES
  api, watching, deltas, known, changes, breaks,
                  \* the informer; of a route, the secret that it names
  started,        \* Run has started the workers
  queue,          \* the work queue of RouteEvents
  job,            \* the RouteEvent each worker has taken, or Nothing
  phase,          \* where each worker is in HandleRoute
  secretHandler,  \* Manager.secretHandler, by the route whose closure it is
  handlerOf,      \* the handler each route's registration was last made with
  notified,       \* routes whose registration has an event still to deliver
  stale,          \* routes whose secret has changed and was not read since
  crashed         \* a handler has panicked

RI == INSTANCE RouteInformer WITH Objects <- Keys

informerVars == <<api, watching, deltas, known, changes, breaks>>
secretVars == <<handlerOf, notified, stale>>
workerVars == <<job, phase, secretHandler>>
vars == <<rwVars, informerVars, started, queue, workerVars, secretVars, crashed>>

Nothing == [type |-> "Nothing"]
RouteEvent ==
  [type : {"Added"}, route : Routes, secret : Keys]
    \cup [type : {"Modified", "Deleted"}, route : Routes]
NewRouteEvent(type, r) == [type |-> type, route |-> r]
AddedFromIndexer(r, k) == [type |-> "Added", route |-> r, secret |-> known[r]] \* mutant
NewAddedEvent(r, k) == [type |-> "Added", route |-> r, secret |-> k]

ControllerTypeOK ==
  /\ TypeOK
  /\ RI!TypeOK
  /\ started \in BOOLEAN
  /\ queue \in Seq(RouteEvent)
  /\ job \in [Workers -> RouteEvent \cup {Nothing}]
  /\ phase \in [Workers -> {"get", "handle", "register", "follow", "forget"}]
  /\ secretHandler \in Routes \cup {None}
  /\ handlerOf \in [Routes -> Routes \cup {None}]
  /\ notified \in SUBSET Routes
  /\ stale \in SUBSET Routes
  /\ crashed \in BOOLEAN

ControllerInit ==
  /\ Init
  /\ RI!Init
  /\ started = FALSE
  /\ queue = <<>>
  /\ job = [w \in Workers |-> Nothing]
  /\ phase = [w \in Workers |-> "get"]
  /\ secretHandler = None
  /\ handlerOf = [r \in Routes |-> None]
  /\ notified = {}
  /\ stale = {}
  /\ crashed = FALSE

-----------------------------------------------------------------------------
(* The handlers of route events.                                              *)

\* What the API server and the reflector do is nothing to the rest.
ChangeRoutes ==
  /\ RI!ApiServer
  /\ UNCHANGED <<rwVars, started, queue, workerVars, secretVars, crashed>>

ListRoutes ==
  /\ RI!List
  /\ UNCHANGED <<rwVars, started, queue, workerVars, secretVars, crashed>>

AddFunc(r) ==
  \E k \in Keys :
    /\ RI!Added(r, k)
    /\ queue' = Append(queue, NewAddedEvent(r, k))
    /\ UNCHANGED <<rwVars, started, workerVars, secretVars, crashed>>

\* Mutant: the new watch comes before the old one goes.
AddFirst(r, k) == <<NewAddedEvent(r, k), NewRouteEvent("Deleted", r)>>

\* The old watch goes, a new one comes.
Rewatch(r, k) == <<NewRouteEvent("Deleted", r), NewAddedEvent(r, k)>>

\* Only another secret name matters.
UpdateFunc(r) ==
  \E k \in Keys :
    /\ RI!Updated(r, k)
    /\ \/ k # known[r] /\ queue' = queue \o Rewatch(r, k)
       \/ k = known[r] /\ UNCHANGED queue
    /\ UNCHANGED <<rwVars, started, workerVars, secretVars, crashed>>

\* getResource asserts the type of the object: a tombstone is none.
DeleteFunc(r) ==
  /\ \/ /\ RI!Removed(r, RI!Deleted)
        /\ queue' = Append(queue, NewRouteEvent("Deleted", r))
        /\ UNCHANGED crashed
     \/ /\ RI!Removed(r, RI!Tombstone)
        /\ crashed' = TRUE
        /\ UNCHANGED queue
  /\ UNCHANGED <<rwVars, started, workerVars, secretVars>>

\* Run waits for the informer's first list to be processed.
StartWorkers ==
  /\ ~started
  /\ RI!HasSynced
  /\ started' = TRUE
  /\ UNCHANGED <<rwVars, informerVars, queue, workerVars, secretVars, crashed>>

-----------------------------------------------------------------------------
(* The workers: processNextItem and HandleRoute.                              *)

\* Any two RouteEvents are different items for the queue, which therefore hands
\* out one after the other, to different workers too.
GetItem(w) ==
  /\ started
  /\ phase[w] = "get"
  /\ queue # <<>>
  /\ job' = [job EXCEPT ![w] = Head(queue)]
  /\ phase' = [phase EXCEPT ![w] = "handle"]
  /\ queue' = Tail(queue)
  /\ UNCHANGED <<rwVars, informerVars, started, secretHandler, secretVars, crashed>>

\* HandleRoute returns: whatever its result, the item is done.
ItemDone(w) ==
  /\ job' = [job EXCEPT ![w] = Nothing]
  /\ phase' = [phase EXCEPT ![w] = "get"]

\* m.lock is free.
ManagerFree == \A w \in Workers : phase[w] \notin {"follow", "forget"}

\* watch.Added: localRegisterRoute sets the handler and then registers.
HandleAdded(w) ==
  /\ phase[w] = "handle"
  /\ job[w].type = "Added"
  /\ secretHandler' = job[w].route
  /\ phase' = [phase EXCEPT ![w] = "register"]
  /\ UNCHANGED <<rwVars, informerVars, started, queue, job, secretVars, crashed>>

RegisterRoute(w) ==
  LET r == job[w].route
      k == job[w].secret
  IN /\ phase[w] = "register"
     /\ ManagerFree
     /\ \/ /\ watch[r] # None
           /\ ItemDone(w)
           /\ UNCHANGED <<rwVars, handlerOf>>
        \/ /\ watch[r] = None
           /\ Follow(k)
           /\ handlerOf' = [handlerOf EXCEPT ![r] = secretHandler]
           /\ phase' = [phase EXCEPT ![w] = "follow"]
           /\ UNCHANGED job
     /\ UNCHANGED <<informerVars, started, queue, secretHandler, notified, stale,
                    crashed>>

\* The handler is attached, and gets an Add if the secret exists, which nobody has
\* read for this route yet.
RouteRegistered(w) ==
  LET r == job[w].route
  IN /\ phase[w] = "follow"
     /\ Register(r, job[w].secret)
     /\ ItemDone(w)
     /\ \/ notified' = notified \cup {r} /\ stale' = stale \cup {r}
        \/ UNCHANGED <<notified, stale>>
     /\ UNCHANGED <<informerVars, started, queue, secretHandler, handlerOf, crashed>>

\* watch.Deleted: UnregisterRoute, which for the last route of a secret goes on
\* to stop the informer.  A notification on its way may be lost or not.
HandleDeleted(w) ==
  LET r == job[w].route
  IN /\ phase[w] = "handle"
     /\ job[w].type = "Deleted"
     /\ ManagerFree
     /\ \/ /\ watch[r] = None
           /\ ItemDone(w)
           /\ UNCHANGED <<rwVars, notified, stale>>
        \/ /\ watch[r] # None
           /\ Unregister(r)
           /\ \/ /\ \E s \in Routes \ {r} : watch[s] = watch[r]
                 /\ ItemDone(w)
              \/ /\ \A s \in Routes \ {r} : watch[s] # watch[r]
                 /\ phase' = [phase EXCEPT ![w] = "forget"]
                 /\ UNCHANGED job
           /\ notified' \in {notified, notified \ {r}}
           /\ stale' = stale \ {r}
     /\ UNCHANGED <<informerVars, started, queue, secretHandler, handlerOf, crashed>>

RouteForgotten(w) ==
  /\ phase[w] = "forget"
  /\ \E k \in following : Forget(k)
  /\ ItemDone(w)
  /\ UNCHANGED <<informerVars, started, queue, secretHandler, secretVars, crashed>>

\* watch.Modified: GetSecret reads what the informer's store has by now.
HandleModified(w) ==
  LET r == job[w].route
  IN /\ phase[w] = "handle"
     /\ job[w].type = "Modified"
     /\ ManagerFree
     /\ stale' = IF watch[r] # None THEN stale \ {r} ELSE stale
     /\ ItemDone(w)
     /\ UNCHANGED <<rwVars, informerVars, started, queue, secretHandler, handlerOf,
                    notified, crashed>>

-----------------------------------------------------------------------------
(* The secrets, and the handlers that generateSecretHandler makes.            *)

\* A followed secret is created, updated or deleted; its informer tells all the
\* registrations.
ChangeSecret(k) ==
  /\ changes < MaxChanges
  /\ changes' = changes + 1
  /\ k \in following
  /\ notified' = notified \cup {r \in Routes : watch[r] = k}
  /\ stale' = stale \cup {r \in Routes : watch[r] = k}
  /\ UNCHANGED <<rwVars, api, watching, deltas, breaks, known, started, queue,
                 workerVars, handlerOf, crashed>>

\* Mutant: the event is for the route that was registered last.
HandlerOfLastRoute(r) ==
  /\ r \in notified
  /\ notified' = notified \ {r}
  /\ queue' = Append(queue, NewRouteEvent("Modified", secretHandler))
  /\ UNCHANGED <<rwVars, informerVars, started, workerVars, handlerOf, stale, crashed>>

\* The handler of the registration of r queues an event for the route it was made
\* for.
SecretHandler(r) ==
  /\ r \in notified
  /\ notified' = notified \ {r}
  /\ queue' = Append(queue, NewRouteEvent("Modified", handlerOf[r]))
  /\ UNCHANGED <<rwVars, informerVars, started, workerVars, handlerOf, stale, crashed>>

\* A secret is deleted while the watch of its informer is broken: the next list
\* hands its handlers a tombstone, which their DeleteFunc takes for a Secret.
MissSecretDelete(k) ==
  /\ breaks < MaxBreaks
  /\ breaks' = breaks + 1
  /\ k \in following
  /\ \E r \in Routes : watch[r] = k
  /\ crashed' = TRUE
  /\ UNCHANGED <<rwVars, api, watching, deltas, changes, known, started, queue,
                 workerVars, secretVars>>

-----------------------------------------------------------------------------

Environment ==
  \/ ChangeRoutes
  \/ \E k \in Keys : ChangeSecret(k) \/ MissSecretDelete(k)

RouteHandlers(r) == AddFunc(r) \/ UpdateFunc(r) \/ DeleteFunc(r)

Worker(w) ==
  \/ GetItem(w)
  \/ HandleAdded(w) \/ RegisterRoute(w) \/ RouteRegistered(w)
  \/ HandleDeleted(w) \/ RouteForgotten(w)
  \/ HandleModified(w)

ControllerNext ==
  /\ ~crashed
  /\ \/ Environment
     \/ ListRoutes
     \/ \E r \in Routes : RouteHandlers(r) \/ SecretHandler(r)
     \/ StartWorkers
     \/ \E w \in Workers : Worker(w)

ControllerSpec == ControllerInit /\ [][ControllerNext]_vars

\* Goroutines that can run do run, and the reflector lists again after an error.
ControllerFairness ==
  /\ WF_vars(~crashed /\ ListRoutes)
  /\ WF_vars(~crashed /\ StartWorkers)
  /\ \A r \in Routes : /\ WF_vars(~crashed /\ RouteHandlers(r))
                       /\ WF_vars(~crashed /\ SecretHandler(r))
  /\ \A w \in Workers : WF_vars(~crashed /\ Worker(w))

FairControllerSpec == ControllerSpec /\ ControllerFairness

-----------------------------------------------------------------------------

\* The events that have had no effect on the Manager yet, in the order in which a
\* single worker handles them.
Backlog ==
  LET inHand == {w \in Workers : phase[w] \in {"handle", "register", "follow"}}
  IN IF inHand = {} THEN queue ELSE <<job[CHOOSE w \in inHand : TRUE]>> \o queue

Events(q, type, r) == {n \in DOMAIN q : q[n].type = type /\ q[n].route = r}

\* The events q of route r lead from the secret v that it watches to the secret k:
\* each Added comes when the route watches nothing, since RegisterRoute would refuse
\* it otherwise, and the last of its events says k.
LeadsTo(q, r, v, k) ==
  LET added == Events(q, "Added", r)
      deleted == Events(q, "Deleted", r)
  IN /\ \A n \in added : v = None \/ \E d \in deleted : d < n
     /\ \A m, n \in added : m < n => \E d \in deleted : m < d /\ d < n
     /\ \A n \in added : q[n].secret = k \/ \E d \in deleted : n < d
     /\ \A d \in deleted : k = None \/ \E n \in added : d < n
     /\ added \cup deleted = {} => v = k

\* With one worker, no event is lost, doubled, refused or overtaken: when the queue has
\* been worked off, each route watches the secret the informer knows it to name.
BacklogLeadsToKnown ==
  ~crashed => \A r \in Routes : LeadsTo(Backlog, r, watch[r], known[r])

\* No event handler panics on what an informer may pass to it: "OnDelete will get
\* the final state of the item if it is known, otherwise it will get an object of
\* type DeletedFinalStateUnknown".
NeverCrashes == ~crashed

\* When the routes stop changing, the Manager ends up watching for each route the
\* secret it names at the API server, and nothing else.
Converges == <>[](crashed \/ watch = api)

\* A change of a secret makes the controller read it for every route that watches
\* it, unless the route stops watching it first.
ChangesAreRead == \A r \in Routes : r \in stale ~> (r \notin stale \/ crashed)

=============================================================================
