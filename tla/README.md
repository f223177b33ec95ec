# A TLA+ project for watch-based-informer

The repository follows the secrets that routes refer to.  For each secret that
some route names, it keeps one informer that watches this one object, shares the
informer between the routes, and stops it when the last of them is gone.  There
are four generations of this code, `monitor`, `monitor_v2`, `monitorv3` and
`monitorv4`, and two programs: `routecontroller` uses `monitorv4`, the root
`main.go` uses `monitorv3`.  No program imports the first two.  The modules here are
about all four generations and both programs; paths below are relative to `src/`.

## Inventory

| Component | State | Operations | Talks to |
|---|---|---|---|
| `monitorv4/monitor.go` `singleItemMonitor` | `stopped`, `stopCh`, the informer, one goroutine that runs it and one that watches a context | `StartInformer`, `StopInformer`, `AddEventHandler`, `RemoveEventHandler`, `GetItem`, `HasSynced` | the SharedInformer |
| `monitorv4/secret_monitor.go` `secretMonitor` | `monitors` (item of each secret), `numHandlers` of each item, `lock` | `AddSecretEventHandler`, `RemoveSecretEventHandler`, `GetSecret` | its items |
| `monitorv4/manager.go` `Manager` | `registeredHandlers` (registration of each route), `secretHandler`, `lock` | `WithSecretHandler`, `RegisterRoute`, `UnregisterRoute`, `GetSecret` | `secretMonitor`; the handlers fill its queue |
| `routecontroller` | the indexer of routes, the work queue, one worker | handlers of route events, `processNextItem`, `HandleRoute`, handlers of secret events | `Manager`, the API server through an informer |
| client-go (vendored) | the DeltaFIFO, the listeners of an informer, their sync state | list and watch, `Run`, distribution of events | the API server, the handlers |
| `main.go`, `generic_controller.go` | as `routecontroller`, with real Routes | handlers that call the Manager themselves | `monitorv3` |
| `monitorv3` | as `monitorv4`, one informer for each pair of route and secret | the same, without contexts | the SharedInformer |
| `monitor_v2` | an `Object` for each route, in two maps; `lock` | `WithSecretHandler`, `RegisterRoute`, `UnregisterRoute`, `GetSecret` | plain informers, one for each Object |
| `monitor` | an `Object` for each key, with a `RefCount`; the registered Routes; `lock` | the same | the same |
| `util` | none | `GetChangedStatusFields`, which nothing calls | `reflect` |
| `testinformer`, `monitorv3/extra.go` | none | a demonstration; drafts | nothing |

What is hard here: several goroutines inside one monitor whose methods block while
they hold a lock; a count that decides when a shared informer dies, while others
join it; contexts that are cancelled at any time, behind the back of the map that
holds the item; channels that may be closed once only; events that are queued as
objects of their own and have to take effect in order; a watch that breaks and is
made good by a list, which knows what is gone but not what it was.
`PROJECT.json` lists these hazards line by line, each with the properties that
cover it.

What makes each component correct:

- `singleItemMonitor`: never closes its channel twice, never runs twice, ends all
  its goroutines, and calls every handler that was added until it is stopped.
- `secretMonitor`: the count is the number of registrations in use; nothing is
  stopped that is used, nothing runs that is not; a registration leads back to its
  own item; every call returns.
- `Manager`: a route watches one secret at most, and what it watches is followed.
- `routecontroller`: the routes watched converge to those at the API server, and
  every change of a secret makes it be read.
- `monitor_v2`: its two maps agree, no registered Object is stopped, none that runs is
  out of reach, and no call waits for the network.
- `monitor`: a secret has a monitor only while a registered route refers to it.
- `util`: no change is missed, and what is reported is one.
- `monitorv3` and the root controller: each route that the informer knows has one
  registration and an informer of its own, under the key of its last Spec.

## Modules

- `SingleItemMonitor`: `monitorv4/monitor.go` by itself, for any number of
  goroutines that call `StartInformer`.  The methods hold `i.lock` for their whole
  body and are one action each; `StartInformer` lets go of it before
  `informer.Run`, which is `RunInformer` and `InformerExit`.  A SharedInformer
  runs once only (`HasStarted`), and refuses listeners after it has ended.
- `SecretMonitor`: `monitorv4/secret_monitor.go` with all its items inside.  A
  method blocks in the middle, so that it is a sequence of actions and a thread's
  `pc` says where it is; who is inside holds `s.lock` (`CanLock`, `CanRLock`).
  `AddSecretEventHandler`, `AwaitSync` and `AttachHandler` or `AttachRefused` are
  one call, `RemoveSecretEventHandler` and `StopMonitor` another, `GetSecret` and
  `GetSecretReturn` the third.  Meanwhile the goroutines of the items start,
  sync, deliver, see a cancelled context, and end.  The clients of `Spec` use a
  registration until they remove it, as `Manager` does.
- `RouteWatch`: the abstract specification of a Manager: which secret each route
  watches, and which secrets are followed.
- `Manager`: `monitorv4/manager.go`.  It extends `SecretMonitor`: each of its
  actions is one of `SecretMonitor`'s with what the Manager adds to it, under
  `m.lock`.  `WithSecretHandler` is an action of its own since it takes no lock.
- `RouteInformer`: the informer of routes, which both programs make with
  `cache.NewIndexerInformer`: the API server, the watch that may break, the
  DeltaFIFO with its tombstones, and the indexer.  `Added`, `Updated` and `Removed`
  are what it does when it calls a handler; what the handler does is up to the
  program, whose action joins the two.  It has a `Spec` of its own, in which the
  handlers do nothing.
- `RouteController`: `routecontroller`.  It extends `RouteWatch`, whose variables
  stand for the Manager, and adds an instance of `RouteInformer`, the queue, the
  workers and the handlers of secrets.
- `MonitorV3`: all of `monitorv3`, whose keys are pairs of a route and a secret.
  Nothing is awaited under a lock except in `GetSecret`, so that `RegisterRoute` and
  `UnregisterRoute` are one action each, through all three layers; the goroutines
  of the informers come between.
- `RootController`: `main.go`.  It extends `MonitorV3` and adds an instance of
  `RouteInformer`.  The handlers call the Manager themselves: `UpdateFunc`,
  `RegisterNew`, `ReadNew` and `UpdateDone` are one call of a handler, and `phase`
  says how far it is.
- `MonitorV2`: all of `monitor_v2`.  A thread calls `RegisterRoute` or
  `UnregisterRoute` and waits (`Call`); it goes on when it has `m.lock` (`Lock`) and
  holds it between the two steps that change `s.monitors`: `AddEventHandler` and
  `RouteRegistered`, `RemoveEventHandler` and `RouteUnregistered`.  `GetSecret`,
  `PollHandle`, `ReadMonitors` and `GetSecretReturn` are one call of `GetSecret`,
  which reads `s.monitors` with no lock; `Found` is what the read may give.
- `MonitorV1`: all of `monitor`.  Its methods wait for nothing under the lock and are
  one action each, with `purgeMonitors` inside (`Purge`).
- `ChangedFields`: `util/util.go`.  `CompareFields` is the recursive comparison of
  two values; `At` and `Paths` say, with no regard to how it goes about it, what a
  report must have in it.
- `SingleItemMonitorProofs`, `SecretMonitorProofs`, `ManagerProofs`,
  `RouteInformerProofs`, `RouteControllerProofs`, `RootControllerProofs`,
  `MonitorV2Proofs`, `MonitorV1Proofs`: the theorems.  Those about `MonitorV3` are
  with those about `RootController`, which extends it.
- `MCSingleItemMonitor`, `MCSecretMonitor`, `MCManager`, `MCRouteController`,
  `MCRootController`, `MCMonitorV2`, `MCMonitorV1`, `MCChangedFields`: what TLC runs,
  with the symmetry of `ManagerOneWorker`, which checks no liveness, and the objects
  that `ChangedFields` compares.

The definitions that a comment calls a *mutant* are not the code.  Each is a bug
that the code could plausibly have; `PROJECT.json` ("mutants") names the property
that TLC finds violated when the mutant takes the place of the real definition.

How the modules fit together:

    RouteController  uses        RouteWatch          ControllerFollowsRouteWatch (proved)
    Manager          implements  RouteWatch          ImplementsRouteWatch (proved)
    Manager          implements  SecretMonitor       UsesMonitorProperly (proved)
    SecretMonitor    implements  SingleItemMonitor   ItemsImplementMonitor (proved),
                     (one for each item)             ItemsEnd
    RootController   implements  MonitorV3           UsesV3Properly (proved)
    MonitorV2        implements  RouteWatch          V2ImplementsRouteWatch (proved)
    both controllers use         RouteInformer       (proved: RIP in their proofs)
    MonitorV1 and ChangedFields stand alone, as their packages do

### What the models leave out

- The contents of secrets and of stores, and with it NotFound errors.  That a
  secret exists is the choice whether a new listener gets an initial Add.
- Calls that are refused before they change anything: nil handlers and
  registrations, unknown keys.  They are stuttering steps.
- The width of `numHandlers` (int32): one needs 2^31 registrations to see it.
- Writers that wait for an RWMutex keep new readers out; the model lets readers
  in, and so has more behaviours.
- The DeltaFIFO hands all deltas of one object to the handlers while it is
  locked; the model handles one at a time and lets a list come between.
- In the root program: a Route without TLS or without an external certificate, on
  which the handlers dereference a nil pointer; names that are no pair of a route
  and a secret, which a Kubernetes name always gives; `syncToStdout` and
  `handleErr`, which no key reaches.  The queue holds one constant key, so that it
  is a Boolean.
- In `MonitorV2`: a `WithSecretHandler` while a route is being registered.  It takes
  no lock, and the read in `RegisterRoute` would give the old handler or the new.
- In `MonitorV1`: more than one namespace, which every key holds; `WithSecretHandler`,
  on which nothing depends but which events arrive.
- In `ChangedFields`: how the path of a field is written, where the same string may
  stand for two paths; and the order of the report.
- Resync (its period is 0 everywhere), backoff, logging, flags.
- The shutdown of the queue: `main` waits for ever.

## Runs

`tlc -config <run>.cfg <module>`; the module is that of the first part of the name.

| Run | Question | Result |
|---|---|---|
| SingleItemMonitorShared | Two goroutines that start, stop and use one monitor: one runner, stop is final, handlers stay attached, goroutines end; only a restart leads to a panic | holds |
| SecretMonitorBackground | No cancellation: nothing idle, reads are live, stops are safe, adds succeed, calls return | holds |
| SecretMonitorCancel | Cancellation at any time: types, count, map, listeners, no leak, removal finds its handler; each item is a `SingleItemMonitor` and ends | holds |
| SecretMonitorDeadItem | Add after a cancellation | finds the dead item, starts nothing |
| SecretMonitorAddHangs | Cancellation before the first sync | the call waits for ever with `s.lock` held |
| ManagerOneWorker | One worker, cancellation: right handler, account of registrations, proper use of `secretMonitor`, followed secrets, refinement of `RouteWatch` | holds |
| RouteControllerOneWorker | The watch may break: the queue leads to what the informer knows, and no event in it is refused; convergence; changes are read | holds |
| RouteControllerTombstone | A deletion that the watch missed | `DeleteFunc` panics |
| RootController | The watch may break: registrations are those of the known routes, each with its own informer; convergence, and stopped informers end | holds |
| MonitorV2 | Two threads, two routes: the maps agree, no registered Object is stopped, no informer is out of reach, the read without a lock finds its Object, the current handler is registered, calls return | holds |
| MonitorV1Unregister | A route is registered and unregistered | its monitor stays |
| ChangedFields | All pairs of small objects: nothing missed, nothing made up, panics only on what cannot be read | holds |

The runs that end in a violation disagree with a comment of the code or of
client-go; the findings in `PROJECT.json` quote it.  The program itself passes
`context.Background()`, and so does not meet the cancellation; it does meet the
tombstones.

Three more things the code does, which the modules show and no run is spent on:

- A `singleItemMonitor` that is stopped, started and stopped again closes its channel
  twice.  `OnlyRestartPanics` says that nothing else does, and the items of
  `secretMonitor`, which starts each once, never panic (`ItemsImplementMonitor`).
- A registration may be removed twice, which the interface of `secretMonitor` does
  not rule out.  The second removal finds no listener, returns no error, and counts
  another handler down.  `Manager` never does this (`UsesMonitorProperly`).
- `processNextItem` of `routecontroller` drops an event whose handler fails, although
  the comment on `handleErr` promises five retries (`ItemDone`).

`ChangedFields` itself panics in two cases, and `ReportsChanges` says in no others: when
a map has as many keys as before but not the same ones, and when it gets to a field
that is not exported, as there are in every `metav1.Time`.

### Bounds

`Items` and `Handles` in `SecretMonitor` and `Manager` are used up: an item or a
registration is never issued twice, so that they bound the number of informers and
of successful Adds.  With two items, a secret is followed, forgotten and followed
again, or two secrets are followed at a time; `ManagerOneWorker` has three, for
both at once.  With two registrations, two share an item; with three, a third
comes or goes meanwhile.  Two threads are enough for every conflict over `s.lock`
and `i.lock`; more only wait.  When cancellation is in play one of two contexts may
be cancelled, so that an item under each kind exists.  Deadlock is not checked:
when `Handles` are used up the model stops.

`MaxChanges` bounds changes at the API server, and with it the queue, and
`MaxBreaks` how often a watch breaks.  Routes may exist before the first change, so
that two changes update or delete and re-create a route, with events of the other
in between; one break lets each of them be missed.

In `RootController` every route, and every change of one, uses up an item and a
registration: with two routes and two changes, four of each are never exhausted.
Of three Specs two name the same secret, so that an update may keep the secret or
change it, and two routes may share one.

`MonitorV2` uses the memory of an Object again when nothing refers to it and its
goroutine is gone, so that nothing is used up: its two routes come and go for ever.
When both Objects are in use, a registration waits for memory; `V2Settles` holds with
two because a route takes up one Object, and those that were stopped come free.  One
handler and the initial one are enough for a route to be followed with a handler
that is no longer set.  `MonitorV1` bounds the counts at 2 and the Objects at two;
its counterexample has two steps.

The objects of `ChangedFields` are of two types: one has slices of structs with slices
in them, as the status of a Route has, the other slices and maps side by side, and a
field that is not exported, as the conditions of a workload have.  Slices have up
to two elements and maps up to two of two keys, so that each may grow, shrink, or
change within, at more than one level at a time.

### Fairness

Go's scheduler runs every goroutine that can run: the steps of `StartInformer`,
of the context watchers, of the informers, of calls in progress, of workers and
handlers are weakly fair.  An informer's first list is weakly fair too: the
reflector retries a failed list for ever, and an API server that never answers is
not what the liveness properties are about (the calls would then wait for ever,
since they have no timeout).  A handler's initial Add is fair as long as the
listener was not removed.  Nothing is assumed of clients, of cancellation, or of
changes at the API server.  In `RootController` it is enough that one of the
program's goroutines that can run does, whichever it is.

In `MonitorV2` a thread that waits for `m.lock` gets it in the end although others take
it again and again: Go's RWMutex starves no writer.  This is strong fairness of
`Lock`.  The API server owes no answer there, since no call may wait for one.

## Proofs

`tlapm` on the eight `*Proofs` modules checks everything, for all values of the
constants.  The theorems assume what the modules with the constants assume:
`SecretMonitorAssumption` (finitely many registrations; `None` is none of the other
constants), `ManagerAssumption`, `RouteControllerAssumption`, `MonitorV2Assumption`,
and for the root program `MonitorV3Assumption` and `RootControllerAssumption`.
Theorems that need more say so: `Cancellable = {}` (no context can be cancelled, as in
the program), `Workers = {w}` (one worker, as in the program), `MaxBreaks = 0` (no watch
breaks), and for `monitor` that no Route has an empty uid.

For one monitor, `OneRunner` and `AttachedIsListening` need that a goroutine is
inside `Run` only while the informer runs, and that it ends only after the channel
was closed (`RunShape`).  `StopIsFinal` needs no invariant.  `RestartsPanic` needs that
a monitor runs with a closed channel only after two starts, and has been stopped
only after one (`StartShape`).

For `secretMonitor` the inductive invariant is `IInv`.  None of the checked
invariants is inductive alone.  That the count is exact needs that a registration
leads to the item in the map (`HeldIsMonitored`), which needs that an item is in
the map under its own key and has synced (`MapShape`), that what a thread works on
is in the map or will be (`ThreadShape`), and that nobody else is inside meanwhile
(`Exclusive`).  `ItemShape` ties `stopped`, the channel and the goroutine of an
item together; `RegShape` does so for registrations.  There is a lemma for each
action (`...Keeps`), `IInvStep` joins them, and the theorems `TypeCorrect`,
`CountIsExact`, `NoLeak`, `HeldStaysMonitored`, `HeldStaysListening` and
`RemovalsFindHandlers` follow, with cancellation or without.

From the same invariant each item implements `SingleItemMonitor`
(`ItemsAreMonitors`): a lemma for each action says which step of the item's own
specification it is, and that the other items stutter.  `ItemShape` gives what the
item relies on: it accepts a handler only before its informer has ended, since it
then still runs, and closes an open channel, so that it never panics.  A step of
`AddSecretEventHandler` whose context is done already is the item's `CancelContext`.
From the refinement, and from `ItemShape`, a stop is final for an item
(`ItemsStopForGood`): its informer does not run again, and no handler joins it.
What a removal finds and does is one lemma (`RemoveEffect`), which the proofs about
counts, items and the Manager share.

`SInv` adds that an item is stopped only by its context or by a call that takes it
out of the map (`StoppedIsForgotten`).  If no context can be cancelled
(`Cancellable = {}`), `BInv` adds to this that an item in the map is in use
(`MonitoredIsUsed`), and `NoIdle`, `ReadsAreLive`, `StopsAreSafe`, `AddsFindLive`,
`AddsSucceed` and `NoOneWaitsInVain` follow.  All six need that condition: with
cancellation an item may be stopped under its registrations and stay in the map, as
`SecretMonitorDeadItem` shows.  `NoOneWaitsInVain` is what `CallsReturn` needs beside
fairness: whoever waits in the middle of a call, with the lock held, waits for an
informer that still runs or is about to, and for a listener that it has.

For the Manager, `MInv` says that the registrations in use are those of the
registered routes, except for a route that is being unregistered.  With it every
step of the Manager is a step of `SecretMonitor` by a client that never uses a
registration after its removal (`ManagerIsProperClient`), so that all of the above
holds under the Manager; `ManagerOwnsRegistrations` follows.

The Manager implements `RouteWatch` (`ManagerImplementsRouteWatch`): a route
watches a secret while its registration is attached, and a secret is followed
while an item for it is in the map, which by `SInv` runs unless its context was
cancelled.  The handler is attached after the item is in the map (`Follow` before
`Register`) and counts no more before the item goes (`Unregister` before `Forget`),
and the exact count is why no route watches the secret then.
`ManagerRegisteredIsFollowed` is the promise of `RouteWatch` for the Manager, and
`ManagerFollowsRegistered` its converse between calls, without cancellation.
`ManagerCallsAreSound` brings what needs that condition to the Manager, which is how the
program runs: its calls wait for nothing that has gone, and read and stop the right
informers.

`ManagerHandlerIsOfRoute` is for one worker, and needs just that: between
`WithSecretHandler` and `RegisterRoute` nobody else sets a handler (`HandlerShape`).
With two workers TLC finds a counterexample, since `m.secretHandler` is shared.

For the informer of routes, `IInv` of `RouteInformerProofs` says what the handlers
of a route are still to be given.  No two deletions follow each other, and none comes
first for a route that is not known (`DeltaSeq`); and while the watch is not broken the
last of them says what the route is at the API server (`Tells`).
`DeltaSeq` needs `Tells`: a deletion that the watch reports comes first only for a route
that was there, and that is known by then.  `InformerKnowsApi`,
`DeletionsAreOfKnown` and `UnbrokenGivesNoTombstone` follow.  Both programs are
proved to be such informers, whatever their handlers do (`ControllerIsInformer`,
`RootIsInformer`), so that these theorems hold in them; their proofs instantiate this
module (`RIP`) as their models instantiate `RouteInformer`.

For `routecontroller`, `ControllerTypeCorrect` is for any number of workers; it needs
that what a worker has in hand is an event, and that a route is watched, and the
handlers of its secret called, only when a handler was made for it (`JobShape`).
`EventsLeadToKnown` is for one worker.  `LeadsTo` says what a queue does by its Added
and Deleted events and their places alone, so that no induction is needed: an event
that is appended leads on from what the queue led to (`LeadsToAppend`), and one that is
handled leads from what the Manager then watches (`LeadsToHandled`).  What the informer
knows of a route changes together with what it appends, and the watch of a route with
what the worker has in hand, which for one worker is the head of the backlog.  That each
Added comes when the route watches nothing is part of it, so that `RegisterRoute` never
refuses one.

With `FollowShape`, which says what each worker inside the Manager is about to do, every
step of `routecontroller` is one of `RouteWatch` (`ControllerFollowsRouteWatch`): what a
worker gives up is watched by no route, since nobody comes between the two halves of its
call.  `ControllerFollowsWatched` is the account between calls.  Both are for any
number of workers.  From the informer, the queue and this account together,
`ControllerAtRest`: when nothing is on its way, the watches are what the routes name at
the API server, and just these secrets are followed.  It is the safety half of
`Converges`, with fairness left out; and `NoChangeIsForgotten` is that of
`ChangesAreRead`.  The latter needs that a handler queues the event for its own
route, which again is for one worker only (`OwnHandler`).  That each half is for one
worker is no accident: with two, a `Deleted` may be overtaken by the `Added` behind it.

`ControllerUnbrokenNeverCrashes` limits what `RouteControllerTombstone` shows: a
tombstone is all that makes a handler panic, and none comes while no watch breaks.
`RootUnbrokenNeverCrashes` says the same of the root program.

For `monitor_v2` the invariant (`IInv` of `MonitorV2Proofs`) says that the two maps are
equal at every step, since nobody sees them between the two assignments; that an
Object in them is stopped only while its route is being unregistered (`MapShape`); that
a thread in `RegisterRoute` works on a running Object with the current handler, which
nobody else can find, and one in `UnregisterRoute` on the Object in the maps
(`ThreadShape`); and that an Object that runs can be found by one or the other
(`ObjectShape`).  `Exclusive`, one writer at a time, is what lets them be added and
removed.  `RegisteredRoutesRun`, `ReadsFindRegistered` and `RegistrationsAreCurrent`
follow.  The older Manager keeps the promise of the newer one as well
(`V2ImplementsRouteWatch`): a route watches until its Object is stopped, and its secret is
followed while the goroutine of some Object of the route has not returned
(`RunnerShape`: it does so only when stopped).  When an Object returns late, the route may
have a new one by then, and then nothing is forgotten.
Two more theorems count the Objects: a route has one that was not stopped, also while
two threads register it (`RoutesHaveOneObject`); and while the lock is free those that
run on are the registered ones (`V2FollowsRegistered`), the safety half of `V2Settles`.

For `monitor` the invariant (`IInv` of `MonitorV1Proofs`) says that every monitor has a
key with the uid of a Route, so that `purgeMonitors` and `GetSecret`, which look under
keys without one, find nothing (`PurgeFindsNothing`).  What `MonitorV1Unregister` shows
in two steps then holds for good: no monitor is ever released (`V1ReleasesNothing`) or
found (`V1FindsNothing`), whatever the routes refer to.  What does hold is that a
registered route has a monitor of its own which was not stopped
(`V1RegisteredIsFollowed`).

For `monitorv3` the invariant (`IInv`, in `RootControllerProofs`) says that a key has an
item in the map exactly while it has a registration, that this item counts one and
was not stopped, and that nobody else listens to it.  It gives
`RegisteredHaveOwnInformer`, for callers that register no registered pair.

That the root program is such a caller needs to know what is registered, and what
is registered follows from that: `RInv` joins both.  Between events the
registrations are those that follow from the indexer; in the middle of an update
the one that is due is missing (`RegisteredShape`).  A deletion must find the route
in the indexer, which is what `DeletionsAreOfKnown` says of its informer.
`RootUsesV3Properly`, `RootRegistersKnown`, `RootOwnInformer` and `RootTypeCorrect`
follow, and with `InformerKnowsApi` also `RootAtRest`, the safety half of
`RootConverges`.

Every invariant and action property of the runs that hold is proved, except
`ReportsChanges`, which is about a recursive operator: what `CompareFields` computes for
every pair of values would need an induction over values, which the prover does not do.
Only model-checked besides is liveness, which is out of the prover's reach:
`CallsReturn`, `ItemsEnd`, `CancelEndsStart`, `StopEndsGoroutines`, `Converges`,
`ChangesAreRead`, `RootConverges`, `V2Settles`.  The properties that only a theorem
states (`WaitsAreAnswered`, `KnownIsApi`, `DeletedIsKnown`, `FollowedIsWatched`,
`WatchIsApi`, `ChangesArePending`, `RegisteredIsApi`, `RegisteredIsFollowed`,
`ItemsStayStopped`, `OneObjectEach`, `LiveIsRegistered`,
`NothingIsReleased`, `NothingIsFound`) are defined beside it.

## Plan

1. Done: all components that have state, and `util`, with the runs and proofs above.
2. Open: `routecontroller` is proved over `RouteWatch`, and the `Manager` proved to
   implement it.  The two are not yet one program with one theorem.  A model of it would
   have the events of each registration by themselves: `RouteController` merges the
   notifications of a route that are on their way, and so does not say how many events
   there are, only that there is one.

### Not modelled

- `monitorv3/extra.go`: drafts of tests and of the verification of PEM blocks, which
  are compiled with `monitorv3` and which nothing calls.
- `testinformer`: a demonstration of client-go that has no state of its own.
- The reflector's backoff and resync, the indexers' indices, and the HTTP clients:
  client-go's own, on which the code relies only for the deltas that arrive.
