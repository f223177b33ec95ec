-------------------------------- MODULE MonitorV2 --------------------------------
(******************************************************************************)
(* monitor_v2: the Manager, its sm and the Objects, one for each route.  The  *)
(* key <route>_dummy-secret of an Object depends on the route only, so that   *)
(* a route stands for it.                                                     *)
(*                                                                            *)
(* RegisterRoute and UnregisterRoute wait for m.lock and hold it for their    *)
(* whole body.  GetSecret lets go of it before it polls, and then reads       *)
(* s.monitors with no lock at all, while a writer may be in the middle of a   *)
(* change.  For Go this is a data race: the runtime ends the process if it    *)
(* notices, and if not the read gives the old value or the new.               *)
(*                                                                            *)
(* Mutants are not the code: they are what properties are checked against.    *)
(******************************************************************************)
CONSTANTS
  Routes,    \* the names of routes
  Threads,   \* the goroutines that call the Manager
  Objects,   \* bound: the Objects that exist at a time
  Handlers,  \* the handlers that WithSecretHandler may set
  None       \* no Object, no route; the handler that NewSecretMonitor sets

ASSUME MonitorV2Assumption ==
  None \notin Routes \cup Objects \cup Handlers

VARIABLES
  secretHandler,       \* m.secretHandler
  registeredHandlers,  \* m.registeredHandlers: the Object of each route, or None
  monitors,            \* s.monitors: the Object of each key, or None
  key,                 \* Object.key
  handler,             \* the handler that the Object's informer was made with
  stopped,             \* Object.stopped, closed with it: stopCh
  synced,              \* HasSynced of the Object's informer
  runner,              \* the goroutine of StartInformer
  pc,                  \* where each thread is in its call
  arg,                 \* the route of its call, or None
  handle,              \* the Object its call works on, or None
  crashed              \* the process is gone

managerVars == <<secretHandler, registeredHandlers, monitors>>
objectVars == <<key, handler, stopped, synced, runner>>
threadVars == <<pc, arg, handle>>
vars == <<managerVars, objectVars, threadVars, crashed>>

V2TypeOK ==
  /\ secretHandler \in Handlers \cup {None}
  /\ registeredHandlers \in [Routes -> Objects \cup {None}]
  /\ monitors \in [Routes -> Objects \cup {None}]
  /\ key \in [Objects -> Routes \cup {None}]
  /\ handler \in [Objects -> Handlers \cup {None}]
  /\ stopped \in [Objects -> BOOLEAN]
  /\ synced \in [Objects -> BOOLEAN]
  /\ runner \in [Objects -> {"none", "spawned", "running", "returned"}]
  /\ pc \in [Threads -> {"idle", "register", "add", "unregister", "remove",
                         "poll", "read", "return"}]
  /\ arg \in [Threads -> Routes \cup {None}]
  /\ handle \in [Threads -> Objects \cup {None}]
  /\ \A t \in Threads :
       pc[t] \in {"add", "remove", "poll", "read"} => handle[t] # None
  /\ crashed \in BOOLEAN

Init ==
  /\ secretHandler = None
  /\ registeredHandlers = [r \in Routes |-> None]
  /\ monitors = [r \in Routes |-> None]
  /\ key = [o \in Objects |-> None]
  /\ handler = [o \in Objects |-> None]
  /\ stopped = [o \in Objects |-> FALSE]
  /\ synced = [o \in Objects |-> FALSE]
  /\ runner = [o \in Objects |-> "none"]
  /\ pc = [t \in Threads |-> "idle"]
  /\ arg = [t \in Threads |-> None]
  /\ handle = [t \in Threads |-> None]
  /\ crashed = FALSE

-----------------------------------------------------------------------------
(* Calls.                                                                     *)

\* The threads that are about to write s.monitors, or doing it, inside m.lock.
Writers == {t \in Threads : pc[t] \in {"add", "remove"}}

\* m.lock is free.
CanLock == Writers = {}

\* Thread t goes on with Object o, or with none, at p.
Goto(t, p, o) ==
  /\ pc' = [pc EXCEPT ![t] = p]
  /\ handle' = [handle EXCEPT ![t] = o]

\* The call of t returns; RegisterRoute and UnregisterRoute unlock m.lock.
Return(t) ==
  /\ Goto(t, "idle", None)
  /\ arg' = [arg EXCEPT ![t] = None]

\* Thread t calls RegisterRoute or UnregisterRoute, which wait for m.lock.
Call(t, method, r) ==
  /\ pc[t] = "idle"
  /\ pc' = [pc EXCEPT ![t] = method]
  /\ arg' = [arg EXCEPT ![t] = r]
  /\ UNCHANGED <<managerVars, objectVars, handle, crashed>>

\* It takes no lock: whoever sets the handler does so while nobody registers.
WithSecretHandler(h) ==
  /\ \A t \in Threads : pc[t] \notin {"register", "add"}
  /\ secretHandler' = h
  /\ UNCHANGED <<registeredHandlers, monitors, objectVars, threadVars, crashed>>

\* The memory of an Object is free: it was never used, or its goroutine is gone and
\* nothing refers to it any more.
Free(o) ==
  /\ runner[o] \in {"none", "returned"}
  /\ \A r \in Routes : monitors[r] # o /\ registeredHandlers[r] # o
  /\ \A t \in Threads : handle[t] # o

\* NewObject, and the goroutine that starts its informer.
NewObject(o, r) ==
  /\ Free(o)
  /\ key' = [key EXCEPT ![o] = r]
  /\ handler' = [handler EXCEPT ![o] = secretHandler]
  /\ stopped' = [stopped EXCEPT ![o] = FALSE]
  /\ synced' = [synced EXCEPT ![o] = FALSE]
  /\ runner' = [runner EXCEPT ![o] = "spawned"]

\* RegisterRoute.  A route that has an Object already gets it again, whatever the
\* handler is by now; another one gets a new Object, and goes on to enter it.
AddEventHandler(t) ==
  LET r == arg[t]
  IN /\ pc[t] = "register"
     /\ CanLock
     /\ \/ /\ monitors[r] # None
           /\ registeredHandlers' = [registeredHandlers EXCEPT ![r] = monitors[r]]
           /\ Return(t)
           /\ UNCHANGED objectVars
        \/ /\ monitors[r] = None
           /\ \E o \in Objects : NewObject(o, r) /\ Goto(t, "add", o)
           /\ UNCHANGED <<registeredHandlers, arg>>
     /\ UNCHANGED <<secretHandler, monitors, crashed>>

\* s.monitors[key] = m, and RegisterRoute returns.
RouteRegistered(t) ==
  /\ pc[t] = "add"
  /\ monitors' = [monitors EXCEPT ![arg[t]] = handle[t]]
  /\ registeredHandlers' = [registeredHandlers EXCEPT ![arg[t]] = handle[t]]
  /\ Return(t)
  /\ UNCHANGED <<secretHandler, objectVars, crashed>>

\* UnregisterRoute stops the Object of the route, whoever else registered the route.
\* A route that is not registered has a nil handle, whose GetKey panics.  (The Object
\* of a registered route is in s.monitors and was not stopped: see RegisteredRuns.)
RemoveEventHandler(t) ==
  LET h == registeredHandlers[arg[t]]
  IN /\ pc[t] = "unregister"
     /\ CanLock
     /\ \/ /\ h = None
           /\ crashed' = TRUE
           /\ UNCHANGED <<stopped, pc, handle>>
        \/ /\ h # None
           /\ monitors[key[h]] # None
           /\ stopped' = [stopped EXCEPT ![monitors[key[h]]] = TRUE]
           /\ Goto(t, "remove", h)
           /\ UNCHANGED crashed
     /\ UNCHANGED <<managerVars, key, handler, synced, runner, arg>>

\* Mutants: the monitor, the registration or the lock is kept.
MonitorKept(t) ==
  /\ pc[t] = "remove"
  /\ registeredHandlers' = [registeredHandlers EXCEPT ![arg[t]] = None]
  /\ Return(t)
  /\ UNCHANGED <<secretHandler, monitors, objectVars, crashed>>
RegistrationKept(t) ==
  /\ pc[t] = "remove"
  /\ monitors' = [monitors EXCEPT ![key[handle[t]]] = None]
  /\ Return(t)
  /\ UNCHANGED <<secretHandler, registeredHandlers, objectVars, crashed>>
LockKept(t) ==
  /\ pc[t] = "remove"
  /\ handle[t] # None
  /\ monitors' = [monitors EXCEPT ![key[handle[t]]] = None]
  /\ registeredHandlers' = [registeredHandlers EXCEPT ![arg[t]] = None]
  /\ Goto(t, "remove", None)
  /\ UNCHANGED <<secretHandler, arg, objectVars, crashed>>

\* delete(s.monitors, key), and UnregisterRoute deletes its handle and returns.
RouteUnregistered(t) ==
  /\ pc[t] = "remove"
  /\ monitors' = [monitors EXCEPT ![key[handle[t]]] = None]
  /\ registeredHandlers' = [registeredHandlers EXCEPT ![arg[t]] = None]
  /\ Return(t)
  /\ UNCHANGED <<secretHandler, objectVars, crashed>>

\* Mutant: it does not look whether there is a handle.
GetUnchecked(t, r) ==
  /\ pc[t] = "idle"
  /\ CanLock
  /\ Goto(t, "poll", registeredHandlers[r])
  /\ arg' = [arg EXCEPT ![t] = r]
  /\ UNCHANGED <<managerVars, objectVars, crashed>>

\* GetSecret takes the handle under m.lock and lets go of it.  (A route without one
\* is an error, and nothing happens.)
GetSecret(t, r) ==
  /\ pc[t] = "idle"
  /\ CanLock
  /\ registeredHandlers[r] # None
  /\ Goto(t, "poll", registeredHandlers[r])
  /\ arg' = [arg EXCEPT ![t] = r]
  /\ UNCHANGED <<managerVars, objectVars, crashed>>

\* It polls the handle until it has synced, or a second has passed.
PollHandle(t) ==
  /\ pc[t] = "poll"
  /\ \/ /\ synced[handle[t]]
        /\ Goto(t, "read", handle[t])
        /\ UNCHANGED arg
     \/ Return(t)
  /\ UNCHANGED <<managerVars, objectVars, crashed>>

\* What a read of s.monitors[r] may give at this moment.
Found(r) ==
  {monitors[r]}
    \cup {handle[t] : t \in {u \in Threads : pc[u] = "add" /\ arg[u] = r}}
    \cup {None : t \in {u \in Threads : pc[u] = "remove" /\ arg[u] = r}}

\* sm.GetSecret looks up the key of its handle and reads the store of what it finds,
\* which may be another Object by now, or nothing.
ReadMonitors(t) ==
  /\ pc[t] = "read"
  /\ \/ /\ \E o \in Found(key[handle[t]]) : Goto(t, "return", o)
        /\ UNCHANGED crashed
     \/ /\ Writers # {}
        /\ crashed' = TRUE
        /\ UNCHANGED <<pc, handle>>
  /\ UNCHANGED <<managerVars, objectVars, arg>>

GetSecretReturn(t) ==
  /\ pc[t] = "return"
  /\ Return(t)
  /\ UNCHANGED <<managerVars, objectVars, crashed>>

-----------------------------------------------------------------------------
(* The goroutines of the Objects.                                             *)

\* informer.Run, which gives up at once on a closed channel.
StartInformer(o) ==
  /\ runner[o] = "spawned"
  /\ \/ ~stopped[o] /\ runner' = [runner EXCEPT ![o] = "running"]
     \/ stopped[o] /\ runner' = [runner EXCEPT ![o] = "returned"]
  /\ UNCHANGED <<managerVars, key, handler, stopped, synced, threadVars, crashed>>

\* The first list has come and been handled.
InformerSync(o) ==
  /\ runner[o] = "running"
  /\ ~synced[o]
  /\ synced' = [synced EXCEPT ![o] = TRUE]
  /\ UNCHANGED <<managerVars, key, handler, stopped, runner, threadVars, crashed>>

InformerExit(o) ==
  /\ runner[o] = "running"
  /\ stopped[o]
  /\ runner' = [runner EXCEPT ![o] = "returned"]
  /\ UNCHANGED <<managerVars, key, handler, stopped, synced, threadVars, crashed>>

-----------------------------------------------------------------------------

\* The calls in progress go on, those that need m.lock when they get it.
Lock(t) == AddEventHandler(t) \/ RemoveEventHandler(t)

Continue(t) ==
  \/ RouteRegistered(t) \/ RouteUnregistered(t)
  \/ PollHandle(t) \/ ReadMonitors(t) \/ GetSecretReturn(t)

Next ==
  /\ ~crashed
  /\ \/ \E h \in Handlers : WithSecretHandler(h)
     \/ \E t \in Threads :
          \/ \E r \in Routes : \/ Call(t, "register", r)
                               \/ Call(t, "unregister", r)
                               \/ GetSecret(t, r)
          \/ Lock(t)
          \/ Continue(t)
     \/ \E o \in Objects : StartInformer(o) \/ InformerSync(o) \/ InformerExit(o)

Spec == Init /\ [][Next]_vars

\* Goroutines that can run do run, and Go's RWMutex starves nobody.  The API server
\* owes no answer.
Fairness ==
  /\ \A t \in Threads : /\ SF_vars(~crashed /\ Lock(t))
                        /\ WF_vars(~crashed /\ Continue(t))
  /\ \A o \in Objects : /\ WF_vars(~crashed /\ StartInformer(o))
                        /\ WF_vars(~crashed /\ InformerExit(o))

FairSpec == Spec /\ Fairness

-----------------------------------------------------------------------------

\* Unless someone is at work on it, a route is registered with the Object that
\* s.monitors has for it, which was not stopped; and an informer that was not stopped
\* can be reached through s.monitors, or will be in a moment.
RegisteredRuns ==
  /\ \A r \in Routes :
       \/ \E t \in Writers : arg[t] = r
       \/ /\ registeredHandlers[r] = monitors[r]
          /\ monitors[r] # None => key[monitors[r]] = r /\ ~stopped[monitors[r]]
  /\ \A o \in Objects :
       runner[o] # "none" /\ ~stopped[o] =>
         \/ monitors[key[o]] = o
         \/ \E t \in Writers : pc[t] = "add" /\ handle[t] = o

\* GetSecret looks its handle up again, without a lock, after it has waited.  If the
\* route is registered as it was then, it reads the store of this very Object, which
\* has synced and was not stopped, unless it is being unregistered meanwhile.
ReadsRegistered ==
  [][\A t \in Threads :
       /\ pc[t] = "read" /\ pc'[t] = "return"
       /\ registeredHandlers[arg[t]] = handle[t]
       => \/ /\ handle'[t] = handle[t]
             /\ synced[handle[t]] /\ ~stopped[handle[t]]
          \/ \E u \in Threads : pc[u] = "remove" /\ arg[u] = arg[t]]_vars

\* A route that was not registered is followed with the handler that is set when it
\* is, also if it was followed before with another.
RegistersCurrentHandler ==
  [][\A r \in Routes :
       registeredHandlers[r] = None /\ registeredHandlers'[r] # None =>
         handler'[registeredHandlers'[r]] = secretHandler]_vars

\* "Register/UnregisterRoute functions should be efficient, i.e. should not block on
\* network operations": every call returns although the API server may never answer
\* and other threads may be waiting for it; and what was stopped ends.
V2Settles ==
  /\ \A t \in Threads : pc[t] # "idle" ~> pc[t] = "idle" \/ crashed
  /\ \A o \in Objects : stopped[o] ~> runner[o] = "returned" \/ crashed

=============================================================================
