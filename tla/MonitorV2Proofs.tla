----------------------------- MODULE MonitorV2Proofs -----------------------------
(******************************************************************************)
(* Theorems about MonitorV2, for any routes, threads, Objects and handlers.   *)
(******************************************************************************)
EXTENDS MonitorV2, TLAPS

USE MonitorV2Assumption

\* m.lock has one holder at a time.
Exclusive == \A t, u \in Writers : t = u

\* The two maps agree at every step, and an Object in them is there under its own
\* key; only UnregisterRoute of its route has stopped it.
MapShape ==
  /\ registeredHandlers = monitors
  /\ \A r \in Routes :
       monitors[r] # None =>
         /\ key[monitors[r]] = r
         /\ stopped[monitors[r]] => \E t \in Threads : pc[t] = "remove" /\ arg[t] = r

\* What a thread works on: RegisterRoute on a new Object that nobody can find yet,
\* UnregisterRoute on the one in the maps, GetSecret on one that was there.
ThreadShape ==
  \A t \in Threads :
    /\ pc[t] # "idle" => arg[t] \in Routes
    /\ pc[t] \in {"add", "remove", "poll", "read"} => key[handle[t]] = arg[t]
    /\ pc[t] = "add" => /\ monitors[arg[t]] = None
                        /\ ~stopped[handle[t]]
                        /\ handler[handle[t]] = secretHandler
    /\ pc[t] = "remove" => monitors[arg[t]] = handle[t] /\ stopped[handle[t]]
    /\ pc[t] = "read" => synced[handle[t]]

\* An Object that was created has a key, and can be found until it is stopped.
ObjectShape ==
  \A o \in Objects :
    runner[o] # "none" =>
      /\ key[o] \in Routes
      /\ ~stopped[o] =>
           \/ monitors[key[o]] = o
           \/ \E t \in Threads : pc[t] = "add" /\ handle[t] = o

IInv == V2TypeOK /\ Exclusive /\ MapShape /\ ThreadShape /\ ObjectShape

LEMMA IInvInit == Init => IInv
<1> SUFFICES ASSUME Init PROVE IInv
  OBVIOUS
<1>1. V2TypeOK
  BY DEF Init, V2TypeOK
<1>2. MapShape /\ ObjectShape
  BY DEF Init, MapShape, ObjectShape
<1>3. Exclusive /\ ThreadShape
  BY DEF Init, Exclusive, Writers, ThreadShape
<1> QED
  BY <1>1, <1>2, <1>3 DEF IInv

-----------------------------------------------------------------------------
(* Calls.                                                                     *)

LEMMA CallKeeps ==
  ASSUME IInv, NEW t \in Threads, NEW r \in Routes,
         NEW m \in {"register", "unregister"}, Call(t, m, r)
  PROVE  IInv'
<1> USE DEF Call, managerVars, objectVars
<1>1. V2TypeOK'
  BY DEF IInv, V2TypeOK
<1>2. Exclusive'
  BY DEF IInv, V2TypeOK, Exclusive, Writers
<1>3. MapShape'
  BY DEF IInv, V2TypeOK, MapShape
<1>4. ThreadShape'
  BY DEF IInv, V2TypeOK, ThreadShape
<1>5. ObjectShape'
  BY DEF IInv, V2TypeOK, ObjectShape
<1> QED
  BY <1>1, <1>2, <1>3, <1>4, <1>5 DEF IInv

LEMMA WithSecretHandlerKeeps ==
  ASSUME IInv, NEW h \in Handlers, WithSecretHandler(h)
  PROVE  IInv'
BY DEF IInv, V2TypeOK, Exclusive, Writers, MapShape, ThreadShape, ObjectShape,
       WithSecretHandler, objectVars, threadVars

\* A new Object takes no place of one that something refers to.
LEMMA AddKeeps ==
  ASSUME IInv, NEW t \in Threads, AddEventHandler(t)
  PROVE  IInv'
<1> DEFINE r == arg[t]
<1>0. r \in Routes /\ pc[t] = "register" /\ CanLock /\ monitors' = monitors
  BY DEF IInv, ThreadShape, AddEventHandler
<1>1. CASE monitors[r] # None
  <2>1. /\ registeredHandlers' = registeredHandlers
        /\ Return(t)
        /\ UNCHANGED <<secretHandler, monitors, objectVars, crashed>>
    BY <1>0, <1>1 DEF AddEventHandler, IInv, V2TypeOK, MapShape
  <2> QED
    BY <1>0, <2>1
    DEF IInv, V2TypeOK, Exclusive, Writers, MapShape, ThreadShape, ObjectShape, Return,
        Goto, objectVars
<1>2. CASE monitors[r] = None
  <2>1. PICK o \in Objects :
          /\ NewObject(o, r) /\ Goto(t, "add", o)
          /\ UNCHANGED <<secretHandler, registeredHandlers, monitors, arg, crashed>>
    BY <1>2 DEF AddEventHandler
  <2>2. /\ \A s \in Routes : monitors[s] # o
        /\ \A u \in Threads : handle[u] # o
    BY <2>1 DEF NewObject, Free
  <2>3. V2TypeOK'
    BY <1>0, <2>1 DEF IInv, V2TypeOK, NewObject, Goto
  <2>4. Exclusive'
    BY <1>0, <2>1 DEF IInv, V2TypeOK, Exclusive, CanLock, Writers, Goto
  <2>5. MapShape'
    BY <1>0, <2>1, <2>2 DEF IInv, V2TypeOK, MapShape, NewObject, Goto
  <2>6. ThreadShape'
    <3>1. ASSUME NEW u \in Threads, u # t
          PROVE  /\ pc'[u] = pc[u] /\ arg'[u] = arg[u] /\ handle'[u] = handle[u]
                 /\ pc[u] \notin {"add", "remove"}
      BY <1>0, <2>1, <3>1 DEF IInv, V2TypeOK, Goto, CanLock, Writers
    <3>2. ASSUME NEW u \in Threads, handle[u] \in Objects
          PROVE  /\ key'[handle[u]] = key[handle[u]]
                 /\ synced'[handle[u]] = synced[handle[u]]
      BY <2>1, <2>2, <3>2 DEF IInv, V2TypeOK, NewObject
    <3>3. /\ pc'[t] = "add" /\ arg'[t] = r /\ handle'[t] = o /\ monitors'[r] = None
          /\ key'[o] = r /\ ~stopped'[o] /\ handler'[o] = secretHandler'
      BY <1>0, <1>2, <2>1 DEF IInv, V2TypeOK, NewObject, Goto
    <3> QED
      BY <1>0, <3>1, <3>2, <3>3 DEF IInv, V2TypeOK, ThreadShape
  <2>7. ObjectShape'
    BY <1>0, <2>1, <2>2 DEF IInv, V2TypeOK, ObjectShape, NewObject, Goto
  <2> QED
    BY <2>3, <2>4, <2>5, <2>6, <2>7 DEF IInv
<1> QED
  BY <1>1, <1>2

LEMMA RegisteredKeeps ==
  ASSUME IInv, NEW t \in Threads, RouteRegistered(t)
  PROVE  IInv'
<1>1. /\ pc[t] = "add" /\ arg[t] \in Routes /\ handle[t] \in Objects
      /\ key[handle[t]] = arg[t] /\ ~stopped[handle[t]] /\ monitors[arg[t]] = None
  BY DEF IInv, V2TypeOK, ThreadShape, RouteRegistered
<1>2. \A u \in Threads : u # t => pc[u] \notin {"add", "remove"}
  BY <1>1 DEF IInv, Exclusive, Writers
<1> USE <1>1, <1>2 DEF RouteRegistered, Return, Goto, objectVars
<1>3. V2TypeOK'
  BY DEF IInv, V2TypeOK
<1>4. Exclusive'
  BY DEF IInv, V2TypeOK, Exclusive, Writers
<1>5. MapShape'
  BY DEF IInv, V2TypeOK, MapShape
<1>6. ThreadShape'
  BY DEF IInv, V2TypeOK, ThreadShape
<1>7. ObjectShape'
  BY DEF IInv, V2TypeOK, ObjectShape
<1> QED
  BY <1>3, <1>4, <1>5, <1>6, <1>7 DEF IInv

LEMMA RemoveKeeps ==
  ASSUME IInv, NEW t \in Threads, RemoveEventHandler(t)
  PROVE  IInv'
<1> DEFINE h == registeredHandlers[arg[t]]
<1>1. arg[t] \in Routes /\ pc[t] = "unregister" /\ CanLock /\ h = monitors[arg[t]]
  BY DEF IInv, V2TypeOK, ThreadShape, MapShape, RemoveEventHandler
<1>2. CASE h = None
  BY <1>2
  DEF IInv, V2TypeOK, Exclusive, Writers, MapShape, ThreadShape, ObjectShape,
      RemoveEventHandler, managerVars
<1>3. CASE h # None
  <2>1. h \in Objects /\ key[h] = arg[t] /\ monitors[key[h]] = h
    BY <1>1, <1>3 DEF IInv, V2TypeOK, MapShape
  <2>2. /\ stopped' = [stopped EXCEPT ![h] = TRUE]
        /\ Goto(t, "remove", h)
        /\ UNCHANGED <<managerVars, key, handler, synced, runner, arg, crashed>>
    BY <1>3, <2>1 DEF RemoveEventHandler
  <2> USE <1>1, <1>3, <2>1, <2>2 DEF Goto, managerVars
  <2>3. V2TypeOK'
    BY DEF IInv, V2TypeOK
  <2>4. Exclusive'
    BY DEF IInv, V2TypeOK, Exclusive, CanLock, Writers
  <2>5. MapShape'
    BY DEF IInv, V2TypeOK, MapShape
  <2>6. ThreadShape'
    BY DEF IInv, V2TypeOK, ThreadShape, CanLock, Writers
  <2>7. ObjectShape'
    BY DEF IInv, V2TypeOK, ObjectShape
  <2> QED
    BY <2>3, <2>4, <2>5, <2>6, <2>7 DEF IInv
<1> QED
  BY <1>2, <1>3

LEMMA UnregisteredKeeps ==
  ASSUME IInv, NEW t \in Threads, RouteUnregistered(t)
  PROVE  IInv'
<1>1. /\ pc[t] = "remove" /\ arg[t] \in Routes /\ handle[t] \in Objects
      /\ key[handle[t]] = arg[t] /\ stopped[handle[t]] /\ monitors[arg[t]] = handle[t]
  BY DEF IInv, V2TypeOK, ThreadShape, RouteUnregistered
<1>2. \A u \in Threads : u # t => pc[u] \notin {"add", "remove"}
  BY <1>1 DEF IInv, Exclusive, Writers
<1> USE <1>1, <1>2 DEF RouteUnregistered, Return, Goto, objectVars
<1>3. V2TypeOK'
  BY DEF IInv, V2TypeOK
<1>4. Exclusive'
  BY DEF IInv, V2TypeOK, Exclusive, Writers
<1>5. MapShape'
  BY DEF IInv, V2TypeOK, MapShape
<1>6. ThreadShape'
  BY DEF IInv, V2TypeOK, ThreadShape
<1>7. ObjectShape'
  BY DEF IInv, V2TypeOK, ObjectShape
<1> QED
  BY <1>3, <1>4, <1>5, <1>6, <1>7 DEF IInv

\* GetSecret changes nothing but where its thread is.
LEMMA GetKeeps ==
  ASSUME IInv, NEW t \in Threads,
         \/ \E r \in Routes : GetSecret(t, r)
         \/ PollHandle(t) \/ ReadMonitors(t) \/ GetSecretReturn(t)
  PROVE  IInv'
<1>1. /\ UNCHANGED <<managerVars, objectVars>>
      /\ \/ pc'[t] \in {"idle", "return"}
         \/ UNCHANGED threadVars
         \/ /\ pc'[t] = "poll" /\ arg'[t] \in Routes
            /\ handle'[t] = monitors[arg'[t]] /\ handle'[t] # None
         \/ /\ pc[t] = "poll" /\ pc'[t] = "read" /\ arg'[t] = arg[t]
            /\ handle'[t] = handle[t] /\ synced[handle[t]]
  BY DEF IInv, V2TypeOK, MapShape, GetSecret, PollHandle, ReadMonitors, GetSecretReturn,
         Goto, Return, threadVars
<1>2. pc[t] \notin {"add", "remove"}
  BY DEF GetSecret, PollHandle, ReadMonitors, GetSecretReturn
<1>3. \A u \in Threads : u # t => pc'[u] = pc[u] /\ arg'[u] = arg[u]
                                                 /\ handle'[u] = handle[u]
  BY DEF IInv, V2TypeOK, GetSecret, PollHandle, ReadMonitors, GetSecretReturn, Goto,
         Return
<1>4. V2TypeOK'
  <2>1. ASSUME NEW r \in Routes, GetSecret(t, r) PROVE V2TypeOK'
    BY <2>1 DEF IInv, V2TypeOK, GetSecret, Goto, managerVars, objectVars
  <2>2. CASE PollHandle(t)
    BY <2>2 DEF IInv, V2TypeOK, PollHandle, Goto, Return, managerVars, objectVars
  <2>3. CASE ReadMonitors(t)
    <3>1. \A o \in Found(key[handle[t]]) : o \in Objects \cup {None}
      BY <2>3 DEF IInv, V2TypeOK, ThreadShape, Found, ReadMonitors
    <3>2. PICK o \in Objects \cup {None} :
            /\ pc' \in {pc, [pc EXCEPT ![t] = "return"]}
            /\ handle' \in {handle, [handle EXCEPT ![t] = o]}
      BY <2>3, <3>1 DEF ReadMonitors, Goto
    <3>3. crashed' \in BOOLEAN /\ arg' = arg
      BY <2>3 DEF IInv, V2TypeOK, ReadMonitors
    <3>4. /\ pc' \in [Threads -> {"idle", "register", "add", "unregister", "remove",
                                  "poll", "read", "return"}]
          /\ handle' \in [Threads -> Objects \cup {None}]
      BY <3>2 DEF IInv, V2TypeOK
    <3>5. \A u \in Threads :
            pc'[u] \in {"add", "remove", "poll", "read"} => handle'[u] # None
      <4>1. pc'[t] \notin {"add", "remove", "poll", "read"} \/ UNCHANGED <<pc, handle>>
        BY <2>3 DEF IInv, V2TypeOK, ReadMonitors, Goto
      <4> QED
        BY <1>3, <4>1 DEF IInv, V2TypeOK
    <3> QED
      BY <1>1, <3>3, <3>4, <3>5 DEF IInv, V2TypeOK, managerVars, objectVars
  <2>4. CASE GetSecretReturn(t)
    BY <2>4 DEF IInv, V2TypeOK, GetSecretReturn, Goto, Return, managerVars, objectVars
  <2> QED
    BY <2>1, <2>2, <2>3, <2>4
<1> USE <1>1, <1>2, <1>3 DEF managerVars, objectVars, threadVars
<1>5. Exclusive'
  BY DEF IInv, Exclusive, Writers
<1>6. MapShape'
  BY DEF IInv, MapShape
<1>7. ThreadShape'
  <2>1. ASSUME NEW u \in Threads, u # t
        PROVE  pc'[u] = pc[u] /\ arg'[u] = arg[u] /\ handle'[u] = handle[u]
    BY <2>1
  <2>2. pc'[t] # "idle" => arg'[t] \in Routes
    BY DEF IInv, ThreadShape, V2TypeOK, GetSecret, PollHandle, ReadMonitors,
           GetSecretReturn, Goto, Return
  <2> QED
    BY <2>1, <2>2 DEF IInv, V2TypeOK, MapShape, ThreadShape
<1>8. ObjectShape'
  BY DEF IInv, ObjectShape
<1> QED
  BY <1>4, <1>5, <1>6, <1>7, <1>8 DEF IInv

LEMMA GoroutineKeeps ==
  ASSUME IInv, NEW o \in Objects, StartInformer(o) \/ InformerSync(o) \/ InformerExit(o)
  PROVE  IInv'
<1>1. /\ UNCHANGED <<managerVars, key, handler, stopped, threadVars, crashed>>
      /\ \A p \in Objects : synced[p] => synced'[p]
      /\ \A p \in Objects : runner[p] = "none" => runner'[p] = "none"
      /\ synced' \in [Objects -> BOOLEAN]
      /\ runner' \in [Objects -> {"none", "spawned", "running", "returned"}]
  BY DEF IInv, V2TypeOK, StartInformer, InformerSync, InformerExit
<1> USE <1>1 DEF managerVars, threadVars
<1>2. V2TypeOK'
  BY DEF IInv, V2TypeOK
<1>3. Exclusive' /\ MapShape'
  BY DEF IInv, Exclusive, Writers, MapShape
<1>4. ThreadShape'
  BY DEF IInv, V2TypeOK, ThreadShape
<1>5. ObjectShape'
  BY DEF IInv, V2TypeOK, ObjectShape
<1> QED
  BY <1>2, <1>3, <1>4, <1>5 DEF IInv

LEMMA IInvStep == IInv /\ [Next]_vars => IInv'
<1> SUFFICES ASSUME IInv, [Next]_vars PROVE IInv'
  OBVIOUS
<1>1. CASE UNCHANGED vars
  BY <1>1
  DEF IInv, V2TypeOK, Exclusive, Writers, MapShape, ThreadShape, ObjectShape, vars,
      managerVars, objectVars, threadVars
<1>2. CASE Next
  BY <1>2, CallKeeps, WithSecretHandlerKeeps, AddKeeps, RegisteredKeeps, RemoveKeeps,
     UnregisteredKeeps, GetKeeps, GoroutineKeeps
  DEF Next, Lock, Continue
<1> QED
  BY <1>1, <1>2

LEMMA Invariance == Spec => []IInv
  BY IInvInit, IInvStep, PTL DEF Spec

-----------------------------------------------------------------------------

\* Every variable keeps its type; in particular a thread that polls or reads has an
\* Object to do it with.
THEOREM V2TypeCorrect == Spec => []V2TypeOK
  BY Invariance, PTL DEF IInv

\* No route is left with a stopped Object, and no informer runs that cannot be
\* stopped any more, however RegisterRoute and UnregisterRoute come together.
THEOREM RegisteredRoutesRun == Spec => []RegisteredRuns
<1>1. IInv => RegisteredRuns
  BY DEF IInv, MapShape, ThreadShape, ObjectShape, RegisteredRuns, Writers
<1> QED
  BY <1>1, Invariance, PTL

\* The look-up without the lock leads a route that is registered as it was back to
\* its own Object, unless the route is being unregistered.
THEOREM ReadsFindRegistered == Spec => ReadsRegistered
<1>1. ASSUME IInv, Next,
             NEW t \in Threads, pc[t] = "read", pc'[t] = "return",
             registeredHandlers[arg[t]] = handle[t]
      PROVE  \/ /\ handle'[t] = handle[t]
                /\ synced[handle[t]] /\ ~stopped[handle[t]]
             \/ \E u \in Threads : pc[u] = "remove" /\ arg[u] = arg[t]
  <2>1. ReadMonitors(t)
    <3>1. PICK u \in Threads : \/ Lock(u) \/ Continue(u)
                              \/ \E r \in Routes : \/ Call(u, "register", r)
                                                   \/ Call(u, "unregister", r)
                                                   \/ GetSecret(u, r)
      BY <1>1 DEF Next, WithSecretHandler, StartInformer, InformerSync, InformerExit,
                  threadVars
    <3>2. u = t
      BY <1>1, <3>1
      DEF IInv, V2TypeOK, Call, Lock, Continue, AddEventHandler, RouteRegistered,
          RemoveEventHandler, RouteUnregistered, GetSecret, PollHandle, ReadMonitors,
          GetSecretReturn, Goto, Return
    <3> QED
      BY <1>1, <3>1, <3>2
      DEF Call, Lock, Continue, AddEventHandler, RouteRegistered, RemoveEventHandler,
          RouteUnregistered, GetSecret, PollHandle, GetSecretReturn
  <2>2. PICK o \in Found(key[handle[t]]) : handle'[t] = o
    BY <1>1, <2>1 DEF IInv, V2TypeOK, ReadMonitors, Goto
  <2>3. /\ arg[t] \in Routes /\ key[handle[t]] = arg[t] /\ synced[handle[t]]
        /\ handle[t] # None /\ monitors[arg[t]] = handle[t]
    BY <1>1 DEF IInv, V2TypeOK, MapShape, ThreadShape
  <2>4. ASSUME NEW u \in Threads, pc[u] = "add", arg[u] = arg[t] PROVE FALSE
    BY <1>1, <2>3, <2>4 DEF IInv, ThreadShape
  <2>5. o = handle[t] \/ \E u \in Threads : pc[u] = "remove" /\ arg[u] = arg[t]
    BY <2>2, <2>3, <2>4 DEF Found
  <2>6. stopped[handle[t]] => \E u \in Threads : pc[u] = "remove" /\ arg[u] = arg[t]
    BY <1>1, <2>3 DEF IInv, MapShape
  <2> QED
    BY <2>2, <2>3, <2>5, <2>6
<1>2. IInv /\ [Next]_vars =>
        [\A t \in Threads :
           /\ pc[t] = "read" /\ pc'[t] = "return"
           /\ registeredHandlers[arg[t]] = handle[t]
           => \/ /\ handle'[t] = handle[t]
                 /\ synced[handle[t]] /\ ~stopped[handle[t]]
              \/ \E u \in Threads : pc[u] = "remove" /\ arg[u] = arg[t]]_vars
  BY <1>1
<1> QED
  BY <1>2, Invariance, PTL DEF Spec, ReadsRegistered

\* No registration finds an Object with the handler of an earlier one.
THEOREM RegistrationsAreCurrent == Spec => RegistersCurrentHandler
<1>1. ASSUME IInv, Next,
             NEW r \in Routes, registeredHandlers[r] = None,
             registeredHandlers'[r] # None
      PROVE  handler'[registeredHandlers'[r]] = secretHandler
  <2>1. PICK t \in Threads : AddEventHandler(t) \/ RouteRegistered(t)
                               \/ RouteUnregistered(t)
    BY <1>1
    DEF Next, Call, WithSecretHandler, Lock, Continue, RemoveEventHandler, GetSecret,
        PollHandle, ReadMonitors, GetSecretReturn, StartInformer, InformerSync,
        InformerExit, managerVars
  <2>2. ~AddEventHandler(t) /\ ~RouteUnregistered(t)
    BY <1>1
    DEF IInv, V2TypeOK, MapShape, ThreadShape, AddEventHandler, RouteUnregistered
  <2>3. arg[t] = r /\ registeredHandlers'[r] = handle[t] /\ handler' = handler
    BY <1>1, <2>1, <2>2 DEF IInv, V2TypeOK, RouteRegistered, objectVars
  <2> QED
    BY <1>1, <2>1, <2>2, <2>3 DEF IInv, ThreadShape, RouteRegistered
<1>2. IInv /\ [Next]_vars =>
        [\A r \in Routes :
           registeredHandlers[r] = None /\ registeredHandlers'[r] # None =>
             handler'[registeredHandlers'[r]] = secretHandler]_vars
  BY <1>1
<1> QED
  BY <1>2, Invariance, PTL DEF Spec, RegistersCurrentHandler

-----------------------------------------------------------------------------
(* The older Manager keeps the promise of the newer one, RouteWatch: the      *)
(* secret of a route is followed from NewObject on until the informer of its  *)
(* last Object has returned.                                                  *)

\* The secret a route watches is its own.  UnregisterRoute ends the watch when it
\* stops the Object.
Watched ==
  [r \in Routes |->
     IF registeredHandlers[r] = None \/ (\E t \in Threads : pc[t] = "remove" /\ arg[t] = r)
     THEN None ELSE r]

\* An Object follows its secret while its goroutine has not returned.
Alive(o) == runner[o] \in {"spawned", "running"}

Followed == {k \in Routes : \E o \in Objects : Alive(o) /\ key[o] = k}

RW == INSTANCE RouteWatch WITH
        Keys <- Routes, watch <- Watched, following <- Followed

\* An Object with a key has a goroutine, which returns only when it was stopped.
RunnerShape ==
  \A o \in Objects : /\ runner[o] = "none" => key[o] = None
                     /\ runner[o] = "returned" => stopped[o]

LEMMA RunnerShapeStep ==
  ASSUME IInv, RunnerShape, [Next]_vars
  PROVE  RunnerShape'
<1>1. CASE UNCHANGED vars
  BY <1>1 DEF RunnerShape, vars, objectVars
<1>2. CASE \E t \in Threads : AddEventHandler(t) \/ RemoveEventHandler(t)
  BY <1>2
  DEF IInv, V2TypeOK, RunnerShape, AddEventHandler, NewObject, objectVars,
      RemoveEventHandler
<1>3. CASE \E o \in Objects : StartInformer(o) \/ InformerSync(o) \/ InformerExit(o)
  BY <1>3
  DEF IInv, V2TypeOK, RunnerShape, StartInformer, InformerSync, InformerExit
<1>4. CASE UNCHANGED objectVars
  BY <1>4 DEF RunnerShape, objectVars
<1> QED
  BY <1>1, <1>2, <1>3, <1>4
  DEF Next, WithSecretHandler, Call, GetSecret, Lock, Continue, RouteRegistered,
      RouteUnregistered, PollHandle, ReadMonitors, GetSecretReturn

\* A step that leaves the Objects and the registrations alone changes no watch, unless
\* it begins or ends an UnregisterRoute.
LEMMA NothingToWatch ==
  ASSUME UNCHANGED <<registeredHandlers, key, runner>>,
         \A t \in Threads :
           \/ pc'[t] = pc[t] /\ arg'[t] = arg[t]
           \/ pc[t] # "remove" /\ pc'[t] # "remove"
  PROVE  UNCHANGED <<Watched, Followed>>
<1>1. \A r \in Routes :
        (\E t \in Threads : pc'[t] = "remove" /\ arg'[t] = r)
          <=> (\E t \in Threads : pc[t] = "remove" /\ arg[t] = r)
  OBVIOUS
<1> QED
  BY <1>1 DEF Watched, Followed, Alive

\* RegisterRoute: the new Object is alive before the route has it.
LEMMA AddFollows ==
  ASSUME IInv, NEW t \in Threads, AddEventHandler(t)
  PROVE  [RW!Next]_RW!rwVars
<1> DEFINE r == arg[t]
<1>0. r \in Routes /\ pc[t] = "register" /\ CanLock
  BY DEF IInv, ThreadShape, AddEventHandler
<1>1. \A u \in Threads : u # t => pc'[u] = pc[u] /\ arg'[u] = arg[u]
  BY DEF IInv, V2TypeOK, AddEventHandler, Return, Goto
<1>2. pc'[t] # "remove"
  BY DEF IInv, V2TypeOK, AddEventHandler, Return, Goto
<1>3. CASE monitors[r] # None
  <2>1. UNCHANGED <<registeredHandlers, key, runner>>
    BY <1>0, <1>3 DEF AddEventHandler, IInv, V2TypeOK, MapShape, objectVars
  <2> QED
    BY <1>0, <1>1, <1>2, <2>1, NothingToWatch DEF RW!rwVars
<1>4. CASE monitors[r] = None
  <2>1. PICK o \in Objects : NewObject(o, r) /\ UNCHANGED registeredHandlers
    BY <1>4 DEF AddEventHandler
  <2>2. Watched' = Watched
    <3>1. \A s \in Routes :
            (\E u \in Threads : pc'[u] = "remove" /\ arg'[u] = s)
              <=> (\E u \in Threads : pc[u] = "remove" /\ arg[u] = s)
      BY <1>0, <1>1, <1>2
    <3> QED
      BY <2>1, <3>1 DEF Watched
  <2>3. /\ ~Alive(o) /\ Alive(o)' /\ key'[o] = r
        /\ \A p \in Objects : p # o => runner'[p] = runner[p] /\ key'[p] = key[p]
    BY <2>1 DEF IInv, V2TypeOK, NewObject, Free, Alive
  <2>4. Followed' = Followed \cup {r}
    BY <1>0, <2>3 DEF Followed, Alive
  <2>5. RW!Follow(r)
    BY <2>2, <2>4 DEF RW!Follow
  <2> QED
    BY <1>0, <2>5 DEF RW!Next
<1> QED
  BY <1>3, <1>4

\* RegisterRoute enters the Object: the route watches its secret, which is followed.
LEMMA RegisteredWatches ==
  ASSUME IInv, RunnerShape, NEW t \in Threads, RouteRegistered(t)
  PROVE  [RW!Next]_RW!rwVars
<1> DEFINE r == arg[t]
           o == handle[t]
<1>1. /\ pc[t] = "add" /\ r \in Routes /\ o \in Objects /\ key[o] = r /\ ~stopped[o]
      /\ registeredHandlers[r] = None
  BY DEF IInv, V2TypeOK, ThreadShape, MapShape, RouteRegistered
<1>2. \A u \in Threads : pc[u] # "remove" /\ pc'[u] # "remove"
  BY <1>1 DEF IInv, V2TypeOK, Exclusive, Writers, RouteRegistered, Return, Goto
<1>3. UNCHANGED <<key, runner>>
  BY DEF RouteRegistered, objectVars
<1>4. Followed' = Followed
  BY <1>3 DEF Followed, Alive
<1>5. r \in Followed
  <2>1. runner[o] # "none"
    BY <1>1 DEF RunnerShape
  <2> QED
    BY <1>1, <2>1 DEF IInv, V2TypeOK, RunnerShape, Followed, Alive
<1>6. Watched[r] = None /\ Watched' = [Watched EXCEPT ![r] = r]
  <2>1. registeredHandlers' = [registeredHandlers EXCEPT ![r] = o] /\ o # None
    BY <1>1, MonitorV2Assumption DEF RouteRegistered
  <2>2. registeredHandlers \in [Routes -> Objects \cup {None}]
    BY DEF IInv, V2TypeOK
  <2>3. Watched = [s \in Routes |-> IF registeredHandlers[s] = None THEN None ELSE s]
    BY <1>2 DEF Watched
  <2>4. Watched' = [s \in Routes |-> IF registeredHandlers'[s] = None THEN None ELSE s]
    BY <1>2 DEF Watched
  <2> QED
    BY <1>1, <2>1, <2>2, <2>3, <2>4
<1>7. RW!Register(r, r)
  BY <1>4, <1>5, <1>6 DEF RW!Register
<1> QED
  BY <1>1, <1>7 DEF RW!Next

\* UnregisterRoute stops the Object: the route watches nothing from here on.
LEMMA RemoveUnwatches ==
  ASSUME IInv, NEW t \in Threads, RemoveEventHandler(t)
  PROVE  [RW!Next]_RW!rwVars
<1> DEFINE r == arg[t]
<1>1. r \in Routes /\ pc[t] = "unregister" /\ CanLock
  BY DEF IInv, ThreadShape, RemoveEventHandler
<1>2. UNCHANGED <<registeredHandlers, key, runner, arg>>
  BY DEF RemoveEventHandler, managerVars
<1>3. Followed' = Followed
  BY <1>2 DEF Followed, Alive
<1>4. CASE registeredHandlers[r] = None
  <2>1. pc' = pc
    BY <1>4 DEF RemoveEventHandler
  <2> QED
    BY <1>2, <2>1, NothingToWatch DEF RW!rwVars
<1>5. CASE registeredHandlers[r] # None
  <2>1. pc' = [pc EXCEPT ![t] = "remove"]
    BY <1>5 DEF RemoveEventHandler, Goto
  <2>2. \A u \in Threads : pc[u] # "remove"
    BY <1>1 DEF CanLock, Writers
  <2>3. \A s \in Routes :
          (\E u \in Threads : pc'[u] = "remove" /\ arg'[u] = s) <=> s = r
    BY <1>1, <1>2, <2>1, <2>2 DEF IInv, V2TypeOK
  <2>4. Watched' = [Watched EXCEPT ![r] = None]
    BY <1>1, <1>2, <2>2, <2>3 DEF Watched
  <2>5. RW!Unregister(r)
    BY <1>3, <2>4 DEF RW!Unregister
  <2> QED
    BY <1>1, <2>5 DEF RW!Next
<1> QED
  BY <1>4, <1>5

\* UnregisterRoute forgets the handle of a route that watches nothing any more.
LEMMA UnregisteredUnwatched ==
  ASSUME IInv, NEW t \in Threads, RouteUnregistered(t)
  PROVE  [RW!Next]_RW!rwVars
<1> DEFINE r == arg[t]
<1>1. pc[t] = "remove" /\ r \in Routes
  BY DEF IInv, V2TypeOK, ThreadShape, RouteUnregistered
<1>2. \A u \in Threads : /\ u # t => pc[u] # "remove"
                         /\ pc'[u] # "remove"
  BY <1>1 DEF IInv, V2TypeOK, Exclusive, Writers, RouteUnregistered, Return, Goto
<1>3. registeredHandlers' = [registeredHandlers EXCEPT ![r] = None]
  BY DEF RouteUnregistered
<1>4. Watched' = Watched
  BY <1>1, <1>2, <1>3 DEF IInv, V2TypeOK, Watched
<1>5. Followed' = Followed
  BY DEF RouteUnregistered, objectVars, Followed, Alive
<1> QED
  BY <1>4, <1>5 DEF RW!rwVars

\* An Object that returns was stopped: if a route watches its secret, it is with
\* another one.
LEMMA GoroutineForgets ==
  ASSUME IInv, RunnerShape, NEW o \in Objects,
         StartInformer(o) \/ InformerSync(o) \/ InformerExit(o)
  PROVE  [RW!Next]_RW!rwVars
<1>1. UNCHANGED <<registeredHandlers, key, pc, arg>>
  BY DEF StartInformer, InformerSync, InformerExit, managerVars, threadVars
<1>2. Watched' = Watched
  BY <1>1 DEF Watched
<1>3. \A p \in Objects : p # o => runner'[p] = runner[p]
  BY DEF IInv, V2TypeOK, StartInformer, InformerSync, InformerExit
<1>4. CASE Alive(o)' = Alive(o)
  <2>1. Followed' = Followed
    BY <1>1, <1>3, <1>4 DEF Followed, Alive
  <2> QED
    BY <1>2, <2>1 DEF RW!rwVars
<1>5. CASE Alive(o)' # Alive(o)
  <2>1. Alive(o) /\ ~Alive(o)' /\ stopped[o]
    BY <1>5
    DEF IInv, V2TypeOK, StartInformer, InformerSync, InformerExit, Alive
  <2> DEFINE k == key[o]
  <2>2. k \in Routes
    BY <2>1 DEF IInv, ObjectShape, Alive
  <2>3. CASE \E p \in Objects : p # o /\ Alive(p) /\ key[p] = k
    <3>1. Followed' = Followed
      BY <1>1, <1>3, <2>1, <2>3 DEF Followed, Alive
    <3> QED
      BY <1>2, <3>1 DEF RW!rwVars
  <2>4. CASE ~\E p \in Objects : p # o /\ Alive(p) /\ key[p] = k
    <3>1. Followed' = Followed \ {k}
      BY <1>1, <1>3, <2>1, <2>4 DEF Followed, Alive
    <3>2. ASSUME NEW r \in Routes, Watched[r] = k PROVE FALSE
      <4>1. /\ r = k /\ registeredHandlers[r] # None
            /\ ~\E t \in Threads : pc[t] = "remove" /\ arg[t] = r
        BY <2>2, <3>2 DEF Watched
      <4> DEFINE p == monitors[r]
      <4>2. p \in Objects /\ key[p] = k /\ ~stopped[p]
        BY <4>1 DEF IInv, V2TypeOK, MapShape
      <4>3. runner[p] # "none"
        BY <2>2, <4>2 DEF RunnerShape
      <4>4. Alive(p)
        BY <4>2, <4>3 DEF IInv, V2TypeOK, RunnerShape, Alive
      <4> QED
        BY <2>1, <2>4, <4>2, <4>4
    <3>3. RW!Forget(k)
      BY <1>2, <3>1, <3>2 DEF RW!Forget
    <3> QED
      BY <2>2, <3>3 DEF RW!Next
  <2> QED
    BY <2>3, <2>4
<1> QED
  BY <1>4, <1>5

LEMMA RouteWatchStep ==
  ASSUME IInv, RunnerShape, [Next]_vars
  PROVE  [RW!Next]_RW!rwVars
<1>1. CASE UNCHANGED vars
  BY <1>1, NothingToWatch DEF vars, managerVars, objectVars, threadVars, RW!rwVars
<1>2. CASE \E h \in Handlers : WithSecretHandler(h)
  BY <1>2, NothingToWatch DEF WithSecretHandler, objectVars, threadVars, RW!rwVars
<1>3. ASSUME NEW t \in Threads,
             \/ \E r \in Routes : \/ Call(t, "register", r) \/ Call(t, "unregister", r)
                                  \/ GetSecret(t, r)
             \/ PollHandle(t) \/ ReadMonitors(t) \/ GetSecretReturn(t)
      PROVE  UNCHANGED RW!rwVars
  <2>1. UNCHANGED <<registeredHandlers, key, runner>>
    BY <1>3
    DEF Call, GetSecret, PollHandle, ReadMonitors, GetSecretReturn, managerVars, objectVars
  <2>2. /\ pc[t] # "remove" /\ pc'[t] # "remove"
        /\ \A u \in Threads : u # t => pc'[u] = pc[u] /\ arg'[u] = arg[u]
    BY <1>3
    DEF IInv, V2TypeOK, Call, GetSecret, PollHandle, ReadMonitors, GetSecretReturn, Goto,
        Return
  <2> QED
    BY <2>1, <2>2, NothingToWatch DEF RW!rwVars
<1> QED
  BY <1>1, <1>2, <1>3, AddFollows, RegisteredWatches, RemoveUnwatches,
     UnregisteredUnwatched, GoroutineForgets
  DEF Next, Lock, Continue

\* Every behaviour of the Manager of monitor_v2 is one of RouteWatch.
THEOREM V2ImplementsRouteWatch == Spec => RW!Spec
<1>1. Init => RW!Init /\ RunnerShape
  BY DEF Init, RW!Init, Watched, Followed, Alive, RunnerShape
<1>2. IInv /\ RunnerShape /\ [Next]_vars => RunnerShape' /\ [RW!Next]_RW!rwVars
  BY RunnerShapeStep, RouteWatchStep
<1> QED
  BY <1>1, <1>2, Invariance, PTL DEF Spec, RW!Spec

-----------------------------------------------------------------------------
(* The Objects whose informers run, and are to run on.                        *)

Live == {o \in Objects : Alive(o) /\ ~stopped[o]}

\* What holds of the Objects and of their goroutines holds in every state.
LEMMA RunnerInvariance == Spec => [](IInv /\ RunnerShape)
<1>1. Init => RunnerShape
  BY DEF Init, RunnerShape
<1>2. IInv /\ RunnerShape /\ [Next]_vars => RunnerShape'
  BY RunnerShapeStep
<1> QED
  BY <1>1, <1>2, Invariance, PTL DEF Spec

\* A route has one Object at a time that was not stopped, also while RegisterRoute is
\* between NewObject and the map, and another thread waits to register it too.
OneObjectEach == \A o, p \in Live : key[o] = key[p] => o = p

\* No secret is watched twice for one route: RegisterRoute of monitor_v2 makes a new
\* Object only for a route without one, however many threads call it.
THEOREM RoutesHaveOneObject == Spec => []OneObjectEach
<1>1. ASSUME IInv, NEW o \in Live, NEW p \in Live, key[o] = key[p]
      PROVE  o = p
  <2>1. ASSUME NEW q \in Live
        PROVE  \/ monitors[key[q]] = q
               \/ \E t \in Threads : pc[t] = "add" /\ handle[t] = q
    BY <1>1, <2>1 DEF Live, Alive, IInv, ObjectShape
  <2>2. ASSUME NEW t \in Threads, pc[t] = "add"
        PROVE  key[handle[t]] = arg[t] /\ monitors[arg[t]] = None
    BY <1>1, <2>2 DEF IInv, ThreadShape
  <2>3. \A t, u \in Threads : pc[t] = "add" /\ pc[u] = "add" => t = u
    BY <1>1 DEF IInv, Exclusive, Writers
  <2>4. o # None /\ p # None
    BY DEF Live
  <2> QED
    BY <1>1, <2>1, <2>2, <2>3, <2>4
<1>2. IInv => OneObjectEach
  BY <1>1 DEF OneObjectEach
<1> QED
  BY <1>2, Invariance, PTL

\* Between calls the Objects that were not stopped, and whose goroutines have not
\* returned, are those of the registered routes.
LiveIsRegistered ==
  CanLock => Live = {registeredHandlers[r] : r \in Routes} \ {None}

\* While m.lock is free, the informers of monitor_v2 that are to run on are exactly those
\* of the registered routes: none is lost, and each registered route has one whose
\* goroutine has not gone.
THEOREM V2FollowsRegistered == Spec => []LiveIsRegistered
<1>1. ASSUME IInv, RunnerShape, CanLock, NEW o \in Live
      PROVE  \E r \in Routes : registeredHandlers[r] = o
  <2>1. o \in Objects /\ runner[o] # "none" /\ ~stopped[o]
    BY DEF Live, Alive
  <2>2. key[o] \in Routes /\ monitors[key[o]] = o
    BY <1>1, <2>1 DEF IInv, ObjectShape, CanLock, Writers
  <2> QED
    BY <1>1, <2>2 DEF IInv, MapShape
<1>2. ASSUME IInv, RunnerShape, CanLock, NEW r \in Routes, registeredHandlers[r] # None
      PROVE  registeredHandlers[r] \in Live
  <2> DEFINE o == registeredHandlers[r]
  <2>1. o \in Objects /\ key[o] = r /\ ~stopped[o]
    BY <1>2 DEF IInv, V2TypeOK, MapShape, CanLock, Writers
  <2>2. runner[o] \notin {"none", "returned"}
    BY <1>2, <2>1, MonitorV2Assumption DEF RunnerShape
  <2> QED
    BY <1>2, <2>1, <2>2 DEF Live, Alive, IInv, V2TypeOK
<1>3. None \notin Live
  BY DEF Live
<1>4. IInv /\ RunnerShape => LiveIsRegistered
  BY <1>1, <1>2, <1>3 DEF LiveIsRegistered
<1> QED
  BY <1>4, RunnerInvariance, PTL

=============================================================================
