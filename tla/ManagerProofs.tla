------------------------------ MODULE ManagerProofs ------------------------------
(******************************************************************************)
(* The Manager is a proper client of secretMonitor, so that what is proved of *)
(* SecretMonitor holds under it.                                              *)
(******************************************************************************)
EXTENDS Manager, SecretMonitorProofs

\* A thread that registers a route finds it unregistered until it is done; one
\* that stops the last informer of a route has its registration removed already.
RouteShape ==
  \A t \in Threads :
    /\ pc[t] \in {"waitSync", "attach", "stop"} => route[t] # None
    /\ pc[t] \in {"waitSync", "attach"} => registeredHandlers[route[t]] = None
    /\ pc[t] = "stop" => /\ registeredHandlers[route[t]] # None
                         /\ registeredHandlers[route[t]] \notin held

\* A route that is registered has a registration that is held, except while the
\* route is being unregistered.
RegisteredIsHeld ==
  \A r \in Routes :
    registeredHandlers[r] # None =>
      \/ registeredHandlers[r] \in held
      \/ \E t \in Threads : pc[t] = "stop" /\ route[t] = r

\* A registration that is held is that of one route.
HeldIsRegistered ==
  /\ \A h \in held : \E r \in Routes : registeredHandlers[r] = h
  /\ \A r, s \in Routes :
       /\ registeredHandlers[r] # None
       /\ registeredHandlers[r] = registeredHandlers[s]
       => r = s

RegisteredIsIssued ==
  \A r \in Routes :
    registeredHandlers[r] # None => reg[registeredHandlers[r]] # None

MInv ==
  /\ ManagerTypeOK
  /\ RouteShape
  /\ RegisteredIsHeld
  /\ HeldIsRegistered
  /\ RegisteredIsIssued

\* Every step of the Manager is one of a client that uses a registration only
\* until it has removed it.
LEMMA ManagerStep ==
  ASSUME IInv, MInv, [ManagerNext]_allVars
  PROVE  [Next]_vars
<1>1. CASE UNCHANGED allVars
  BY <1>1 DEF allVars
<1>2. CASE Environment
  BY <1>2 DEF Next
<1>3. ASSUME NEW t \in Threads, Register(t)
      PROVE  [Next]_vars
  BY <1>3 DEF Register, WithSecretHandler, RegisterRoute, RegisterRefused, Next, Add
<1>4. ASSUME NEW t \in Threads, NEW r \in Routes,
             UnregisterRoute(t, r) \/ GetRouteSecret(t, r)
      PROVE  [Next]_vars
  <2>1. registeredHandlers[r] \in held
    BY <1>4
    DEF MInv, RegisteredIsHeld, UnregisterRoute, GetRouteSecret,
        RemoveSecretEventHandler, CanLock
  <2> QED
    BY <1>4, <2>1 DEF UnregisterRoute, GetRouteSecret, Next
<1>5. ASSUME NEW t \in Threads, ManagerContinue(t)
      PROVE  [Next]_vars
  BY <1>5
  DEF ManagerContinue, RouteSynced, RouteRegistered, RegisterFailed,
      RouteUnregistered, GetRouteSecretReturn, Next, Continue
<1> QED
  BY <1>1, <1>2, <1>3, <1>4, <1>5 DEF ManagerNext

LEMMA MInvInit == ManagerInit => IInv /\ MInv
<1> SUFFICES ASSUME ManagerInit PROVE IInv /\ MInv
  OBVIOUS
<1>1. IInv
  BY IInvInit DEF ManagerInit
<1>2. MInv
  BY DEF ManagerInit, Init, MInv, ManagerTypeOK, RouteShape, RegisteredIsHeld,
         HeldIsRegistered, RegisteredIsIssued
<1> QED
  BY <1>1, <1>2

\* Steps that leave the Manager's own state, the calls and the registrations alone.
LEMMA MInvUnchanged ==
  ASSUME MInv, UNCHANGED <<managerVars, pc, held, reg>>
  PROVE  MInv'
BY DEF MInv, managerVars, ManagerTypeOK, RouteShape, RegisteredIsHeld,
       HeldIsRegistered, RegisteredIsIssued

LEMMA RegisterKeeps ==
  ASSUME IInv, MInv, NEW t \in Threads, Register(t)
  PROVE  MInv'
<1>1. ASSUME NEW r \in Routes, WithSecretHandler(t, r) PROVE MInv'
  BY <1>1
  DEF MInv, ManagerTypeOK, RouteShape, RegisteredIsHeld, HeldIsRegistered,
      RegisteredIsIssued, WithSecretHandler, vars, handlerVars, threadVars
<1>2. ASSUME NEW k \in Keys, NEW c \in Contexts, RegisterRoute(t, k, c) PROVE MInv'
  BY <1>2
  DEF IInv, TypeOK, MInv, ManagerTypeOK, RouteShape, RegisteredIsHeld, HeldIsRegistered,
      RegisteredIsIssued, RegisterRoute, AddSecretEventHandler, CanLock, handlerVars
<1>3. CASE RegisterRefused(t)
  BY <1>3
  DEF MInv, ManagerTypeOK, RouteShape, RegisteredIsHeld, HeldIsRegistered,
      RegisteredIsIssued, RegisterRefused, Done, CanLock, vars, handlerVars, threadVars
<1> QED
  BY <1>1, <1>2, <1>3 DEF Register

LEMMA RouteRegisteredKeeps ==
  ASSUME IInv, MInv, NEW t \in Threads, NEW h \in Handles, RouteRegistered(t, h)
  PROVE  MInv'
<1> DEFINE r == route[t]
<1>1. r \in Routes /\ registeredHandlers[r] = None
  BY DEF MInv, ManagerTypeOK, RouteShape, RouteRegistered, AttachHandler
<1>2. h \notin held /\ \A s \in Routes : registeredHandlers[s] # h
  BY SecretMonitorAssumption
  DEF IInv, RegShape, MInv, RegisteredIsIssued, RouteRegistered, AttachHandler
<1>3. \A u \in Threads : u # t => pc[u] = "idle"
  BY DEF IInv, Exclusive, RouteRegistered, AttachHandler
<1>4. ManagerTypeOK'
  BY <1>1 DEF IInv, TypeOK, MInv, ManagerTypeOK, RouteRegistered, AttachHandler, Done
<1>5. RouteShape'
  BY <1>3 DEF IInv, TypeOK, RouteShape, RouteRegistered, AttachHandler, Return
<1>6. RegisteredIsHeld'
  BY <1>3
  DEF MInv, ManagerTypeOK, RegisteredIsHeld, RouteRegistered, AttachHandler
<1>7. HeldIsRegistered'
  BY <1>1, <1>2, SecretMonitorAssumption
  DEF IInv, TypeOK, MInv, ManagerTypeOK, HeldIsRegistered, RouteRegistered, AttachHandler
<1>8. RegisteredIsIssued'
  BY <1>1, <1>2, SecretMonitorAssumption
  DEF IInv, TypeOK, ThreadShape, MInv, ManagerTypeOK, RegisteredIsIssued,
      RouteRegistered, AttachHandler
<1> QED
  BY <1>4, <1>5, <1>6, <1>7, <1>8 DEF MInv

LEMMA UnregisterRouteKeeps ==
  ASSUME IInv, MInv, NEW t \in Threads, NEW r \in Routes, UnregisterRoute(t, r)
  PROVE  MInv'
<1>1. registeredHandlers[r] \in held
  BY DEF MInv, RegisteredIsHeld, UnregisterRoute, RemoveSecretEventHandler, CanLock
<1>2. /\ \A u \in Threads : pc[u] = "idle"
      /\ held' = held \ {registeredHandlers[r]} /\ reg' = reg
      /\ pc' = [pc EXCEPT ![t] = "stop"] \/ pc' = pc
  BY <1>1, RemoveEffect DEF UnregisterRoute
<1>3. \A u \in Threads : pc'[u] # "idle" => u = t /\ pc'[u] = "stop"
  BY <1>2 DEF IInv, TypeOK
<1>4. ManagerTypeOK'
  BY DEF MInv, ManagerTypeOK, UnregisterRoute
<1>5. RouteShape'
  BY <1>1, <1>2, <1>3, SecretMonitorAssumption, ManagerAssumption
  DEF IInv, TypeOK, MInv, ManagerTypeOK, RouteShape, UnregisterRoute
<1>6. RegisteredIsHeld'
  BY <1>1, <1>2, SecretMonitorAssumption
  DEF IInv, TypeOK, MInv, ManagerTypeOK, RegisteredIsHeld, HeldIsRegistered, UnregisterRoute
<1>7. HeldIsRegistered' /\ RegisteredIsIssued'
  BY <1>1, <1>2, SecretMonitorAssumption
  DEF MInv, ManagerTypeOK, HeldIsRegistered, RegisteredIsIssued, UnregisterRoute
<1> QED
  BY <1>4, <1>5, <1>6, <1>7 DEF MInv

LEMMA RouteUnregisteredKeeps ==
  ASSUME IInv, MInv, NEW t \in Threads, RouteUnregistered(t)
  PROVE  MInv'
<1>1. /\ route[t] \in Routes
      /\ registeredHandlers[route[t]] \notin held
      /\ \A u \in Threads : u # t => pc[u] = "idle"
  BY DEF IInv, Exclusive, MInv, ManagerTypeOK, RouteShape, RouteUnregistered, StopMonitor
<1>2. /\ held' = held /\ reg' = reg
      /\ pc' = [pc EXCEPT ![t] = "idle"]
      /\ registeredHandlers' = [registeredHandlers EXCEPT ![route[t]] = None]
  BY DEF RouteUnregistered, StopMonitor, Return, handlerVars
<1>3. ManagerTypeOK'
  BY <1>2 DEF MInv, ManagerTypeOK, RouteUnregistered, Done
<1>4. RouteShape'
  BY <1>1, <1>2 DEF IInv, TypeOK, RouteShape
<1>5. RegisteredIsHeld'
  BY <1>1, <1>2 DEF MInv, ManagerTypeOK, RegisteredIsHeld
<1>6. HeldIsRegistered' /\ RegisteredIsIssued'
  BY <1>1, <1>2, SecretMonitorAssumption
  DEF MInv, ManagerTypeOK, HeldIsRegistered, RegisteredIsIssued
<1> QED
  BY <1>3, <1>4, <1>5, <1>6 DEF MInv

LEMMA MInvStep ==
  ASSUME IInv, MInv, [ManagerNext]_allVars
  PROVE  MInv'
<1>1. CASE UNCHANGED allVars
  BY <1>1, MInvUnchanged DEF allVars, vars, handlerVars, threadVars
<1>2. CASE Environment /\ UNCHANGED managerVars
  <2>1. UNCHANGED <<pc, held, reg>>
    BY <1>2
    DEF Environment, Informer, StartInformer, RunInformer, InformerSync, InformerExit,
        WatcherOnCancel, WatcherOnStop, DeliverInitial, CancelContext, threadVars,
        handlerVars
  <2> QED
    BY <1>2, <2>1, MInvUnchanged
<1>3. ASSUME NEW t \in Threads, Register(t) PROVE MInv'
  BY <1>3, RegisterKeeps
<1>4. ASSUME NEW t \in Threads, NEW r \in Routes, UnregisterRoute(t, r) PROVE MInv'
  BY <1>4, UnregisterRouteKeeps
<1>5. ASSUME NEW t \in Threads, NEW r \in Routes, GetRouteSecret(t, r) PROVE MInv'
  BY <1>5
  DEF IInv, TypeOK, MInv, ManagerTypeOK, RouteShape, RegisteredIsHeld, HeldIsRegistered,
      RegisteredIsIssued, GetRouteSecret, GetSecret, CanLock, managerVars, handlerVars
<1>6. ASSUME NEW t \in Threads, RouteSynced(t) \/ GetRouteSecretReturn(t) PROVE MInv'
  BY <1>6
  DEF IInv, TypeOK, MInv, ManagerTypeOK, RouteShape, RegisteredIsHeld, HeldIsRegistered,
      RegisteredIsIssued, RouteSynced, AwaitSync, GetRouteSecretReturn, GetSecretReturn,
      Return, managerVars, handlerVars
<1>7. ASSUME NEW t \in Threads, RegisterFailed(t) PROVE MInv'
  BY <1>7
  DEF IInv, TypeOK, Exclusive, MInv, ManagerTypeOK, RouteShape, RegisteredIsHeld,
      HeldIsRegistered, RegisteredIsIssued, RegisterFailed, AttachRefused, Return, Done,
      handlerVars
<1> QED
  BY <1>1, <1>2, <1>3, <1>4, <1>5, <1>6, <1>7, RouteRegisteredKeeps,
     RouteUnregisteredKeeps
  DEF ManagerNext, ManagerContinue

LEMMA ManagerInvariance == ManagerSpec => [](IInv /\ MInv)
<1>1. IInv /\ MInv /\ [ManagerNext]_allVars => (IInv /\ MInv)'
  BY ManagerStep, MInvStep, IInvStep
<1> QED
  BY <1>1, MInvInit, PTL DEF ManagerSpec

\* Every variable of the manager and of its handlers keeps its type, however many
\* workers call it.
THEOREM ManagerTypeCorrect == ManagerSpec => []ManagerTypeOK
  BY ManagerInvariance, PTL DEF MInv

\* The Manager never removes a registration twice, and never reads through one it
\* has removed: each of its behaviours is one of SecretMonitor's Spec, and has all
\* the properties proved of it.
THEOREM ManagerIsProperClient == ManagerSpec => UsesMonitorProperly
<1>1. ManagerInit => Init
  BY DEF ManagerInit
<1>2. IInv /\ MInv /\ [ManagerNext]_allVars => [Next]_vars
  BY ManagerStep
<1> QED
  BY <1>1, <1>2, ManagerInvariance, PTL DEF ManagerSpec, Spec, UsesMonitorProperly

\* Between calls, what secretMonitor counts as in use is what the Manager's map
\* holds: no registration is lost, and none belongs to two routes.
THEOREM ManagerOwnsRegistrations == ManagerSpec => []OwnsRegistrations
<1>1. IInv /\ MInv => OwnsRegistrations
  <2> SUFFICES ASSUME IInv, MInv, CanLock
               PROVE  held = {registeredHandlers[r] : r \in Routes} \ {None}
    BY DEF MInv, HeldIsRegistered, OwnsRegistrations
  <2>1. \A r \in Routes : registeredHandlers[r] # None => registeredHandlers[r] \in held
    BY DEF MInv, RegisteredIsHeld, CanLock
  <2> QED
    BY <2>1, SecretMonitorAssumption DEF IInv, TypeOK, MInv, HeldIsRegistered
<1> QED
  BY <1>1, ManagerInvariance, PTL

-----------------------------------------------------------------------------
(* The Manager implements RouteWatch.                                         *)

LEMMA FollowingIsMonitored == SInv => Following = {k \in Keys : monitors[k] # None}
<1> SUFFICES ASSUME SInv, NEW k \in Keys, monitors[k] # None,
                    itemCtx[monitors[k]] \notin ctxDone
             PROVE  ~stopped[monitors[k]]
  BY DEF Following
<1>1. monitors[k] \in Items /\ synced[monitors[k]]
  BY DEF SInv, IInv, TypeOK, MapShape
<1> QED
  BY <1>1, InHandRuns

LEMMA FollowingStaysMonitored ==
  ASSUME SInv'
  PROVE  Following' = {k \in Keys : monitors'[k] # None}
<1>1. (SInv => Following = {k \in Keys : monitors[k] # None})'
  BY FollowingIsMonitored, PTL
<1> QED
  BY <1>1

\* A route's secret changes only with its registration: items keep their key.
LEMMA WatchUnchanged ==
  ASSUME IInv, UNCHANGED <<registeredHandlers, held, reg>>,
         \A i \in Items : itemKey[i] # None => itemKey'[i] = itemKey[i]
  PROVE  [r \in Routes |-> WatchOf(r)]' = [r \in Routes |-> WatchOf(r)]
<1>1. \A h \in held : itemKey'[reg[h]] = itemKey[reg[h]]
  BY DEF IInv, TypeOK, ItemShape, RegShape
<1> QED
  BY <1>1 DEF WatchOf

LEMMA SyncIsFollow ==
  ASSUME SInv, SInv', MInv, NEW t \in Threads, RouteSynced(t)
  PROVE  \E k \in Keys : RW!Follow(k)
<1>1. PICK k \in Keys : k = itemKey[mon[t]] /\ mon[t] \in Items
  BY SecretMonitorAssumption
  DEF SInv, IInv, TypeOK, ThreadShape, RouteSynced, AwaitSync
<1>2. Following' = Following \cup {k}
  <2>1. monitors' = [monitors EXCEPT ![k] = mon[t]]
    BY <1>1 DEF RouteSynced, AwaitSync
  <2> QED
    BY <1>1, <2>1, FollowingIsMonitored, FollowingStaysMonitored, SecretMonitorAssumption
    DEF SInv, IInv, TypeOK
<1>3. [r \in Routes |-> WatchOf(r)]' = [r \in Routes |-> WatchOf(r)]
  BY WatchUnchanged
  DEF SInv, RouteSynced, AwaitSync, managerVars, handlerVars, itemVars
<1> QED
  BY <1>2, <1>3 DEF RW!Follow

LEMMA AttachIsRegister ==
  ASSUME SInv, SInv', MInv, NEW t \in Threads, NEW h \in Handles, RouteRegistered(t, h)
  PROVE  \E r \in Routes, k \in Keys : RW!Register(r, k)
<1>1. PICK r \in Routes : r = route[t] /\ registeredHandlers[r] = None
  BY DEF MInv, ManagerTypeOK, RouteShape, RouteRegistered, AttachHandler
<1>2. PICK k \in Keys : k = itemKey[mon[t]] /\ mon[t] \in Items /\ monitors[k] = mon[t]
  BY SecretMonitorAssumption
  DEF SInv, IInv, TypeOK, ThreadShape, RouteRegistered, AttachHandler
<1>3. h \notin held /\ None \notin held /\ \A s \in Routes : registeredHandlers[s] # h
  BY SecretMonitorAssumption
  DEF SInv, IInv, TypeOK, RegShape, MInv, RegisteredIsIssued, RouteRegistered,
      AttachHandler
<1>4. WatchOf(r) = None /\ k \in Following
  BY <1>1, <1>2, <1>3, FollowingIsMonitored, SecretMonitorAssumption DEF WatchOf
<1>5. Following' = Following
  BY FollowingIsMonitored, FollowingStaysMonitored DEF RouteRegistered, AttachHandler
<1>6. WatchOf(r)' = k
  BY <1>1, <1>2, SecretMonitorAssumption
  DEF WatchOf, SInv, IInv, TypeOK, MInv, ManagerTypeOK, RouteRegistered, AttachHandler
<1>7. ASSUME NEW s \in Routes, s # r PROVE WatchOf(s)' = WatchOf(s)
  BY <1>1, <1>3, <1>7
  DEF WatchOf, SInv, IInv, TypeOK, MInv, ManagerTypeOK, RouteRegistered, AttachHandler
<1> QED
  BY <1>4, <1>5, <1>6, <1>7 DEF RW!Register

LEMMA RemoveIsUnregister ==
  ASSUME SInv, SInv', MInv, NEW t \in Threads, NEW r \in Routes, UnregisterRoute(t, r)
  PROVE  RW!Unregister(r)
<1>1. None \notin held /\ held' = held \ {registeredHandlers[r]}
  BY SecretMonitorAssumption
  DEF SInv, IInv, TypeOK, UnregisterRoute, RemoveSecretEventHandler
<1>2. UNCHANGED <<itemKey, reg, monitors, stopped>>
  BY DEF UnregisterRoute, RemoveSecretEventHandler
<1>3. WatchOf(r)' = None
  BY <1>1 DEF WatchOf, MInv, ManagerTypeOK, UnregisterRoute
<1>4. ASSUME NEW s \in Routes, s # r PROVE WatchOf(s)' = WatchOf(s)
  BY <1>1, <1>2, <1>4
  DEF WatchOf, MInv, ManagerTypeOK, HeldIsRegistered, UnregisterRoute
<1>5. Following' = Following
  BY <1>2, FollowingIsMonitored, FollowingStaysMonitored
<1> QED
  BY <1>3, <1>4, <1>5 DEF RW!Unregister

LEMMA StopIsForget ==
  ASSUME SInv, SInv', MInv, NEW t \in Threads, RouteUnregistered(t)
  PROVE  \E k \in Keys : RW!Forget(k)
<1>1. PICK k \in Keys : k = itemKey[mon[t]] /\ mon[t] \in Items /\ monitors[k] = mon[t]
  BY SecretMonitorAssumption
  DEF SInv, IInv, TypeOK, ThreadShape, RouteUnregistered, StopMonitor
<1>2. HeldOn(mon[t]) = {}
  BY <1>1, HeldOnFinite, FS_EmptySet
  DEF SInv, IInv, ThreadShape, CountMatchesHeld, RouteUnregistered, StopMonitor
<1>3. \A r \in Routes : WatchOf(r) # k
  BY <1>1, <1>2, SecretMonitorAssumption
  DEF WatchOf, HeldOn, SInv, IInv, HeldIsMonitored
<1>4. Following' = Following \ {k}
  <2>1. monitors' = [monitors EXCEPT ![k] = None]
    BY <1>1 DEF RouteUnregistered, StopMonitor
  <2> QED
    BY <2>1, FollowingIsMonitored, FollowingStaysMonitored DEF SInv, IInv, TypeOK
<1>5. None \notin held /\ registeredHandlers[route[t]] \notin held /\ route[t] \in Routes
  BY SecretMonitorAssumption
  DEF SInv, IInv, TypeOK, MInv, ManagerTypeOK, RouteShape, RouteUnregistered, StopMonitor
<1>6. ASSUME NEW r \in Routes PROVE WatchOf(r)' = WatchOf(r)
  BY <1>5
  DEF WatchOf, MInv, ManagerTypeOK, RouteUnregistered, StopMonitor, handlerVars
<1> QED
  BY <1>3, <1>4, <1>6 DEF RW!Forget

\* All other steps are invisible.
LEMMA OthersStutter ==
  ASSUME SInv, SInv', MInv,
         UNCHANGED <<registeredHandlers, monitors, held, reg>>,
         \A i \in Items : itemKey[i] # None => itemKey'[i] = itemKey[i]
  PROVE  UNCHANGED RW!rwVars
BY WatchUnchanged, FollowingIsMonitored, FollowingStaysMonitored DEF SInv, RW!rwVars

LEMMA RouteWatchStep ==
  ASSUME SInv, SInv', MInv, [ManagerNext]_allVars
  PROVE  [RW!Next]_RW!rwVars
<1>1. CASE UNCHANGED allVars
  BY <1>1, OthersStutter DEF allVars, vars, managerVars, itemVars, handlerVars
<1>2. CASE Environment /\ UNCHANGED managerVars
  <2>1. UNCHANGED <<monitors, held, reg, itemKey>>
    BY <1>2
    DEF Environment, Informer, StartInformer, RunInformer, InformerSync, InformerExit,
        WatcherOnCancel, WatcherOnStop, DeliverInitial, CancelContext, itemVars,
        handlerVars
  <2> QED
    BY <1>2, <2>1, OthersStutter DEF managerVars
<1>3. ASSUME NEW t \in Threads, Register(t) PROVE UNCHANGED RW!rwVars
  <2>1. UNCHANGED <<registeredHandlers, monitors, held, reg>>
    BY <1>3
    DEF Register, WithSecretHandler, RegisterRoute, RegisterRefused,
        AddSecretEventHandler, vars, handlerVars
  <2>2. \A i \in Items : itemKey[i] # None => itemKey'[i] = itemKey[i]
    BY <1>3
    DEF SInv, IInv, TypeOK, Register, WithSecretHandler, RegisterRoute, RegisterRefused,
        AddSecretEventHandler, vars, itemVars
  <2> QED
    BY <2>1, <2>2, OthersStutter
<1>4. ASSUME NEW t \in Threads,
             \/ \E r \in Routes : GetRouteSecret(t, r)
             \/ RegisterFailed(t)
             \/ GetRouteSecretReturn(t)
      PROVE  UNCHANGED RW!rwVars
  BY <1>4, OthersStutter
  DEF GetRouteSecret, GetSecret, RegisterFailed, AttachRefused, GetRouteSecretReturn,
      GetSecretReturn, managerVars, itemVars, handlerVars
<1> QED
  BY <1>1, <1>2, <1>3, <1>4, SyncIsFollow, AttachIsRegister, RemoveIsUnregister,
     StopIsForget
  DEF ManagerNext, ManagerContinue, RW!Next

\* The Manager, with its locks, counters and informers, does nothing that RouteWatch
\* does not: a secret is followed from before the first route watches it until
\* after the last one does.
THEOREM ManagerImplementsRouteWatch == ManagerSpec => ImplementsRouteWatch
<1>1. ManagerInit => RW!Init
  BY SecretMonitorAssumption
  DEF ManagerInit, Init, RW!Init, WatchOf, Following
<1>2. SInv /\ SInv' /\ MInv /\ [ManagerNext]_allVars => [RW!Next]_RW!rwVars
  BY RouteWatchStep
<1>3. ManagerSpec => []SInv
  BY ManagerIsProperClient, StopInvariance, PTL DEF UsesMonitorProperly
<1> QED
  BY <1>1, <1>2, <1>3, ManagerInvariance, PTL
  DEF ManagerSpec, ImplementsRouteWatch, RW!Spec

\* In the middle of calls too, a route whose handler is attached has its secret
\* followed, by an informer that runs or whose context was cancelled.
THEOREM ManagerRegisteredIsFollowed == ManagerSpec => []RegisteredIsFollowed
<1>1. SInv => RegisteredIsFollowed
  <2> SUFFICES ASSUME SInv, NEW r \in Routes, WatchOf(r) # None
               PROVE  WatchOf(r) \in Following
    BY DEF RegisteredIsFollowed, RW!WatchedIsFollowed
  <2>1. PICK h \in held : h = registeredHandlers[r] /\ WatchOf(r) = itemKey[reg[h]]
    BY DEF WatchOf
  <2>2. reg[h] \in Items /\ itemKey[reg[h]] \in Keys /\ monitors[itemKey[reg[h]]] = reg[h]
    BY <2>1 DEF SInv, IInv, TypeOK, RegShape, ItemShape, HeldIsMonitored
  <2> QED
    BY <2>1, <2>2, FollowingIsMonitored, SecretMonitorAssumption
<1> QED
  BY <1>1, ManagerIsProperClient, StopInvariance, PTL DEF UsesMonitorProperly

\* Without cancellation, the secrets whose informers run between calls are those of
\* the registered routes, neither more nor less.
THEOREM ManagerFollowsRegistered ==
  ASSUME Cancellable = {}
  PROVE  ManagerSpec => []FollowsRegistered
<1>1. BInv /\ OwnsRegistrations => FollowsRegistered
  <2> SUFFICES ASSUME BInv, OwnsRegistrations, CanLock
               PROVE  {k \in Keys : monitors[k] # None} = {itemKey[reg[h]] : h \in held}
    BY DEF FollowsRegistered, OwnsRegistrations
  <2>1. ASSUME NEW h \in held
        PROVE  itemKey[reg[h]] \in Keys /\ monitors[itemKey[reg[h]]] # None
    BY SecretMonitorAssumption
    DEF BInv, SInv, IInv, TypeOK, RegShape, ItemShape, HeldIsMonitored
  <2>2. ASSUME NEW k \in Keys, monitors[k] # None
        PROVE  \E h \in held : itemKey[reg[h]] = k
    <3>1. monitors[k] \in Items /\ itemKey[monitors[k]] = k
      BY <2>2 DEF BInv, SInv, IInv, TypeOK, MapShape
    <3>2. Cardinality(HeldOn(monitors[k])) > 0
      BY <2>2, <3>1 DEF BInv, SInv, IInv, MonitoredIsUsed, CountMatchesHeld, CanLock
    <3>3. HeldOn(monitors[k]) # {}
      BY <3>2, FS_EmptySet
    <3> QED
      BY <3>1, <3>3 DEF HeldOn
  <2> QED
    BY <2>1, <2>2
<1> QED
  BY <1>1, ManagerIsProperClient, BackgroundInvariance, ManagerOwnsRegistrations, PTL
  DEF UsesMonitorProperly

\* What secretMonitor guarantees when no context is cancelled it guarantees to the
\* Manager, which locks its own maps around the calls: nobody waits for a goroutine that
\* has gone, GetSecret reads the store of a live informer, no route's UnregisterRoute
\* stops the informer of another, and no RegisterRoute is refused by a stopped item.
THEOREM ManagerCallsAreSound ==
  ASSUME Cancellable = {}
  PROVE  ManagerSpec => /\ [](WaitsAreAnswered /\ GetReadsLive)
                        /\ StopsOnlyUnused
                        /\ AddAttaches
BY ManagerIsProperClient, NoOneWaitsInVain, ReadsAreLive, StopsAreSafe, AddsSucceed, PTL
DEF UsesMonitorProperly

-----------------------------------------------------------------------------
(* One worker.                                                                *)

\* The handler that is set is that of the route in work, until it is taken.
HandlerShape ==
  \A t \in Threads :
    /\ pc[t] = "idle" /\ route[t] # None => secretHandler = route[t]
    /\ pc[t] = "get" => route[t] = None
    /\ pc[t] \in {"waitSync", "attach"} => handler[t] = route[t]

HInv == HandlerShape /\ HandlerIsOfRoute

LEMMA HInvInit == ManagerInit => HInv
BY DEF ManagerInit, Init, HInv, HandlerShape, HandlerIsOfRoute

LEMMA HInvStep ==
  ASSUME \A t, u \in Threads : t = u,
         IInv, MInv, HInv, [ManagerNext]_allVars
  PROVE  HInv'
<1>1. CASE UNCHANGED allVars
  BY <1>1
  DEF HInv, HandlerShape, HandlerIsOfRoute, allVars, managerVars, vars, threadVars
<1>2. CASE Environment /\ UNCHANGED managerVars
  <2>1. pc' = pc
    BY <1>2
    DEF Environment, Informer, StartInformer, RunInformer, InformerSync, InformerExit,
        WatcherOnCancel, WatcherOnStop, DeliverInitial, CancelContext, threadVars
  <2> QED
    BY <1>2, <2>1 DEF HInv, HandlerShape, HandlerIsOfRoute, managerVars
<1>3. ASSUME NEW t \in Threads, NEW r \in Routes, WithSecretHandler(t, r)
      PROVE  HInv'
  BY <1>3
  DEF MInv, ManagerTypeOK, RouteShape, HInv, HandlerShape, HandlerIsOfRoute,
      WithSecretHandler, vars, threadVars
<1>4. ASSUME NEW t \in Threads, NEW k \in Keys, NEW c \in Contexts,
             RegisterRoute(t, k, c)
      PROVE  HInv'
  BY <1>4
  DEF IInv, TypeOK, MInv, ManagerTypeOK, HInv, HandlerShape, HandlerIsOfRoute,
      RegisterRoute, AddSecretEventHandler, CanLock
<1>5. ASSUME NEW t \in Threads, RegisterRefused(t) \/ RegisterFailed(t)
      PROVE  HInv'
  <2>1. pc'[t] = "idle" /\ route'[t] = None
    BY <1>5
    DEF IInv, TypeOK, MInv, ManagerTypeOK, RegisterRefused, RegisterFailed,
        AttachRefused, Return, Done, CanLock, vars, threadVars
  <2>2. HandlerShape'
    BY <2>1 DEF HandlerShape
  <2>3. HandlerIsOfRoute'
    BY <1>5 DEF HInv, HandlerIsOfRoute, RegisterRefused, RegisterFailed
  <2> QED
    BY <2>2, <2>3 DEF HInv
<1>6. ASSUME NEW t \in Threads, NEW h \in Handles, RouteRegistered(t, h)
      PROVE  HInv'
  <2>1. /\ route[t] \in Routes
        /\ handler[t] = route[t]
        /\ \A s \in Routes : registeredHandlers[s] # h
    BY <1>6, SecretMonitorAssumption
    DEF MInv, ManagerTypeOK, RouteShape, RegisteredIsIssued, HInv, HandlerShape,
        RouteRegistered, AttachHandler
  <2>2. HandlerIsOfRoute'
    BY <1>6, <2>1 DEF MInv, ManagerTypeOK, HInv, HandlerIsOfRoute, RouteRegistered
  <2>3. HandlerShape'
    BY <1>6
    DEF IInv, TypeOK, MInv, ManagerTypeOK, HandlerShape, RouteRegistered, AttachHandler,
        Return, Done
  <2> QED
    BY <2>2, <2>3 DEF HInv
<1>7. ASSUME NEW t \in Threads, NEW r \in Routes, UnregisterRoute(t, r)
      PROVE  HInv'
  <2>1. HandlerIsOfRoute'
    BY <1>7, ManagerAssumption
    DEF MInv, ManagerTypeOK, HInv, HandlerIsOfRoute, UnregisterRoute
  <2>2. \/ pc'[t] = "idle" /\ route'[t] = None
        \/ pc'[t] = "stop"
    <3>1. registeredHandlers[r] \in held
      BY <1>7 DEF MInv, RegisteredIsHeld, UnregisterRoute, RemoveSecretEventHandler, CanLock
    <3>2. /\ \A u \in Threads : pc[u] = "idle"
          /\ pc' = [pc EXCEPT ![t] = "stop"] \/ pc' = pc
      BY <1>7, <3>1, RemoveEffect DEF UnregisterRoute
    <3> QED
      BY <1>7, <3>2 DEF IInv, TypeOK, UnregisterRoute
  <2> QED
    BY <2>1, <2>2 DEF HInv, HandlerShape
<1>8. ASSUME NEW t \in Threads, RouteUnregistered(t)
      PROVE  HInv'
  BY <1>8
  DEF IInv, TypeOK, MInv, ManagerTypeOK, HInv, HandlerShape, HandlerIsOfRoute,
      RouteUnregistered, StopMonitor, Return, Done
<1>9. ASSUME NEW t \in Threads,
             \/ \E r \in Routes : GetRouteSecret(t, r)
             \/ RouteSynced(t)
             \/ GetRouteSecretReturn(t)
      PROVE  HInv'
  <2>1. UNCHANGED managerVars
    BY <1>9 DEF GetRouteSecret, RouteSynced, GetRouteSecretReturn
  <2>2. HandlerIsOfRoute'
    BY <1>9, <2>1
    DEF HInv, HandlerIsOfRoute, managerVars
  <2>3. HandlerShape'
    BY <1>9, <2>1
    DEF IInv, TypeOK, MInv, ManagerTypeOK, HInv, HandlerShape, GetRouteSecret, GetSecret,
        RouteSynced, AwaitSync, GetRouteSecretReturn, GetSecretReturn, Return, managerVars
  <2> QED
    BY <2>2, <2>3 DEF HInv
<1> QED
  BY <1>1, <1>2, <1>3, <1>4, <1>5, <1>6, <1>7, <1>8, <1>9
  DEF ManagerNext, Register, ManagerContinue

\* With one worker, the events of a secret reach the route that was registered for
\* it, although WithSecretHandler and RegisterRoute are two calls.
THEOREM ManagerHandlerIsOfRoute ==
  ASSUME \A t, u \in Threads : t = u
  PROVE  ManagerSpec => []HandlerIsOfRoute
<1>1. IInv /\ MInv /\ HInv /\ [ManagerNext]_allVars => HInv'
  BY HInvStep
<1>2. HInv => HandlerIsOfRoute
  BY DEF HInv
<1> QED
  BY <1>1, <1>2, HInvInit, ManagerInvariance, PTL DEF ManagerSpec

=============================================================================
