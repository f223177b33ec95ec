--------------------------- MODULE RootControllerProofs ---------------------------
(******************************************************************************)
(* Theorems about MonitorV3 and about RootController, which extends it, for   *)
(* any routes, secrets and bounds.                                            *)
(*                                                                            *)
(* That the handlers use the Manager properly and that the Manager has what   *)
(* they registered are proved together: what is proved of MonitorV3 needs the *)
(* first, and the first needs the second.                                     *)
(******************************************************************************)
EXTENDS RootController, TLAPS

RIP == INSTANCE RouteInformerProofs WITH Objects <- Specs

-----------------------------------------------------------------------------
(* MonitorV3.                                                                 *)

\* The item in the map under a key was made for it, and is there for a
\* registration.
MapShape ==
  \A p \in Pairs :
    monitors[p] # None =>
      /\ itemKey[monitors[p]] = p
      /\ registeredHandlers[p] # None

\* The registration of a key was issued by the item in the map, which counts it and
\* was not stopped.
RegShape ==
  \A p \in Pairs :
    registeredHandlers[p] # None =>
      /\ monitors[p] # None
      /\ reg[registeredHandlers[p]] = monitors[p]
      /\ ~stopped[monitors[p]]
      /\ numHandlers[monitors[p]] = 1
      /\ registeredHandlers[p] \in listening

\* An item counts nothing before it is created; from then until it is stopped it is
\* in the map.
ItemShape ==
  /\ \A i \in Items :
       /\ itemKey[i] = None => ~stopped[i] /\ numHandlers[i] = 0
       /\ itemKey[i] # None /\ ~stopped[i] => monitors[itemKey[i]] = i
  /\ \A h \in Handles : reg[h] # None => itemKey[reg[h]] # None

\* Of the handlers of an item that was not stopped, only that of its key listens.
ListenShape ==
  \A h \in listening :
    /\ reg[h] # None
    /\ ~stopped[reg[h]] => h = registeredHandlers[itemKey[reg[h]]]

IInv == TypeOK /\ MapShape /\ RegShape /\ ItemShape /\ ListenShape

USE MonitorV3Assumption, RootControllerAssumption

LEMMA InitEstablishes == Init => IInv
BY DEF Init, IInv, TypeOK, MapShape, RegShape, ItemShape, ListenShape

-----------------------------------------------------------------------------

\* A key that is not registered gets a new item.
LEMMA RegisterKeeps ==
  ASSUME IInv, NEW p \in Pairs, registeredHandlers[p] = None, RegisterRoute(p)
  PROVE  IInv'
<1> DEFINE h == Fresh(Handles, reg)
           i == Fresh(Items, itemKey)
<1>1. monitors[p] = None
  BY DEF IInv, MapShape
<1>2. h \in Handles /\ reg[h] = None
  BY DEF RegisterRoute, Fresh
<1>3. i \in Items /\ itemKey[i] = None
  BY <1>1 DEF RegisterRoute, Fresh
<1>4. /\ monitors' = [monitors EXCEPT ![p] = i]
      /\ itemKey' = [itemKey EXCEPT ![i] = p]
      /\ runner' = [runner EXCEPT ![i] = "spawned"]
      /\ reg' = [reg EXCEPT ![h] = i]
      /\ listening' = listening \cup {h}
      /\ numHandlers' = [numHandlers EXCEPT ![i] = @ + 1]
      /\ registeredHandlers' = [registeredHandlers EXCEPT ![p] = h]
      /\ UNCHANGED <<stopped, reading>>
  BY <1>1 DEF RegisterRoute, AddEventHandler
<1> HIDE DEF h, i
<1>5. TypeOK'
  BY <1>2, <1>3, <1>4 DEF IInv, TypeOK
<1>6. MapShape'
  BY <1>2, <1>3, <1>4 DEF IInv, TypeOK, MapShape
<1>7. RegShape'
  BY <1>2, <1>3, <1>4 DEF IInv, TypeOK, MapShape, RegShape, ItemShape
<1>8. ItemShape'
  BY <1>2, <1>3, <1>4 DEF IInv, TypeOK, MapShape, ItemShape
<1>9. ListenShape'
  BY <1>2, <1>3, <1>4 DEF IInv, TypeOK, ItemShape, ListenShape
<1> QED
  BY <1>5, <1>6, <1>7, <1>8, <1>9 DEF IInv

\* The only handler goes, and the item with it.
LEMMA UnregisterKeeps ==
  ASSUME IInv, NEW p \in Pairs, UnregisterRoute(p)
  PROVE  IInv'
<1> DEFINE h == registeredHandlers[p]
           i == monitors[p]
<1>1. /\ h \in Handles /\ registeredHandlers[p] = h
      /\ i \in Items /\ monitors[p] = i
      /\ reg[h] = i /\ itemKey[i] = p /\ numHandlers[i] = 1
  BY DEF UnregisterRoute, IInv, TypeOK, MapShape, RegShape
<1>2. /\ monitors' = [monitors EXCEPT ![p] = None]
      /\ stopped' = [stopped EXCEPT ![i] = TRUE]
      /\ numHandlers' = [numHandlers EXCEPT ![i] = 0]
      /\ listening' = listening \ {h}
      /\ registeredHandlers' = [registeredHandlers EXCEPT ![p] = None]
      /\ UNCHANGED <<itemKey, runner, reg, reading>>
  BY <1>1 DEF UnregisterRoute, StopAndForget, HandlersOf
<1> HIDE DEF h, i
<1>3. TypeOK'
  BY <1>1, <1>2 DEF IInv, TypeOK
<1>4. MapShape'
  BY <1>1, <1>2 DEF IInv, TypeOK, MapShape
<1>5. RegShape'
  BY <1>1, <1>2 DEF IInv, TypeOK, MapShape, RegShape
<1>6. ItemShape'
  BY <1>1, <1>2 DEF IInv, TypeOK, ItemShape
<1>7. ListenShape'
  BY <1>1, <1>2 DEF IInv, TypeOK, MapShape, ItemShape, ListenShape
<1> QED
  BY <1>3, <1>4, <1>5, <1>6, <1>7 DEF IInv

\* An informer that exits was stopped: no registered handler is its.
LEMMA InformerKeeps ==
  ASSUME IInv, NEW i \in Items, Informer(i)
  PROVE  IInv'
<1>1. CASE RunInformer(i)
  BY <1>1 DEF RunInformer, IInv, TypeOK, MapShape, RegShape, ItemShape, ListenShape
<1>2. CASE InformerExit(i)
  <2> USE <1>2 DEF InformerExit
  <2>1. TypeOK'
    BY DEF IInv, TypeOK
  <2>2. RegShape'
    BY DEF IInv, TypeOK, RegShape, HandlersOf
  <2>3. MapShape' /\ ItemShape' /\ ListenShape'
    BY DEF IInv, TypeOK, MapShape, ItemShape, ListenShape
  <2> QED
    BY <2>1, <2>2, <2>3 DEF IInv
<1> QED
  BY <1>1, <1>2 DEF Informer

LEMMA ReadKeeps ==
  ASSUME IInv,
         (\E p \in Pairs : GetSecret(p)) \/ GetSecretReturn \/ UNCHANGED v3Vars
  PROVE  IInv'
BY DEF GetSecret, GetSecretReturn, v3Vars, itemVars,
       IInv, TypeOK, MapShape, RegShape, ItemShape, ListenShape

LEMMA IInvStep == IInv /\ [Next]_v3Vars => IInv'
BY RegisterKeeps, UnregisterKeeps, InformerKeeps, ReadKeeps DEF Next

LEMMA IInvAlways == Spec => []IInv
BY InitEstablishes, IInvStep, PTL DEF Spec

-----------------------------------------------------------------------------

\* Every variable of monitorv3 keeps its type.  In particular a count is never
\* negative, whatever is unregistered.
THEOREM V3TypeCorrect == Spec => []TypeOK
<1>1. IInv => TypeOK
  BY DEF IInv
<1> QED
  BY IInvAlways, <1>1, PTL

LEMMA IInvOwnInformer == IInv => OwnInformer
<1> SUFFICES ASSUME IInv
             PROVE  OwnInformer
  OBVIOUS
<1>1. ASSUME NEW p \in Pairs, registeredHandlers[p] # None
      PROVE  LET i == reg[registeredHandlers[p]]
             IN /\ monitors[p] = i
                /\ ~stopped[i] /\ numHandlers[i] = 1
                /\ HandlersOf(i) \cap listening = {registeredHandlers[p]}
  <2> DEFINE i == reg[registeredHandlers[p]]
  <2>1. registeredHandlers[p] \in Handles
    BY <1>1 DEF IInv, TypeOK
  <2>2. /\ monitors[p] = i /\ ~stopped[i] /\ numHandlers[i] = 1
        /\ registeredHandlers[p] \in HandlersOf(i) \cap listening
    BY <1>1, <2>1 DEF IInv, RegShape, HandlersOf
  <2>3. itemKey[i] = p
    BY <1>1, <2>2 DEF IInv, MapShape, RegShape
  <2>4. ASSUME NEW h \in HandlersOf(i) \cap listening
        PROVE  h = registeredHandlers[p]
    BY <2>2, <2>3 DEF IInv, ListenShape, HandlersOf
  <2> QED
    BY <2>2, <2>4
<1>2. ASSUME NEW i \in Items, itemKey[i] # None, ~stopped[i]
      PROVE  /\ monitors[itemKey[i]] = i
             /\ registeredHandlers[itemKey[i]] # None
  BY <1>2 DEF IInv, TypeOK, MapShape, ItemShape
<1> QED
  BY <1>1, <1>2 DEF OwnInformer

\* monitorv3 keeps one informer for each registered pair of a route and a secret, and
\* no other.  This is for callers that do not register a pair that is registered:
\* RegisterRoute would overwrite the registration.
THEOREM RegisteredHaveOwnInformer == Spec => []OwnInformer
BY IInvAlways, IInvOwnInformer, PTL

-----------------------------------------------------------------------------
(* RootController.                                                            *)

\* The informer knows route p[1], whose last Spec names secret p[2].
Follows(p) == known[p[1]] # None /\ SecretOf[known[p[1]]] = p[2]

\* A handler in the middle of an update works for the route it has just been given.
HandlerShape ==
  /\ known \in [Routes -> Specs \cup {None}]
  /\ phase \in {"idle", "register", "get"}
  /\ phase # "idle" => new \in Pairs
  /\ phase = "register" => Follows(new)
  /\ reading # None => phase = "get"

\* What is registered is what the informer knows, except for a route that is about
\* to be registered again.
RegisteredShape ==
  ~crashed =>
    \A p \in Pairs :
      registeredHandlers[p] # None <=> Follows(p) /\ ~(phase = "register" /\ p = new)

RInv == IInv /\ HandlerShape /\ RegisteredShape /\ RIP!IInv

-----------------------------------------------------------------------------

LEMMA KeyIsPair ==
  ASSUME NEW r \in Routes, NEW s \in Specs
  PROVE  /\ KeyOf(r, s) \in Pairs
         /\ KeyOf(r, s)[1] = r /\ KeyOf(r, s)[2] = SecretOf[s]
BY DEF KeyOf, Pairs

LEMMA RInitEstablishes == RootInit => RInv
<1> SUFFICES ASSUME RootInit
             PROVE  RInv
  OBVIOUS
<1>1. IInv
  BY InitEstablishes DEF RootInit
<1>2. HandlerShape /\ RegisteredShape
  BY DEF RootInit, Init, RI!Init, HandlerShape, RegisteredShape, Follows, Pairs
<1>3. RIP!IInv
  BY RIP!IInvInit DEF RootInit, RI!Init, RIP!Init
<1> QED
  BY <1>1, <1>2, <1>3 DEF RInv

-----------------------------------------------------------------------------

\* What RegisterRoute and UnregisterRoute do to the registrations.
LEMMA RegisterEffect ==
  ASSUME IInv, NEW p \in Pairs, registeredHandlers[p] = None, RegisterRoute(p)
  PROVE  /\ Next
         /\ \A q \in Pairs : registeredHandlers'[q] # None
                               <=> registeredHandlers[q] # None \/ q = p
         /\ reading' = reading
<1>1. Next
  BY DEF Next
<1>2. Fresh(Handles, reg) \in Handles
  BY DEF RegisterRoute, Fresh
<1>3. registeredHandlers' = [registeredHandlers EXCEPT ![p] = Fresh(Handles, reg)]
      /\ reading' = reading
  BY DEF RegisterRoute
<1> QED
  BY <1>1, <1>2, <1>3 DEF IInv, TypeOK

LEMMA UnregisterEffect ==
  ASSUME IInv, NEW p \in Pairs, Unregister(p)
  PROVE  /\ [Next]_v3Vars
         /\ \A q \in Pairs : registeredHandlers'[q] # None
                               <=> registeredHandlers[q] # None /\ q # p
         /\ reading' = reading
<1>1. CASE registeredHandlers[p] # None
  <2>1. UnregisterRoute(p)
    BY <1>1 DEF Unregister
  <2>2. Next
    BY <2>1 DEF Next
  <2>3. registeredHandlers' = [registeredHandlers EXCEPT ![p] = None]
        /\ reading' = reading
    BY <2>1 DEF UnregisterRoute
  <2> QED
    BY <2>2, <2>3 DEF IInv, TypeOK
<1>2. CASE registeredHandlers[p] = None
  BY <1>2 DEF Unregister, v3Vars, itemVars
<1> QED
  BY <1>1, <1>2

-----------------------------------------------------------------------------
(* A step of each handler is one of MonitorV3's, and keeps the rest of RInv.  *)

\* A route that the informer did not know was not registered.
LEMMA AddKeeps ==
  ASSUME RInv, ~crashed, NEW r \in Routes, AddFunc(r)
  PROVE  [Next]_v3Vars /\ HandlerShape' /\ RegisteredShape'
<1>1. PICK s \in Specs : RI!Added(r, s) /\ RegisterRoute(KeyOf(r, s))
  BY DEF AddFunc
<1> DEFINE p == KeyOf(r, s)
<1>2. /\ p \in Pairs /\ p[1] = r /\ p[2] = SecretOf[s]
      /\ s # None
  BY KeyIsPair
<1>3. known[r] = None /\ known' = [known EXCEPT ![r] = s]
  BY <1>1 DEF RI!Added
<1>4. phase = "idle" /\ UNCHANGED <<phase, new, crashed>>
  BY DEF AddFunc
<1>5. registeredHandlers[p] = None
  BY <1>2, <1>3 DEF RInv, RegisteredShape, Follows
<1> HIDE DEF p
<1>6. /\ Next
      /\ \A q \in Pairs : registeredHandlers'[q] # None
                            <=> registeredHandlers[q] # None \/ q = p
      /\ reading' = reading
  BY <1>1, <1>2, <1>5, RegisterEffect DEF RInv, p
<1>7. \A q \in Pairs : Follows(q)' <=> Follows(q) \/ q = p
  BY <1>2, <1>3 DEF Follows, Pairs, RInv, HandlerShape
<1>8. HandlerShape'
  BY <1>3, <1>4, <1>6 DEF RInv, HandlerShape
<1>9. RegisteredShape'
  BY <1>4, <1>6, <1>7 DEF RInv, RegisteredShape
<1> QED
  BY <1>6, <1>8, <1>9

\* The registration of the old Spec goes, that of the new one is due.  If the Spec
\* is the same nothing changes.
LEMMA UpdateKeeps ==
  ASSUME RInv, ~crashed, NEW r \in Routes, UpdateFunc(r)
  PROVE  [Next]_v3Vars /\ HandlerShape' /\ RegisteredShape'
<1>1. PICK s \in Specs :
        /\ RI!Updated(r, s)
        /\ new' = KeyOf(r, s)
        /\ \/ s # known[r] /\ UnregisterOld(r, s) /\ phase' = "register"
           \/ s = known[r] /\ phase' = "get" /\ UNCHANGED v3Vars
  BY DEF UpdateFunc
<1> DEFINE p == KeyOf(r, s)
           old == KeyOf(r, known[r])
<1>2. /\ known[r] \in Specs /\ known' = [known EXCEPT ![r] = s]
      /\ s # None
  BY <1>1 DEF RI!Updated, RInv, HandlerShape
<1>3. /\ p \in Pairs /\ p[1] = r /\ p[2] = SecretOf[s]
      /\ old \in Pairs /\ old[1] = r /\ old[2] = SecretOf[known[r]]
  BY <1>2, KeyIsPair
<1>4. phase = "idle" /\ UNCHANGED crashed /\ reading = None
  BY DEF UpdateFunc, RInv, HandlerShape
<1>5. new' = p
  BY <1>1
<1>6. Follows(old)
  BY <1>2, <1>3 DEF Follows
<1>7. CASE s # known[r] /\ UnregisterOld(r, s) /\ phase' = "register"
  <2>1. Unregister(old)
    BY <1>7 DEF UnregisterOld
  <2> HIDE DEF p, old
  <2>2. /\ [Next]_v3Vars
        /\ \A q \in Pairs : registeredHandlers'[q] # None
                              <=> registeredHandlers[q] # None /\ q # old
        /\ reading' = reading
    BY <1>3, <2>1, UnregisterEffect DEF RInv
  <2>3. \A q \in Pairs : Follows(q)' <=> (Follows(q) /\ q # old) \/ q = p
    BY <1>2, <1>3 DEF Follows, Pairs, RInv, HandlerShape
  <2>4. Follows(p)'
    BY <1>3, <2>3
  <2>5. HandlerShape'
    BY <1>2, <1>3, <1>4, <1>5, <1>7, <2>2, <2>4 DEF RInv, HandlerShape, Follows
  <2>6. \A q \in Pairs : q = p => Follows(q) \/ q # old
    BY <1>6
  <2>7. \A q \in Pairs : q = p /\ Follows(q) => q = old
    BY <1>2, <1>3 DEF Follows, Pairs
  <2>8. RegisteredShape'
    BY <1>4, <1>5, <1>7, <2>2, <2>3, <2>7 DEF RInv, RegisteredShape
  <2> QED
    BY <2>2, <2>5, <2>8
<1>8. CASE s = known[r] /\ phase' = "get" /\ UNCHANGED v3Vars
  <2>1. known' = known /\ UNCHANGED <<registeredHandlers, reading>>
    BY <1>2, <1>8 DEF v3Vars, RInv, HandlerShape
  <2>2. HandlerShape'
    BY <1>3, <1>4, <1>5, <1>8, <2>1 DEF RInv, HandlerShape
  <2>3. RegisteredShape'
    BY <1>4, <1>8, <2>1 DEF RInv, RegisteredShape, Follows
  <2> QED
    BY <1>8, <2>2, <2>3
<1> QED
  BY <1>1, <1>7, <1>8

LEMMA RegisterNewKeeps ==
  ASSUME RInv, ~crashed, RegisterNew
  PROVE  [Next]_v3Vars /\ HandlerShape' /\ RegisteredShape'
<1>1. /\ phase = "register" /\ phase' = "get"
      /\ RegisterRoute(new)
      /\ UNCHANGED <<known, new, crashed>>
  BY DEF RegisterNew, informerVars
<1>2. new \in Pairs /\ Follows(new)
  BY <1>1 DEF RInv, HandlerShape
<1>3. registeredHandlers[new] = None
  BY <1>1, <1>2 DEF RInv, RegisteredShape
<1>4. /\ Next
      /\ \A q \in Pairs : registeredHandlers'[q] # None
                            <=> registeredHandlers[q] # None \/ q = new
      /\ reading' = reading
  BY <1>1, <1>2, <1>3, RegisterEffect DEF RInv
<1>5. \A q \in Pairs : Follows(q)' <=> Follows(q)
  BY <1>1 DEF Follows
<1>6. HandlerShape'
  BY <1>1, <1>2, <1>4 DEF RInv, HandlerShape
<1>7. RegisteredShape'
  BY <1>1, <1>2, <1>4, <1>5 DEF RInv, RegisteredShape
<1> QED
  BY <1>4, <1>6, <1>7

\* GetSecret changes no registration.
LEMMA GetKeeps ==
  ASSUME RInv, ~crashed, ReadNew \/ UpdateDone
  PROVE  [Next]_v3Vars /\ HandlerShape' /\ RegisteredShape'
<1>1. UNCHANGED <<known, registeredHandlers, crashed>>
  BY DEF ReadNew, UpdateDone, GetSecret, GetSecretReturn, informerVars
<1>2. phase = "get"
  BY DEF ReadNew, UpdateDone, GetSecretReturn, RInv, HandlerShape
<1>3. new \in Pairs
  BY <1>2 DEF RInv, HandlerShape
<1>4. Next
  BY <1>3 DEF ReadNew, UpdateDone, Next
<1>5. HandlerShape'
  BY <1>1, <1>2, <1>3
  DEF ReadNew, UpdateDone, GetSecret, GetSecretReturn, RInv, HandlerShape
<1>6. RegisteredShape'
  BY <1>1, <1>2 DEF ReadNew, UpdateDone, RInv, RegisteredShape, Follows
<1> QED
  BY <1>4, <1>5, <1>6

\* The registration of a route that goes does too, unless the process does.
LEMMA DeleteKeeps ==
  ASSUME RInv, ~crashed, NEW r \in Routes, DeleteFunc(r)
  PROVE  [Next]_v3Vars /\ HandlerShape' /\ RegisteredShape'
<1>1. phase = "idle" /\ UNCHANGED <<phase, new>> /\ reading = None
  BY DEF DeleteFunc, RInv, HandlerShape
<1>2. known' = [known EXCEPT ![r] = None]
  BY DEF DeleteFunc, RI!Removed
<1>3. known' \in [Routes -> Specs \cup {None}]
  BY <1>2 DEF RInv, HandlerShape
<1>4. CASE /\ RI!Removed(r, RI!Deleted)
           /\ Unregister(KeyOf(r, known[r]))
           /\ UNCHANGED crashed
  <2>1. CASE known[r] # None
    <3> DEFINE p == KeyOf(r, known[r])
    <3>1. p \in Pairs /\ p[1] = r /\ p[2] = SecretOf[known[r]]
      BY <2>1, KeyIsPair DEF RInv, HandlerShape
    <3>2. Unregister(p)
      BY <1>4
    <3> HIDE DEF p
    <3>3. /\ [Next]_v3Vars
          /\ \A q \in Pairs : registeredHandlers'[q] # None
                                <=> registeredHandlers[q] # None /\ q # p
          /\ reading' = reading
      BY <3>1, <3>2, UnregisterEffect DEF RInv
    <3>4. \A q \in Pairs : Follows(q)' <=> Follows(q) /\ q # p
      BY <1>2, <2>1, <3>1 DEF Follows, Pairs, RInv, HandlerShape
    <3>5. HandlerShape'
      BY <1>1, <1>3, <3>3 DEF RInv, HandlerShape
    <3>6. RegisteredShape'
      BY <1>1, <1>4, <3>3, <3>4 DEF RInv, RegisteredShape
    <3> QED
      BY <3>3, <3>5, <3>6
  <2>2. known[r] # None
    BY <1>4, RIP!HeadOfKnown
    DEF RInv, RIP!DeletedIsKnown, RI!Removed, RI!Deleted
  <2> QED
    BY <2>1, <2>2
<1>5. CASE /\ RI!Removed(r, RI!Tombstone)
           /\ crashed' = TRUE
           /\ UNCHANGED v3Vars
  <2>1. HandlerShape'
    BY <1>1, <1>3, <1>5 DEF v3Vars, RInv, HandlerShape
  <2> QED
    BY <1>5, <2>1 DEF RegisteredShape
<1> QED
  BY <1>4, <1>5 DEF DeleteFunc

\* The rest changes nothing that a handler has done.
LEMMA OthersKeep ==
  ASSUME RInv, ~crashed,
         \/ ChangeRoutes \/ ListRoutes \/ SkipItem
         \/ \E i \in Items : SecretHandler(i) \/ MissSecretDelete(i) \/ InformerSteps(i)
  PROVE  [Next]_v3Vars /\ HandlerShape' /\ RegisteredShape'
<1>1. UNCHANGED <<known, phase, new, registeredHandlers, reading>>
  BY DEF ChangeRoutes, ListRoutes, RI!ApiServer, RI!ChangeRoute, RI!BreakWatch, RI!List,
         SkipItem, SecretHandler, MissSecretDelete, InformerSteps, Informer, RunInformer,
         InformerExit, informerVars, v3Vars
<1>2. [Next]_v3Vars
  BY DEF ChangeRoutes, ListRoutes, SkipItem, SecretHandler, MissSecretDelete,
         InformerSteps, Next
<1>3. HandlerShape'
  BY <1>1 DEF RInv, HandlerShape, Follows
<1>4. RegisteredShape'
  BY <1>1 DEF RInv, RegisteredShape, Follows
<1> QED
  BY <1>2, <1>3, <1>4

-----------------------------------------------------------------------------

LEMMA SamePush ==
  ASSUME NEW ds, NEW d
  PROVE  RI!Push(ds, d) = RIP!Push(ds, d)
BY DEF RI!Push, RIP!Push, RI!Last, RIP!Last

\* To the informer each step of the program is one of its own or none.
LEMMA StepIsInformers ==
  ASSUME [RootNext]_vars
  PROVE  [RIP!Next]_<<api, watching, deltas, known>>
<1>1. CASE ChangeRoutes
  <2>1. ASSUME NEW r \in Routes, NEW o \in Specs \cup {None}, RI!ChangeRoute(r, o)
        PROVE  RIP!ChangeRoute(r, o)
    BY <2>1, SamePush
    DEF RI!ChangeRoute, RI!Deleted, RI!Set, RIP!ChangeRoute, RIP!Deleted, RIP!Set
  <2>2. RI!BreakWatch => RIP!BreakWatch
    BY DEF RI!BreakWatch, RIP!BreakWatch
  <2> QED
    BY <1>1, <2>1, <2>2 DEF ChangeRoutes, RI!ApiServer, RIP!Next, RIP!ApiServer
<1>2. CASE ListRoutes
  <2>1. \A r \in Routes : RI!Replace(r) = RIP!Replace(r)
    BY SamePush DEF RI!Replace, RI!Tombstone, RI!Set, RIP!Replace, RIP!Tombstone, RIP!Set
  <2> QED
    BY <1>2, <2>1 DEF ListRoutes, RI!List, RIP!Next, RIP!List
<1>3. ASSUME NEW r \in Routes, AddFunc(r) \/ UpdateFunc(r)
      PROVE  RIP!Next
  BY <1>3
  DEF AddFunc, UpdateFunc, RI!Added, RI!Updated, RI!Pop, RI!Set, RIP!Next, RIP!Added,
      RIP!Updated, RIP!Pop, RIP!Set
<1>4. ASSUME NEW r \in Routes, DeleteFunc(r)
      PROVE  RIP!Next
  BY <1>4
  DEF DeleteFunc, RI!Removed, RI!Pop, RI!Deleted, RI!Tombstone, RIP!Next, RIP!Removed,
      RIP!Pop, RIP!Deleted, RIP!Tombstone
<1>5. ASSUME \/ UpdateSteps \/ SkipItem
             \/ \E i \in Items : SecretHandler(i) \/ MissSecretDelete(i) \/ InformerSteps(i)
      PROVE  UNCHANGED <<api, watching, deltas, known>>
  BY <1>5 DEF UpdateSteps, RegisterNew, ReadNew, UpdateDone, SkipItem, SecretHandler,
              MissSecretDelete, InformerSteps, informerVars
<1>6. CASE UNCHANGED vars
  BY <1>6 DEF vars, informerVars
<1> QED
  BY <1>1, <1>2, <1>3, <1>4, <1>5, <1>6 DEF RootNext, RouteHandlers

LEMMA InformerKept ==
  ASSUME RInv, [RootNext]_vars
  PROVE  RIP!IInv'
BY StepIsInformers, RIP!IInvStep DEF RInv

LEMMA RInvStep == RInv /\ [RootNext]_vars => [Next]_v3Vars /\ RInv'
<1> SUFFICES ASSUME RInv, [RootNext]_vars
             PROVE  [Next]_v3Vars /\ RInv'
  OBVIOUS
<1>1. CASE RootNext
  <2>1. [Next]_v3Vars /\ HandlerShape' /\ RegisteredShape'
    BY <1>1, AddKeeps, UpdateKeeps, RegisterNewKeeps, GetKeeps, DeleteKeeps, OthersKeep
    DEF RootNext, RouteHandlers, UpdateSteps
  <2>2. RIP!IInv'
    BY <1>1, InformerKept
  <2>3. IInv'
    BY <2>1, IInvStep DEF RInv
  <2> QED
    BY <2>1, <2>2, <2>3 DEF RInv
<1>2. CASE UNCHANGED vars
  <2>1. /\ UNCHANGED v3Vars
        /\ UNCHANGED <<registeredHandlers, reading, phase, new, crashed>>
        /\ UNCHANGED <<known, api, watching, deltas>>
    BY <1>2 DEF vars, v3Vars, informerVars
  <2>2. IInv'
    BY <2>1, IInvStep DEF RInv
  <2>3. HandlerShape' /\ RegisteredShape'
    BY <2>1 DEF RInv, HandlerShape, RegisteredShape, Follows
  <2>4. RIP!IInv'
    BY <1>2, InformerKept
  <2> QED
    BY <2>1, <2>2, <2>3, <2>4 DEF RInv
<1> QED
  BY <1>1, <1>2

LEMMA RInvAlways == RootSpec => []RInv
BY RInitEstablishes, RInvStep, PTL DEF RootSpec

\* The types of what the invariant does not speak of.
RestTyped ==
  /\ changes \in 0..MaxChanges
  /\ breaks \in 0..MaxBreaks
  /\ new \in Pairs \cup {None}
  /\ queued \in BOOLEAN
  /\ crashed \in BOOLEAN

LEMMA RestTypedStep == RInv /\ RestTyped /\ [RootNext]_vars => RestTyped'
<1> SUFFICES ASSUME RInv, RestTyped, [RootNext]_vars
             PROVE  RestTyped'
  OBVIOUS
<1> USE DEF RestTyped
<1>1. ASSUME NEW r \in Routes, RI!ChangeRoute(r, None) \/ \E o \in Specs : RI!ChangeRoute(r, o)
      PROVE  changes' \in 0..MaxChanges /\ breaks' = breaks
  BY <1>1 DEF RI!ChangeRoute
<1>2. ASSUME RI!BreakWatch
      PROVE  breaks' \in 0..MaxBreaks /\ changes' = changes
  BY <1>2 DEF RI!BreakWatch
<1>3. CASE ChangeRoutes
  BY <1>1, <1>2, <1>3 DEF ChangeRoutes, RI!ApiServer
<1>4. CASE ListRoutes
  BY <1>4 DEF ListRoutes, RI!List
<1>5. CASE RouteHandlers
  <2>1. PICK r \in Routes : AddFunc(r) \/ UpdateFunc(r) \/ DeleteFunc(r)
    BY <1>5 DEF RouteHandlers
  <2>2. UNCHANGED <<changes, breaks, queued>>
    BY <2>1 DEF AddFunc, UpdateFunc, DeleteFunc, RI!Added, RI!Updated, RI!Removed, RI!Pop
  <2>3. new' \in Pairs \cup {None} /\ crashed' \in BOOLEAN
    BY <2>1, KeyIsPair DEF AddFunc, UpdateFunc, DeleteFunc
  <2> QED
    BY <2>2, <2>3
<1>6. CASE UpdateSteps \/ SkipItem
  BY <1>6 DEF UpdateSteps, RegisterNew, ReadNew, UpdateDone, SkipItem, informerVars
<1>7. ASSUME NEW i \in Items, SecretHandler(i) \/ MissSecretDelete(i) \/ InformerSteps(i)
      PROVE  RestTyped'
  <2>1. CASE SecretHandler(i) \/ InformerSteps(i)
    BY <2>1 DEF SecretHandler, InformerSteps, informerVars
  <2>2. CASE MissSecretDelete(i)
    <3>1. changes' \in 0..MaxChanges /\ breaks' \in 0..MaxBreaks
      BY <2>2 DEF MissSecretDelete
    <3> QED
      BY <2>2, <3>1 DEF MissSecretDelete
  <2> QED
    BY <1>7, <2>1, <2>2
<1>8. CASE UNCHANGED vars
  BY <1>8 DEF vars, informerVars
<1> QED
  BY <1>3, <1>4, <1>5, <1>6, <1>7, <1>8 DEF RootNext

LEMMA RestTypedAlways == RootSpec => []RestTyped
<1>1. RootInit => RestTyped
  <2> SUFFICES ASSUME RootInit
               PROVE  RestTyped
    OBVIOUS
  <2>1. changes \in 0..MaxChanges /\ breaks \in 0..MaxBreaks
    <3>1. changes = 0 /\ breaks = 0
      BY DEF RootInit, RI!Init
    <3> QED
      BY <3>1
  <2>2. new \in Pairs \cup {None} /\ queued \in BOOLEAN /\ crashed \in BOOLEAN
    BY DEF RootInit
  <2> QED
    BY <2>1, <2>2 DEF RestTyped
<1> QED
  BY <1>1, RInvAlways, RestTypedStep, PTL DEF RootSpec

\* Every variable of the root program keeps its type, those of monitorv3 and of the
\* informer too.
THEOREM RootTypeCorrect == RootSpec => []RootTypeOK
<1>1. RInv /\ RestTyped => RootTypeOK
  BY DEF RInv, IInv, HandlerShape, RIP!IInv, RIP!Delta, RI!Delta, RestTyped, RootTypeOK, RI!TypeOK
<1> QED
  BY <1>1, RInvAlways, RestTypedAlways, PTL

\* The handlers of the root program never register a pair of a route and a secret that
\* is registered, however the watch breaks: RegisterRoute overwrites nothing.
THEOREM RootUsesV3Properly == RootSpec => UsesV3Properly
<1>1. RootInit => Init
  BY DEF RootInit
<1> QED
  BY <1>1, RInvAlways, RInvStep, PTL DEF RootSpec, UsesV3Properly, Spec

\* Between events the Manager has the registrations of the routes that the informer
\* knows, under their last Spec, and no other.
THEOREM RootRegistersKnown == RootSpec => []RegisteredIsKnown
<1>1. RInv => RegisteredIsKnown
  <2> SUFFICES ASSUME RInv, phase = "idle", ~crashed
               PROVE  {p \in Pairs : registeredHandlers[p] # None} = Registered(known)
    BY DEF RegisteredIsKnown
  <2>1. \A p \in Pairs : registeredHandlers[p] # None <=> Follows(p)
    BY DEF RInv, RegisteredShape
  <2>2. ASSUME NEW p \in Pairs, Follows(p)
        PROVE  p \in Registered(known)
    BY <2>2 DEF Follows, Registered, KeyOf, Pairs
  <2>3. ASSUME NEW p \in Registered(known)
        PROVE  p \in Pairs /\ Follows(p)
    <3>1. PICK r \in Routes : known[r] # None /\ p = KeyOf(r, known[r])
      BY DEF Registered
    <3> QED
      BY <3>1, KeyIsPair DEF Follows, RInv, HandlerShape
  <2> QED
    BY <2>1, <2>2, <2>3
<1> QED
  BY <1>1, RInvAlways, PTL

\* In the root program every registered pair has an informer of its own that was not
\* stopped, and every informer that was not stopped has a registration.
THEOREM RootOwnInformer == RootSpec => []OwnInformer
BY RootUsesV3Properly, RegisteredHaveOwnInformer, PTL DEF UsesV3Properly

-----------------------------------------------------------------------------
(* What the informer gives the program, and what it then makes of it.         *)

\* The informer of the program is a RouteInformer, whatever the handlers do.
LEMMA RootIsInformer == RootSpec => RIP!Spec
<1>1. RootInit => RIP!Init
  BY DEF RootInit, RI!Init, RIP!Init
<1> QED
  BY <1>1, StepIsInformers, PTL DEF RootSpec, RIP!Spec

\* At rest, when no event is on its way and none is handled, the Manager has the
\* registrations of the routes as they are at the API server.
RegisteredIsApi ==
  phase = "idle" /\ ~crashed /\ RI!HasSynced =>
    {p \in Pairs : registeredHandlers[p] # None} = Registered(api)

\* The root program is never at rest in a wrong state, however often the watch breaks:
\* it is the safety half of RootConverges.
THEOREM RootAtRest == RootSpec => []RegisteredIsApi
<1>1. RegisteredIsKnown /\ RIP!KnownIsApi => RegisteredIsApi
  BY DEF RegisteredIsKnown, RIP!KnownIsApi, RegisteredIsApi, RI!HasSynced, RIP!HasSynced
<1> QED
  BY <1>1, RootRegistersKnown, RootIsInformer, RIP!InformerKnowsApi, PTL

\* No handler panics on what its informer passes to it.
RootNeverCrashes == ~crashed

\* While no watch breaks, no handler of the root program panics: of all that its
\* handlers take for granted of the objects they are given, only tombstones are not so.
THEOREM RootUnbrokenNeverCrashes ==
  ASSUME MaxBreaks = 0
  PROVE  RootSpec => []RootNeverCrashes
<1>1. RInv /\ RestTyped /\ [RootNext]_vars
        => [watching => watching']_<<api, watching, deltas, known>>
  <2> SUFFICES ASSUME RestTyped, [RootNext]_vars, watching
               PROVE  watching'
    OBVIOUS
  <2>1. ~RI!BreakWatch
    BY DEF RestTyped, RI!BreakWatch
  <2>2. CASE ChangeRoutes \/ ListRoutes
    BY <2>1, <2>2 DEF ChangeRoutes, ListRoutes, RI!ApiServer, RI!ChangeRoute, RI!List
  <2>3. CASE RouteHandlers
    BY <2>3 DEF RouteHandlers, AddFunc, UpdateFunc, DeleteFunc, RI!Added, RI!Updated,
                RI!Removed, RI!Pop
  <2>4. CASE \/ UpdateSteps \/ SkipItem
             \/ \E i \in Items : SecretHandler(i) \/ MissSecretDelete(i) \/ InformerSteps(i)
    BY <2>4 DEF UpdateSteps, RegisterNew, ReadNew, UpdateDone, SkipItem, SecretHandler,
                MissSecretDelete, InformerSteps, informerVars
  <2> QED
    BY <2>2, <2>3, <2>4 DEF RootNext, vars, informerVars
<1>2. RootSpec => [][watching => watching']_<<api, watching, deltas, known>>
  BY <1>1, RInvAlways, RestTypedAlways, PTL DEF RootSpec
<1>3. RootSpec => []RIP!HeadIsNoTombstone
  BY <1>2, RootIsInformer, RIP!UnbrokenGivesNoTombstone, PTL
<1>4. RestTyped /\ RIP!HeadIsNoTombstone /\ RootNeverCrashes /\ [RootNext]_vars
        => RootNeverCrashes'
  <2> SUFFICES ASSUME RestTyped, RIP!HeadIsNoTombstone, ~crashed, [RootNext]_vars
               PROVE  ~crashed'
    BY DEF RootNeverCrashes
  <2>1. ASSUME NEW r \in Routes, DeleteFunc(r) PROVE ~crashed'
    BY <2>1 DEF DeleteFunc, RI!Removed, RI!Tombstone, RIP!HeadIsNoTombstone, RIP!Tombstone
  <2>2. ASSUME NEW i \in Items, MissSecretDelete(i) PROVE FALSE
    BY <2>2 DEF MissSecretDelete, RestTyped
  <2> QED
    BY <2>1, <2>2
    DEF RootNext, RouteHandlers, ChangeRoutes, ListRoutes, AddFunc, UpdateFunc, UpdateSteps,
        RegisterNew, ReadNew, UpdateDone, SecretHandler, InformerSteps, SkipItem, vars
<1>5. RootInit => RootNeverCrashes
  BY DEF RootInit, RootNeverCrashes
<1> QED
  BY <1>3, <1>4, <1>5, RestTypedAlways, PTL DEF RootSpec

=============================================================================
