-------------------------- MODULE RouteControllerProofs --------------------------
(******************************************************************************)
(* Theorems about RouteController: for any routes, secrets and bounds.        *)
(******************************************************************************)
EXTENDS RouteController, SequenceTheorems, TLAPS

RIP == INSTANCE RouteInformerProofs WITH Objects <- Keys

USE RouteControllerAssumption

-----------------------------------------------------------------------------
(* The events of a route in the queue.                                        *)

LEMMA EventFields ==
  ASSUME NEW e \in RouteEvent
  PROVE  /\ e.route \in Routes
         /\ e.type \in {"Added", "Modified", "Deleted"}
         /\ e.type = "Added" => e.secret \in Keys
BY DEF RouteEvent

\* What the event makes of the secret v that route r watches.
After(r, v, e) ==
  CASE e.route # r \/ e.type = "Modified" -> v
    [] e.route = r /\ e.type = "Added" -> e.secret
    [] OTHER -> None

\* A new event at the end: an Added only for a route that is not known.
LEMMA LeadsToAppend ==
  ASSUME NEW q \in Seq(RouteEvent), NEW e \in RouteEvent, NEW r \in Routes, NEW v, NEW k,
         LeadsTo(q, r, v, k),
         e.route = r /\ e.type = "Added" => k = None
  PROVE  LeadsTo(Append(q, e), r, v, After(r, k, e))
<1> DEFINE L == Len(q)
           p == Append(q, e)
           qa == Events(q, "Added", r)
           qd == Events(q, "Deleted", r)
           pa == Events(p, "Added", r)
           pd == Events(p, "Deleted", r)
<1>1. /\ L \in Nat /\ DOMAIN q = 1..L /\ DOMAIN p = 1..(L + 1)
      /\ \A n \in 1..L : q[n] \in RouteEvent /\ p[n] = q[n]
      /\ p[L + 1] = e
  OBVIOUS
<1>2. /\ \A n \in qa : n \in 1..L /\ p[n] = q[n] /\ q[n].secret \in Keys
      /\ \A n \in qd : n \in 1..L /\ p[n] = q[n]
  BY <1>1, EventFields DEF Events
<1>3. /\ pa = IF e.type = "Added" /\ e.route = r THEN qa \cup {L + 1} ELSE qa
      /\ pd = IF e.type = "Deleted" /\ e.route = r THEN qd \cup {L + 1} ELSE qd
  BY <1>1 DEF Events
<1>4. /\ \A n \in qa : v = None \/ \E d \in qd : d < n
      /\ \A m, n \in qa : m < n => \E d \in qd : m < d /\ d < n
      /\ \A n \in qa : q[n].secret = k \/ \E d \in qd : n < d
      /\ \A d \in qd : k = None \/ \E n \in qa : d < n
      /\ qa \cup qd = {} => v = k
  BY DEF LeadsTo
<1> SUFFICES /\ \A n \in pa : v = None \/ \E d \in pd : d < n
             /\ \A m, n \in pa : m < n => \E d \in pd : m < d /\ d < n
             /\ \A n \in pa : p[n].secret = After(r, k, e) \/ \E d \in pd : n < d
             /\ \A d \in pd : After(r, k, e) = None \/ \E n \in pa : d < n
             /\ pa \cup pd = {} => v = After(r, k, e)
  BY DEF LeadsTo
<1> HIDE DEF L, p, qa, qd, pa, pd
<1>5. CASE e.route # r \/ e.type = "Modified"
  BY <1>2, <1>3, <1>4, <1>5 DEF After
<1>6. CASE e.route = r /\ e.type = "Added"
  <2>1. After(r, k, e) = e.secret /\ k = None
    BY <1>6 DEF After
  <2>2. v = None \/ \E d \in qd : d < L + 1
    <3>1. \A d \in qd : d < L + 1
      BY <1>1, <1>2
    <3> QED
      BY <1>4, <2>1, <3>1
  <2>3. \A m \in qa : \E d \in qd : m < d /\ d < L + 1
    BY <1>1, <1>2, <1>4, <2>1
  <2>4. \A n \in qa \cup qd : n < L + 1 /\ ~(L + 1 < n)
    BY <1>1, <1>2
  <2>5. pa = qa \cup {L + 1} /\ pd = qd
    BY <1>3, <1>6
  <2>6. \A n \in pa : v = None \/ \E d \in pd : d < n
    BY <1>4, <2>2, <2>5
  <2>7. \A m, n \in pa : m < n => \E d \in pd : m < d /\ d < n
    <3>1. ~(L + 1 < L + 1)
      BY <1>1
    <3> QED
      BY <1>4, <2>3, <2>4, <2>5, <3>1
  <2>8. \A n \in pa : p[n].secret = e.secret \/ \E d \in pd : n < d
    BY <1>1, <2>3, <2>5
  <2>9. \A d \in pd : \E n \in pa : d < n
    BY <2>4, <2>5
  <2> QED
    BY <2>1, <2>5, <2>6, <2>7, <2>8, <2>9
<1>7. CASE e.route = r /\ e.type = "Deleted"
  <2>1. After(r, k, e) = None
    BY <1>7 DEF After
  <2>2. pa = qa /\ pd = qd \cup {L + 1}
    BY <1>3, <1>7
  <2>3. \A n \in qa : n < L + 1
    BY <1>1, <1>2
  <2> QED
    BY <1>4, <2>1, <2>2, <2>3
<1> QED
  BY <1>5, <1>6, <1>7, EventFields

\* The first event is handled, and if it is an Added, the route watched nothing.
LEMMA LeadsToHandled ==
  ASSUME NEW q \in Seq(RouteEvent), NEW e \in RouteEvent, NEW r \in Routes, NEW v, NEW k,
         LeadsTo(<<e>> \o q, r, v, k)
  PROVE  /\ e.route = r /\ e.type = "Added" => v = None
         /\ LeadsTo(q, r, After(r, v, e), k)
<1> DEFINE L == Len(q)
           p == <<e>> \o q
           qa == Events(q, "Added", r)
           qd == Events(q, "Deleted", r)
           pa == Events(p, "Added", r)
           pd == Events(p, "Deleted", r)
<1>1. /\ L \in Nat /\ DOMAIN q = 1..L /\ DOMAIN p = 1..(L + 1)
      /\ \A n \in 1..L : p[n + 1] = q[n]
      /\ p[1] = e
  OBVIOUS
<1>2. /\ \A n \in 1..L : n \in qa <=> n + 1 \in pa
      /\ \A n \in 1..L : n \in qd <=> n + 1 \in pd
      /\ 1 \in pa <=> e.type = "Added" /\ e.route = r
      /\ 1 \in pd <=> e.type = "Deleted" /\ e.route = r
      /\ qa \subseteq 1..L /\ qd \subseteq 1..L
      /\ pa \subseteq 1..(L + 1) /\ pd \subseteq 1..(L + 1)
  BY <1>1 DEF Events
<1>3. /\ \A n \in pa : v = None \/ \E d \in pd : d < n
      /\ \A m, n \in pa : m < n => \E d \in pd : m < d /\ d < n
      /\ \A n \in pa : p[n].secret = k \/ \E d \in pd : n < d
      /\ \A d \in pd : k = None \/ \E n \in pa : d < n
      /\ pa \cup pd = {} => v = k
  BY DEF LeadsTo
<1> SUFFICES /\ e.route = r /\ e.type = "Added" => v = None
             /\ \A n \in qa : After(r, v, e) = None \/ \E d \in qd : d < n
             /\ \A m, n \in qa : m < n => \E d \in qd : m < d /\ d < n
             /\ \A n \in qa : q[n].secret = k \/ \E d \in qd : n < d
             /\ \A d \in qd : k = None \/ \E n \in qa : d < n
             /\ qa \cup qd = {} => After(r, v, e) = k
  BY DEF LeadsTo
<1> HIDE DEF L, p, qa, qd, pa, pd
\* Every event but the first is one of q, one place further on.
<1>4. /\ \A d \in pd : d # 1 => d - 1 \in qd
      /\ \A n \in pa : n # 1 => n - 1 \in qa
  BY <1>1, <1>2
<1>5. \A m, n \in qa : m < n => \E d \in qd : m < d /\ d < n
  <2> SUFFICES ASSUME NEW m \in qa, NEW n \in qa, m < n
               PROVE  \E d \in qd : m < d /\ d < n
    OBVIOUS
  <2>1. m \in 1..L /\ n \in 1..L /\ m + 1 \in pa /\ n + 1 \in pa /\ m + 1 < n + 1
    BY <1>1, <1>2
  <2>2. PICK d \in pd : m + 1 < d /\ d < n + 1
    BY <1>3, <2>1
  <2>3. d \in 1..(L + 1) /\ d # 1 /\ m < d - 1 /\ d - 1 < n
    BY <1>1, <1>2, <2>1, <2>2
  <2> QED
    BY <1>4, <2>2, <2>3
<1>6. \A n \in qa : q[n].secret = k \/ \E d \in qd : n < d
  <2> SUFFICES ASSUME NEW n \in qa, q[n].secret # k
               PROVE  \E d \in qd : n < d
    OBVIOUS
  <2>1. n \in 1..L /\ n + 1 \in pa /\ p[n + 1] = q[n]
    BY <1>1, <1>2
  <2>2. PICK d \in pd : n + 1 < d
    BY <1>3, <2>1
  <2>3. d \in 1..(L + 1) /\ d # 1 /\ n < d - 1
    BY <1>1, <1>2, <2>1, <2>2
  <2> QED
    BY <1>4, <2>2, <2>3
<1>7. \A d \in qd : k = None \/ \E n \in qa : d < n
  <2> SUFFICES ASSUME NEW d \in qd, k # None
               PROVE  \E n \in qa : d < n
    OBVIOUS
  <2>1. d \in 1..L /\ d + 1 \in pd
    BY <1>1, <1>2
  <2>2. PICK n \in pa : d + 1 < n
    BY <1>3, <2>1
  <2>3. n \in 1..(L + 1) /\ n # 1 /\ d < n - 1
    BY <1>1, <1>2, <2>1, <2>2
  <2> QED
    BY <1>4, <2>2, <2>3
<1>8. CASE e.route # r \/ e.type = "Modified"
  <2>1. After(r, v, e) = v /\ 1 \notin pa /\ 1 \notin pd
    BY <1>2, <1>8 DEF After
  <2>2. \A n \in qa : v = None \/ \E d \in qd : d < n
    <3> SUFFICES ASSUME NEW n \in qa, v # None
                 PROVE  \E d \in qd : d < n
      OBVIOUS
    <3>1. n \in 1..L /\ n + 1 \in pa
      BY <1>1, <1>2
    <3>2. PICK d \in pd : d < n + 1
      BY <1>3, <3>1
    <3>3. d - 1 \in qd /\ d \in 1..(L + 1) /\ d - 1 < n
      BY <1>1, <1>2, <1>4, <2>1, <3>1, <3>2
    <3> QED
      BY <3>3
  <2>3. qa \cup qd = {} => v = k
    BY <1>3, <1>4, <2>1
  <2> QED
    BY <1>5, <1>6, <1>7, <1>8, <2>1, <2>2, <2>3
<1>9. CASE e.route = r /\ e.type = "Added"
  <2>1. After(r, v, e) = e.secret /\ 1 \in pa /\ 1 \notin pd /\ p[1].secret = e.secret
    BY <1>1, <1>2, <1>9 DEF After
  <2>2. \A d \in pd : d \in Nat /\ ~(d < 1)
    BY <1>1, <1>2
  <2>3. v = None
    BY <1>3, <2>1, <2>2
  <2>4. \A n \in qa : \E d \in qd : d < n
    <3> SUFFICES ASSUME NEW n \in qa
                 PROVE  \E d \in qd : d < n
      OBVIOUS
    <3>1. n \in 1..L /\ n + 1 \in pa /\ 1 < n + 1
      BY <1>1, <1>2
    <3>2. PICK d \in pd : d < n + 1
      BY <1>3, <2>1, <3>1
    <3>3. d - 1 \in qd /\ d \in 1..(L + 1) /\ d - 1 < n
      BY <1>1, <1>2, <1>4, <2>1, <3>1, <3>2
    <3> QED
      BY <3>3
  <2>5. qd = {} => e.secret = k
    BY <1>3, <1>4, <2>1
  <2> QED
    BY <1>5, <1>6, <1>7, <2>1, <2>3, <2>4, <2>5
<1>10. CASE e.route = r /\ e.type = "Deleted"
  <2>1. After(r, v, e) = None /\ 1 \in pd /\ 1 \notin pa
    BY <1>2, <1>10 DEF After
  <2>2. qa = {} => k = None
    BY <1>3, <1>4, <2>1
  <2> QED
    BY <1>5, <1>6, <1>7, <1>10, <2>1, <2>2
<1> QED
  BY <1>8, <1>9, <1>10, EventFields

-----------------------------------------------------------------------------
(* Type correctness, for any number of workers.                               *)

InHand == {"handle", "register", "follow"}

\* What a worker works on, and that no handler is called before it is set.
JobShape ==
  /\ \A w \in Workers :
       /\ phase[w] \in InHand => job[w] \in RouteEvent
       /\ phase[w] \in {"register", "follow"} => job[w].type = "Added"
       /\ phase[w] = "register" => secretHandler # None
       /\ phase[w] = "follow" => handlerOf[job[w].route] # None
  /\ \A r \in Routes :
       watch[r] # None \/ r \in notified => handlerOf[r] # None

TInv == ControllerTypeOK /\ JobShape /\ RIP!IInv

LEMMA TInvInit == ControllerInit => TInv
<1> SUFFICES ASSUME ControllerInit PROVE TInv
  OBVIOUS
<1> DEFINE D == RI!Delta
           E == RouteEvent
<1> HIDE DEF D, E
<1>1. deltas \in [Routes -> Seq(D)] /\ queue \in Seq(E)
  BY DEF ControllerInit, RI!Init
<1>2. TypeOK /\ changes \in 0..MaxChanges /\ breaks \in 0..MaxBreaks
  BY DEF ControllerInit, Init, RI!Init, TypeOK
<1>3. RI!TypeOK
  BY <1>1, <1>2 DEF ControllerInit, RI!Init, RI!TypeOK, D
<1>4. job \in [Workers -> E \cup {Nothing}]
  BY DEF ControllerInit
<1>5. ControllerTypeOK
  BY <1>1, <1>2, <1>3, <1>4 DEF ControllerInit, ControllerTypeOK, E
<1>6. JobShape
  BY DEF ControllerInit, Init, JobShape, InHand
<1>7. RIP!IInv
  BY RIP!IInvInit DEF ControllerInit, RI!Init, RIP!Init
<1> QED
  BY <1>5, <1>6, <1>7 DEF TInv

LEMMA SamePush ==
  ASSUME NEW ds, NEW d
  PROVE  RI!Push(ds, d) = RIP!Push(ds, d)
BY DEF RI!Push, RIP!Push, RI!Last, RIP!Last

\* To the informer each step of the program is one of its own or none.
LEMMA StepIsInformers ==
  ASSUME [ControllerNext]_vars
  PROVE  [RIP!Next]_<<api, watching, deltas, known>>
<1>1. CASE ChangeRoutes
  <2>1. ASSUME NEW r \in Routes, NEW o \in Keys \cup {None}, RI!ChangeRoute(r, o)
        PROVE  RIP!ChangeRoute(r, o)
    BY <2>1, SamePush
    DEF RI!ChangeRoute, RI!Deleted, RI!Set, RIP!ChangeRoute, RIP!Deleted, RIP!Set
  <2>2. RI!BreakWatch => RIP!BreakWatch
    BY DEF RI!BreakWatch, RIP!BreakWatch
  <2> QED
    BY <1>1, <2>1, <2>2 DEF ChangeRoutes, RI!ApiServer, RIP!Next, RIP!ApiServer
<1>2. CASE ListRoutes
  <2>1. \A r \in Routes : RI!Replace(r) = RIP!Replace(r)
    BY SamePush DEF RI!Replace, RI!Tombstone, RI!Set, RIP!Replace, RIP!Tombstone, RIP!Set
  <2> QED
    BY <1>2, <2>1 DEF ListRoutes, RI!List, RIP!Next, RIP!List
<1>3. ASSUME NEW r \in Routes, AddFunc(r) \/ UpdateFunc(r)
      PROVE  RIP!Next
  BY <1>3
  DEF AddFunc, UpdateFunc, RI!Added, RI!Updated, RI!Pop, RI!Set, RIP!Next, RIP!Added,
      RIP!Updated, RIP!Pop, RIP!Set
<1>4. ASSUME NEW r \in Routes, DeleteFunc(r)
      PROVE  RIP!Next
  BY <1>4
  DEF DeleteFunc, RI!Removed, RI!Pop, RI!Deleted, RI!Tombstone, RIP!Next, RIP!Removed,
      RIP!Pop, RIP!Deleted, RIP!Tombstone
<1>5. ASSUME \/ StartWorkers
             \/ \E r \in Routes : SecretHandler(r)
             \/ \E k \in Keys : ChangeSecret(k) \/ MissSecretDelete(k)
             \/ \E w \in Workers : Worker(w)
      PROVE  UNCHANGED <<api, watching, deltas, known>>
  BY <1>5
  DEF StartWorkers, SecretHandler, ChangeSecret, MissSecretDelete, Worker, GetItem,
      HandleAdded, RegisterRoute, RouteRegistered, HandleDeleted, RouteForgotten,
      HandleModified, informerVars
<1>6. CASE UNCHANGED vars
  BY <1>6 DEF vars, informerVars
<1> QED
  BY <1>1, <1>2, <1>3, <1>4, <1>5, <1>6 DEF ControllerNext, Environment, RouteHandlers

\* The informer keeps its types whatever it does.
LEMMA InformerTyped ==
  ASSUME RI!TypeOK, RIP!IInv',
         \/ RI!ApiServer \/ RI!List
         \/ \E r \in Routes :
              \/ \E k \in Keys : RI!Added(r, k) \/ RI!Updated(r, k)
              \/ RI!Removed(r, RI!Deleted) \/ RI!Removed(r, RI!Tombstone)
  PROVE  RI!TypeOK'
<1>1. changes \in 0..MaxChanges /\ breaks \in 0..MaxBreaks
  BY DEF RI!TypeOK
<1>2. ASSUME NEW r \in Routes, NEW o \in Keys \cup {None}, RI!ChangeRoute(r, o)
      PROVE  changes' \in 0..MaxChanges /\ breaks' \in 0..MaxBreaks
  <2>1. changes < MaxChanges /\ changes' = changes + 1 /\ breaks' = breaks
    BY <1>2 DEF RI!ChangeRoute
  <2> QED
    BY <1>1, <2>1
<1>3. ASSUME RI!BreakWatch
      PROVE  changes' \in 0..MaxChanges /\ breaks' \in 0..MaxBreaks
  <2>1. breaks < MaxBreaks /\ breaks' = breaks + 1 /\ changes' = changes
    BY <1>3 DEF RI!BreakWatch
  <2> QED
    BY <1>1, <2>1
<1>4. changes' \in 0..MaxChanges /\ breaks' \in 0..MaxBreaks
  BY <1>1, <1>2, <1>3
  DEF RI!ApiServer, RI!List, RI!Added, RI!Updated, RI!Removed, RI!Pop
<1> QED
  BY <1>4 DEF RIP!IInv, RI!TypeOK, RIP!Delta, RI!Delta

\* The steps of the API server and the informer, and those of its handlers.
LEMMA HandlersKeepTypes ==
  ASSUME TInv, RIP!IInv',
         ChangeRoutes \/ ListRoutes \/ StartWorkers \/ \E r \in Routes : RouteHandlers(r)
  PROVE  TInv'
<1> DEFINE E == RouteEvent
<1>1. RI!TypeOK'
  <2>1. CASE StartWorkers
    BY <2>1 DEF StartWorkers, informerVars, TInv, ControllerTypeOK, RI!TypeOK
  <2>2. CASE ~StartWorkers
    BY <2>2, InformerTyped
    DEF TInv, ControllerTypeOK, ChangeRoutes, ListRoutes, RouteHandlers, AddFunc,
        UpdateFunc, DeleteFunc
  <2> QED
    BY <2>1, <2>2
<1>2. /\ UNCHANGED <<rwVars, workerVars, secretVars>>
      /\ started' \in BOOLEAN /\ crashed' \in BOOLEAN
  BY DEF TInv, ControllerTypeOK, ChangeRoutes, ListRoutes, StartWorkers, RouteHandlers,
         AddFunc, UpdateFunc, DeleteFunc
<1>3. queue' \in Seq(E)
  <2>1. queue \in Seq(E)
    BY DEF TInv, ControllerTypeOK
  <2>2. \A r \in Routes :
          /\ NewRouteEvent("Deleted", r) \in E
          /\ \A k \in Keys : NewAddedEvent(r, k) \in E
    BY DEF NewAddedEvent, NewRouteEvent, RouteEvent
  <2> HIDE DEF E
  <2>3. CASE UNCHANGED queue
    BY <2>1, <2>3
  <2>4. ASSUME NEW r \in Routes, NEW k \in Keys, queue' = Append(queue, NewAddedEvent(r, k))
        PROVE  queue' \in Seq(E)
    BY <2>1, <2>2, <2>4
  <2>5. ASSUME NEW r \in Routes, NEW k \in Keys, queue' = queue \o Rewatch(r, k)
        PROVE  queue' \in Seq(E)
    BY <2>1, <2>2, <2>5 DEF Rewatch
  <2>6. ASSUME NEW r \in Routes, queue' = Append(queue, NewRouteEvent("Deleted", r))
        PROVE  queue' \in Seq(E)
    BY <2>1, <2>2, <2>6
  <2> QED
    BY <2>3, <2>4, <2>5, <2>6
    DEF ChangeRoutes, ListRoutes, StartWorkers, RouteHandlers, AddFunc, UpdateFunc,
        DeleteFunc
<1>4. ControllerTypeOK'
  BY <1>1, <1>2, <1>3
  DEF TInv, ControllerTypeOK, TypeOK, rwVars, workerVars, secretVars
<1>5. JobShape'
  BY <1>2 DEF TInv, JobShape, rwVars, workerVars, secretVars
<1> QED
  BY <1>4, <1>5 DEF TInv

LEMMA SecretsKeepTypes ==
  ASSUME TInv, RIP!IInv',
         \/ \E k \in Keys : ChangeSecret(k) \/ MissSecretDelete(k)
         \/ \E r \in Routes : SecretHandler(r)
  PROVE  TInv'
<1> DEFINE E == RouteEvent
<1>1. ASSUME NEW k \in Keys, ChangeSecret(k) PROVE TInv'
  BY <1>1
  DEF ChangeSecret, TInv, ControllerTypeOK, TypeOK, RI!TypeOK, JobShape, rwVars, workerVars
<1>2. ASSUME NEW k \in Keys, MissSecretDelete(k) PROVE TInv'
  BY <1>2
  DEF MissSecretDelete, TInv, ControllerTypeOK, TypeOK, RI!TypeOK, JobShape, rwVars,
      workerVars, secretVars
<1>3. ASSUME NEW r \in Routes, SecretHandler(r) PROVE TInv'
  <2>1. handlerOf[r] \in Routes
    BY <1>3 DEF SecretHandler, TInv, ControllerTypeOK, JobShape
  <2>2. NewRouteEvent("Modified", handlerOf[r]) \in E
    BY <2>1 DEF NewRouteEvent, RouteEvent
  <2>3. queue \in Seq(E)
    BY DEF TInv, ControllerTypeOK
  <2> HIDE DEF E
  <2>4. queue' \in Seq(E)
    BY <1>3, <2>2, <2>3 DEF SecretHandler
  <2>5. ControllerTypeOK'
    BY <1>3, <2>4
    DEF E, SecretHandler, TInv, ControllerTypeOK, TypeOK, RI!TypeOK, rwVars, informerVars,
        workerVars
  <2>6. JobShape'
    BY <1>3 DEF SecretHandler, TInv, ControllerTypeOK, JobShape, rwVars, workerVars
  <2> QED
    BY <2>5, <2>6 DEF TInv
<1> QED
  BY <1>1, <1>2, <1>3

LEMMA WorkersKeepTypes ==
  ASSUME TInv, RIP!IInv', NEW w \in Workers, Worker(w)
  PROVE  TInv'
<1> DEFINE E == RouteEvent
<1> USE DEF TInv, ControllerTypeOK, TypeOK, JobShape, InHand
<1>0. RI!TypeOK' /\ UNCHANGED <<started, crashed>>
  BY DEF Worker, GetItem, HandleAdded, RegisterRoute, RouteRegistered, HandleDeleted,
         RouteForgotten, HandleModified, informerVars, RI!TypeOK
<1>1. CASE GetItem(w)
  <2>1. queue \in Seq(E) /\ queue # <<>>
    BY <1>1 DEF GetItem
  <2> HIDE DEF E
  <2>2. Head(queue) \in E /\ Tail(queue) \in Seq(E)
    BY <2>1
  <2> QED
    BY <1>0, <1>1, <2>2 DEF E, GetItem, rwVars, secretVars
<1>2. CASE HandleAdded(w)
  <2>1. job[w].route \in Routes
    BY <1>2, EventFields DEF HandleAdded
  <2> QED
    BY <1>0, <1>2, <2>1 DEF HandleAdded, rwVars, secretVars
<1>3. CASE RegisterRoute(w)
  <2>1. job[w].route \in Routes /\ job[w].secret \in Keys
    BY <1>3, EventFields DEF RegisterRoute
  <2>2. CASE watch[job[w].route] # None
    BY <1>0, <1>3, <2>2 DEF RegisterRoute, ItemDone, rwVars
  <2>3. CASE watch[job[w].route] = None
    <3>1. /\ following' = following \cup {job[w].secret} /\ UNCHANGED <<watch, job>>
          /\ handlerOf' = [handlerOf EXCEPT ![job[w].route] = secretHandler]
          /\ phase' = [phase EXCEPT ![w] = "follow"]
          /\ UNCHANGED <<queue, secretHandler, notified, stale>>
      BY <1>3, <2>3 DEF RegisterRoute, Follow
    <3>2. phase[w] = "register" /\ job[w].type = "Added" /\ secretHandler # None
      BY <1>3 DEF RegisterRoute
    <3>3. ControllerTypeOK'
      BY <1>0, <2>1, <3>1
    <3>4. JobShape'
      BY <2>1, <3>1, <3>2
    <3> QED
      BY <3>3, <3>4
  <2> QED
    BY <2>2, <2>3
<1>4. CASE RouteRegistered(w)
  <2>1. job[w].route \in Routes /\ job[w].secret \in Keys
    BY <1>4, EventFields DEF RouteRegistered
  <2> QED
    BY <1>0, <1>4, <2>1 DEF RouteRegistered, Register, ItemDone
<1>5. CASE HandleDeleted(w)
  <2>1. job[w].route \in Routes
    BY <1>5, EventFields DEF HandleDeleted
  <2>2. /\ UNCHANGED <<queue, secretHandler, handlerOf, following>>
        /\ watch' \in {watch, [watch EXCEPT ![job[w].route] = None]}
        /\ notified' \subseteq notified /\ stale' \subseteq stale
        /\ \/ ItemDone(w)
           \/ phase' = [phase EXCEPT ![w] = "forget"] /\ UNCHANGED job
    BY <1>5 DEF HandleDeleted, Unregister, rwVars
  <2> QED
    BY <1>0, <2>1, <2>2 DEF ItemDone
<1>6. CASE RouteForgotten(w)
  BY <1>0, <1>6 DEF RouteForgotten, Forget, ItemDone, secretVars
<1>7. CASE HandleModified(w)
  BY <1>0, <1>7 DEF HandleModified, ItemDone, rwVars
<1> QED
  BY <1>1, <1>2, <1>3, <1>4, <1>5, <1>6, <1>7 DEF Worker

LEMMA TInvStep == TInv /\ [ControllerNext]_vars => TInv'
<1> SUFFICES ASSUME TInv, [ControllerNext]_vars PROVE TInv'
  OBVIOUS
<1>0. RIP!IInv'
  BY StepIsInformers, RIP!IInvStep DEF TInv
<1>1. CASE UNCHANGED vars
  BY <1>0, <1>1
  DEF TInv, ControllerTypeOK, TypeOK, RI!TypeOK, JobShape, vars, rwVars, informerVars,
      workerVars, secretVars
<1>2. CASE ControllerNext
  BY <1>0, <1>2, HandlersKeepTypes, SecretsKeepTypes, WorkersKeepTypes
  DEF ControllerNext, Environment
<1> QED
  BY <1>1, <1>2

LEMMA TInvAlways == ControllerSpec => []TInv
  BY TInvInit, TInvStep, PTL DEF ControllerSpec

\* Every variable keeps its type; in particular every event that a secret handler
\* queues is for a route.
THEOREM ControllerTypeCorrect == ControllerSpec => []ControllerTypeOK
  BY TInvAlways, PTL DEF TInv

-----------------------------------------------------------------------------
(* The order of events, for one worker, as main starts the controller.        *)

LEMMA BacklogOfOne ==
  ASSUME NEW w, Workers = {w}
  PROVE  /\ Backlog = IF phase[w] \in InHand THEN <<job[w]>> \o queue ELSE queue
         /\ Backlog' = IF phase'[w] \in InHand THEN <<job'[w]>> \o queue' ELSE queue'
<1>1. {u \in Workers : phase[u] \in InHand} = IF phase[w] \in InHand THEN {w} ELSE {}
  OBVIOUS
<1>2. {u \in Workers : phase'[u] \in InHand} = IF phase'[w] \in InHand THEN {w} ELSE {}
  OBVIOUS
<1>3. (CHOOSE u \in {w} : TRUE) = w
  OBVIOUS
<1> QED
  BY <1>1, <1>2, <1>3 DEF Backlog, InHand

LEMMA BacklogTyped ==
  ASSUME TInv, NEW w, Workers = {w}
  PROVE  Backlog \in Seq(RouteEvent)
<1> DEFINE E == RouteEvent
<1>1. queue \in Seq(E) /\ (phase[w] \in InHand => job[w] \in E)
  BY DEF TInv, ControllerTypeOK, JobShape
<1> HIDE DEF E
<1>2. CASE phase[w] \in InHand
  <2>1. <<job[w]>> \o queue \in Seq(E)
    BY <1>1, <1>2
  <2> QED
    BY <1>2, <2>1, BacklogOfOne DEF E
<1>3. CASE phase[w] \notin InHand
  BY <1>1, <1>3, BacklogOfOne DEF E
<1> QED
  BY <1>2, <1>3

LEMMA BacklogStays ==
  ASSUME UNCHANGED <<phase, job, queue>>
  PROVE  Backlog' = Backlog
BY DEF Backlog

\* To take an event, to set the handler, and to stop an informer make no difference.
LEMMA BacklogMoves ==
  ASSUME TInv, NEW w, Workers = {w}, GetItem(w) \/ HandleAdded(w) \/ RouteForgotten(w)
  PROVE  Backlog' = Backlog
<1>1. /\ phase \in [Workers -> {"get", "handle", "register", "follow", "forget"}]
      /\ job \in [Workers -> RouteEvent \cup {Nothing}]
      /\ w \in Workers
  BY DEF TInv, ControllerTypeOK
<1>2. CASE GetItem(w)
  <2> DEFINE E == RouteEvent
  <2>1. queue \in Seq(E) /\ queue # <<>>
    BY <1>2 DEF GetItem, TInv, ControllerTypeOK
  <2> HIDE DEF E
  <2>2. <<Head(queue)>> \o Tail(queue) = queue
    BY <2>1
  <2> QED
    BY <1>1, <1>2, <2>2, BacklogOfOne DEF GetItem, InHand
<1>3. CASE HandleAdded(w)
  BY <1>1, <1>3, BacklogOfOne DEF HandleAdded, InHand
<1>4. CASE RouteForgotten(w)
  BY <1>1, <1>4, BacklogOfOne DEF RouteForgotten, ItemDone, InHand
<1> QED
  BY <1>2, <1>3, <1>4

\* A handler adds an event, and the indexer has changed accordingly.
LEMMA EventAdded ==
  ASSUME TInv, BacklogLeadsToKnown, ~crashed, NEW w, Workers = {w},
         NEW e \in RouteEvent,
         queue' = Append(queue, e),
         UNCHANGED <<job, phase, watch>>,
         e.type = "Added" => known[e.route] = None,
         \A r \in Routes : known'[r] = After(r, known[r], e)
  PROVE  BacklogLeadsToKnown'
<1> DEFINE E == RouteEvent
<1>1. queue \in Seq(E) /\ (phase[w] \in InHand => job[w] \in E) /\ e \in E
  BY DEF TInv, ControllerTypeOK, JobShape
<1> HIDE DEF E
<1>2. Backlog' = Append(Backlog, e)
  <2>1. <<job[w]>> \o Append(queue, e) = Append(<<job[w]>> \o queue, e)
    BY <1>1
  <2> QED
    BY <2>1, BacklogOfOne
<1>3. ASSUME NEW r \in Routes PROVE LeadsTo(Backlog', r, watch'[r], known'[r])
  <2>1. LeadsTo(Backlog, r, watch[r], known[r])
    BY DEF BacklogLeadsToKnown
  <2>2. LeadsTo(Append(Backlog, e), r, watch[r], After(r, known[r], e))
    BY <2>1, BacklogTyped, LeadsToAppend
  <2> QED
    BY <1>2, <2>2
<1> QED
  BY <1>3 DEF BacklogLeadsToKnown, LeadsTo, Events

\* The worker has handled the event it had.
LEMMA EventHandled ==
  ASSUME TInv, BacklogLeadsToKnown, ~crashed, NEW w, Workers = {w},
         phase[w] \in InHand, phase'[w] \notin InHand,
         UNCHANGED <<queue, known>>,
         \A r \in Routes : watch'[r] = After(r, watch[r], job[w])
  PROVE  BacklogLeadsToKnown'
<1>1. queue \in Seq(RouteEvent) /\ job[w] \in RouteEvent
  BY DEF TInv, ControllerTypeOK, JobShape
<1>2. Backlog = <<job[w]>> \o queue /\ Backlog' = queue
  BY BacklogOfOne
<1>3. ASSUME NEW r \in Routes PROVE LeadsTo(Backlog', r, watch'[r], known'[r])
  <2>1. LeadsTo(<<job[w]>> \o queue, r, watch[r], known[r])
    BY <1>2 DEF BacklogLeadsToKnown
  <2>2. LeadsTo(queue, r, After(r, watch[r], job[w]), known[r])
    BY <1>1, <2>1, LeadsToHandled
  <2> QED
    BY <1>2, <2>2
<1> QED
  BY <1>3 DEF BacklogLeadsToKnown, LeadsTo, Events

\* Nothing happens that matters to the order of events.
LEMMA NoEvent ==
  ASSUME BacklogLeadsToKnown, ~crashed,
         Backlog' = Backlog, UNCHANGED <<watch, known>>
  PROVE  BacklogLeadsToKnown'
BY DEF BacklogLeadsToKnown, LeadsTo, Events

\* An update that names another secret is two events.
LEMMA UpdateKeepsOrder ==
  ASSUME TInv, BacklogLeadsToKnown, ~crashed, NEW w, Workers = {w},
         NEW r \in Routes, UpdateFunc(r)
  PROVE  BacklogLeadsToKnown'
<1> DEFINE E == RouteEvent
<1>1. PICK k \in Keys :
        /\ RI!Updated(r, k)
        /\ \/ k # known[r] /\ queue' = queue \o Rewatch(r, k)
           \/ k = known[r] /\ UNCHANGED queue
        /\ UNCHANGED <<rwVars, workerVars>>
  BY DEF UpdateFunc
<1>2. known \in [Routes -> Keys \cup {None}] /\ known' = [known EXCEPT ![r] = k]
  BY <1>1 DEF TInv, ControllerTypeOK, RI!TypeOK, RI!Updated
<1>3. CASE k = known[r]
  <2>1. known' = known
    BY <1>2, <1>3
  <2> QED
    BY <1>1, <1>3, <2>1, BacklogStays, NoEvent DEF rwVars, workerVars
<1>4. CASE k # known[r]
  <2> DEFINE del == NewRouteEvent("Deleted", r)
             add == NewAddedEvent(r, k)
  <2>1. /\ del \in E /\ add \in E
        /\ del.type = "Deleted" /\ del.route = r
        /\ add.type = "Added" /\ add.route = r /\ add.secret = k
    BY DEF NewRouteEvent, NewAddedEvent, RouteEvent
  <2>2. queue \in Seq(E) /\ (phase[w] \in InHand => job[w] \in E)
    BY DEF TInv, ControllerTypeOK, JobShape
  <2>3. queue' = queue \o <<del, add>>
    BY <1>1, <1>4 DEF Rewatch
  <2> HIDE DEF E, del, add
  <2>4. Backlog' = Append(Append(Backlog, del), add)
    <3>1. queue \o <<del, add>> = Append(Append(queue, del), add)
      BY <2>1, <2>2
    <3>2. CASE phase[w] \in InHand
      <4>1. <<job[w]>> \o Append(Append(queue, del), add)
              = Append(Append(<<job[w]>> \o queue, del), add)
        BY <2>1, <2>2, <3>2
      <4> QED
        BY <1>1, <2>3, <3>1, <3>2, <4>1, BacklogOfOne DEF workerVars
    <3>3. CASE phase[w] \notin InHand
      BY <1>1, <2>3, <3>1, <3>3, BacklogOfOne DEF workerVars
    <3> QED
      BY <3>2, <3>3
  <2>5. Backlog \in Seq(E) /\ Append(Backlog, del) \in Seq(E)
    <3>1. Backlog \in Seq(E)
      BY BacklogTyped DEF E
    <3> QED
      BY <2>1, <3>1
  <2>6. ASSUME NEW s \in Routes PROVE LeadsTo(Backlog', s, watch'[s], known'[s])
    <3>1. LeadsTo(Backlog, s, watch[s], known[s])
      BY DEF BacklogLeadsToKnown
    <3>2. LeadsTo(Append(Backlog, del), s, watch[s], After(s, known[s], del))
      BY <2>1, <2>5, <3>1, LeadsToAppend DEF E
    <3>3. s = r => After(s, known[s], del) = None
      BY <2>1 DEF After
    <3>4. LeadsTo(Append(Append(Backlog, del), add), s, watch[s],
                  After(s, After(s, known[s], del), add))
      BY <2>1, <2>5, <3>2, <3>3, LeadsToAppend DEF E
    <3>5. After(s, After(s, known[s], del), add) = known'[s]
      BY <1>2, <2>1 DEF After
    <3> QED
      BY <1>1, <2>4, <3>4, <3>5 DEF rwVars
  <2> QED
    BY <2>6 DEF BacklogLeadsToKnown, LeadsTo, Events
<1> QED
  BY <1>3, <1>4

LEMMA HandlersKeepOrder ==
  ASSUME TInv, BacklogLeadsToKnown, ~crashed, NEW w, Workers = {w},
         NEW r \in Routes, RouteHandlers(r) \/ SecretHandler(r)
  PROVE  BacklogLeadsToKnown'
<1>1. known \in [Routes -> Keys \cup {None}] /\ handlerOf \in [Routes -> Routes \cup {None}]
  BY DEF TInv, ControllerTypeOK, RI!TypeOK
<1>2. CASE AddFunc(r)
  <2>1. PICK k \in Keys :
          /\ known[r] = None /\ known' = [known EXCEPT ![r] = k]
          /\ queue' = Append(queue, NewAddedEvent(r, k))
          /\ UNCHANGED <<rwVars, workerVars>>
    BY <1>2 DEF AddFunc, RI!Added
  <2> DEFINE e == NewAddedEvent(r, k)
  <2>2. e \in RouteEvent /\ e.type = "Added" /\ e.route = r /\ e.secret = k
    BY DEF NewAddedEvent, RouteEvent
  <2> HIDE DEF e
  <2>3. \A s \in Routes : known'[s] = After(s, known[s], e)
    BY <1>1, <2>1, <2>2 DEF After
  <2> QED
    BY <2>1, <2>2, <2>3, EventAdded DEF e, rwVars, workerVars
<1>3. CASE UpdateFunc(r)
  BY <1>3, UpdateKeepsOrder
<1>4. CASE DeleteFunc(r)
  <2>1. CASE crashed'
    BY <2>1 DEF BacklogLeadsToKnown
  <2>2. CASE ~crashed'
    <3> DEFINE e == NewRouteEvent("Deleted", r)
    <3>1. /\ known' = [known EXCEPT ![r] = None]
          /\ queue' = Append(queue, e)
          /\ UNCHANGED <<rwVars, workerVars>>
      BY <1>4, <2>2 DEF DeleteFunc, RI!Removed
    <3>2. e \in RouteEvent /\ e.type = "Deleted" /\ e.route = r
      BY DEF NewRouteEvent, RouteEvent
    <3> HIDE DEF e
    <3>3. \A s \in Routes : known'[s] = After(s, known[s], e)
      BY <1>1, <3>1, <3>2 DEF After
    <3> QED
      BY <3>1, <3>2, <3>3, EventAdded DEF rwVars, workerVars
  <2> QED
    BY <2>1, <2>2
<1>5. CASE SecretHandler(r)
  <2> DEFINE e == NewRouteEvent("Modified", handlerOf[r])
  <2>1. handlerOf[r] \in Routes
    BY <1>1, <1>5 DEF SecretHandler, TInv, JobShape
  <2>2. e \in RouteEvent /\ e.type = "Modified"
    BY <2>1 DEF NewRouteEvent, RouteEvent
  <2>3. queue' = Append(queue, e) /\ UNCHANGED <<rwVars, informerVars, workerVars>>
    BY <1>5 DEF SecretHandler
  <2> HIDE DEF e
  <2>4. \A s \in Routes : known'[s] = After(s, known[s], e)
    BY <2>2, <2>3 DEF After, informerVars
  <2> QED
    BY <2>2, <2>3, <2>4, EventAdded DEF rwVars, workerVars
<1> QED
  BY <1>2, <1>3, <1>4, <1>5 DEF RouteHandlers

LEMMA WorkerKeepsOrder ==
  ASSUME TInv, BacklogLeadsToKnown, ~crashed, NEW w, Workers = {w}, Worker(w)
  PROVE  BacklogLeadsToKnown'
<1> DEFINE e == job[w]
           r == job[w].route
<1>1. /\ phase \in [Workers -> {"get", "handle", "register", "follow", "forget"}]
      /\ job \in [Workers -> RouteEvent \cup {Nothing}]
      /\ watch \in [Routes -> Keys \cup {None}]
      /\ w \in Workers
  BY DEF TInv, ControllerTypeOK, TypeOK
<1>2. phase[w] \in InHand => /\ r \in Routes
                             /\ Backlog = <<e>> \o queue
                             /\ e \in RouteEvent
  BY BacklogOfOne, EventFields DEF TInv, JobShape
<1>3. CASE GetItem(w)
  BY <1>3, BacklogMoves, NoEvent DEF GetItem, rwVars, informerVars
<1>4. CASE HandleAdded(w)
  BY <1>4, BacklogMoves, NoEvent DEF HandleAdded, rwVars, informerVars
<1>5. CASE RegisterRoute(w)
  <2>1. e.type = "Added" /\ phase[w] \in InHand /\ queue \in Seq(RouteEvent)
    BY <1>5 DEF RegisterRoute, InHand, TInv, JobShape, ControllerTypeOK
  <2>2. LeadsTo(<<e>> \o queue, r, watch[r], known[r])
    BY <1>2, <2>1 DEF BacklogLeadsToKnown
  <2>3. watch[r] = None
    BY <1>2, <2>1, <2>2, LeadsToHandled
  <2>4. /\ phase' = [phase EXCEPT ![w] = "follow"]
        /\ UNCHANGED <<watch, known, queue, job>>
    BY <1>5, <2>3 DEF RegisterRoute, Follow, informerVars
  <2>5. Backlog' = Backlog
    BY <1>1, <2>1, <2>4, BacklogOfOne DEF InHand
  <2> QED
    BY <2>4, <2>5, NoEvent
<1>6. CASE RouteRegistered(w)
  <2>1. e.type = "Added" /\ phase[w] \in InHand
    BY <1>6 DEF RouteRegistered, InHand, TInv, JobShape
  <2>2. /\ watch' = [watch EXCEPT ![r] = e.secret]
        /\ phase' = [phase EXCEPT ![w] = "get"]
        /\ UNCHANGED <<queue, known>>
    BY <1>6 DEF RouteRegistered, Register, ItemDone, informerVars
  <2>3. \A s \in Routes : watch'[s] = After(s, watch[s], e)
    BY <1>1, <1>2, <2>1, <2>2 DEF After
  <2> QED
    BY <1>1, <2>1, <2>2, <2>3, EventHandled DEF InHand
<1>7. CASE HandleDeleted(w)
  <2>1. e.type = "Deleted" /\ phase[w] \in InHand
    BY <1>7 DEF HandleDeleted, InHand
  <2>2. /\ \/ watch' = watch /\ watch[r] = None
           \/ watch' = [watch EXCEPT ![r] = None]
        /\ \/ phase' = [phase EXCEPT ![w] = "get"]
           \/ phase' = [phase EXCEPT ![w] = "forget"]
        /\ UNCHANGED <<queue, known>>
    BY <1>7 DEF HandleDeleted, Unregister, ItemDone, informerVars, rwVars
  <2>3. \A s \in Routes : watch'[s] = After(s, watch[s], e)
    BY <1>1, <1>2, <2>1, <2>2 DEF After
  <2> QED
    BY <1>1, <2>1, <2>2, <2>3, EventHandled DEF InHand
<1>8. CASE RouteForgotten(w)
  BY <1>8, BacklogMoves, NoEvent DEF RouteForgotten, Forget, informerVars
<1>9. CASE HandleModified(w)
  <2>1. e.type = "Modified" /\ phase[w] \in InHand
    BY <1>9 DEF HandleModified, InHand
  <2>2. /\ phase' = [phase EXCEPT ![w] = "get"]
        /\ UNCHANGED <<watch, queue, known>>
    BY <1>9 DEF HandleModified, ItemDone, informerVars, rwVars
  <2>3. \A s \in Routes : watch'[s] = After(s, watch[s], e)
    BY <2>1, <2>2 DEF After
  <2> QED
    BY <1>1, <2>1, <2>2, <2>3, EventHandled DEF InHand
<1> QED
  BY <1>3, <1>4, <1>5, <1>6, <1>7, <1>8, <1>9 DEF Worker

LEMMA OrderStep ==
  ASSUME TInv, BacklogLeadsToKnown, NEW w, Workers = {w}, [ControllerNext]_vars
  PROVE  BacklogLeadsToKnown'
<1>1. CASE UNCHANGED vars
  <2>1. UNCHANGED <<phase, job, queue, watch, known, crashed>>
    BY <1>1 DEF vars, rwVars, informerVars, workerVars
  <2>2. Backlog' = Backlog
    BY <2>1, BacklogStays
  <2> QED
    BY <2>1, <2>2 DEF BacklogLeadsToKnown, LeadsTo, Events
<1>2. CASE ControllerNext
  <2>1. ~crashed
    BY <1>2 DEF ControllerNext
  <2>2. CASE ChangeRoutes \/ ListRoutes \/ StartWorkers \/ \E k \in Keys : ChangeSecret(k)
    <3>1. UNCHANGED <<phase, job, queue, watch, known>>
      BY <2>2
      DEF ChangeRoutes, ListRoutes, StartWorkers, ChangeSecret, RI!ApiServer, RI!ChangeRoute,
          RI!BreakWatch, RI!List, rwVars, informerVars, workerVars
    <3>2. Backlog' = Backlog
      BY <3>1, BacklogStays
    <3> QED
      BY <2>1, <3>1, <3>2, NoEvent
  <2>3. ASSUME NEW k \in Keys, MissSecretDelete(k) PROVE BacklogLeadsToKnown'
    BY <2>3 DEF MissSecretDelete, BacklogLeadsToKnown
  <2> QED
    BY <1>2, <2>1, <2>2, <2>3, HandlersKeepOrder, WorkerKeepsOrder
    DEF ControllerNext, Environment
<1> QED
  BY <1>1, <1>2

\* With one worker, and whenever the watch breaks, no route event is lost, doubled,
\* refused or overtaken on its way through the queue: the worker leaves each route
\* watching the secret that the informer knows it to name.
THEOREM EventsLeadToKnown ==
  ASSUME NEW w, Workers = {w}
  PROVE  ControllerSpec => []BacklogLeadsToKnown
<1>1. ControllerInit => BacklogLeadsToKnown
  <2> SUFFICES ASSUME ControllerInit PROVE BacklogLeadsToKnown
    OBVIOUS
  <2>1. /\ Backlog = <<>>
        /\ \A r \in Routes : watch[r] = None /\ known[r] = None
    BY BacklogOfOne DEF ControllerInit, Init, RI!Init, InHand
  <2>2. \A r \in Routes : /\ Events(<<>>, "Added", r) = {}
                          /\ Events(<<>>, "Deleted", r) = {}
    BY DEF Events
  <2> QED
    BY <2>1, <2>2 DEF BacklogLeadsToKnown, LeadsTo
<1>2. TInv /\ BacklogLeadsToKnown /\ [ControllerNext]_vars => BacklogLeadsToKnown'
  BY OrderStep
<1> QED
  BY <1>1, <1>2, TInvAlways, PTL DEF ControllerSpec

-----------------------------------------------------------------------------
(* What the workers ask of the Manager, for any number of them.               *)

Watched == {watch[r] : r \in Routes} \ {None}

\* One worker at a time is inside the Manager.  Between the two halves of a call, one
\* secret more is followed than is watched.
FollowShape ==
  /\ \A w, u \in Workers :
       phase[w] \in {"follow", "forget"} /\ phase[u] \in {"follow", "forget"} => w = u
  /\ \A w \in Workers :
       /\ phase[w] = "follow" => /\ watch[job[w].route] = None
                                /\ following = Watched \cup {job[w].secret}
       /\ phase[w] = "forget" =>
            \E k \in Keys \ Watched : following = Watched \cup {k}
  /\ ManagerFree => following = Watched

LEMMA WatchedAfter ==
  ASSUME watch \in [Routes -> Keys \cup {None}], NEW r \in Routes, NEW k \in Keys
  PROVE  /\ watch[r] = None /\ watch' = [watch EXCEPT ![r] = k]
              => Watched' = Watched \cup {k}
         /\ watch[r] # None /\ watch' = [watch EXCEPT ![r] = None]
              => Watched' = IF \E s \in Routes \ {r} : watch[s] = watch[r]
                            THEN Watched ELSE Watched \ {watch[r]}
<1>1. CASE watch[r] = None /\ watch' = [watch EXCEPT ![r] = k]
  <2>1. watch'[r] = k /\ \A s \in Routes \ {r} : watch'[s] = watch[s]
    BY <1>1
  <2> QED
    BY <1>1, <2>1 DEF Watched
<1>2. CASE watch[r] # None /\ watch' = [watch EXCEPT ![r] = None]
  <2>1. watch'[r] = None /\ \A s \in Routes \ {r} : watch'[s] = watch[s]
    BY <1>2
  <2> QED
    BY <1>2, <2>1 DEF Watched
<1> QED
  BY <1>1, <1>2

\* A step that is none of the Manager's.
LEMMA FollowStays ==
  ASSUME FollowShape, UNCHANGED <<watch, following>>,
         \A u \in Workers : \/ phase'[u] = phase[u] /\ job'[u] = job[u]
                           \/ /\ phase[u] \notin {"follow", "forget"}
                              /\ phase'[u] \notin {"follow", "forget"}
  PROVE  FollowShape'
BY DEF FollowShape, Watched, ManagerFree

\* A call ends.
LEMMA FollowDone ==
  ASSUME \A u \in Workers : phase'[u] \notin {"follow", "forget"}, following' = Watched'
  PROVE  FollowShape'
BY DEF FollowShape, ManagerFree

\* A call has to go on and stop the informer of k.
LEMMA ForgetNext ==
  ASSUME NEW w \in Workers, phase'[w] = "forget",
         \A u \in Workers : phase'[u] \in {"follow", "forget"} => u = w,
         NEW k \in Keys, k \notin Watched', following' = Watched' \cup {k}
  PROVE  FollowShape'
<1>1. \A u \in Workers : phase'[u] # "follow"
  OBVIOUS
<1>2. ~ManagerFree'
  BY DEF ManagerFree
<1>3. \E m \in Keys \ Watched' : following' = Watched' \cup {m}
  OBVIOUS
<1> QED
  BY <1>1, <1>2, <1>3 DEF FollowShape

LEMMA FollowStep ==
  ASSUME TInv, FollowShape, NEW w \in Workers, Worker(w)
  PROVE  [Next]_rwVars /\ FollowShape'
<1> DEFINE r == job[w].route
           k == job[w].secret
<1>1. /\ watch \in [Routes -> Keys \cup {None}] /\ following \in SUBSET Keys
      /\ phase \in [Workers -> {"get", "handle", "register", "follow", "forget"}]
      /\ job \in [Workers -> RouteEvent \cup {Nothing}]
  BY DEF TInv, ControllerTypeOK, TypeOK
<1>2. /\ phase[w] \in InHand => r \in Routes
      /\ phase[w] \in {"register", "follow"} => k \in Keys
  BY EventFields DEF TInv, JobShape, InHand
<1>3. CASE GetItem(w) \/ HandleAdded(w) \/ HandleModified(w)
  <2>1. /\ UNCHANGED rwVars
        /\ \A u \in Workers : \/ phase'[u] = phase[u] /\ job'[u] = job[u]
                             \/ /\ phase[u] \notin {"follow", "forget"}
                                /\ phase'[u] \notin {"follow", "forget"}
    BY <1>1, <1>3 DEF GetItem, HandleAdded, HandleModified, ItemDone
  <2> QED
    BY <2>1, FollowStays DEF rwVars
<1>4. CASE RegisterRoute(w)
  <2>1. phase[w] = "register" /\ ManagerFree /\ following = Watched
    BY <1>4 DEF RegisterRoute, FollowShape
  <2>2. CASE watch[r] # None
    <3>1. /\ UNCHANGED rwVars
          /\ \A u \in Workers : \/ phase'[u] = phase[u] /\ job'[u] = job[u]
                               \/ /\ phase[u] \notin {"follow", "forget"}
                                  /\ phase'[u] \notin {"follow", "forget"}
      BY <1>1, <1>4, <2>1, <2>2 DEF RegisterRoute, ItemDone
    <3> QED
      BY <3>1, FollowStays DEF rwVars
  <2>3. CASE watch[r] = None
    <3>1. /\ Follow(k) /\ job' = job
          /\ phase' = [phase EXCEPT ![w] = "follow"]
      BY <1>4, <2>3 DEF RegisterRoute
    <3>2. Next
      BY <1>2, <2>1, <3>1 DEF Next
    <3>3. Watched' = Watched /\ watch' = watch /\ following' = Watched \cup {k}
      BY <2>1, <3>1 DEF Follow, Watched
    <3>4. FollowShape'
      BY <1>1, <2>1, <2>3, <3>1, <3>3 DEF FollowShape, ManagerFree
    <3> QED
      BY <3>2, <3>4
  <2> QED
    BY <2>2, <2>3
<1>5. CASE RouteRegistered(w)
  <2>1. /\ phase[w] = "follow" /\ Register(r, k)
        /\ phase' = [phase EXCEPT ![w] = "get"]
    BY <1>5 DEF RouteRegistered, ItemDone
  <2>2. Next
    BY <1>2, <2>1 DEF Next, InHand
  <2>3. /\ following = Watched \cup {k} /\ following' = following
        /\ Watched' = Watched \cup {k}
    BY <1>1, <1>2, <2>1, WatchedAfter DEF Register, FollowShape, InHand
  <2>4. FollowShape'
    BY <1>1, <2>1, <2>3 DEF FollowShape, ManagerFree
  <2> QED
    BY <2>2, <2>4
<1>6. CASE HandleDeleted(w)
  <2>1. phase[w] = "handle" /\ ManagerFree /\ following = Watched
    BY <1>6 DEF HandleDeleted, FollowShape
  <2>2. CASE watch[r] = None
    <3>1. /\ UNCHANGED rwVars
          /\ \A u \in Workers : \/ phase'[u] = phase[u] /\ job'[u] = job[u]
                               \/ /\ phase[u] \notin {"follow", "forget"}
                                  /\ phase'[u] \notin {"follow", "forget"}
      BY <1>1, <1>6, <2>1, <2>2 DEF HandleDeleted, ItemDone
    <3> QED
      BY <3>1, FollowStays DEF rwVars
  <2>3. CASE watch[r] # None
    <3>1. /\ Unregister(r)
          /\ \/ /\ \E s \in Routes \ {r} : watch[s] = watch[r]
                /\ phase' = [phase EXCEPT ![w] = "get"]
             \/ /\ ~\E s \in Routes \ {r} : watch[s] = watch[r]
                /\ phase' = [phase EXCEPT ![w] = "forget"]
      BY <1>6, <2>3 DEF HandleDeleted, ItemDone
    <3>2. Next
      BY <1>2, <2>1, <3>1 DEF Next, InHand
    <3>3. /\ watch[r] \in Keys /\ watch[r] \in Watched
          /\ following' = Watched
          /\ Watched' = IF \E s \in Routes \ {r} : watch[s] = watch[r]
                        THEN Watched ELSE Watched \ {watch[r]}
      BY <1>1, <1>2, <2>1, <2>3, <3>1, WatchedAfter DEF Unregister, Watched, InHand
    <3>4. ASSUME phase' = [phase EXCEPT ![w] = "get"], Watched' = Watched
          PROVE  FollowShape'
      <4>1. \A u \in Workers : phase'[u] \notin {"follow", "forget"}
        BY <1>1, <2>1, <3>4 DEF ManagerFree
      <4> QED
        BY <3>3, <3>4, <4>1, FollowDone
    <3>5. ASSUME phase' = [phase EXCEPT ![w] = "forget"], Watched' = Watched \ {watch[r]}
          PROVE  FollowShape'
      <4>1. watch[r] \in Keys \ Watched' /\ following' = Watched' \cup {watch[r]}
        BY <3>3, <3>5
      <4>2. \A u \in Workers : phase'[u] \in {"follow", "forget"} <=> u = w
        BY <1>1, <2>1, <3>5 DEF ManagerFree
      <4>3. phase'[w] = "forget"
        BY <1>1, <3>5
      <4> QED
        BY <3>3, <4>1, <4>2, <4>3, ForgetNext
    <3>6. FollowShape'
      BY <3>1, <3>3, <3>4, <3>5
    <3> QED
      BY <3>2, <3>6
  <2> QED
    BY <2>2, <2>3
<1>7. CASE RouteForgotten(w)
  <2>1. PICK m \in following : Forget(m)
    BY <1>7 DEF RouteForgotten
  <2>2. phase[w] = "forget" /\ phase' = [phase EXCEPT ![w] = "get"]
    BY <1>7 DEF RouteForgotten, ItemDone
  <2>3. Next
    BY <1>1, <2>1 DEF Next
  <2>4. PICK n \in Keys \ Watched : following = Watched \cup {n}
    BY <2>2 DEF FollowShape
  <2>5. m \notin Watched /\ Watched' = Watched /\ following' = following \ {m}
    BY <2>1 DEF Forget, Watched
  <2>6. following' = Watched'
    BY <2>4, <2>5
  <2>7. FollowShape'
    BY <1>1, <2>2, <2>6 DEF FollowShape, ManagerFree
  <2> QED
    BY <2>3, <2>7
<1> QED
  BY <1>3, <1>4, <1>5, <1>6, <1>7 DEF Worker

LEMMA OthersLeaveManager ==
  ASSUME ControllerNext, ~\E w \in Workers : Worker(w)
  PROVE  UNCHANGED <<rwVars, phase, job>>
BY DEF ControllerNext, Environment, ChangeRoutes, ListRoutes, StartWorkers, RouteHandlers,
       AddFunc, UpdateFunc, DeleteFunc, SecretHandler, ChangeSecret, MissSecretDelete,
       workerVars

LEMMA FollowShapeStep ==
  TInv /\ FollowShape /\ [ControllerNext]_vars => [Next]_rwVars /\ FollowShape'
<1> SUFFICES ASSUME TInv, FollowShape, [ControllerNext]_vars
             PROVE  [Next]_rwVars /\ FollowShape'
  OBVIOUS
<1>1. CASE \E w \in Workers : Worker(w)
  BY <1>1, FollowStep
<1>2. CASE ~\E w \in Workers : Worker(w)
  <2>1. UNCHANGED <<rwVars, phase, job>>
    BY <1>2, OthersLeaveManager DEF vars, workerVars
  <2> QED
    BY <2>1, FollowStays DEF rwVars
<1> QED
  BY <1>1, <1>2

LEMMA FollowShapeAlways == ControllerSpec => []FollowShape
<1>1. ControllerInit => FollowShape
  BY DEF ControllerInit, Init, FollowShape, Watched, ManagerFree
<1> QED
  BY <1>1, FollowShapeStep, TInvAlways, PTL DEF ControllerSpec

\* The controller uses the Manager as RouteWatch allows: it registers no route that
\* watches a secret, and what it gives up is watched by none, however the workers and
\* the two halves of their calls are interleaved.
THEOREM ControllerFollowsRouteWatch == ControllerSpec => Spec
<1>1. ControllerInit => Init
  BY DEF ControllerInit
<1> QED
  BY <1>1, FollowShapeStep, FollowShapeAlways, TInvAlways, PTL DEF ControllerSpec, Spec

\* While no worker is inside the Manager, the secrets that are followed are those that
\* some route watches: none is missing, and none goes on for nothing.
FollowedIsWatched == ManagerFree => following = Watched

THEOREM ControllerFollowsWatched == ControllerSpec => []FollowedIsWatched
<1>1. FollowShape => FollowedIsWatched
  BY DEF FollowShape, FollowedIsWatched
<1> QED
  BY <1>1, FollowShapeAlways, PTL

-----------------------------------------------------------------------------
(* What the informer gives the program, and what one worker makes of it.      *)

\* The informer of the program is a RouteInformer, whatever the handlers do.
LEMMA ControllerIsInformer == ControllerSpec => RIP!Spec
<1>1. ControllerInit => RIP!Init
  BY DEF ControllerInit, RI!Init, RIP!Init
<1> QED
  BY <1>1, StepIsInformers, PTL DEF ControllerSpec, RIP!Spec

\* At rest, when no event is on its way, in the queue or in hand, each route watches the
\* secret that it names at the API server, and just those secrets are followed.
AtRest == ~crashed /\ RI!HasSynced /\ queue = <<>> /\ \A w \in Workers : phase[w] = "get"
WatchIsApi == AtRest => watch = api /\ following = {api[r] : r \in Routes} \ {None}

\* With one worker the program is never at rest in a wrong state, however often the
\* watch breaks: it is the safety half of Converges.
THEOREM ControllerAtRest ==
  ASSUME NEW w, Workers = {w}
  PROVE  ControllerSpec => []WatchIsApi
<1>1. ASSUME TInv, BacklogLeadsToKnown, FollowedIsWatched, RIP!KnownIsApi, AtRest
      PROVE  watch = api /\ following = {api[r] : r \in Routes} \ {None}
  <2>1. Backlog = <<>> /\ ManagerFree
    BY <1>1, BacklogOfOne DEF AtRest, InHand, ManagerFree
  <2>2. \A r \in Routes : Events(<<>>, "Added", r) = {} /\ Events(<<>>, "Deleted", r) = {}
    BY DEF Events
  <2>3. ASSUME NEW r \in Routes PROVE watch[r] = known[r]
    <3>1. LeadsTo(<<>>, r, watch[r], known[r])
      BY <1>1, <2>1 DEF BacklogLeadsToKnown, AtRest
    <3>2. Events(<<>>, "Added", r) \cup Events(<<>>, "Deleted", r) = {}
      BY <2>2
    <3> QED
      BY <3>1, <3>2 DEF LeadsTo
  <2>4. known = api
    BY <1>1 DEF AtRest, RIP!KnownIsApi, RI!HasSynced, RIP!HasSynced
  <2>5. watch = api
    BY <1>1, <2>3, <2>4 DEF TInv, ControllerTypeOK, TypeOK, RI!TypeOK
  <2> QED
    BY <1>1, <2>1, <2>5 DEF FollowedIsWatched, Watched
<1>2. TInv /\ BacklogLeadsToKnown /\ FollowedIsWatched /\ RIP!KnownIsApi => WatchIsApi
  BY <1>1 DEF WatchIsApi
<1>3. ControllerSpec => []BacklogLeadsToKnown
  BY EventsLeadToKnown
<1>4. None \notin Keys
  OBVIOUS
<1> QED
  BY <1>2, <1>3, <1>4, TInvAlways, ControllerFollowsWatched, ControllerIsInformer,
     RIP!InformerKnowsApi, PTL

\* While no watch breaks, no handler of routecontroller panics, for any number of
\* workers: tombstones are all that the handlers are not prepared for.
THEOREM ControllerUnbrokenNeverCrashes ==
  ASSUME MaxBreaks = 0
  PROVE  ControllerSpec => []NeverCrashes
<1>1. TInv /\ [ControllerNext]_vars => [watching => watching']_<<api, watching, deltas, known>>
  <2> SUFFICES ASSUME TInv, [ControllerNext]_vars, watching
               PROVE  watching'
    OBVIOUS
  <2>1. ~RI!BreakWatch
    BY DEF TInv, ControllerTypeOK, RI!TypeOK, RI!BreakWatch
  <2>2. CASE ChangeRoutes \/ ListRoutes
    BY <2>1, <2>2 DEF ChangeRoutes, ListRoutes, RI!ApiServer, RI!ChangeRoute, RI!List
  <2>3. ASSUME NEW r \in Routes, RouteHandlers(r)
        PROVE  watching'
    BY <2>3 DEF RouteHandlers, AddFunc, UpdateFunc, DeleteFunc, RI!Added, RI!Updated,
                RI!Removed, RI!Pop
  <2>4. CASE ~(ChangeRoutes \/ ListRoutes \/ \E r \in Routes : RouteHandlers(r))
    BY <2>4
    DEF ControllerNext, Environment, StartWorkers, SecretHandler, ChangeSecret,
        MissSecretDelete, Worker, GetItem, HandleAdded, RegisterRoute, RouteRegistered,
        HandleDeleted, RouteForgotten, HandleModified, informerVars, vars
  <2> QED
    BY <2>2, <2>3, <2>4
<1>2. ControllerSpec => []RIP!HeadIsNoTombstone
  <2>1. None \notin Keys
    OBVIOUS
  <2> QED
    BY <1>1, <2>1, TInvAlways, ControllerIsInformer, RIP!UnbrokenGivesNoTombstone, PTL
    DEF ControllerSpec
<1>3. TInv /\ RIP!HeadIsNoTombstone /\ NeverCrashes /\ [ControllerNext]_vars => NeverCrashes'
  <2> SUFFICES ASSUME TInv, RIP!HeadIsNoTombstone, ~crashed, [ControllerNext]_vars
               PROVE  ~crashed'
    BY DEF NeverCrashes
  <2>1. ASSUME NEW r \in Routes, DeleteFunc(r) PROVE ~crashed'
    BY <2>1 DEF DeleteFunc, RI!Removed, RI!Tombstone, RIP!HeadIsNoTombstone, RIP!Tombstone
  <2>2. ASSUME NEW k \in Keys, MissSecretDelete(k) PROVE FALSE
    BY <2>2 DEF MissSecretDelete, TInv, ControllerTypeOK, RI!TypeOK
  <2> QED
    BY <2>1, <2>2
    DEF ControllerNext, Environment, ChangeRoutes, ListRoutes, StartWorkers, RouteHandlers,
        AddFunc, UpdateFunc, SecretHandler, ChangeSecret, Worker, GetItem, HandleAdded,
        RegisterRoute, RouteRegistered, HandleDeleted, RouteForgotten, HandleModified, vars
<1>4. ControllerInit => NeverCrashes
  BY DEF ControllerInit, NeverCrashes
<1> QED
  BY <1>2, <1>3, <1>4, TInvAlways, PTL DEF ControllerSpec

-----------------------------------------------------------------------------
(* Changes of secrets, for one worker.                                        *)

\* A route whose secret has changed and was not read since is watched, and its handler
\* is still to be called or has queued the event that makes the worker read it.
ChangesArePending ==
  ~crashed =>
    \A r \in stale :
      watch[r] # None /\ (r \in notified \/ Events(Backlog, "Modified", r) # {})

\* Between WithSecretHandler and RegisterRoute nobody else sets the handler, so that
\* each registration calls the handler made for its route.
OwnHandler ==
  /\ \A r \in Routes : handlerOf[r] \in {r, None}
  /\ \A w \in Workers : phase[w] = "register" => secretHandler = job[w].route

LEMMA OwnHandlerStep ==
  ASSUME TInv, OwnHandler, NEW w, Workers = {w}, [ControllerNext]_vars
  PROVE  OwnHandler'
<1>1. /\ phase \in [Workers -> {"get", "handle", "register", "follow", "forget"}]
      /\ handlerOf \in [Routes -> Routes \cup {None}]
      /\ job \in [Workers -> RouteEvent \cup {Nothing}]
  BY DEF TInv, ControllerTypeOK
<1>2. CASE HandleAdded(w)
  BY <1>1, <1>2 DEF HandleAdded, OwnHandler, secretVars
<1>3. CASE RegisterRoute(w)
  <2>1. /\ secretHandler = job[w].route
        /\ handlerOf' \in {handlerOf, [handlerOf EXCEPT ![job[w].route] = secretHandler]}
        /\ phase'[w] # "register"
    BY <1>1, <1>3 DEF RegisterRoute, OwnHandler, ItemDone
  <2> QED
    BY <1>1, <2>1 DEF OwnHandler
<1>4. CASE GetItem(w) \/ RouteRegistered(w) \/ HandleDeleted(w) \/ RouteForgotten(w) \/ HandleModified(w)
  <2>1. UNCHANGED handlerOf /\ phase'[w] # "register"
    BY <1>1, <1>4
    DEF GetItem, RouteRegistered, HandleDeleted, RouteForgotten, HandleModified, ItemDone,
        secretVars
  <2> QED
    BY <2>1 DEF OwnHandler
<1>5. CASE UNCHANGED <<handlerOf, workerVars>>
  BY <1>5 DEF OwnHandler, workerVars
<1>6. CASE ~Worker(w)
  <2>1. UNCHANGED <<handlerOf, workerVars>>
    BY <1>6
    DEF ControllerNext, Environment, ChangeRoutes, ListRoutes, StartWorkers, RouteHandlers,
        AddFunc, UpdateFunc, DeleteFunc, SecretHandler, ChangeSecret, MissSecretDelete,
        secretVars, vars
  <2> QED
    BY <1>5, <2>1
<1> QED
  BY <1>2, <1>3, <1>4, <1>6 DEF Worker

\* An event that is queued stays, and one that is not in hand is not done.
LEMMA EventsGrow ==
  ASSUME NEW q \in Seq(RouteEvent), NEW e \in RouteEvent, NEW r
  PROVE  /\ Events(q, "Modified", r) # {} => Events(Append(q, e), "Modified", r) # {}
         /\ e.type = "Modified" /\ e.route = r
              => Events(Append(q, e), "Modified", r) # {}
         /\ Events(<<e>> \o q, "Modified", r) # {} /\ ~(e.type = "Modified" /\ e.route = r)
              => Events(q, "Modified", r) # {}
<1> DEFINE L == Len(q)
<1>1. /\ L \in Nat /\ DOMAIN q = 1..L
      /\ DOMAIN Append(q, e) = 1..(L + 1) /\ DOMAIN (<<e>> \o q) = 1..(L + 1)
      /\ \A n \in 1..L : Append(q, e)[n] = q[n]
      /\ Append(q, e)[L + 1] = e
      /\ (<<e>> \o q)[1] = e
      /\ \A n \in 1..(L + 1) : n # 1 => n - 1 \in 1..L /\ (<<e>> \o q)[n] = q[n - 1]
  OBVIOUS
<1> HIDE DEF L
<1>2. Events(q, "Modified", r) # {} => Events(Append(q, e), "Modified", r) # {}
  BY <1>1 DEF Events
<1>3. e.type = "Modified" /\ e.route = r => Events(Append(q, e), "Modified", r) # {}
  BY <1>1 DEF Events
<1>4. ASSUME Events(<<e>> \o q, "Modified", r) # {}, ~(e.type = "Modified" /\ e.route = r)
      PROVE  Events(q, "Modified", r) # {}
  <2>1. PICK n \in 1..(L + 1) :
          (<<e>> \o q)[n].type = "Modified" /\ (<<e>> \o q)[n].route = r
    BY <1>1, <1>4 DEF Events
  <2>2. n # 1
    BY <1>1, <1>4, <2>1
  <2> QED
    BY <1>1, <2>1, <2>2 DEF Events
<1> QED
  BY <1>2, <1>3, <1>4

\* What is appended to the queue is appended to the backlog.
LEMMA BacklogGrows ==
  ASSUME TInv, NEW w, Workers = {w}, NEW e \in RouteEvent,
         queue' = Append(queue, e), UNCHANGED <<job, phase>>
  PROVE  Backlog' = Append(Backlog, e) /\ Backlog \in Seq(RouteEvent)
<1> DEFINE E == RouteEvent
<1>1. queue \in Seq(E) /\ (phase[w] \in InHand => job[w] \in E) /\ e \in E
  BY DEF TInv, ControllerTypeOK, JobShape
<1> HIDE DEF E
<1>2. phase[w] \in InHand => <<job[w]>> \o Append(queue, e) = Append(<<job[w]>> \o queue, e)
  BY <1>1
<1> QED
  BY <1>2, BacklogOfOne, BacklogTyped

\* A handler of a route adds events; nothing else matters to a change.
LEMMA HandlersKeepPending ==
  ASSUME TInv, ChangesArePending, ~crashed, NEW w, Workers = {w}, NEW r \in Routes,
         RouteHandlers(r)
  PROVE  ChangesArePending'
<1> DEFINE E == RouteEvent
<1>1. UNCHANGED <<watch, notified, stale, job, phase>>
  BY DEF RouteHandlers, AddFunc, UpdateFunc, DeleteFunc, rwVars, workerVars, secretVars
<1>2. \/ UNCHANGED queue
      \/ \E e \in E : queue' = Append(queue, e)
      \/ \E d, a \in E : queue' = Append(Append(queue, d), a)
  <2>1. CASE AddFunc(r)
    BY <2>1 DEF AddFunc, NewAddedEvent, RouteEvent
  <2>2. CASE DeleteFunc(r)
    BY <2>2 DEF DeleteFunc, NewRouteEvent, RouteEvent
  <2>3. CASE UpdateFunc(r)
    <3>1. PICK k \in Keys : UNCHANGED queue \/ queue' = queue \o Rewatch(r, k)
      BY <2>3 DEF UpdateFunc
    <3>2. NewRouteEvent("Deleted", r) \in E /\ NewAddedEvent(r, k) \in E
      BY DEF NewRouteEvent, NewAddedEvent, RouteEvent
    <3>3. queue \in Seq(E)
      BY DEF TInv, ControllerTypeOK
    <3> HIDE DEF E
    <3>4. queue \o Rewatch(r, k)
            = Append(Append(queue, NewRouteEvent("Deleted", r)), NewAddedEvent(r, k))
      BY <3>2, <3>3 DEF Rewatch
    <3> QED
      BY <3>1, <3>2, <3>4
  <2> QED
    BY <2>1, <2>2, <2>3 DEF RouteHandlers
<1>3. ASSUME NEW s, Events(Backlog, "Modified", s) # {}
      PROVE  Events(Backlog', "Modified", s) # {}
  <2>1. CASE UNCHANGED queue
    BY <1>1, <1>3, <2>1, BacklogStays
  <2>2. ASSUME NEW e \in E, queue' = Append(queue, e)
        PROVE  Events(Backlog', "Modified", s) # {}
    BY <1>1, <1>3, <2>2, BacklogGrows, EventsGrow
  <2>3. ASSUME NEW d \in E, NEW a \in E, queue' = Append(Append(queue, d), a)
        PROVE  Events(Backlog', "Modified", s) # {}
    <3>1. /\ queue \in Seq(E) /\ (phase[w] \in InHand => job[w] \in E)
          /\ Backlog \in Seq(E)
      BY BacklogTyped DEF TInv, ControllerTypeOK, JobShape
    <3>2. Events(Append(Backlog, d), "Modified", s) # {}
      BY <1>3, <3>1, EventsGrow
    <3> HIDE DEF E
    <3>3. Append(Backlog, d) \in Seq(E)
      BY <3>1
    <3>4. Events(Append(Append(Backlog, d), a), "Modified", s) # {}
      BY <3>2, <3>3, EventsGrow DEF E
    <3>5. phase[w] \in InHand => <<job[w]>> \o Append(Append(queue, d), a)
                                   = Append(Append(<<job[w]>> \o queue, d), a)
      BY <3>1
    <3>6. Backlog' = Append(Append(Backlog, d), a)
      BY <1>1, <2>3, <3>5, BacklogOfOne
    <3> QED
      BY <3>4, <3>6
  <2> QED
    BY <1>2, <2>1, <2>2, <2>3
<1> QED
  BY <1>1, <1>3 DEF ChangesArePending

LEMMA SecretsKeepPending ==
  ASSUME TInv, OwnHandler, ChangesArePending, ~crashed, NEW w, Workers = {w},
         \/ \E k \in Keys : ChangeSecret(k) \/ MissSecretDelete(k)
         \/ \E r \in Routes : SecretHandler(r)
  PROVE  ChangesArePending'
<1>1. ASSUME NEW k \in Keys, ChangeSecret(k) PROVE ChangesArePending'
  <2>1. /\ UNCHANGED <<watch, job, phase, queue>>
        /\ notified' = notified \cup {r \in Routes : watch[r] = k}
        /\ stale' = stale \cup {r \in Routes : watch[r] = k}
    BY <1>1 DEF ChangeSecret, rwVars, workerVars
  <2>2. Backlog' = Backlog
    BY <2>1, BacklogStays
  <2> QED
    BY <2>1, <2>2 DEF ChangesArePending
<1>2. ASSUME NEW k \in Keys, MissSecretDelete(k) PROVE ChangesArePending'
  BY <1>2 DEF MissSecretDelete, ChangesArePending
<1>3. ASSUME NEW r \in Routes, SecretHandler(r) PROVE ChangesArePending'
  <2> DEFINE e == NewRouteEvent("Modified", handlerOf[r])
  <2>1. handlerOf[r] = r
    BY <1>3 DEF SecretHandler, OwnHandler, TInv, JobShape
  <2>2. e \in RouteEvent /\ e.type = "Modified" /\ e.route = r
    BY <2>1 DEF NewRouteEvent, RouteEvent
  <2>3. /\ queue' = Append(queue, e) /\ UNCHANGED <<watch, stale, job, phase>>
        /\ notified' = notified \ {r}
    BY <1>3 DEF SecretHandler, rwVars, workerVars
  <2> HIDE DEF e
  <2>4. \A s : s = r \/ Events(Backlog, "Modified", s) # {}
                => Events(Backlog', "Modified", s) # {}
    BY <2>2, <2>3, BacklogGrows, EventsGrow
  <2> QED
    BY <2>3, <2>4 DEF ChangesArePending
<1> QED
  BY <1>1, <1>2, <1>3

\* The event in hand is done, and if it is a Modified, its secret is read.
LEMMA DoneKeepsPending ==
  ASSUME TInv, ChangesArePending, ~crashed, NEW w, Workers = {w},
         phase[w] \in InHand, phase'[w] \notin InHand, queue' = queue,
         \A r \in stale' :
           /\ watch'[r] # None
           /\ \/ r \in notified'
              \/ /\ r \in stale /\ r \notin notified
                 /\ ~(job[w].type = "Modified" /\ job[w].route = r)
  PROVE  ChangesArePending'
<1>1. queue \in Seq(RouteEvent) /\ job[w] \in RouteEvent
  BY DEF TInv, ControllerTypeOK, JobShape
<1>2. Backlog = <<job[w]>> \o queue /\ Backlog' = queue
  BY BacklogOfOne
<1>3. \A r \in stale : r \notin notified => Events(<<job[w]>> \o queue, "Modified", r) # {}
  BY <1>2 DEF ChangesArePending
<1>4. \A r \in stale' : r \in notified' \/ Events(queue, "Modified", r) # {}
  BY <1>1, <1>3, EventsGrow
<1> QED
  BY <1>2, <1>4 DEF ChangesArePending

LEMMA WorkerKeepsPending ==
  ASSUME TInv, ChangesArePending, ~crashed, NEW w, Workers = {w}, Worker(w)
  PROVE  ChangesArePending'
<1> DEFINE r == job[w].route
<1>1. /\ phase \in [Workers -> {"get", "handle", "register", "follow", "forget"}]
      /\ job \in [Workers -> RouteEvent \cup {Nothing}]
      /\ watch \in [Routes -> Keys \cup {None}]
      /\ stale \subseteq Routes /\ w \in Workers
      /\ phase[w] \in InHand => r \in Routes /\ job[w] \in RouteEvent
      /\ \A s \in stale : watch[s] # None
  BY EventFields DEF TInv, ControllerTypeOK, TypeOK, JobShape, ChangesArePending
<1>2. CASE GetItem(w)
  BY <1>2, BacklogMoves DEF GetItem, rwVars, secretVars, ChangesArePending
<1>3. CASE HandleAdded(w) \/ RouteForgotten(w)
  BY <1>3, BacklogMoves
  DEF HandleAdded, RouteForgotten, Forget, rwVars, secretVars, ChangesArePending
<1>4. CASE RegisterRoute(w)
  <2>1. /\ phase[w] \in InHand /\ job[w].type = "Added"
        /\ UNCHANGED <<watch, queue, notified, stale>>
        /\ \/ phase' = [phase EXCEPT ![w] = "get"]
           \/ phase' = [phase EXCEPT ![w] = "follow"] /\ UNCHANGED job
    BY <1>4 DEF RegisterRoute, Follow, ItemDone, rwVars, InHand, TInv, JobShape
  <2>2. CASE phase' = [phase EXCEPT ![w] = "get"]
    BY <1>1, <2>1, <2>2, DoneKeepsPending DEF InHand
  <2>3. CASE phase' = [phase EXCEPT ![w] = "follow"] /\ UNCHANGED job
    <3>1. Backlog' = Backlog
      BY <1>1, <2>1, <2>3, BacklogOfOne DEF InHand
    <3> QED
      BY <2>1, <3>1 DEF ChangesArePending
  <2> QED
    BY <2>1, <2>2, <2>3
<1>5. CASE RouteRegistered(w)
  <2>1. /\ phase[w] \in InHand /\ job[w].type = "Added" /\ job[w].secret \in Keys
        /\ watch' = [watch EXCEPT ![r] = job[w].secret]
        /\ phase' = [phase EXCEPT ![w] = "get"] /\ queue' = queue
        /\ \/ notified' = notified \cup {r} /\ stale' = stale \cup {r}
           \/ notified' = notified /\ stale' = stale
    BY <1>5, EventFields
    DEF RouteRegistered, Register, ItemDone, InHand, TInv, JobShape
  <2> QED
    BY <1>1, <2>1, DoneKeepsPending DEF InHand
<1>6. CASE HandleDeleted(w)
  <2>1. /\ phase[w] \in InHand /\ job[w].type = "Deleted" /\ queue' = queue
        /\ phase' \in {[phase EXCEPT ![w] = "get"], [phase EXCEPT ![w] = "forget"]}
        /\ \/ UNCHANGED <<watch, notified, stale>>
           \/ /\ watch' = [watch EXCEPT ![r] = None]
              /\ notified' \in {notified, notified \ {r}}
              /\ stale' = stale \ {r}
    BY <1>6 DEF HandleDeleted, Unregister, ItemDone, InHand, rwVars
  <2> QED
    BY <1>1, <2>1, DoneKeepsPending DEF InHand
<1>7. CASE HandleModified(w)
  <2>1. /\ phase[w] \in InHand /\ job[w].type = "Modified"
        /\ UNCHANGED <<watch, queue, notified>>
        /\ stale' = IF watch[r] # None THEN stale \ {r} ELSE stale
        /\ phase' = [phase EXCEPT ![w] = "get"]
    BY <1>7 DEF HandleModified, ItemDone, InHand, rwVars
  <2> QED
    BY <1>1, <2>1, DoneKeepsPending DEF InHand
<1> QED
  BY <1>2, <1>3, <1>4, <1>5, <1>6, <1>7 DEF Worker

LEMMA PendingStep ==
  ASSUME TInv, OwnHandler, ChangesArePending, NEW w, Workers = {w}, [ControllerNext]_vars
  PROVE  ChangesArePending'
<1>1. CASE UNCHANGED vars
  <2>1. UNCHANGED <<phase, job, queue, watch, notified, stale, crashed>>
    BY <1>1 DEF vars, rwVars, workerVars, secretVars
  <2>2. Backlog' = Backlog
    BY <2>1, BacklogStays
  <2> QED
    BY <2>1, <2>2 DEF ChangesArePending
<1>2. CASE ControllerNext
  <2>1. ~crashed
    BY <1>2 DEF ControllerNext
  <2>2. CASE ChangeRoutes \/ ListRoutes \/ StartWorkers
    <3>1. UNCHANGED <<phase, job, queue, watch, notified, stale>>
      BY <2>2 DEF ChangeRoutes, ListRoutes, StartWorkers, rwVars, workerVars, secretVars
    <3>2. Backlog' = Backlog
      BY <3>1, BacklogStays
    <3> QED
      BY <2>1, <3>1, <3>2 DEF ChangesArePending
  <2> QED
    BY <1>2, <2>1, <2>2, HandlersKeepPending, SecretsKeepPending, WorkerKeepsPending
    DEF ControllerNext, Environment
<1> QED
  BY <1>1, <1>2

\* With one worker no change of a secret is forgotten on its way from the informer
\* through the handler and the queue to GetSecret, and each handler queues the event
\* for its own route: it is the safety half of ChangesAreRead.
THEOREM NoChangeIsForgotten ==
  ASSUME NEW w, Workers = {w}
  PROVE  ControllerSpec => []ChangesArePending
<1>1. ControllerInit => OwnHandler /\ ChangesArePending
  BY DEF ControllerInit, OwnHandler, ChangesArePending
<1>2. TInv /\ OwnHandler /\ [ControllerNext]_vars => OwnHandler'
  BY OwnHandlerStep
<1>3. TInv /\ OwnHandler /\ ChangesArePending /\ [ControllerNext]_vars => ChangesArePending'
  BY PendingStep
<1> QED
  BY <1>1, <1>2, <1>3, TInvAlways, PTL DEF ControllerSpec

=============================================================================
