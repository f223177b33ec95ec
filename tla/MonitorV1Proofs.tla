----------------------------- MODULE MonitorV1Proofs -----------------------------
(******************************************************************************)
(* Theorems about MonitorV1, for any routes, secrets, threads and bounds.     *)
(*                                                                            *)
(* RegisterRoute makes keys with the uid of the Route; purgeMonitors and      *)
(* GetSecret look under keys without one.  It is enough that no Route has an  *)
(* empty uid, and that None is no Object.                                     *)
(******************************************************************************)
EXTENDS MonitorV1, TLAPS

V1TypeOK ==
  /\ registeredObjects \in [Routes -> SUBSET Secrets]
  /\ monitors \in [Keys -> Objects \cup {None}]
  /\ refCount \in [Objects -> Nat]
  /\ stopped \in [Objects -> BOOLEAN]
  /\ runner \in [Objects -> {"none", "spawned", "running", "returned"}]

\* No monitor has a key that a look-up without a uid would find, and so none was ever
\* stopped or handed out.
KeyShape ==
  /\ \A k \in Keys : monitors[k] # None => k \in {Dummy} \X Routes
  /\ \A o \in Objects : ~stopped[o] /\ runner[o] # "returned"
  /\ \A t \in Threads : reading[t] = None

\* An Object in the map was started and is counted, and a route that is registered has
\* one.
MonitorShape ==
  /\ \A k \in Keys :
       monitors[k] # None => runner[monitors[k]] # "none" /\ refCount[monitors[k]] > 0
  /\ \A j, k \in Keys : monitors[j] # None /\ monitors[j] = monitors[k] => j = k
  /\ \A r \in Routes : registeredObjects[r] # {} =>
                         <<Dummy, r>> \in Keys /\ monitors[<<Dummy, r>>] # None

IInv == V1TypeOK /\ KeyShape /\ MonitorShape

\* purgeMonitors finds nothing: the maps and the counts stay as it was given them.
LEMMA PurgeFindsNothing ==
  ASSUME NoUid \notin Routes, IInv,
         NEW names \in SUBSET Secrets,
         NEW ms \in [Keys -> Objects \cup {None}],
         NEW refs \in [Objects -> Nat],
         \A k \in Keys : ms[k] # None => k \in {Dummy} \X Routes,
         Purge(names, ms, refs)
  PROVE  monitors' = ms /\ refCount' = refs /\ stopped' = stopped
<1> DEFINE hit == {k \in Keys : k[1] \in names /\ k[2] = NoUid /\ ms[k] # None}
           left == [o \in Objects |-> IF \E k \in hit : ms[k] = o THEN refs[o] - 1
                                                                  ELSE refs[o]]
           idle == {k \in hit : left[ms[k]] = 0}
<1>1. hit = {}
  OBVIOUS
<1>2. left = refs /\ idle = {}
  BY <1>1
<1>3. /\ refCount' = left
      /\ stopped' = [o \in Objects |-> stopped[o] \/ \E k \in idle : ms[k] = o]
      /\ monitors' = [k \in Keys |-> IF k \in idle THEN None ELSE ms[k]]
  BY DEF Purge
<1> HIDE DEF hit, left, idle
<1>4. \A o \in Objects : stopped[o] = FALSE
  BY DEF IInv, V1TypeOK, KeyShape
<1>5. \A o \in Objects : (stopped[o] \/ \E k \in idle : ms[k] = o) = FALSE
  BY <1>2, <1>4
<1>6. stopped' = stopped
  BY <1>3, <1>4, <1>5 DEF IInv, V1TypeOK
<1> QED
  BY <1>2, <1>3, <1>6

\* RegisterRoute counts up the Object of its own key, a new one or the one it had.
LEMMA RegisterEffect ==
  ASSUME NoUid \notin Routes, None \notin Objects, Dummy \in Secrets, IInv,
         NEW r \in Routes, NEW names \in SUBSET Secrets, RegisterRoute(r, names)
  PROVE  \E o \in Objects :
           /\ \/ monitors[<<Dummy, r>>] = o /\ UNCHANGED runner
              \/ /\ monitors[<<Dummy, r>>] = None /\ runner[o] = "none"
                 /\ runner' = [runner EXCEPT ![o] = "spawned"]
           /\ registeredObjects' = [registeredObjects EXCEPT ![r] = names]
           /\ monitors' = [monitors EXCEPT ![<<Dummy, r>>] = o]
           /\ refCount' = [refCount EXCEPT ![o] = @ + 1]
           /\ UNCHANGED <<stopped, reading>>
<1> DEFINE k == <<Dummy, r>>
<1>1. k \in Keys /\ k \in {Dummy} \X Routes
  BY DEF Keys
<1>2. PICK o \in Objects :
        /\ \/ monitors[k] = o /\ UNCHANGED runner
           \/ /\ monitors[k] = None /\ runner[o] = "none"
              /\ runner' = [runner EXCEPT ![o] = "spawned"]
        /\ registeredObjects' = [registeredObjects EXCEPT ![r] = names]
        /\ Purge(registeredObjects[r], [monitors EXCEPT ![k] = o],
                 [refCount EXCEPT ![o] = @ + 1])
        /\ UNCHANGED <<synced, reading>>
  BY DEF RegisterRoute
<1> DEFINE ms == [monitors EXCEPT ![k] = o]
           refs == [refCount EXCEPT ![o] = @ + 1]
<1>3. registeredObjects[r] \in SUBSET Secrets
  BY DEF IInv, V1TypeOK
<1>4. ms \in [Keys -> Objects \cup {None}] /\ refs \in [Objects -> Nat]
  BY <1>1 DEF IInv, V1TypeOK
<1>5. \A j \in Keys : ms[j] # None => j \in {Dummy} \X Routes
  BY <1>1 DEF IInv, V1TypeOK, KeyShape
<1>6. Purge(registeredObjects[r], ms, refs)
  BY <1>2
<1> HIDE DEF ms, refs, k
<1>7. monitors' = ms /\ refCount' = refs /\ stopped' = stopped
  BY <1>3, <1>4, <1>5, <1>6, PurgeFindsNothing
<1> QED
  BY <1>2, <1>7 DEF ms, refs, k

\* UnregisterRoute forgets the Route, and does no more.
LEMMA UnregisterEffect ==
  ASSUME NoUid \notin Routes, IInv, NEW r \in Routes, UnregisterRoute(r)
  PROVE  /\ registeredObjects' = [registeredObjects EXCEPT ![r] = {}]
         /\ UNCHANGED <<monitors, refCount, stopped, synced, runner, reading>>
BY PurgeFindsNothing DEF UnregisterRoute, IInv, V1TypeOK, KeyShape

LEMMA RegisterKeeps ==
  ASSUME NoUid \notin Routes, None \notin Objects, Dummy \in Secrets, IInv,
         NEW r \in Routes, NEW names \in SUBSET Secrets, RegisterRoute(r, names)
  PROVE  IInv'
<1> DEFINE k == <<Dummy, r>>
<1>1. PICK o \in Objects :
        /\ \/ monitors[k] = o /\ UNCHANGED runner
           \/ /\ monitors[k] = None /\ runner[o] = "none"
              /\ runner' = [runner EXCEPT ![o] = "spawned"]
        /\ registeredObjects' = [registeredObjects EXCEPT ![r] = names]
        /\ monitors' = [monitors EXCEPT ![k] = o]
        /\ refCount' = [refCount EXCEPT ![o] = @ + 1]
        /\ UNCHANGED <<stopped, reading>>
  BY RegisterEffect
<1>2. k \in Keys /\ k \in {Dummy} \X Routes
  BY DEF Keys
<1>3. ASSUME NEW s \in Routes, <<Dummy, s>> = k PROVE s = r
  BY <1>3
<1> HIDE DEF k
<1>4. V1TypeOK'
  BY <1>1, <1>2 DEF IInv, V1TypeOK
<1>5. KeyShape'
  BY <1>1, <1>2 DEF IInv, V1TypeOK, KeyShape
<1>6. MonitorShape'
  <2>1. \A j \in Keys : monitors'[j] # None =>
                          runner'[monitors'[j]] # "none" /\ refCount'[monitors'[j]] > 0
    BY <1>1, <1>2 DEF IInv, V1TypeOK, MonitorShape
  <2>2. \A j \in Keys : j # k => monitors[j] # o
    BY <1>1, <1>2 DEF IInv, V1TypeOK, MonitorShape
  <2>3. \A i, j \in Keys : monitors'[i] # None /\ monitors'[i] = monitors'[j] => i = j
    BY <1>1, <1>2, <2>2 DEF IInv, V1TypeOK, MonitorShape
  <2>4. ASSUME NEW s \in Routes, registeredObjects'[s] # {}
        PROVE  <<Dummy, s>> \in Keys /\ monitors'[<<Dummy, s>>] # None
    <3>1. <<Dummy, s>> \in Keys
      BY DEF Keys
    <3>2. CASE s = r
      BY <1>1, <1>2, <3>1, <3>2 DEF IInv, V1TypeOK, k
    <3>3. CASE s # r
      BY <1>1, <1>2, <1>3, <2>4, <3>1, <3>3 DEF IInv, V1TypeOK, MonitorShape
    <3> QED
      BY <3>2, <3>3
  <2> QED
    BY <2>1, <2>3, <2>4 DEF MonitorShape
<1> QED
  BY <1>4, <1>5, <1>6 DEF IInv

\* GetSecret never gets as far as to have an Object.
LEMMA GetFindsNothing ==
  ASSUME NoUid \notin Routes, IInv, NEW t \in Threads, NEW s \in Secrets
  PROVE  ~GetSecret(t, s) /\ ~GetSecretReturn(t)
<1>1. <<s, NoUid>> \in Keys /\ <<s, NoUid>> \notin {Dummy} \X Routes
  BY DEF Keys
<1> QED
  BY <1>1 DEF GetSecret, GetSecretReturn, IInv, KeyShape

LEMMA GoroutineKeeps ==
  ASSUME IInv, NEW o \in Objects,
         StartInformer(o) \/ InformerSync(o) \/ InformerExit(o)
  PROVE  IInv'
BY DEF IInv, V1TypeOK, KeyShape, MonitorShape, StartInformer, InformerSync, InformerExit

LEMMA IInvInit == Init => IInv
BY DEF Init, IInv, V1TypeOK, KeyShape, MonitorShape

LEMMA IInvStep ==
  ASSUME NoUid \notin Routes, None \notin Objects, Dummy \in Secrets, IInv, [Next]_vars
  PROVE  IInv'
<1>1. ASSUME NEW r \in Routes, UnregisterRoute(r) PROVE IInv'
  BY <1>1, UnregisterEffect DEF IInv, V1TypeOK, KeyShape, MonitorShape
<1>2. CASE UNCHANGED vars
  BY <1>2 DEF vars, IInv, V1TypeOK, KeyShape, MonitorShape
<1>3. ASSUME NEW t \in Threads, GetSecretReturn(t) PROVE FALSE
  BY <1>3, GetFindsNothing
<1> QED
  BY <1>1, <1>2, <1>3, RegisterKeeps, GetFindsNothing, GoroutineKeeps DEF Next

LEMMA Invariance ==
  ASSUME NoUid \notin Routes, None \notin Objects, Dummy \in Secrets
  PROVE  Spec => []IInv
<1>1. IInv /\ [Next]_vars => IInv'
  BY IInvStep
<1> QED
  BY <1>1, IInvInit, PTL DEF Spec

-----------------------------------------------------------------------------

\* A route that is registered has a monitor of its own, which was not stopped,
\* whatever the routes refer to and however they come and go.
RegisteredIsFollowed ==
  \A r \in Routes :
    registeredObjects[r] # {} =>
      /\ monitors[<<Dummy, r>>] # None
      /\ ~stopped[monitors[<<Dummy, r>>]]
      /\ \A k \in Keys : monitors[k] = monitors[<<Dummy, r>>] => k = <<Dummy, r>>

THEOREM V1RegisteredIsFollowed ==
  ASSUME NoUid \notin Routes, None \notin Objects, Dummy \in Secrets
  PROVE  Spec => []RegisteredIsFollowed
<1>1. IInv => RegisteredIsFollowed
  BY DEF IInv, V1TypeOK, KeyShape, MonitorShape, RegisteredIsFollowed
<1> QED
  BY <1>1, Invariance, PTL

\* But what MonitorV1Unregister shows of one step holds for good: no monitor ever goes
\* from the map, no count ever falls, and no informer is ever stopped, whoever is
\* unregistered.
NothingIsReleased ==
  [][/\ \A k \in Keys : monitors[k] # None => monitors'[k] = monitors[k]
     /\ \A o \in Objects : refCount'[o] >= refCount[o] /\ ~stopped'[o]]_vars

THEOREM V1ReleasesNothing ==
  ASSUME NoUid \notin Routes, None \notin Objects, Dummy \in Secrets
  PROVE  Spec => NothingIsReleased
<1> DEFINE Kept == /\ \A k \in Keys : monitors[k] # None => monitors'[k] = monitors[k]
                   /\ \A o \in Objects : refCount'[o] >= refCount[o] /\ ~stopped'[o]
<1>1. ASSUME IInv, Next PROVE Kept
  <2> USE <1>1
  <2>1. \A o \in Objects : ~stopped'[o]
    BY IInvStep DEF IInv, KeyShape
  <2>2. ASSUME NEW r \in Routes, NEW names \in SUBSET Secrets, RegisterRoute(r, names)
        PROVE  Kept
    <3>1. PICK o \in Objects :
            /\ monitors[<<Dummy, r>>] = o \/ monitors[<<Dummy, r>>] = None
            /\ monitors' = [monitors EXCEPT ![<<Dummy, r>>] = o]
            /\ refCount' = [refCount EXCEPT ![o] = @ + 1]
      BY <2>2, RegisterEffect
    <3>2. \A k \in Keys : monitors[k] # None => monitors'[k] = monitors[k]
      BY <3>1 DEF IInv, V1TypeOK
    <3>3. \A x \in Objects : refCount'[x] >= refCount[x]
      BY <3>1 DEF IInv, V1TypeOK
    <3> QED
      BY <2>1, <3>2, <3>3
  <2>3. CASE UNCHANGED <<monitors, refCount>>
    BY <2>1, <2>3 DEF IInv, V1TypeOK
  <2> QED
    BY <2>2, <2>3, UnregisterEffect
    DEF Next, GetSecret, GetSecretReturn, StartInformer, InformerSync, InformerExit
<1>2. IInv /\ [Next]_vars => [Kept]_vars
  BY <1>1
<1> QED
  BY <1>2, Invariance, PTL DEF Spec, NothingIsReleased

\* And GetSecret never finds what RegisterRoute has entered, whatever it is asked for:
\* it always ends in "not registered".
NothingIsFound == \A s \in Secrets : monitors[<<s, NoUid>>] = None

THEOREM V1FindsNothing ==
  ASSUME NoUid \notin Routes, None \notin Objects, Dummy \in Secrets
  PROVE  Spec => []NothingIsFound
<1>1. ASSUME IInv, NEW s \in Secrets PROVE monitors[<<s, NoUid>>] = None
  <2>1. <<s, NoUid>> \in Keys /\ <<s, NoUid>> \notin {Dummy} \X Routes
    BY DEF Keys
  <2> QED
    BY <1>1, <2>1 DEF IInv, KeyShape
<1>2. IInv => NothingIsFound
  BY <1>1 DEF NothingIsFound
<1> QED
  BY <1>2, Invariance, PTL

=============================================================================
