--------------------------- MODULE SecretMonitorProofs ---------------------------
(******************************************************************************)
(* Theorems about SecretMonitor: for any number of keys, items, handlers,     *)
(* threads and contexts, first whether or not contexts are cancelled, then if *)
(* none can be.  The *Keeps lemmas say that one action preserves IInv.        *)
(******************************************************************************)
EXTENDS SecretMonitor, FiniteSetTheorems, TLAPS

-----------------------------------------------------------------------------
(* The inductive invariant: the checked invariants of SecretMonitor, and what *)
(* ties the control state of items and threads to the maps they rely on.      *)

\* An item is created with its context before its goroutine starts, "not started"
\* counts as stopped, and once started it is stopped exactly when its channel is closed.
ItemShape ==
  \A i \in Items :
    /\ itemKey[i] = None <=> starter[i] = "none"
    /\ itemKey[i] = None => itemCtx[i] = None
    /\ starter[i] \in {"none", "spawned"} => stopped[i] /\ stopCh[i] = "open"
    /\ starter[i] \notin {"none", "spawned"} => (stopped[i] <=> stopCh[i] = "closed")
    /\ starter[i] = "returned" => stopped[i]
    /\ synced[i] => starter[i] \in {"running", "returned"}

\* s.monitors holds items under their own key, after their first sync.
MapShape ==
  \A k \in Keys :
    monitors[k] # None => itemKey[monitors[k]] = k /\ synced[monitors[k]]

\* Registrations are issued by items that have synced.
RegShape ==
  /\ listening \subseteq held
  /\ \A h \in Handles :
       /\ reg[h] = None => h \notin held
       /\ reg[h] # None => synced[reg[h]]

\* The item a thread works on is the one in s.monitors, or, before the first
\* sync, is going to be; a registration being read is in use.
ThreadShape ==
  \A t \in Threads :
    /\ pc[t] = "idle" <=> mon[t] = None
    /\ pc[t] # "idle" => itemKey[mon[t]] # None
    /\ pc[t] = "waitSync" => monitors[itemKey[mon[t]]] = None
    /\ pc[t] \in {"attach", "stop", "get"} => monitors[itemKey[mon[t]]] = mon[t]
    /\ pc[t] = "stop" => numHandlers[mon[t]] = 0
    /\ pc[t] = "get" => arg[t] \in held /\ reg[arg[t]] = mon[t]

\* One writer, or any number of readers, is inside s.lock.
Exclusive ==
  \A t, u \in Threads :
    /\ pc[t] \in {"waitSync", "attach", "stop"}
    /\ u # t
    => pc[u] = "idle"

IInv ==
  /\ TypeOK
  /\ ItemShape
  /\ MapShape
  /\ RegShape
  /\ ThreadShape
  /\ Exclusive
  /\ CountMatchesHeld
  /\ HeldIsMonitored
  /\ HeldIsListening
  /\ NoLeakedInformer

\* The registrations on an item are finitely many.
LEMMA HeldOnFinite ==
  ASSUME TypeOK, NEW i \in Items
  PROVE  IsFiniteSet(HeldOn(i)) /\ Cardinality(HeldOn(i)) \in Nat
<1>1. HeldOn(i) \subseteq Handles
  BY DEF TypeOK, HeldOn
<1> QED
  BY <1>1, SecretMonitorAssumption, FS_Subset, FS_CardinalityType

\* A call of AddSecretEventHandler takes s.lock and finds or creates its item.
LEMMA AddSecretEventHandlerKeeps ==
  ASSUME IInv, NEW t \in Threads, NEW k \in Keys, NEW c \in Contexts,
         AddSecretEventHandler(t, k, c)
  PROVE  IInv'
<1>1. TypeOK'
  BY DEF IInv, TypeOK, AddSecretEventHandler, CanLock, itemVars, handlerVars
<1>2. ItemShape'
  BY SecretMonitorAssumption
  DEF IInv, TypeOK, ItemShape, AddSecretEventHandler, CanLock, itemVars,
      handlerVars
<1>3. MapShape'
  BY SecretMonitorAssumption
  DEF IInv, TypeOK, MapShape, AddSecretEventHandler, CanLock, itemVars,
      handlerVars
<1>4. ThreadShape'
  BY SecretMonitorAssumption
  DEF IInv, TypeOK, MapShape, ThreadShape, AddSecretEventHandler, CanLock,
      itemVars, handlerVars
<1>5. Exclusive'
  BY DEF IInv, TypeOK, Exclusive, AddSecretEventHandler, CanLock, itemVars,
         handlerVars
<1>6. HeldIsMonitored'
  BY DEF IInv, TypeOK, ItemShape, RegShape, HeldIsMonitored,
         AddSecretEventHandler, CanLock, itemVars, handlerVars
<1>7. NoLeakedInformer'
  BY SecretMonitorAssumption
  DEF IInv, TypeOK, ThreadShape, NoLeakedInformer, AddSecretEventHandler, CanLock,
      itemVars, handlerVars
<1>8. RegShape' /\ CountMatchesHeld' /\ HeldIsListening'
  BY DEF IInv, RegShape, CountMatchesHeld, HeldIsListening, HeldOn,
         AddSecretEventHandler, CanLock, itemVars, handlerVars
<1> QED
  BY <1>1, <1>2, <1>3, <1>4, <1>5, <1>6, <1>7, <1>8 DEF IInv

\* The new item goes into s.monitors after its first sync.
LEMMA AwaitSyncKeeps ==
  ASSUME IInv, NEW t \in Threads, AwaitSync(t)
  PROVE  IInv'
<1>1. TypeOK'
  BY DEF IInv, TypeOK, AwaitSync, itemVars, handlerVars
<1>2. MapShape'
  BY DEF IInv, TypeOK, MapShape, AwaitSync, itemVars, handlerVars
<1>3. ThreadShape'
  BY DEF IInv, TypeOK, ThreadShape, Exclusive, AwaitSync, itemVars, handlerVars
<1>4. Exclusive'
  BY DEF IInv, TypeOK, Exclusive, AwaitSync, itemVars, handlerVars
<1>5. HeldIsMonitored'
  BY DEF IInv, TypeOK, RegShape, ThreadShape, HeldIsMonitored, AwaitSync,
         itemVars, handlerVars
<1>6. NoLeakedInformer'
  BY SecretMonitorAssumption
  DEF IInv, TypeOK, ThreadShape, NoLeakedInformer, AwaitSync, itemVars,
      handlerVars
<1>7. ItemShape' /\ RegShape' /\ CountMatchesHeld' /\ HeldIsListening'
  BY DEF IInv, ItemShape, RegShape, CountMatchesHeld, HeldIsListening, HeldOn,
         AwaitSync, itemVars, handlerVars
<1> QED
  BY <1>1, <1>2, <1>3, <1>4, <1>5, <1>6, <1>7 DEF IInv

\* The item issues a registration and counts it.
LEMMA AttachHandlerKeeps ==
  ASSUME IInv, NEW t \in Threads, NEW h \in Handles,
         AttachHandler(t, h)
  PROVE  IInv'
<1>1. TypeOK'
  BY DEF IInv, TypeOK, ThreadShape, AttachHandler, AddEventHandler, Return
<1>2. RegShape'
  BY DEF IInv, TypeOK, MapShape, RegShape, ThreadShape, AttachHandler,
         AddEventHandler, Return
<1>3. ThreadShape'
  BY DEF IInv, TypeOK, ThreadShape, Exclusive, AttachHandler, Return
<1>4. Exclusive'
  BY DEF IInv, TypeOK, Exclusive, AttachHandler, Return
<1>5. CountMatchesHeld'
  <2>1. PICK m \in Items : m = mon[t]
    BY DEF IInv, TypeOK, ThreadShape, AttachHandler
  <2>2. HeldOn(m)' = HeldOn(m) \cup {h} /\ h \notin HeldOn(m)
    BY <2>1, SecretMonitorAssumption DEF IInv, TypeOK, HeldOn, AttachHandler
  <2>3. Cardinality(HeldOn(m)') = Cardinality(HeldOn(m)) + 1
    BY <2>2, HeldOnFinite, FS_AddElement DEF IInv
  <2>4. ASSUME NEW i \in Items, i # m PROVE HeldOn(i)' = HeldOn(i)
    BY <2>1, <2>4 DEF IInv, TypeOK, RegShape, HeldOn, AttachHandler
  <2> QED
    BY <2>1, <2>3, <2>4 DEF IInv, TypeOK, CountMatchesHeld, AttachHandler
<1>6. HeldIsMonitored'
  BY DEF IInv, TypeOK, ThreadShape, HeldIsMonitored, AttachHandler, Return
<1>7. HeldIsListening'
  BY DEF IInv, TypeOK, HeldIsListening, AttachHandler, AddEventHandler, Return
<1>8. NoLeakedInformer'
  BY DEF IInv, TypeOK, ThreadShape, NoLeakedInformer, AttachHandler, Return
<1>9. ItemShape' /\ MapShape'
  BY DEF IInv, ItemShape, MapShape, AttachHandler, Return
<1> QED
  BY <1>1, <1>2, <1>3, <1>4, <1>5, <1>6, <1>7, <1>8, <1>9 DEF IInv

\* A stopped item refuses the handler.
LEMMA AttachRefusedKeeps ==
  ASSUME IInv, NEW t \in Threads, AttachRefused(t)
  PROVE  IInv'
<1>1. TypeOK'
  BY DEF IInv, TypeOK, AttachRefused, Return, itemVars, handlerVars
<1>2. ThreadShape'
  BY DEF IInv, TypeOK, ThreadShape, AttachRefused, Return, itemVars, handlerVars
<1>3. Exclusive'
  BY DEF IInv, TypeOK, Exclusive, AttachRefused, Return, itemVars, handlerVars
<1>4. NoLeakedInformer'
  BY DEF IInv, TypeOK, ThreadShape, NoLeakedInformer, AttachRefused, Return,
         itemVars, handlerVars
<1>5. /\ ItemShape' /\ MapShape' /\ RegShape'
      /\ CountMatchesHeld' /\ HeldIsMonitored' /\ HeldIsListening'
  BY DEF IInv, ItemShape, MapShape, RegShape, CountMatchesHeld, HeldIsMonitored,
         HeldIsListening, HeldOn, AttachRefused, Return, itemVars, handlerVars
<1> QED
  BY <1>1, <1>2, <1>3, <1>4, <1>5 DEF IInv

\* What RemoveSecretEventHandler does: the item it finds under the key is the one that
\* the registration was issued by, and the last handler's removal goes on to stop it.
LEMMA RemoveEffect ==
  ASSUME IInv, NEW t \in Threads, NEW h \in held, RemoveSecretEventHandler(t, h)
  PROVE  LET m == reg[h]
         IN /\ h \in Handles /\ m \in Items
            /\ itemKey[m] \in Keys /\ monitors[itemKey[m]] = m
            /\ ~stopped[m]
            /\ \A u \in Threads : pc[u] = "idle"
            /\ held' = held \ {h}
            /\ listening' = listening \ ({h} \cap HandlersOf(m))
            /\ numHandlers' = [numHandlers EXCEPT ![m] = @ - 1]
            /\ \/ /\ numHandlers[m] - 1 <= 0
                  /\ pc' = [pc EXCEPT ![t] = "stop"]
                  /\ mon' = [mon EXCEPT ![t] = m]
               \/ /\ numHandlers[m] - 1 > 0
                  /\ UNCHANGED <<pc, mon>>
            /\ UNCHANGED <<monitors, itemKey, itemCtx, stopped, stopCh, starter, watcher,
                           synced, ctxDone, reg, pending, arg>>
<1> DEFINE m == reg[h]
<1>1. h \in Handles /\ m \in Items
  BY DEF IInv, TypeOK, RegShape
<1>2. itemKey[m] \in Keys /\ monitors[itemKey[m]] = m
  BY <1>1 DEF IInv, TypeOK, ItemShape, RegShape, HeldIsMonitored
<1>3. /\ CanLock
      /\ RemoveEventHandler(m, h)
      /\ held' = held \ {h}
      /\ numHandlers' = [numHandlers EXCEPT ![m] = @ - 1]
      /\ \/ /\ IsLastHandler(m)
            /\ pc' = [pc EXCEPT ![t] = "stop"]
            /\ mon' = [mon EXCEPT ![t] = m]
         \/ ~IsLastHandler(m) /\ UNCHANGED <<pc, mon>>
      /\ UNCHANGED <<monitors, itemKey, itemCtx, stopped, stopCh, starter, watcher,
                     synced, ctxDone, reg, pending, arg>>
  BY <1>2 DEF RemoveSecretEventHandler
<1>4. numHandlers[m] \in Nat
  BY <1>1 DEF IInv, TypeOK
<1>5. ~IsLastHandler(m) => numHandlers[m] - 1 > 0
  BY <1>4 DEF IsLastHandler
<1> HIDE DEF m
<1>6. \/ /\ numHandlers[m] - 1 <= 0
         /\ pc' = [pc EXCEPT ![t] = "stop"]
         /\ mon' = [mon EXCEPT ![t] = m]
      \/ /\ numHandlers[m] - 1 > 0
         /\ UNCHANGED <<pc, mon>>
  BY <1>3, <1>5 DEF IsLastHandler
<1>7. \A u \in Threads : pc[u] = "idle"
  BY <1>3 DEF CanLock
<1>8. ~stopped[m] /\ listening' = listening \ ({h} \cap HandlersOf(m))
  BY <1>3 DEF RemoveEventHandler
<1> QED
  BY <1>1, <1>2, <1>3, <1>6, <1>7, <1>8 DEF m

\* A registration that is held is removed from its own item, and counted out.
LEMMA RemoveSecretEventHandlerKeeps ==
  ASSUME IInv, NEW t \in Threads, NEW h \in held,
         RemoveSecretEventHandler(t, h)
  PROVE  IInv'
<1> DEFINE m == reg[h]
<1>a. /\ m \in Items /\ itemKey[m] \in Keys
      /\ monitors[itemKey[m]] = m
  BY RemoveEffect
<1>b. HeldOn(m)' = HeldOn(m) \ {h} /\ h \in HeldOn(m)
  BY RemoveEffect DEF HeldOn
<1>e. /\ held' = held \ {h}
      /\ listening' = listening \ ({h} \cap HandlersOf(m))
      /\ numHandlers' = [numHandlers EXCEPT ![m] = @ - 1]
      /\ UNCHANGED <<monitors, itemKey, itemCtx, stopped, stopCh, starter, watcher,
                     synced, ctxDone, reg, pending, arg>>
  BY RemoveEffect
<1>f. \A u \in Threads : pc[u] = "idle"
  BY RemoveEffect
<1>g. \/ /\ numHandlers[m] - 1 <= 0
         /\ pc' = [pc EXCEPT ![t] = "stop"]
         /\ mon' = [mon EXCEPT ![t] = m]
      \/ UNCHANGED <<pc, mon>>
  BY RemoveEffect
<1>c. Cardinality(HeldOn(m)') = Cardinality(HeldOn(m)) - 1
  BY <1>a, <1>b, HeldOnFinite, FS_RemoveElement DEF IInv
<1>d. /\ Cardinality(HeldOn(m)) \in Nat \ {0}
      /\ numHandlers[m] = Cardinality(HeldOn(m))
  BY <1>a, <1>b, HeldOnFinite, FS_EmptySet DEF IInv, CountMatchesHeld
<1>1. TypeOK'
  <2>1. numHandlers[m] - 1 \in Nat
    BY <1>d
  <2> QED
    BY <1>a, <1>e, <1>g, <2>1 DEF IInv, TypeOK
<1>2. RegShape'
  BY <1>e DEF IInv, TypeOK, RegShape, HandlersOf
<1>3. ThreadShape'
  <2>1. CASE UNCHANGED <<pc, mon>>
    BY <1>e, <1>f, <2>1 DEF IInv, ThreadShape
  <2>2. CASE /\ numHandlers[m] - 1 <= 0
             /\ pc' = [pc EXCEPT ![t] = "stop"]
             /\ mon' = [mon EXCEPT ![t] = m]
    <3>1. numHandlers[m] - 1 = 0
      BY <1>d, <2>2
    <3>2. numHandlers'[m] = 0
      BY <1>a, <1>e, <3>1 DEF IInv, TypeOK
    <3> QED
      BY <1>a, <1>e, <1>f, <2>2, <3>2, SecretMonitorAssumption
      DEF IInv, TypeOK, ThreadShape
  <2> QED
    BY <1>g, <2>1, <2>2
<1>4. Exclusive'
  BY <1>f, <1>g DEF IInv, TypeOK, Exclusive
<1>5. CountMatchesHeld'
  <2>1. ASSUME NEW i \in Items, i # m PROVE HeldOn(i)' = HeldOn(i)
    BY <1>e, <2>1 DEF HeldOn
  <2> QED
    BY <1>a, <1>c, <1>e, <2>1 DEF IInv, TypeOK, CountMatchesHeld
<1>6. HeldIsMonitored'
  BY <1>e DEF IInv, HeldIsMonitored
<1>7. HeldIsListening'
  BY <1>e DEF IInv, HeldIsListening
<1>8. NoLeakedInformer'
  BY <1>e, <1>f, SecretMonitorAssumption DEF IInv, TypeOK, ThreadShape, NoLeakedInformer
<1>9. ItemShape' /\ MapShape'
  BY <1>e DEF IInv, ItemShape, MapShape
<1> QED
  BY <1>1, <1>2, <1>3, <1>4, <1>5, <1>6, <1>7, <1>8, <1>9 DEF IInv

\* The item that has lost its last handler is stopped and forgotten.
LEMMA StopMonitorKeeps ==
  ASSUME IInv, NEW t \in Threads, StopMonitor(t)
  PROVE  IInv'
<1>1. TypeOK'
  BY DEF IInv, TypeOK, StopMonitor, StopInformer, Return, handlerVars
<1>2. ItemShape'
  BY DEF IInv, TypeOK, ItemShape, StopMonitor, StopInformer, Return, handlerVars
<1>3. MapShape'
  BY DEF IInv, TypeOK, MapShape, StopMonitor, StopInformer, Return, handlerVars
<1>4. ThreadShape'
  BY DEF IInv, TypeOK, ThreadShape, Exclusive, StopMonitor, StopInformer, Return,
         handlerVars
<1>5. Exclusive'
  BY DEF IInv, TypeOK, Exclusive, StopMonitor, StopInformer, Return, handlerVars
<1>6. HeldIsMonitored'
  <2>1. mon[t] \in Items /\ HeldOn(mon[t]) = {}
    BY HeldOnFinite, FS_EmptySet
    DEF IInv, TypeOK, ThreadShape, CountMatchesHeld, StopMonitor
  <2> QED
    BY <2>1
    DEF IInv, TypeOK, ThreadShape, HeldIsMonitored, HeldOn, StopMonitor,
        handlerVars
<1>7. HeldIsListening'
  BY DEF IInv, TypeOK, HeldIsListening, StopMonitor, StopInformer, Return,
         handlerVars
<1>8. NoLeakedInformer'
  BY DEF IInv, TypeOK, ItemShape, MapShape, ThreadShape, NoLeakedInformer,
         StopMonitor, StopInformer, Return, handlerVars
<1>9. RegShape' /\ CountMatchesHeld'
  BY DEF IInv, RegShape, CountMatchesHeld, HeldOn, StopMonitor, StopInformer,
         Return, handlerVars
<1> QED
  BY <1>1, <1>2, <1>3, <1>4, <1>5, <1>6, <1>7, <1>8, <1>9 DEF IInv

\* GetSecret takes the read lock and finds its item.
LEMMA GetSecretKeeps ==
  ASSUME IInv, NEW t \in Threads, NEW h \in held,
         GetSecret(t, h)
  PROVE  IInv'
<1>1. TypeOK'
  BY DEF IInv, TypeOK, ItemShape, RegShape, GetSecret, CanRLock, itemVars,
         handlerVars
<1>2. ThreadShape'
  <2>1. /\ reg[h] \in Items /\ itemKey[reg[h]] \in Keys
        /\ monitors[itemKey[reg[h]]] = reg[h]
    BY DEF IInv, TypeOK, ItemShape, RegShape, HeldIsMonitored, GetSecret
  <2> QED
    BY <2>1, SecretMonitorAssumption
    DEF IInv, TypeOK, ThreadShape, GetSecret, CanRLock, itemVars, handlerVars
<1>3. Exclusive'
  BY DEF IInv, TypeOK, Exclusive, GetSecret, CanRLock, itemVars, handlerVars
<1>4. NoLeakedInformer'
  BY SecretMonitorAssumption
  DEF IInv, TypeOK, ThreadShape, NoLeakedInformer, GetSecret, CanRLock, itemVars,
      handlerVars
<1>5. /\ ItemShape' /\ MapShape' /\ RegShape'
      /\ CountMatchesHeld' /\ HeldIsMonitored' /\ HeldIsListening'
  BY DEF IInv, ItemShape, MapShape, RegShape, CountMatchesHeld, HeldIsMonitored,
         HeldIsListening, HeldOn, GetSecret, CanRLock, itemVars, handlerVars
<1> QED
  BY <1>1, <1>2, <1>3, <1>4, <1>5 DEF IInv

\* GetSecret returns.
LEMMA GetSecretReturnKeeps ==
  ASSUME IInv, NEW t \in Threads, GetSecretReturn(t)
  PROVE  IInv'
<1>1. TypeOK'
  BY DEF IInv, TypeOK, GetSecretReturn, Return, itemVars, handlerVars
<1>2. ThreadShape'
  BY DEF IInv, TypeOK, ThreadShape, GetSecretReturn, Return, itemVars, handlerVars
<1>3. Exclusive'
  BY DEF IInv, TypeOK, Exclusive, GetSecretReturn, Return, itemVars, handlerVars
<1>4. NoLeakedInformer'
  BY DEF IInv, TypeOK, ThreadShape, NoLeakedInformer, GetSecretReturn, Return,
         itemVars, handlerVars
<1>5. /\ ItemShape' /\ MapShape' /\ RegShape'
      /\ CountMatchesHeld' /\ HeldIsMonitored' /\ HeldIsListening'
  BY DEF IInv, ItemShape, MapShape, RegShape, CountMatchesHeld, HeldIsMonitored,
         HeldIsListening, HeldOn, GetSecretReturn, Return, itemVars, handlerVars
<1> QED
  BY <1>1, <1>2, <1>3, <1>4, <1>5 DEF IInv

\* StartInformer declares the item running.
LEMMA StartInformerKeeps ==
  ASSUME IInv, NEW i \in Items,
         StartInformer(i)
  PROVE  IInv'
<1>1. TypeOK'
  BY DEF IInv, TypeOK, StartInformer, handlerVars, threadVars
<1>2. ItemShape'
  BY DEF IInv, TypeOK, ItemShape, StartInformer, handlerVars, threadVars
<1>3. HeldIsListening'
  BY DEF IInv, TypeOK, ItemShape, RegShape, HeldIsListening, StartInformer,
         handlerVars, threadVars
<1>4. /\ MapShape' /\ RegShape' /\ ThreadShape' /\ Exclusive'
      /\ CountMatchesHeld' /\ HeldIsMonitored' /\ NoLeakedInformer'
  BY DEF IInv, MapShape, RegShape, ThreadShape, Exclusive, CountMatchesHeld,
         HeldIsMonitored, NoLeakedInformer, HeldOn, StartInformer, handlerVars,
         threadVars
<1> QED
  BY <1>1, <1>2, <1>3, <1>4 DEF IInv

\* The informer runs, or finds its channel closed.
LEMMA RunInformerKeeps ==
  ASSUME IInv, NEW i \in Items,
         RunInformer(i)
  PROVE  IInv'
<1>1. TypeOK'
  BY DEF IInv, TypeOK, RunInformer, handlerVars, threadVars
<1>2. ItemShape'
  BY DEF IInv, TypeOK, ItemShape, RunInformer, handlerVars, threadVars
<1>3. /\ MapShape' /\ RegShape' /\ ThreadShape' /\ Exclusive'
      /\ CountMatchesHeld' /\ HeldIsMonitored' /\ HeldIsListening'
      /\ NoLeakedInformer'
  BY DEF IInv, MapShape, RegShape, ThreadShape, Exclusive, CountMatchesHeld,
         HeldIsMonitored, HeldIsListening, NoLeakedInformer, HeldOn, RunInformer,
         handlerVars, threadVars
<1> QED
  BY <1>1, <1>2, <1>3 DEF IInv

\* The informer has synced.
LEMMA InformerSyncKeeps ==
  ASSUME IInv, NEW i \in Items,
         InformerSync(i)
  PROVE  IInv'
<1>1. TypeOK'
  BY DEF IInv, TypeOK, InformerSync, handlerVars, threadVars
<1>2. ItemShape'
  BY DEF IInv, TypeOK, ItemShape, InformerSync, handlerVars, threadVars
<1>3. MapShape'
  BY DEF IInv, TypeOK, MapShape, InformerSync, handlerVars, threadVars
<1>4. RegShape'
  BY DEF IInv, TypeOK, RegShape, InformerSync, handlerVars, threadVars
<1>5. /\ ThreadShape' /\ Exclusive' /\ CountMatchesHeld' /\ HeldIsMonitored'
      /\ HeldIsListening' /\ NoLeakedInformer'
  BY DEF IInv, ThreadShape, Exclusive, CountMatchesHeld, HeldIsMonitored,
         HeldIsListening, NoLeakedInformer, HeldOn, InformerSync, handlerVars,
         threadVars
<1> QED
  BY <1>1, <1>2, <1>3, <1>4, <1>5 DEF IInv

\* The informer ends and drops its listeners.
LEMMA InformerExitKeeps ==
  ASSUME IInv, NEW i \in Items,
         InformerExit(i)
  PROVE  IInv'
<1>1. TypeOK'
  BY DEF IInv, TypeOK, InformerExit, HandlersOf, threadVars
<1>2. ItemShape'
  BY DEF IInv, TypeOK, ItemShape, InformerExit, HandlersOf, threadVars
<1>3. RegShape'
  BY DEF IInv, TypeOK, RegShape, InformerExit, HandlersOf, threadVars
<1>4. HeldIsListening'
  BY DEF IInv, TypeOK, ItemShape, HeldIsListening, InformerExit, HandlersOf,
         threadVars
<1>5. /\ MapShape' /\ ThreadShape' /\ Exclusive' /\ CountMatchesHeld'
      /\ HeldIsMonitored' /\ NoLeakedInformer'
  BY DEF IInv, MapShape, ThreadShape, Exclusive, CountMatchesHeld,
         HeldIsMonitored, NoLeakedInformer, HeldOn, InformerExit, HandlersOf,
         threadVars
<1> QED
  BY <1>1, <1>2, <1>3, <1>4, <1>5 DEF IInv

\* The context of an item is done: the item is stopped, but not forgotten.
LEMMA WatcherOnCancelKeeps ==
  ASSUME IInv, NEW i \in Items,
         WatcherOnCancel(i)
  PROVE  IInv'
<1>1. TypeOK'
  BY DEF IInv, TypeOK, WatcherOnCancel, StopInformer, handlerVars, threadVars
<1>2. ItemShape'
  BY DEF IInv, TypeOK, ItemShape, WatcherOnCancel, StopInformer, handlerVars,
         threadVars
<1>3. HeldIsListening'
  BY DEF IInv, TypeOK, HeldIsListening, WatcherOnCancel, StopInformer,
         handlerVars, threadVars
<1>4. NoLeakedInformer'
  BY DEF IInv, TypeOK, NoLeakedInformer, WatcherOnCancel, StopInformer,
         handlerVars, threadVars
<1>5. /\ MapShape' /\ RegShape' /\ ThreadShape' /\ Exclusive'
      /\ CountMatchesHeld' /\ HeldIsMonitored'
  BY DEF IInv, MapShape, RegShape, ThreadShape, Exclusive, CountMatchesHeld,
         HeldIsMonitored, HeldOn, WatcherOnCancel, StopInformer, handlerVars,
         threadVars
<1> QED
  BY <1>1, <1>2, <1>3, <1>4, <1>5 DEF IInv

\* The context watcher of a stopped item ends.
LEMMA WatcherOnStopKeeps ==
  ASSUME IInv, NEW i \in Items,
         WatcherOnStop(i)
  PROVE  IInv'
<1>1. TypeOK'
  BY DEF IInv, TypeOK, WatcherOnStop, handlerVars, threadVars
<1>2. /\ ItemShape' /\ MapShape' /\ RegShape' /\ ThreadShape' /\ Exclusive'
      /\ CountMatchesHeld' /\ HeldIsMonitored' /\ HeldIsListening'
      /\ NoLeakedInformer'
  BY DEF IInv, ItemShape, MapShape, RegShape, ThreadShape, Exclusive,
         CountMatchesHeld, HeldIsMonitored, HeldIsListening, NoLeakedInformer,
         HeldOn, WatcherOnStop, handlerVars, threadVars
<1> QED
  BY <1>1, <1>2 DEF IInv

\* A listener delivers its initial Add.
LEMMA DeliverInitialKeeps ==
  ASSUME IInv, NEW h \in Handles,
         DeliverInitial(h)
  PROVE  IInv'
<1>1. TypeOK'
  BY DEF IInv, TypeOK, DeliverInitial, itemVars, threadVars
<1>2. /\ ItemShape' /\ MapShape' /\ RegShape' /\ ThreadShape' /\ Exclusive'
      /\ CountMatchesHeld' /\ HeldIsMonitored' /\ HeldIsListening'
      /\ NoLeakedInformer'
  BY DEF IInv, ItemShape, MapShape, RegShape, ThreadShape, Exclusive,
         CountMatchesHeld, HeldIsMonitored, HeldIsListening, NoLeakedInformer,
         HeldOn, DeliverInitial, itemVars, threadVars
<1> QED
  BY <1>1, <1>2 DEF IInv

\* A context is cancelled.
LEMMA CancelContextKeeps ==
  ASSUME IInv, NEW c \in Contexts,
         CancelContext(c)
  PROVE  IInv'
<1>1. TypeOK'
  BY DEF IInv, TypeOK, CancelContext, itemVars, handlerVars, threadVars
<1>2. /\ ItemShape' /\ MapShape' /\ RegShape' /\ ThreadShape' /\ Exclusive'
      /\ CountMatchesHeld' /\ HeldIsMonitored' /\ HeldIsListening'
      /\ NoLeakedInformer'
  BY DEF IInv, ItemShape, MapShape, RegShape, ThreadShape, Exclusive,
         CountMatchesHeld, HeldIsMonitored, HeldIsListening, NoLeakedInformer,
         HeldOn, CancelContext, itemVars, handlerVars, threadVars
<1> QED
  BY <1>1, <1>2 DEF IInv

\* The inductive invariant holds initially ...
LEMMA IInvInit == Init => IInv
<1> SUFFICES ASSUME Init PROVE IInv
  OBVIOUS
<1>1. CountMatchesHeld
  BY FS_EmptySet DEF Init, CountMatchesHeld, HeldOn
<1>2. TypeOK /\ ItemShape /\ MapShape /\ RegShape /\ ThreadShape
  BY DEF Init, TypeOK, ItemShape, MapShape, RegShape, ThreadShape
<1>3. Exclusive /\ HeldIsMonitored /\ HeldIsListening /\ NoLeakedInformer
  BY DEF Init, Exclusive, HeldIsMonitored, HeldIsListening, NoLeakedInformer
<1> QED
  BY <1>1, <1>2, <1>3 DEF IInv

\* ... and every step preserves it.
LEMMA IInvStep == IInv /\ [Next]_vars => IInv'
<1> SUFFICES ASSUME IInv, [Next]_vars PROVE IInv'
  OBVIOUS
<1>1. CASE UNCHANGED vars
  BY <1>1
  DEF IInv, TypeOK, ItemShape, MapShape, RegShape, ThreadShape, Exclusive,
      CountMatchesHeld, HeldIsMonitored, HeldIsListening, NoLeakedInformer,
      HeldOn, vars, itemVars, handlerVars, threadVars
<1>2. ASSUME NEW t \in Threads, Add(t) PROVE IInv'
  BY <1>2, AddSecretEventHandlerKeeps DEF Add
<1>3. ASSUME NEW t \in Threads, NEW h \in held,
             RemoveSecretEventHandler(t, h) \/ GetSecret(t, h)
      PROVE  IInv'
  BY <1>3, RemoveSecretEventHandlerKeeps, GetSecretKeeps
<1>4. ASSUME NEW t \in Threads, Continue(t) PROVE IInv'
  BY <1>4, AwaitSyncKeeps, AttachHandlerKeeps, AttachRefusedKeeps, StopMonitorKeeps,
     GetSecretReturnKeeps
  DEF Continue
<1>5. ASSUME NEW i \in Items, Informer(i) PROVE IInv'
  BY <1>5, StartInformerKeeps, RunInformerKeeps, InformerSyncKeeps,
     InformerExitKeeps, WatcherOnCancelKeeps, WatcherOnStopKeeps
  DEF Informer
<1>6. ASSUME NEW h \in Handles, DeliverInitial(h) PROVE IInv'
  BY <1>6, DeliverInitialKeeps
<1>7. ASSUME NEW c \in Contexts, CancelContext(c) PROVE IInv'
  BY <1>7, CancelContextKeeps
<1> QED
  BY <1>1, <1>2, <1>3, <1>4, <1>5, <1>6, <1>7 DEF Next, Environment

LEMMA Invariance == Spec => []IInv
  BY IInvInit, IInvStep, PTL DEF Spec

-----------------------------------------------------------------------------
(* Each item implements SingleItemMonitor.  An item takes part in the steps   *)
(* that concern it, and stutters in all the others.                           *)

\* What item i is to its own specification.
ItemIsUnchanged(i) ==
  /\ stopped'[i] = stopped[i]
  /\ stopCh'[i] = stopCh[i]
  /\ starter'[i] = starter[i]
  /\ watcher'[i] = watcher[i]
  /\ itemCtx'[i] \in ctxDone' <=> itemCtx[i] \in ctxDone
  /\ (listening \cap HandlersOf(i))' = listening \cap HandlersOf(i)
  /\ HeldOn(i)' = HeldOn(i)

LEMMA UnchangedItemStutters ==
  ASSUME NEW i \in Items, ItemIsUnchanged(i)
  PROVE  UNCHANGED Item(i)!vars
<1>1. InformerOf(i)' = InformerOf(i)
  BY DEF ItemIsUnchanged, InformerOf
<1> QED
  BY <1>1 DEF ItemIsUnchanged, Item!vars

LEMMA ItemInit == Init => \A i \in Items : Item(i)!Init
  BY DEF Init, Item!Init, InformerOf, HeldOn, HandlersOf

\* The goroutine of StartInformer is the only one an item has, so that its steps
\* are those of the item's own specification.
LEMMA StartInformerIsItems ==
  ASSUME IInv, NEW i \in Items, StartInformer(i)
  PROVE  Item(i)!StartInformer(i)
<1>1. InformerOf(i)' = InformerOf(i)
  BY DEF IInv, TypeOK, StartInformer, InformerOf
<1> QED
  BY <1>1
  DEF IInv, TypeOK, StartInformer, HeldOn, HandlersOf, handlerVars, threadVars,
      Item!StartInformer

LEMMA RunInformerIsItems ==
  ASSUME IInv, NEW i \in Items, RunInformer(i)
  PROVE  Item(i)!RunInformer(i)
<1>1. InformerOf(i) = "new"
  BY DEF RunInformer, InformerOf
<1>2. HandlersOf(i) = {}
  BY SecretMonitorAssumption DEF IInv, TypeOK, ItemShape, RegShape, RunInformer, HandlersOf
<1> QED
  BY <1>1, <1>2
  DEF IInv, TypeOK, RunInformer, InformerOf, HeldOn, HandlersOf, handlerVars, threadVars,
      Item!RunInformer

LEMMA InformerExitIsItems ==
  ASSUME IInv, NEW i \in Items, InformerExit(i)
  PROVE  Item(i)!InformerExit(i)
  BY DEF IInv, TypeOK, InformerExit, InformerOf, HeldOn, HandlersOf, threadVars,
         Item!InformerExit

LEMMA WatcherOnCancelIsItems ==
  ASSUME IInv, NEW i \in Items, WatcherOnCancel(i)
  PROVE  Item(i)!WatcherOnCancel(i)
<1>1. InformerOf(i)' = InformerOf(i)
  BY DEF WatcherOnCancel, InformerOf
<1>2. ~stopped[i] => stopCh[i] = "open"
  BY DEF IInv, TypeOK, ItemShape
<1> QED
  BY <1>1, <1>2
  DEF IInv, TypeOK, WatcherOnCancel, StopInformer, HeldOn, HandlersOf, handlerVars,
      threadVars, Item!WatcherOnCancel, Item!CloseStopCh

LEMMA WatcherOnStopIsItems ==
  ASSUME IInv, NEW i \in Items, WatcherOnStop(i)
  PROVE  Item(i)!WatcherOnStop(i)
<1>1. InformerOf(i)' = InformerOf(i)
  BY DEF WatcherOnStop, InformerOf
<1> QED
  BY <1>1
  DEF IInv, TypeOK, WatcherOnStop, HeldOn, HandlersOf, handlerVars, threadVars,
      Item!WatcherOnStop

\* A call of AddSecretEventHandler, the cancellation of a context, and the calls
\* that change no item.
LEMMA AddMayCancel ==
  ASSUME IInv, NEW i \in Items, NEW t \in Threads, NEW k \in Keys, NEW c \in Contexts,
         AddSecretEventHandler(t, k, c)
  PROVE  Item(i)!CancelContext(i) \/ UNCHANGED Item(i)!vars
<1>1. /\ HeldOn(i)' = HeldOn(i) /\ HandlersOf(i)' = HandlersOf(i)
      /\ listening' = listening /\ ctxDone' = ctxDone
  BY DEF AddSecretEventHandler, HeldOn, HandlersOf, handlerVars
<1>2. CASE itemKey[i] = None /\ itemKey'[i] # None
  <2>1. /\ itemCtx[i] \notin ctxDone
        /\ starter[i] = "none" /\ starter'[i] = "spawned"
        /\ UNCHANGED <<stopped, stopCh, watcher>>
    BY <1>2, SecretMonitorAssumption
    DEF IInv, TypeOK, ItemShape, AddSecretEventHandler, itemVars
  <2>2. InformerOf(i)' = InformerOf(i)
    BY <2>1 DEF InformerOf
  <2>3. CASE itemCtx'[i] \in ctxDone
    BY <1>1, <2>1, <2>2, <2>3 DEF Item!CancelContext
  <2>4. CASE itemCtx'[i] \notin ctxDone
    BY <1>1, <2>1, <2>2, <2>4 DEF Item!vars
  <2> QED
    BY <2>3, <2>4
<1>3. CASE ~(itemKey[i] = None /\ itemKey'[i] # None)
  <2>1. UNCHANGED <<stopped[i], stopCh[i], starter[i], watcher[i], itemCtx[i]>>
    BY <1>3, SecretMonitorAssumption
    DEF IInv, TypeOK, ItemShape, AddSecretEventHandler, itemVars
  <2> QED
    BY <1>1, <2>1, UnchangedItemStutters DEF ItemIsUnchanged
<1> QED
  BY <1>2, <1>3

LEMMA CancelContextIsItems ==
  ASSUME IInv, NEW i \in Items, NEW c \in Contexts, CancelContext(c)
  PROVE  Item(i)!CancelContext(i) \/ UNCHANGED Item(i)!vars
<1>1. InformerOf(i)' = InformerOf(i)
  BY DEF CancelContext, InformerOf, itemVars
<1>2. CASE itemCtx'[i] \in ctxDone' <=> itemCtx[i] \in ctxDone
  BY <1>2, UnchangedItemStutters
  DEF CancelContext, ItemIsUnchanged, HeldOn, HandlersOf, itemVars, handlerVars
<1>3. CASE itemCtx'[i] \in ctxDone' /\ itemCtx[i] \notin ctxDone
  BY <1>1, <1>3
  DEF CancelContext, HeldOn, HandlersOf, itemVars, handlerVars, Item!CancelContext
<1> QED
  BY <1>2, <1>3 DEF CancelContext, itemVars

LEMMA AttachHandlerIsItems ==
  ASSUME IInv, NEW i \in Items, NEW t \in Threads, NEW h \in Handles, AttachHandler(t, h)
  PROVE  Item(i)!AddEventHandler(h) \/ UNCHANGED Item(i)!vars
<1>1. InformerOf(i)' = InformerOf(i)
  BY DEF AttachHandler, InformerOf
<1>2. h \notin held /\ h \notin listening /\ i # None
  BY SecretMonitorAssumption DEF IInv, RegShape, AttachHandler
<1>3. CASE mon[t] = i
  <2>1. starter[i] # "returned"
    BY <1>3 DEF IInv, ItemShape, AttachHandler, AddEventHandler
  <2>2. InformerOf(i) # "stopped"
    BY <2>1 DEF InformerOf
  <2>3. /\ HeldOn(i)' = HeldOn(i) \cup {h}
        /\ (listening \cap HandlersOf(i))' = (listening \cap HandlersOf(i)) \cup {h}
    BY <1>2, <1>3
    DEF IInv, TypeOK, AttachHandler, AddEventHandler, HeldOn, HandlersOf
  <2>4. h \notin HeldOn(i)
    BY <1>2 DEF HeldOn
  <2> QED
    BY <1>1, <1>3, <2>2, <2>3, <2>4
    DEF AttachHandler, AddEventHandler, Item!AddEventHandler
<1>4. CASE mon[t] # i
  <2>1. /\ HeldOn(i)' = HeldOn(i)
        /\ (listening \cap HandlersOf(i))' = listening \cap HandlersOf(i)
    BY <1>2, <1>4
    DEF IInv, TypeOK, AttachHandler, AddEventHandler, HeldOn, HandlersOf
  <2> QED
    BY <2>1, UnchangedItemStutters DEF AttachHandler, ItemIsUnchanged
<1> QED
  BY <1>3, <1>4

LEMMA RemoveIsItems ==
  ASSUME IInv, NEW i \in Items, NEW t \in Threads, NEW h \in held,
         RemoveSecretEventHandler(t, h)
  PROVE  Item(i)!RemoveEventHandler(h) \/ UNCHANGED Item(i)!vars
<1> DEFINE m == reg[h]
<1>1. /\ ~stopped[m]
      /\ listening' = listening \ ({h} \cap HandlersOf(m))
      /\ held' = held \ {h}
      /\ UNCHANGED <<itemCtx, stopped, stopCh, starter, watcher, ctxDone, reg>>
  BY RemoveEffect
<1>2. InformerOf(i)' = InformerOf(i)
  BY <1>1 DEF InformerOf
<1>3. CASE i = m
  <2>1. /\ HeldOn(i)' = HeldOn(i) \ {h}
        /\ (listening \cap HandlersOf(i))' = (listening \cap HandlersOf(i)) \ {h}
    BY <1>1, <1>3 DEF IInv, TypeOK, HeldOn, HandlersOf
  <2> QED
    BY <1>1, <1>2, <1>3, <2>1 DEF Item!RemoveEventHandler
<1>4. CASE i # m
  <2>1. /\ HeldOn(i)' = HeldOn(i)
        /\ (listening \cap HandlersOf(i))' = listening \cap HandlersOf(i)
    BY <1>1, <1>4 DEF IInv, TypeOK, HeldOn, HandlersOf
  <2> QED
    BY <1>1, <2>1, UnchangedItemStutters DEF ItemIsUnchanged
<1> QED
  BY <1>3, <1>4

LEMMA StopMonitorIsItems ==
  ASSUME IInv, NEW i \in Items, NEW t \in Threads, StopMonitor(t)
  PROVE  Item(i)!StopInformer \/ UNCHANGED Item(i)!vars
<1>1. /\ HeldOn(i)' = HeldOn(i) /\ HandlersOf(i)' = HandlersOf(i)
      /\ InformerOf(i)' = InformerOf(i)
  BY DEF StopMonitor, HeldOn, HandlersOf, InformerOf, handlerVars
<1>2. CASE mon[t] = i /\ ~stopped[i]
  <2>1. stopCh[i] = "open"
    BY <1>2 DEF IInv, TypeOK, ItemShape
  <2> QED
    BY <1>1, <1>2, <2>1
    DEF IInv, TypeOK, StopMonitor, StopInformer, handlerVars, Item!StopInformer,
        Item!CloseStopCh
<1>3. CASE mon[t] # i \/ stopped[i]
  <2>1. stopped'[i] = stopped[i] /\ stopCh'[i] = stopCh[i]
    BY <1>3 DEF IInv, TypeOK, StopMonitor, StopInformer
  <2> QED
    BY <1>1, <2>1, UnchangedItemStutters DEF StopMonitor, ItemIsUnchanged, handlerVars
<1> QED
  BY <1>2, <1>3

\* Every other step leaves all items as they are.
LEMMA OthersLeaveItems ==
  ASSUME NEW i \in Items,
         \/ \E t \in Threads :
              \/ AwaitSync(t) \/ AttachRefused(t) \/ GetSecretReturn(t)
              \/ \E h \in held : GetSecret(t, h)
         \/ \E j \in Items : InformerSync(j)
         \/ \E h \in Handles : DeliverInitial(h)
         \/ UNCHANGED vars
  PROVE  UNCHANGED Item(i)!vars
  BY UnchangedItemStutters
  DEF ItemIsUnchanged, HeldOn, HandlersOf, AwaitSync, AttachRefused, GetSecretReturn,
      GetSecret, InformerSync, DeliverInitial, vars, itemVars, handlerVars, threadVars

\* What the goroutine of another item does.
LEMMA OtherItemsLeave ==
  ASSUME IInv, NEW i \in Items, NEW j \in Items, i # j, Informer(j), ~InformerSync(j)
  PROVE  UNCHANGED Item(i)!vars
<1>1. /\ UNCHANGED <<stopped[i], stopCh[i], starter[i], watcher[i], itemCtx, ctxDone>>
      /\ HeldOn(i)' = HeldOn(i)
  BY DEF IInv, TypeOK, Informer, StartInformer, RunInformer, InformerExit, WatcherOnCancel,
         WatcherOnStop, StopInformer, HeldOn, handlerVars, threadVars
<1>2. (listening \cap HandlersOf(i))' = listening \cap HandlersOf(i)
  BY DEF IInv, TypeOK, Informer, StartInformer, RunInformer, InformerExit, WatcherOnCancel,
         WatcherOnStop, StopInformer, HandlersOf, handlerVars, threadVars
<1> QED
  BY <1>1, <1>2, UnchangedItemStutters DEF ItemIsUnchanged

LEMMA InformerIsItems ==
  ASSUME IInv, NEW i \in Items, NEW j \in Items, Informer(j)
  PROVE  Item(i)!Goroutine(i) \/ UNCHANGED Item(i)!vars
<1>1. CASE InformerSync(j)
  BY <1>1, OthersLeaveItems
<1>2. CASE ~InformerSync(j) /\ i # j
  BY <1>2, OtherItemsLeave
<1>3. CASE ~InformerSync(j) /\ i = j
  BY <1>3, StartInformerIsItems, RunInformerIsItems, InformerExitIsItems,
     WatcherOnCancelIsItems, WatcherOnStopIsItems
  DEF Informer, Item!Goroutine
<1> QED
  BY <1>1, <1>2, <1>3

LEMMA StepIsItems ==
  ASSUME IInv, [Next]_vars, NEW i \in Items
  PROVE  [Item(i)!Next]_(Item(i)!vars)
<1>1. ASSUME NEW t \in Threads, Add(t) PROVE [Item(i)!Next]_(Item(i)!vars)
  BY <1>1, AddMayCancel DEF Add, Item!Next
<1>2. ASSUME NEW t \in Threads, NEW h \in held, RemoveSecretEventHandler(t, h)
      PROVE  [Item(i)!Next]_(Item(i)!vars)
  BY <1>2, RemoveIsItems DEF IInv, TypeOK, Item!Next
<1>3. ASSUME NEW t \in Threads, NEW h \in Handles, AttachHandler(t, h)
      PROVE  [Item(i)!Next]_(Item(i)!vars)
  BY <1>3, AttachHandlerIsItems DEF Item!Next
<1>4. ASSUME NEW t \in Threads, StopMonitor(t) PROVE [Item(i)!Next]_(Item(i)!vars)
  BY <1>4, StopMonitorIsItems DEF Item!Next
<1>5. ASSUME NEW j \in Items, Informer(j) PROVE [Item(i)!Next]_(Item(i)!vars)
  BY <1>5, InformerIsItems DEF Item!Next
<1>6. ASSUME NEW c \in Contexts, CancelContext(c) PROVE [Item(i)!Next]_(Item(i)!vars)
  BY <1>6, CancelContextIsItems DEF Item!Next
<1> QED
  BY <1>1, <1>2, <1>3, <1>4, <1>5, <1>6, OthersLeaveItems DEF Next, Environment, Continue

\* secretMonitor uses each of its items as monitorv4/monitor.go expects: whatever is
\* proved of one monitor holds of all of them, and none ever panics.
THEOREM ItemsAreMonitors == Spec => ItemsImplementMonitor
<1>1. IInv /\ [Next]_vars => [\A i \in Items : [Item(i)!Next]_(Item(i)!vars)]_vars
  BY StepIsItems
<1> QED
  BY <1>1, ItemInit, Invariance, PTL DEF Spec, ItemsImplementMonitor

\* Whoever stops an item, its informer does not run any more unless it still does, and
\* no handler joins it.
ItemsStayStopped ==
  [][\A i \in Items :
       stopCh[i] = "closed" =>
         /\ stopCh'[i] = "closed"
         /\ starter'[i] = "running" => starter[i] = "running"
         /\ \A h \in listening' : reg'[h] = i => h \in listening /\ reg[h] = i]_vars

\* A stop is final in secretMonitor too, however calls and cancellations come together:
\* the key of a stopped item gets a new item with an informer of its own.  It is final
\* for each item because its steps are those of SingleItemMonitor, where only another
\* start makes a stopped monitor accept handlers; and an item is started once.
THEOREM ItemsStopForGood == Spec => ItemsStayStopped
<1>1. ASSUME IInv, [Next]_vars, NEW i \in Items, stopCh[i] = "closed"
      PROVE  /\ stopCh'[i] = "closed"
             /\ starter'[i] = "running" => starter[i] = "running"
             /\ \A h \in listening' : reg'[h] = i => h \in listening /\ reg[h] = i
  <2>1. [Item(i)!Next]_(Item(i)!vars)
    BY <1>1, StepIsItems
  <2>2. stopped[i] /\ starter[i] \notin {"none", "spawned"}
    BY <1>1 DEF IInv, TypeOK, ItemShape
  <2>3. /\ stopCh'[i] = "closed"
        /\ InformerOf(i)' = "running" => InformerOf(i) = "running"
        /\ (listening \cap HandlersOf(i))' \subseteq listening \cap HandlersOf(i)
    <3>1. CASE UNCHANGED Item(i)!vars
      BY <1>1, <3>1 DEF Item!vars
    <3>2. CASE \E g \in {i} : Item(i)!Goroutine(g)
      BY <1>1, <2>2, <3>2
      DEF Item!Goroutine, Item!StartInformer, Item!RunInformer, Item!InformerExit,
          Item!WatcherOnCancel, Item!CloseStopCh, Item!WatcherOnStop
    <3>3. CASE \/ Item(i)!StopInformer
               \/ \E g \in {i} : Item(i)!CancelContext(g)
      BY <1>1, <3>3 DEF Item!StopInformer, Item!CloseStopCh, Item!CancelContext
    <3>4. CASE \E h \in Handles : \/ Item(i)!AddEventHandler(h)
                                  \/ Item(i)!RemoveEventHandler(h)
      BY <2>2, <3>4 DEF Item!AddEventHandler, Item!RemoveEventHandler
    <3> QED
      BY <2>1, <3>1, <3>2, <3>3, <3>4 DEF Item!Next
  <2>4. listening' \subseteq Handles
    BY <1>1, IInvStep DEF IInv, TypeOK
  <2> QED
    BY <2>3, <2>4 DEF InformerOf, HandlersOf
<1>2. IInv /\ [Next]_vars =>
        [\A i \in Items :
           stopCh[i] = "closed" =>
             /\ stopCh'[i] = "closed"
             /\ starter'[i] = "running" => starter[i] = "running"
             /\ \A h \in listening' :
                  reg'[h] = i => h \in listening /\ reg[h] = i]_vars
  BY <1>1
<1> QED
  BY <1>2, Invariance, PTL DEF Spec, ItemsStayStopped

-----------------------------------------------------------------------------
(* What holds whether or not contexts are cancelled.                          *)

\* Every variable keeps its type.
THEOREM TypeCorrect == Spec => []TypeOK
  BY Invariance, PTL DEF IInv

\* The counter that decides when an informer is stopped is exact, although the
\* handlers of one secret are added and removed by many goroutines.
THEOREM CountIsExact == Spec => []CountMatchesHeld
  BY Invariance, PTL DEF IInv

\* No sequence of calls, and no cancellation, leaves an informer running that
\* is in nobody's reach.
THEOREM NoLeak == Spec => []NoLeakedInformer
  BY Invariance, PTL DEF IInv

\* No removal counts down a handler that the informer did not have, although
\* RemoveEventHandler of the informer ignores one and returns no error.
THEOREM RemovalsFindHandlers == Spec => RemovalFindsHandler
<1>1. IInv /\ [Next]_vars =>
        [\A i \in Items :
           numHandlers'[i] < numHandlers[i] =>
             \E h \in listening \ listening' : reg[h] = i]_vars
  <2> SUFFICES ASSUME IInv, Next, NEW i \in Items, numHandlers'[i] < numHandlers[i]
               PROVE  \E h \in listening \ listening' : reg[h] = i
    OBVIOUS
  <2>1. PICK t \in Threads, h \in held : RemoveSecretEventHandler(t, h)
    <3>1. ASSUME Environment
          PROVE  numHandlers' = numHandlers
      BY <3>1
      DEF Environment, Informer, StartInformer, RunInformer, InformerSync, InformerExit,
          WatcherOnCancel, WatcherOnStop, DeliverInitial, CancelContext, itemVars
    <3>2. ASSUME NEW t \in Threads, Add(t) \/ \E h \in held : GetSecret(t, h)
          PROVE  numHandlers' = numHandlers
      BY <3>2 DEF Add, AddSecretEventHandler, GetSecret, itemVars
    <3>3. ASSUME NEW t \in Threads, NEW h \in Handles, AttachHandler(t, h)
          PROVE  numHandlers'[i] \in {numHandlers[i], numHandlers[i] + 1}
      BY <3>3 DEF IInv, TypeOK, AttachHandler
    <3>4. ASSUME NEW t \in Threads, Continue(t), \A h \in Handles : ~AttachHandler(t, h)
          PROVE  numHandlers' = numHandlers
      BY <3>4 DEF Continue, AwaitSync, AttachRefused, StopMonitor, GetSecretReturn, itemVars
    <3>5. numHandlers'[i] \notin {numHandlers[i], numHandlers[i] + 1}
      BY DEF IInv, TypeOK
    <3> QED
      BY <3>1, <3>2, <3>3, <3>4, <3>5 DEF Next
  <2>2. /\ ~stopped[reg[h]] /\ h \in HandlersOf(reg[h])
        /\ listening' = listening \ ({h} \cap HandlersOf(reg[h]))
        /\ numHandlers' = [numHandlers EXCEPT ![reg[h]] = @ - 1]
    BY <2>1, RemoveEffect DEF HandlersOf
  <2>3. h \in listening \ listening' /\ reg[h] = i
    BY <2>2 DEF IInv, TypeOK, HeldIsListening
  <2> QED
    BY <2>3
<1> QED
  BY <1>1, Invariance, PTL DEF Spec, RemovalFindsHandler

\* A registration that was not removed leads back to its own item.
THEOREM HeldStaysMonitored == Spec => []HeldIsMonitored
  BY Invariance, PTL DEF IInv

\* The owner of a registration gets the events of its secret while the item runs.
THEOREM HeldStaysListening == Spec => []HeldIsListening
  BY Invariance, PTL DEF IInv

-----------------------------------------------------------------------------
(* When an informer is stopped.                                               *)

\* An item is stopped by the cancellation of its context, or by the removal of
\* its last handler, which forgets it at the same time.
StoppedIsForgotten ==
  \A i \in Items :
    stopCh[i] = "closed" =>
      \/ itemCtx[i] \in ctxDone
      \/ /\ \A k \in Keys : monitors[k] # i
         /\ \A t \in Threads : mon[t] # i

SInv == IInv /\ StoppedIsForgotten

LEMMA SInvInit == Init => SInv
  BY IInvInit DEF Init, SInv, StoppedIsForgotten

\* The steps of the goroutines of items and informers.
LEMMA EnvironmentKeepsStopped ==
  ASSUME SInv, Environment
  PROVE  StoppedIsForgotten'
<1>1. UNCHANGED <<monitors, mon, itemCtx>> /\ ctxDone \subseteq ctxDone'
  BY DEF Environment, Informer, StartInformer, RunInformer, InformerSync, InformerExit,
         WatcherOnCancel, WatcherOnStop, DeliverInitial, CancelContext, itemVars,
         threadVars
<1>2. ASSUME NEW i \in Items, stopCh'[i] = "closed", stopCh[i] # "closed"
      PROVE  itemCtx[i] \in ctxDone
  BY <1>2
  DEF SInv, IInv, TypeOK, Environment, Informer, StartInformer, RunInformer,
      InformerSync, InformerExit, WatcherOnCancel, StopInformer, WatcherOnStop,
      DeliverInitial, CancelContext, itemVars
<1> QED
  BY <1>1, <1>2 DEF SInv, StoppedIsForgotten

\* The steps of the calls.
LEMMA StartsKeepStopped ==
  ASSUME SInv, NEW t \in Threads,
         \/ Add(t)
         \/ \E h \in held : RemoveSecretEventHandler(t, h) \/ GetSecret(t, h)
  PROVE  StoppedIsForgotten'
<1>1. ASSUME NEW k \in Keys, NEW c \in Contexts, AddSecretEventHandler(t, k, c)
      PROVE  StoppedIsForgotten'
  BY <1>1, SecretMonitorAssumption
  DEF SInv, IInv, TypeOK, ItemShape, StoppedIsForgotten, AddSecretEventHandler, itemVars
<1>2. ASSUME NEW h \in held, RemoveSecretEventHandler(t, h)
      PROVE  StoppedIsForgotten'
  <2> DEFINE m == reg[h]
  <2>1. /\ m \in Items /\ ~stopped[m]
        /\ mon' = mon \/ mon' = [mon EXCEPT ![t] = m]
        /\ UNCHANGED <<monitors, itemCtx, stopCh, ctxDone>>
    BY <1>2, RemoveEffect DEF SInv
  <2>2. stopCh[m] # "closed"
    BY <2>1 DEF SInv, IInv, TypeOK, ItemShape
  <2> HIDE DEF m
  <2> QED
    BY <2>1, <2>2 DEF SInv, IInv, TypeOK, StoppedIsForgotten
<1>3. ASSUME NEW h \in held, GetSecret(t, h)
      PROVE  StoppedIsForgotten'
  BY <1>3, SecretMonitorAssumption
  DEF SInv, IInv, TypeOK, RegShape, ItemShape, StoppedIsForgotten, GetSecret, itemVars
<1> QED
  BY <1>1, <1>2, <1>3 DEF Add

LEMMA ContinueKeepsStopped ==
  ASSUME SInv, NEW t \in Threads, Continue(t)
  PROVE  StoppedIsForgotten'
<1>1. CASE AwaitSync(t)
  BY <1>1 DEF SInv, IInv, TypeOK, StoppedIsForgotten, AwaitSync, itemVars
<1>2. ASSUME NEW h \in Handles, AttachHandler(t, h)
      PROVE  StoppedIsForgotten'
  BY <1>2, SecretMonitorAssumption
  DEF SInv, IInv, TypeOK, StoppedIsForgotten, AttachHandler, Return
<1>3. CASE AttachRefused(t)
  BY <1>3, SecretMonitorAssumption
  DEF SInv, IInv, TypeOK, StoppedIsForgotten, AttachRefused, Return, itemVars
<1>4. CASE StopMonitor(t)
  BY <1>4, SecretMonitorAssumption
  DEF SInv, IInv, TypeOK, MapShape, ThreadShape, Exclusive, StoppedIsForgotten,
      StopMonitor, StopInformer, Return
<1>5. CASE GetSecretReturn(t)
  BY <1>5, SecretMonitorAssumption
  DEF SInv, IInv, TypeOK, StoppedIsForgotten, GetSecretReturn, Return, itemVars
<1> QED
  BY <1>1, <1>2, <1>3, <1>4, <1>5 DEF Continue

LEMMA SInvStep == SInv /\ [Next]_vars => SInv'
<1> SUFFICES ASSUME SInv, [Next]_vars PROVE SInv'
  OBVIOUS
<1>1. IInv'
  BY IInvStep DEF SInv
<1>2. CASE UNCHANGED vars
  BY <1>1, <1>2 DEF SInv, StoppedIsForgotten, vars, itemVars, threadVars
<1> QED
  BY <1>1, <1>2, EnvironmentKeepsStopped, StartsKeepStopped, ContinueKeepsStopped
  DEF SInv, Next

LEMMA StopInvariance == Spec => []SInv
  BY SInvInit, SInvStep, PTL DEF Spec

\* What a call or the map has in hand runs, unless its context was cancelled.
LEMMA InHandRuns ==
  ASSUME SInv, NEW i \in Items, synced[i], itemCtx[i] \notin ctxDone,
         \/ \E k \in Keys : monitors[k] = i
         \/ \E t \in Threads : mon[t] = i
  PROVE  ~stopped[i]
BY DEF SInv, IInv, TypeOK, ItemShape, StoppedIsForgotten

-----------------------------------------------------------------------------
(* What holds when no context can be cancelled, as in the route controller.   *)

\* An item in s.monitors has a handler, or is about to get one or to be removed.
MonitoredIsUsed ==
  \A k \in Keys :
    monitors[k] # None =>
      \/ numHandlers[monitors[k]] > 0
      \/ \E t \in Threads : pc[t] \in {"attach", "stop"} /\ mon[t] = monitors[k]

BInv ==
  /\ SInv
  /\ ctxDone = {}
  /\ MonitoredIsUsed

LEMMA BInvInit == Init => BInv
  BY SInvInit DEF Init, BInv, MonitoredIsUsed

\* Without cancellation the item is never found stopped.
LEMMA NeverRefused ==
  ASSUME BInv, NEW t \in Threads
  PROVE  ~AttachRefused(t)
<1> SUFFICES ASSUME AttachRefused(t) PROVE FALSE
  OBVIOUS
<1>1. mon[t] \in Items /\ synced[mon[t]]
  BY DEF BInv, SInv, IInv, TypeOK, MapShape, ThreadShape, AttachRefused
<1> QED
  BY <1>1, InHandRuns DEF BInv, AttachRefused

\* The steps of the goroutines of items and informers.
LEMMA EnvironmentKeepsUsed ==
  ASSUME Cancellable = {}, BInv, Environment
  PROVE  MonitoredIsUsed' /\ ctxDone' = ctxDone
<1>1. UNCHANGED <<monitors, numHandlers, threadVars, ctxDone>>
  BY DEF Environment, Informer, StartInformer, RunInformer, InformerSync, InformerExit,
         WatcherOnCancel, WatcherOnStop, DeliverInitial, CancelContext, itemVars
<1> QED
  BY <1>1 DEF BInv, MonitoredIsUsed, threadVars

\* The steps of the calls.
LEMMA StartsKeepUsed ==
  ASSUME BInv, NEW t \in Threads,
         \/ Add(t)
         \/ \E h \in held : RemoveSecretEventHandler(t, h) \/ GetSecret(t, h)
  PROVE  MonitoredIsUsed' /\ ctxDone' = ctxDone
<1>1. ASSUME NEW k \in Keys, NEW c \in Contexts, AddSecretEventHandler(t, k, c)
      PROVE  MonitoredIsUsed'
  BY <1>1
  DEF BInv, SInv, IInv, TypeOK, MonitoredIsUsed, AddSecretEventHandler, CanLock, itemVars
<1>2. ASSUME NEW h \in held, RemoveSecretEventHandler(t, h)
      PROVE  MonitoredIsUsed'
  <2> DEFINE m == reg[h]
  <2>1. /\ m \in Items /\ monitors' = monitors
        /\ \A u \in Threads : pc[u] = "idle"
        /\ numHandlers' = [numHandlers EXCEPT ![m] = @ - 1]
        /\ \/ pc' = [pc EXCEPT ![t] = "stop"] /\ mon' = [mon EXCEPT ![t] = m]
           \/ numHandlers[m] - 1 > 0
    BY <1>2, RemoveEffect DEF BInv, SInv
  <2> HIDE DEF m
  <2> SUFFICES ASSUME NEW k \in Keys, monitors[k] # None
               PROVE  \/ numHandlers'[monitors[k]] > 0
                      \/ \E u \in Threads :
                           pc'[u] \in {"attach", "stop"} /\ mon'[u] = monitors[k]
    BY <2>1 DEF MonitoredIsUsed
  <2>2. monitors[k] \in Items /\ numHandlers[monitors[k]] > 0
    BY <2>1 DEF BInv, SInv, IInv, TypeOK, MonitoredIsUsed
  <2>3. CASE monitors[k] = m
    BY <2>1, <2>3 DEF BInv, SInv, IInv, TypeOK
  <2>4. CASE monitors[k] # m
    BY <2>1, <2>2, <2>4 DEF BInv, SInv, IInv, TypeOK
  <2> QED
    BY <2>3, <2>4
<1>3. ASSUME NEW h \in held, GetSecret(t, h)
      PROVE  MonitoredIsUsed'
  BY <1>3 DEF BInv, SInv, IInv, TypeOK, MonitoredIsUsed, GetSecret, itemVars
<1> QED
  BY <1>1, <1>2, <1>3
  DEF Add, AddSecretEventHandler, RemoveSecretEventHandler, GetSecret

LEMMA ContinueKeepsUsed ==
  ASSUME BInv, NEW t \in Threads, Continue(t)
  PROVE  MonitoredIsUsed' /\ ctxDone' = ctxDone
<1>1. CASE AwaitSync(t)
  BY <1>1
  DEF BInv, SInv, IInv, TypeOK, ThreadShape, MonitoredIsUsed, AwaitSync, itemVars
<1>2. ASSUME NEW h \in Handles, AttachHandler(t, h)
      PROVE  MonitoredIsUsed'
  <2>1. numHandlers[mon[t]] >= 0 /\ mon[t] \in Items
    BY <1>2, HeldOnFinite
    DEF BInv, SInv, IInv, TypeOK, ThreadShape, CountMatchesHeld, AttachHandler
  <2> QED
    BY <1>2, <2>1
    DEF BInv, SInv, IInv, TypeOK, Exclusive, MonitoredIsUsed, AttachHandler, Return
<1>3. CASE StopMonitor(t)
  BY <1>3, SecretMonitorAssumption
  DEF BInv, SInv, IInv, TypeOK, MapShape, ThreadShape, Exclusive, MonitoredIsUsed,
      StopMonitor, Return
<1>4. CASE GetSecretReturn(t)
  BY <1>4
  DEF BInv, SInv, IInv, TypeOK, MonitoredIsUsed, GetSecretReturn, Return, itemVars
<1> QED
  BY <1>1, <1>2, <1>3, <1>4, NeverRefused
  DEF Continue, AwaitSync, AttachHandler, StopMonitor, GetSecretReturn

LEMMA BInvStep ==
  ASSUME Cancellable = {}, BInv, [Next]_vars
  PROVE  BInv'
<1>1. SInv'
  BY SInvStep DEF BInv
<1>2. CASE UNCHANGED vars
  BY <1>1, <1>2 DEF BInv, MonitoredIsUsed, vars, itemVars, threadVars
<1> QED
  BY <1>1, <1>2, EnvironmentKeepsUsed, StartsKeepUsed, ContinueKeepsUsed
  DEF BInv, Next

LEMMA BackgroundInvariance == ASSUME Cancellable = {} PROVE Spec => []BInv
<1>1. BInv /\ [Next]_vars => BInv'
  BY BInvStep
<1> QED
  BY <1>1, BInvInit, PTL DEF Spec

\* No informer runs between calls that nobody uses.
THEOREM NoIdle == ASSUME Cancellable = {} PROVE Spec => []NoIdleInformer
<1>1. BInv => NoIdleInformer
  <2> SUFFICES ASSUME BInv, CanLock, NEW i \in Items, ~stopped[i]
               PROVE  numHandlers[i] > 0
    BY DEF NoIdleInformer
  <2>1. itemKey[i] \in Keys /\ stopCh[i] = "open"
    BY DEF BInv, SInv, IInv, TypeOK, ItemShape
  <2>2. monitors[itemKey[i]] = i
    BY <2>1, SecretMonitorAssumption
    DEF BInv, SInv, IInv, ThreadShape, NoLeakedInformer, CanLock
  <2> QED
    BY <2>1, <2>2, SecretMonitorAssumption DEF BInv, MonitoredIsUsed, CanLock
<1> QED
  BY <1>1, BackgroundInvariance, PTL

\* GetSecret never reads the store of an informer that has been stopped or has
\* been replaced under its key.
THEOREM ReadsAreLive == ASSUME Cancellable = {} PROVE Spec => []GetReadsLive
<1>1. BInv => GetReadsLive
  <2> SUFFICES ASSUME BInv, NEW t \in Threads, pc[t] = "get"
               PROVE  monitors[itemKey[mon[t]]] = mon[t] /\ ~stopped[mon[t]]
    BY DEF GetReadsLive
  <2>1. mon[t] \in Items /\ itemKey[mon[t]] \in Keys
    BY SecretMonitorAssumption DEF BInv, SInv, IInv, TypeOK, ThreadShape
  <2>2. monitors[itemKey[mon[t]]] = mon[t]
    BY DEF BInv, SInv, IInv, ThreadShape
  <2>3. synced[mon[t]]
    BY <2>1, <2>2, SecretMonitorAssumption DEF BInv, SInv, IInv, MapShape
  <2> QED
    BY <2>1, <2>2, <2>3, InHandRuns DEF BInv
<1> QED
  BY <1>1, BackgroundInvariance, PTL

\* No step stops an informer that a registration in use depends on.
THEOREM StopsAreSafe == ASSUME Cancellable = {} PROVE Spec => StopsOnlyUnused
<1>1. BInv => \A h \in held : ~stopped[reg[h]]
  <2> SUFFICES ASSUME BInv, NEW h \in held PROVE ~stopped[reg[h]]
    OBVIOUS
  <2>1. reg[h] \in Items /\ synced[reg[h]]
    BY DEF BInv, SInv, IInv, TypeOK, RegShape
  <2>2. itemKey[reg[h]] \in Keys
    BY <2>1 DEF BInv, SInv, IInv, TypeOK, ItemShape
  <2>3. monitors[itemKey[reg[h]]] = reg[h]
    BY DEF BInv, SInv, IInv, HeldIsMonitored
  <2> QED
    BY <2>1, <2>2, <2>3, InHandRuns DEF BInv
<1>2. (\A h \in held : ~stopped[reg[h]])' =>
        [\A i \in Items :
           ~stopped[i] /\ stopped'[i] => \A h \in held' : reg'[h] # i]_vars
  OBVIOUS
<1> QED
  BY <1>1, <1>2, BackgroundInvariance, PTL DEF StopsOnlyUnused

\* A call that has reached its item attaches its handler.
THEOREM AddsSucceed == ASSUME Cancellable = {} PROVE Spec => AddAttaches
<1>1. BInv /\ [Next]_vars =>
        [\A t \in Threads : pc[t] = "attach" /\ pc'[t] # "attach" => held' # held]_vars
  <2> SUFFICES ASSUME BInv, Next, NEW t \in Threads, pc[t] = "attach", pc'[t] # "attach"
               PROVE  held' # held
    OBVIOUS
  <2>1. CASE Environment
    <3>1. pc' = pc
      BY <2>1
      DEF Environment, Informer, StartInformer, RunInformer, InformerSync, InformerExit,
          WatcherOnCancel, WatcherOnStop, DeliverInitial, CancelContext, threadVars
    <3> QED
      BY <3>1
  <2>2. ASSUME NEW u \in Threads, Add(u) \/ \E h \in held : RemoveSecretEventHandler(u, h)
        PROVE  FALSE
    BY <2>2 DEF Add, AddSecretEventHandler, RemoveSecretEventHandler, CanLock
  <2>3. ASSUME NEW u \in Threads, \E h \in held : GetSecret(u, h)
        PROVE  FALSE
    BY <2>3 DEF GetSecret, CanRLock
  <2>4. ASSUME NEW u \in Threads, Continue(u)
        PROVE  held' # held
    <3>1. u = t
      BY <2>4
      DEF BInv, SInv, IInv, Exclusive, Continue, AwaitSync, AttachHandler, AttachRefused,
          StopMonitor, GetSecretReturn
    <3>2. PICK h \in Handles : AttachHandler(t, h)
      BY <2>4, <3>1, NeverRefused
      DEF Continue, AwaitSync, StopMonitor, GetSecretReturn
    <3>3. h \in held' /\ h \notin held
      BY <3>2 DEF BInv, SInv, IInv, RegShape, AttachHandler
    <3> QED
      BY <3>3
  <2> QED
    BY <2>1, <2>2, <2>3, <2>4 DEF Next
<1> QED
  BY <1>1, BackgroundInvariance, PTL DEF Spec, AddAttaches

\* A call of AddSecretEventHandler that finds an item under its key finds it running:
\* the code does not look, and without cancellation it need not.
THEOREM AddsFindLive == ASSUME Cancellable = {} PROVE Spec => AddFindsLive
<1>1. BInv /\ [Next]_vars =>
        [\A t \in Threads :
           pc[t] = "idle" /\ pc'[t] = "attach" => ~stopped[mon'[t]]]_vars
  <2> SUFFICES ASSUME BInv, Next, NEW t \in Threads, pc[t] = "idle", pc'[t] = "attach"
               PROVE  ~stopped[mon'[t]]
    OBVIOUS
  <2>1. ASSUME Environment PROVE FALSE
    BY <2>1
    DEF Environment, Informer, StartInformer, RunInformer, InformerSync, InformerExit,
        WatcherOnCancel, WatcherOnStop, DeliverInitial, CancelContext, threadVars
  <2>2. ASSUME NEW u \in Threads, NEW h \in held,
               RemoveSecretEventHandler(u, h) \/ GetSecret(u, h)
        PROVE  FALSE
    BY <2>2 DEF BInv, SInv, IInv, TypeOK, RemoveSecretEventHandler, GetSecret
  <2>3. ASSUME NEW u \in Threads, Continue(u)
        PROVE  FALSE
    BY <2>3
    DEF BInv, SInv, IInv, TypeOK, Continue, AwaitSync, AttachHandler, AttachRefused,
        StopMonitor, GetSecretReturn, Return
  <2>4. PICK u \in Threads, k \in Keys, c \in Contexts : AddSecretEventHandler(u, k, c)
    BY <2>1, <2>2, <2>3 DEF Next, Add
  <2>5. monitors[k] # None /\ mon'[t] = monitors[k]
    BY <2>4 DEF BInv, SInv, IInv, TypeOK, AddSecretEventHandler
  <2>6. monitors[k] \in Items /\ synced[monitors[k]]
    BY <2>5 DEF BInv, SInv, IInv, TypeOK, MapShape
  <2> QED
    BY <2>5, <2>6, InHandRuns DEF BInv
<1> QED
  BY <1>1, BackgroundInvariance, PTL DEF Spec, AddFindsLive

\* Who waits with s.lock held waits for a goroutine that can still answer: for the
\* first sync of an informer that was started and is not stopped, or for the initial
\* Add of a listener that the running informer has.
WaitsAreAnswered ==
  \A t \in Threads :
    /\ pc[t] = "waitSync" /\ ~synced[mon[t]] =>
         /\ starter[mon[t]] \in {"spawned", "entered", "running"}
         /\ stopCh[mon[t]] = "open"
    /\ pc[t] = "get" =>
         /\ synced[reg[arg[t]]]
         /\ arg[t] \in pending => /\ arg[t] \in listening
                                  /\ starter[reg[arg[t]]] = "running"

\* Without cancellation no call waits for a goroutine that has gone, although
\* WaitForCacheSync and HasSynced are given no way out: what CallsReturn needs beside
\* fairness.
THEOREM NoOneWaitsInVain ==
  ASSUME Cancellable = {} PROVE Spec => []WaitsAreAnswered
<1>1. ASSUME BInv, NEW t \in Threads, pc[t] = "waitSync", ~synced[mon[t]]
      PROVE  /\ starter[mon[t]] \in {"spawned", "entered", "running"}
             /\ stopCh[mon[t]] = "open"
  <2>1. mon[t] \in Items /\ itemKey[mon[t]] # None
    BY <1>1, SecretMonitorAssumption DEF BInv, SInv, IInv, TypeOK, ThreadShape
  <2>2. stopCh[mon[t]] = "open"
    BY <1>1, <2>1 DEF BInv, SInv, IInv, TypeOK, StoppedIsForgotten
  <2>3. starter[mon[t]] \in {"none", "spawned", "entered", "running", "returned"}
    BY <1>1, <2>1 DEF BInv, SInv, IInv, TypeOK
  <2>4. starter[mon[t]] \notin {"none", "returned"}
    BY <1>1, <2>1, <2>2 DEF BInv, SInv, IInv, ItemShape
  <2> QED
    BY <2>2, <2>3, <2>4
<1>2. ASSUME BInv, NEW t \in Threads, pc[t] = "get"
      PROVE  /\ synced[reg[arg[t]]]
             /\ arg[t] \in pending => /\ arg[t] \in listening
                                      /\ starter[reg[arg[t]]] = "running"
  <2>1. /\ arg[t] \in held /\ reg[arg[t]] = mon[t] /\ mon[t] \in Items
        /\ \E k \in Keys : monitors[k] = mon[t] /\ synced[mon[t]]
    BY <1>2, SecretMonitorAssumption
    DEF BInv, SInv, IInv, TypeOK, ThreadShape, MapShape
  <2>2. ~stopped[mon[t]]
    BY <1>2, <2>1, InHandRuns DEF BInv
  <2> QED
    BY <1>2, <2>1, <2>2 DEF BInv, SInv, IInv, TypeOK, ItemShape, HeldIsListening
<1>3. BInv => WaitsAreAnswered
  BY <1>1, <1>2 DEF WaitsAreAnswered
<1> QED
  BY <1>3, BackgroundInvariance, PTL

=============================================================================
