-------------------------------- MODULE MonitorV3 --------------------------------
(******************************************************************************)
(* monitorv3: the Manager, its secretMonitor and the singleItemMonitors, one  *)
(* for each pair of a route and a secret.                                     *)
(*                                                                            *)
(* Every method of the Manager holds m.lock for its whole body, and nobody    *)
(* else calls secretMonitor.  RegisterRoute and UnregisterRoute wait for      *)
(* nothing, so that each is one action together with what it calls; GetSecret *)
(* waits with the lock held.  What interleaves with them are the goroutines   *)
(* of the informers.                                                          *)
(*                                                                            *)
(* A call that is refused changes nothing and has no action: to unregister or *)
(* read a pair that is not registered.  Mutants are not the code: they are    *)
(* what properties are checked against.                                       *)
(******************************************************************************)
EXTENDS Integers, FiniteSets

CONSTANTS
  Routes,   \* the names of routes
  Keys,     \* the names of secrets
  Items,    \* the singleItemMonitors that may be created, none twice
  Handles,  \* the registrations that may be issued, none twice
  None

\* generateKey: the key <route>_<secret> of a monitor and of a registration.
Pairs == Routes \X Keys

ASSUME MonitorV3Assumption == None \notin Pairs \cup Items \cup Handles

VARIABLES
  monitors,            \* s.monitors: the item of each key, or None
  registeredHandlers,  \* m.registeredHandlers: the registration of each key
  itemKey,             \* singleItemMonitor.key, None before the item is created
  numHandlers,         \* singleItemMonitor.numHandlers
  stopped,             \* singleItemMonitor.stopped, closed with it: stopCh
  runner,              \* the goroutine of StartInformer
  reg,                 \* reg[h]: the item registration h was issued by, or None
  listening,           \* the registrations the informers distribute to
  reading              \* the key that GetSecret waits for, or None

itemVars == <<itemKey, numHandlers, stopped, runner>>
v3Vars == <<monitors, registeredHandlers, itemVars, reg, listening, reading>>

TypeOK ==
  /\ monitors \in [Pairs -> Items \cup {None}]
  /\ registeredHandlers \in [Pairs -> Handles \cup {None}]
  /\ itemKey \in [Items -> Pairs \cup {None}]
  /\ numHandlers \in [Items -> Nat]
  /\ stopped \in [Items -> BOOLEAN]
  /\ runner \in [Items -> {"none", "spawned", "running", "returned"}]
  /\ reg \in [Handles -> Items \cup {None}]
  /\ listening \in SUBSET Handles
  /\ reading \in Pairs \cup {None}

Init ==
  /\ monitors = [p \in Pairs |-> None]
  /\ registeredHandlers = [p \in Pairs |-> None]
  /\ itemKey = [i \in Items |-> None]
  /\ numHandlers = [i \in Items |-> 0]
  /\ stopped = [i \in Items |-> FALSE]
  /\ runner = [i \in Items |-> "none"]
  /\ reg = [h \in Handles |-> None]
  /\ listening = {}
  /\ reading = None

\* m.lock is free.
CanLock == reading = None

HandlersOf(i) == {h \in Handles : reg[h] = i}

-----------------------------------------------------------------------------
(* The methods of the item.                                                   *)

\* Mutant: the handler is not counted.
AttachUncounted(i, h) ==
  /\ ~stopped[i]
  /\ reg' = [reg EXCEPT ![h] = i]
  /\ listening' = listening \cup {h}
  /\ UNCHANGED numHandlers

\* i.AddEventHandler, which a stopped item refuses.
AddEventHandler(i, h) ==
  /\ ~stopped[i]
  /\ reg' = [reg EXCEPT ![h] = i]
  /\ listening' = listening \cup {h}
  /\ numHandlers' = [numHandlers EXCEPT ![i] = @ + 1]

\* The informer of the key is stopped and forgotten.
StopAndForget(p) ==
  /\ stopped' = [stopped EXCEPT ![monitors[p]] = TRUE]
  /\ monitors' = [monitors EXCEPT ![p] = None]

-----------------------------------------------------------------------------
(* The methods of the Manager.                                                *)

\* An unused value: which one does not matter.
Fresh(S, used) == CHOOSE x \in S : used[x] = None

\* The key gets a monitor if it has none, whose informer starts in a goroutine of
\* its own, and the handler is added to it without waiting for a sync.  The
\* registration takes the place of any that the key had before.
RegisterRoute(p) ==
  LET h == Fresh(Handles, reg)
      i == IF monitors[p] # None THEN monitors[p] ELSE Fresh(Items, itemKey)
  IN /\ CanLock
     /\ \E x \in Handles : reg[x] = None  \* the bounds: a registration, ...
     /\ \/ /\ monitors[p] # None
           /\ UNCHANGED <<monitors, itemKey, runner>>
        \/ /\ monitors[p] = None
           /\ \E x \in Items : itemKey[x] = None  \* ... and an item are left
           /\ monitors' = [monitors EXCEPT ![p] = i]
           /\ itemKey' = [itemKey EXCEPT ![i] = p]
           /\ runner' = [runner EXCEPT ![i] = "spawned"]
     /\ AddEventHandler(i, h)
     /\ registeredHandlers' = [registeredHandlers EXCEPT ![p] = h]
     /\ UNCHANGED <<stopped, reading>>

\* The handler goes, and with the last one the monitor.  (A registered key has a
\* monitor: see OwnInformer.)
UnregisterRoute(p) ==
  LET h == registeredHandlers[p]
      i == monitors[p]
  IN /\ CanLock
     /\ h # None
     /\ i # None
     /\ listening' = listening \ ({h} \cap HandlersOf(i))
     /\ numHandlers' = [numHandlers EXCEPT ![i] = @ - 1]
     /\ \/ numHandlers[i] - 1 <= 0 /\ StopAndForget(p)
        \/ numHandlers[i] - 1 > 0 /\ UNCHANGED <<stopped, monitors>>
     /\ registeredHandlers' = [registeredHandlers EXCEPT ![p] = None]
     /\ UNCHANGED <<itemKey, runner, reg, reading>>

\* GetSecret polls for a second whether the registration has synced, ...
GetSecret(p) ==
  /\ CanLock
  /\ registeredHandlers[p] # None
  /\ reading' = p
  /\ UNCHANGED <<monitors, registeredHandlers, itemVars, reg, listening>>

\* ... and then reads the store or gives up.
GetSecretReturn ==
  /\ reading # None
  /\ reading' = None
  /\ UNCHANGED <<monitors, registeredHandlers, itemVars, reg, listening>>

-----------------------------------------------------------------------------
(* The goroutines of the informers.                                           *)

\* informer.Run(i.stopCh), which gives up at once on a closed channel.
RunInformer(i) ==
  /\ runner[i] = "spawned"
  /\ \/ ~stopped[i] /\ runner' = [runner EXCEPT ![i] = "running"]
     \/ stopped[i] /\ runner' = [runner EXCEPT ![i] = "returned"]
  /\ UNCHANGED <<monitors, registeredHandlers, itemKey, numHandlers, stopped, reg,
                 listening, reading>>

\* Mutant: an informer that is idle does not see its channel.
ExitIfListening(i) ==
  /\ runner[i] = "running"
  /\ stopped[i]
  /\ HandlersOf(i) \cap listening # {}
  /\ runner' = [runner EXCEPT ![i] = "returned"]
  /\ listening' = listening \ HandlersOf(i)
  /\ UNCHANGED <<monitors, registeredHandlers, itemKey, numHandlers, stopped, reg,
                 reading>>

\* Run returns, and all listeners are gone.
InformerExit(i) ==
  /\ runner[i] = "running"
  /\ stopped[i]
  /\ runner' = [runner EXCEPT ![i] = "returned"]
  /\ listening' = listening \ HandlersOf(i)
  /\ UNCHANGED <<monitors, registeredHandlers, itemKey, numHandlers, stopped, reg,
                 reading>>

Informer(i) == RunInformer(i) \/ InformerExit(i)

-----------------------------------------------------------------------------

\* Callers that register a route only while it is not registered.
Next ==
  \/ \E i \in Items : Informer(i)
  \/ \E p \in Pairs :
       \/ registeredHandlers[p] = None /\ RegisterRoute(p)
       \/ UnregisterRoute(p)
       \/ GetSecret(p)
  \/ GetSecretReturn

Spec == Init /\ [][Next]_v3Vars

-----------------------------------------------------------------------------

\* With such callers, each registered key has an informer of its own that was not
\* stopped, whose only handler is the one of the registration; and every informer
\* that was not stopped belongs to a registered key.
OwnInformer ==
  /\ \A p \in Pairs :
       registeredHandlers[p] # None =>
         LET i == reg[registeredHandlers[p]]
         IN /\ monitors[p] = i
            /\ ~stopped[i] /\ numHandlers[i] = 1
            /\ HandlersOf(i) \cap listening = {registeredHandlers[p]}
  /\ \A i \in Items :
       itemKey[i] # None /\ ~stopped[i] =>
         /\ monitors[itemKey[i]] = i
         /\ registeredHandlers[itemKey[i]] # None

=============================================================================
