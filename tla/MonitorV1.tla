-------------------------------- MODULE MonitorV1 --------------------------------
(******************************************************************************)
(* monitor: the SecretMonitor and its Objects, which count how many           *)
(* registrations refer to them.  One namespace stands for all, since every    *)
(* key holds it.                                                              *)
(*                                                                            *)
(* RegisterRoute and UnregisterRoute hold sm.lock for their whole body and    *)
(* wait for nothing: each is one action.  GetSecret lets go of the lock once  *)
(* it has its Object.                                                         *)
(******************************************************************************)
EXTENDS Naturals

CONSTANTS
  Routes,   \* the Routes, each with a name and a uid of its own
  NoUid,    \* the uid of a key that is made without one
  Secrets,  \* the names of secrets
  Dummy,    \* "dummy-secret", the one name that RegisterRoute uses
  Threads,  \* the goroutines that call GetSecret
  Objects,  \* bound: the Objects that may be created, none twice
  MaxRefs,  \* bound: how far a RefCount may rise
  None

\* objectKey of a monitor: a name and a uid, which its route stands for.
Keys == Secrets \X (Routes \cup {NoUid})

VARIABLES
  registeredObjects,  \* the names each registered Route refers to, {} if there is none
  monitors,           \* sm.monitors: the Object of each key, or None
  refCount,           \* Object.RefCount
  stopped,            \* Object.stopped, closed with it: stopCh
  synced,             \* HasSynced of the Object's informer
  runner,             \* the goroutine of StartInformer
  reading             \* the Object that GetSecret of each thread polls, or None

vars == <<registeredObjects, monitors, refCount, stopped, synced, runner, reading>>

Init ==
  /\ registeredObjects = [r \in Routes |-> {}]
  /\ monitors = [k \in Keys |-> None]
  /\ refCount = [o \in Objects |-> 0]
  /\ stopped = [o \in Objects |-> FALSE]
  /\ synced = [o \in Objects |-> FALSE]
  /\ runner = [o \in Objects |-> "none"]
  /\ reading = [t \in Threads |-> None]

-----------------------------------------------------------------------------

\* purgeMonitors(parent), which comes last in both methods: ms and refs are what
\* they have made of sm.monitors and of the counts.  The keys have no uid.
Purge(names, ms, refs) ==
  LET hit == {k \in Keys : k[1] \in names /\ k[2] = NoUid /\ ms[k] # None}
      left == [o \in Objects |-> IF \E k \in hit : ms[k] = o THEN refs[o] - 1
                                                             ELSE refs[o]]
      idle == {k \in hit : left[ms[k]] = 0}
  IN /\ refCount' = left
     /\ stopped' = [o \in Objects |-> stopped[o] \/ \E k \in idle : ms[k] = o]
     /\ monitors' = [k \in Keys |-> IF k \in idle THEN None ELSE ms[k]]

\* The Object that RegisterRoute counts up: the one of the key, or a new one.
RegisterRoute(r, names) ==
  LET k == <<Dummy, r>>
  IN \E o \in Objects :
       /\ \/ monitors[k] = o /\ UNCHANGED runner
          \/ /\ monitors[k] = None /\ runner[o] = "none"
             /\ runner' = [runner EXCEPT ![o] = "spawned"]
       /\ refCount[o] < MaxRefs
       /\ registeredObjects' = [registeredObjects EXCEPT ![r] = names]
       /\ Purge(registeredObjects[r], [monitors EXCEPT ![k] = o],
                [refCount EXCEPT ![o] = @ + 1])
       /\ UNCHANGED <<synced, reading>>

UnregisterRoute(r) ==
  /\ registeredObjects' = [registeredObjects EXCEPT ![r] = {}]
  /\ Purge(registeredObjects[r], monitors, refCount)
  /\ UNCHANGED <<synced, runner, reading>>

\* GetSecret looks under the key without a uid.  (An error changes nothing.)
GetSecret(t, s) ==
  /\ reading[t] = None
  /\ monitors[<<s, NoUid>>] # None
  /\ reading' = [reading EXCEPT ![t] = monitors[<<s, NoUid>>]]
  /\ UNCHANGED <<registeredObjects, monitors, refCount, stopped, synced, runner>>

\* It reads the store when the Object has synced, or gives up after a second.
GetSecretReturn(t) ==
  /\ reading[t] # None
  /\ reading' = [reading EXCEPT ![t] = None]
  /\ UNCHANGED <<registeredObjects, monitors, refCount, stopped, synced, runner>>

\* The goroutine of an Object: informer.Run gives up at once on a closed channel.
StartInformer(o) ==
  /\ runner[o] = "spawned"
  /\ runner' = [runner EXCEPT ![o] = IF stopped[o] THEN "returned" ELSE "running"]
  /\ UNCHANGED <<registeredObjects, monitors, refCount, stopped, synced, reading>>

InformerSync(o) ==
  /\ runner[o] = "running"
  /\ synced' = [synced EXCEPT ![o] = TRUE]
  /\ UNCHANGED <<registeredObjects, monitors, refCount, stopped, runner, reading>>

InformerExit(o) ==
  /\ runner[o] = "running"
  /\ stopped[o]
  /\ runner' = [runner EXCEPT ![o] = "returned"]
  /\ UNCHANGED <<registeredObjects, monitors, refCount, stopped, synced, reading>>

-----------------------------------------------------------------------------

\* The routes refer to the secret that is registered for them, and maybe to others.
Next ==
  \/ \E r \in Routes :
       \/ \E names \in SUBSET Secrets : Dummy \in names /\ RegisterRoute(r, names)
       \/ UnregisterRoute(r)
  \/ \E t \in Threads : GetSecretReturn(t) \/ \E s \in Secrets : GetSecret(t, s)
  \/ \E o \in Objects : StartInformer(o) \/ InformerSync(o) \/ InformerExit(o)

Spec == Init /\ [][Next]_vars

-----------------------------------------------------------------------------

\* "UnregisterRoute unregisters secrets from a given Route that are not used by any
\* other registered Route": a secret has a monitor only while some route refers to it.
UnusedIsUnregistered ==
  \A k \in Keys :
    monitors[k] # None => \E r \in Routes : k[1] \in registeredObjects[r]

=============================================================================
