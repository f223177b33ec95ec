------------------------------ MODULE SecretMonitor ------------------------------
(******************************************************************************)
(* monitorv4/secret_monitor.go: secretMonitor, which shares one               *)
(* singleItemMonitor between all the handlers of one secret.                  *)
(*                                                                            *)
(* The client goroutines ("threads") run AddSecretEventHandler and            *)
(* RemoveSecretEventHandler under s.lock and GetSecret under s.lock.RLock.    *)
(* These methods wait for informers, start and stop them, and the goroutines  *)
(* of the informers take no notice of s.lock: a method is therefore a         *)
(* sequence of actions, one per critical section of the item's own lock.      *)
(*                                                                            *)
(* A call that is refused before it changes anything is a stuttering step and *)
(* has no action: a nil handler or registration, a registration whose key is  *)
(* not in s.monitors, a removal from a stopped item.                          *)
(******************************************************************************)
EXTENDS Integers, FiniteSets

CONSTANTS
  Keys,         \* the secrets, each an ObjectKey (namespace and name)
  Items,        \* the monitoredItems that may be created, none twice
  Handles,      \* the registrations that may be issued, none twice
  Threads,      \* the goroutines that call secretMonitor
  Contexts,     \* the contexts they pass to AddSecretEventHandler
  Cancellable,  \* those of Contexts that somebody may cancel
  None

ASSUME SecretMonitorAssumption ==
  /\ IsFiniteSet(Handles)
  /\ Cancellable \subseteq Contexts
  /\ None \notin Keys \cup Items \cup Handles \cup Threads \cup Contexts

VARIABLES
  monitors,     \* s.monitors: the item of each key, or None
  numHandlers,  \* monitoredItem.numHandlers
  itemKey,      \* singleItemMonitor.key, None before the item is created
  itemCtx,      \* the context StartInformer was given
  stopped,      \* singleItemMonitor.stopped
  stopCh,       \* singleItemMonitor.stopCh: "open" or "closed"
  starter,      \* the goroutine that runs StartInformer
  watcher,      \* the goroutine that watches the context
  synced,       \* informer.HasSynced()
  ctxDone,      \* the cancelled contexts
  reg,          \* reg[h]: the item registration h was issued by, or None
  listening,    \* the registrations the informers distribute to
  pending,      \* registrations with an initial Add still to be delivered
  held,         \* registrations their owner has not removed yet
  pc,           \* where each thread is in its call
  mon,          \* the local m of the call: a monitoredItem
  arg           \* the registration GetSecret was given

itemVars == <<numHandlers, itemKey, itemCtx, stopped, stopCh, starter, watcher, synced>>
handlerVars == <<reg, listening, pending, held>>
threadVars == <<pc, mon, arg>>
vars == <<monitors, itemVars, ctxDone, handlerVars, threadVars>>

TypeOK ==
  /\ monitors \in [Keys -> Items \cup {None}]
  /\ numHandlers \in [Items -> Nat]
  /\ itemKey \in [Items -> Keys \cup {None}]
  /\ itemCtx \in [Items -> Contexts \cup {None}]
  /\ stopped \in [Items -> BOOLEAN]
  /\ stopCh \in [Items -> {"open", "closed"}]
  /\ starter \in [Items -> {"none", "spawned", "entered", "running", "returned"}]
  /\ watcher \in [Items -> {"none", "select", "exited"}]
  /\ synced \in [Items -> BOOLEAN]
  /\ ctxDone \in SUBSET Contexts
  /\ reg \in [Handles -> Items \cup {None}]
  /\ listening \in SUBSET Handles
  /\ pending \in SUBSET Handles
  /\ held \in SUBSET Handles
  /\ pc \in [Threads -> {"idle", "waitSync", "attach", "stop", "get"}]
  /\ mon \in [Threads -> Items \cup {None}]
  /\ arg \in [Threads -> Handles \cup {None}]

Init ==
  /\ monitors = [k \in Keys |-> None]
  /\ numHandlers = [i \in Items |-> 0]
  /\ itemKey = [i \in Items |-> None]
  /\ itemCtx = [i \in Items |-> None]
  /\ stopped = [i \in Items |-> TRUE]
  /\ stopCh = [i \in Items |-> "open"]
  /\ starter = [i \in Items |-> "none"]
  /\ watcher = [i \in Items |-> "none"]
  /\ synced = [i \in Items |-> FALSE]
  /\ ctxDone = {}
  /\ reg = [h \in Handles |-> None]
  /\ listening = {}
  /\ pending = {}
  /\ held = {}
  /\ pc = [t \in Threads |-> "idle"]
  /\ mon = [t \in Threads |-> None]
  /\ arg = [t \in Threads |-> None]

\* s.lock is free for a reader, or for a writer.
CanRLock == \A t \in Threads : pc[t] \in {"idle", "get"}
CanLock == \A t \in Threads : pc[t] = "idle"

HandlersOf(i) == {h \in Handles : reg[h] = i}
HeldOn(i) == {h \in held : reg[h] = i}

\* Thread t unlocks and returns.
Return(t) ==
  /\ pc' = [pc EXCEPT ![t] = "idle"]
  /\ mon' = [mon EXCEPT ![t] = None]

-----------------------------------------------------------------------------
(* The methods of the item, which take i.lock.  A definition that is said to  *)
(* be a mutant is not the code: it is what a property is checked against.     *)

\* Mutant: a stopped item accepts handlers.
AddToStopped(i, h) == listening' = listening \cup {h}

\* i.AddEventHandler, not refused.
AddEventHandler(i, h) ==
  /\ ~stopped[i]
  /\ listening' = listening \cup {h}

\* Mutants: all the handlers go with one, or none does.
RemoveAll(i, h) == ~stopped[i] /\ listening' = listening \ HandlersOf(i)
RemoveNone(i, h) == ~stopped[i] /\ UNCHANGED listening

\* i.RemoveEventHandler, not refused.  The informer ignores a listener it does
\* not have.
RemoveEventHandler(i, h) ==
  /\ ~stopped[i]
  /\ listening' = listening \ ({h} \cap HandlersOf(i))

\* i.StopInformer: the channel is closed unless the item is stopped already.
StopInformer(i) ==
  /\ stopped' = [stopped EXCEPT ![i] = TRUE]
  /\ stopCh' = [stopCh EXCEPT ![i] = IF stopped[i] THEN @ ELSE "closed"]

-----------------------------------------------------------------------------
(* The calls.                                                                 *)

\* A key without a monitor gets a fresh one, not in the map yet, whose informer
\* starts in a goroutine of its own; the call then waits for the first sync.
AddSecretEventHandler(t, k, c) ==
  /\ CanLock
  /\ \E h \in Handles : reg[h] = None  \* the bound: an Add needs a registration
  /\ \/ /\ monitors[k] # None
        /\ pc' = [pc EXCEPT ![t] = "attach"]
        /\ mon' = [mon EXCEPT ![t] = monitors[k]]
        /\ UNCHANGED itemVars
     \/ /\ monitors[k] = None
        /\ \E i \in Items :
             /\ itemKey[i] = None
             /\ itemKey' = [itemKey EXCEPT ![i] = k]
             /\ itemCtx' = [itemCtx EXCEPT ![i] = c]
             /\ starter' = [starter EXCEPT ![i] = "spawned"]
             /\ pc' = [pc EXCEPT ![t] = "waitSync"]
             /\ mon' = [mon EXCEPT ![t] = i]
        /\ UNCHANGED <<numHandlers, stopped, stopCh, watcher, synced>>
  /\ UNCHANGED <<monitors, ctxDone, handlerVars, arg>>

\* WaitForCacheSync polls HasSynced.  Its stop channel is the nil channel of
\* context.Background(), so it never gives up.
AwaitSync(t) ==
  /\ pc[t] = "waitSync"
  /\ synced[mon[t]]
  /\ monitors' = [monitors EXCEPT ![itemKey[mon[t]]] = mon[t]]
  /\ pc' = [pc EXCEPT ![t] = "attach"]
  /\ UNCHANGED <<itemVars, ctxDone, handlerVars, mon, arg>>

\* Mutant: the handler is not counted.
AttachUncounted(t, h) ==
  /\ pc[t] = "attach"
  /\ AddEventHandler(mon[t], h)
  /\ reg[h] = None
  /\ reg' = [reg EXCEPT ![h] = mon[t]]
  /\ held' = held \cup {h}
  /\ Return(t)
  /\ UNCHANGED <<monitors, itemVars, ctxDone, pending, arg>>

\* The item accepts the handler.  If the secret is in the informer's store, the
\* new listener first gets an Add for it.
AttachHandler(t, h) ==
  /\ pc[t] = "attach"
  /\ AddEventHandler(mon[t], h)
  /\ reg[h] = None
  /\ reg' = [reg EXCEPT ![h] = mon[t]]
  /\ held' = held \cup {h}
  /\ pending' \in {pending, pending \cup {h}}
  /\ numHandlers' = [numHandlers EXCEPT ![mon[t]] = @ + 1]
  /\ Return(t)
  /\ UNCHANGED <<monitors, itemKey, itemCtx, stopped, stopCh, starter, watcher,
                 synced, ctxDone, arg>>

\* The item is stopped: the call fails and leaves s.monitors as it is.
AttachRefused(t) ==
  /\ pc[t] = "attach"
  /\ stopped[mon[t]]
  /\ Return(t)
  /\ UNCHANGED <<monitors, itemVars, ctxDone, handlerVars, arg>>

\* Mutants: the item is stopped one handler too early, or never.
StopOneEarly(i) == numHandlers[i] - 1 <= 1
StopNever(i) == numHandlers[i] - 1 < 0

\* No handler is left once the one that is being removed is gone.
IsLastHandler(i) == numHandlers[i] - 1 <= 0

\* The informer of the key forgets the listener if it has it; the count goes down
\* in either case.
RemoveSecretEventHandler(t, h) ==
  LET i == monitors[itemKey[reg[h]]]
  IN /\ CanLock
     /\ reg[h] # None
     /\ i # None
     /\ RemoveEventHandler(i, h)
     /\ held' = held \ {h}
     /\ numHandlers' = [numHandlers EXCEPT ![i] = @ - 1]
     /\ \/ /\ IsLastHandler(i)
           /\ pc' = [pc EXCEPT ![t] = "stop"]
           /\ mon' = [mon EXCEPT ![t] = i]
        \/ /\ ~IsLastHandler(i)
           /\ UNCHANGED <<pc, mon>>
     /\ UNCHANGED <<monitors, itemKey, itemCtx, stopped, stopCh, starter, watcher,
                    synced, ctxDone, reg, pending, arg>>

\* Mutants: the item is forgotten but runs on, or is stopped but stays in the map.
StopMonitorLeaks(t) ==
  /\ pc[t] = "stop"
  /\ monitors' = [monitors EXCEPT ![itemKey[mon[t]]] = None]
  /\ Return(t)
  /\ UNCHANGED <<itemVars, ctxDone, handlerVars, arg>>
StopMonitorKeepsEntry(t) ==
  /\ pc[t] = "stop"
  /\ StopInformer(mon[t])
  /\ Return(t)
  /\ UNCHANGED <<monitors, numHandlers, itemKey, itemCtx, starter, watcher, synced,
                 ctxDone, handlerVars, arg>>

\* The end of the removal of the last handler: stop the item and forget it.
StopMonitor(t) ==
  /\ pc[t] = "stop"
  /\ StopInformer(mon[t])
  /\ monitors' = [monitors EXCEPT ![itemKey[mon[t]]] = None]
  /\ Return(t)
  /\ UNCHANGED <<numHandlers, itemKey, itemCtx, starter, watcher, synced, ctxDone,
                 handlerVars, arg>>

\* GetSecret finds the item of the key under the read lock, ...
GetSecret(t, h) ==
  /\ CanRLock
  /\ pc[t] = "idle"
  /\ reg[h] # None
  /\ monitors[itemKey[reg[h]]] # None
  /\ pc' = [pc EXCEPT ![t] = "get"]
  /\ mon' = [mon EXCEPT ![t] = monitors[itemKey[reg[h]]]]
  /\ arg' = [arg EXCEPT ![t] = h]
  /\ UNCHANGED <<monitors, itemVars, ctxDone, handlerVars>>

\* ... waits until the registration has seen the initial Add, without giving up
\* either, and answers from the item's store.
GetSecretReturn(t) ==
  /\ pc[t] = "get"
  /\ synced[reg[arg[t]]]
  /\ arg[t] \notin pending
  /\ Return(t)
  /\ arg' = [arg EXCEPT ![t] = None]
  /\ UNCHANGED <<monitors, itemVars, ctxDone, handlerVars>>

-----------------------------------------------------------------------------
(* The goroutines of an item and of its informer.                             *)

\* Mutant: a new item does not count as stopped, and StartInformer refuses it.
StartRefused(i) ==
  /\ starter[i] = "spawned"
  /\ starter' = [starter EXCEPT ![i] = "returned"]
  /\ UNCHANGED <<monitors, numHandlers, itemKey, itemCtx, stopped, stopCh, watcher,
                 synced, ctxDone, handlerVars, threadVars>>

\* The locked part of StartInformer.  The item is new, hence not running.
StartInformer(i) ==
  /\ starter[i] = "spawned"
  /\ stopped[i]
  /\ stopped' = [stopped EXCEPT ![i] = FALSE]
  /\ starter' = [starter EXCEPT ![i] = "entered"]
  /\ watcher' = [watcher EXCEPT ![i] = "select"]
  /\ UNCHANGED <<monitors, numHandlers, itemKey, itemCtx, stopCh, synced, ctxDone,
                 handlerVars, threadVars>>

\* informer.Run(i.stopCh), which gives up at once on a closed channel.
RunInformer(i) ==
  /\ starter[i] = "entered"
  /\ \/ /\ stopCh[i] = "open"
        /\ starter' = [starter EXCEPT ![i] = "running"]
     \/ /\ stopCh[i] = "closed"
        /\ starter' = [starter EXCEPT ![i] = "returned"]
  /\ UNCHANGED <<monitors, numHandlers, itemKey, itemCtx, stopped, stopCh, watcher,
                 synced, ctxDone, handlerVars, threadVars>>

\* The first list of the API server has reached the store.
InformerSync(i) ==
  /\ starter[i] = "running"
  /\ ~synced[i]
  /\ synced' = [synced EXCEPT ![i] = TRUE]
  /\ UNCHANGED <<monitors, numHandlers, itemKey, itemCtx, stopped, stopCh, starter,
                 watcher, ctxDone, handlerVars, threadVars>>

\* Run returns: all listeners are gone, and with them the initial Adds that
\* none of them has delivered.
InformerExit(i) ==
  /\ starter[i] = "running"
  /\ stopCh[i] = "closed"
  /\ starter' = [starter EXCEPT ![i] = "returned"]
  /\ listening' = listening \ HandlersOf(i)
  /\ UNCHANGED <<monitors, numHandlers, itemKey, itemCtx, stopped, stopCh, watcher,
                 synced, ctxDone, reg, pending, held, threadVars>>

\* The listener of h calls OnAdd and is done with its initial list.  A listener
\* that was removed may still do it, as long as Run has not returned.
DeliverInitial(h) ==
  /\ h \in pending
  /\ starter[reg[h]] # "returned"
  /\ pending' = pending \ {h}
  /\ UNCHANGED <<monitors, itemVars, ctxDone, reg, listening, held, threadVars>>

CancelContext(c) ==
  /\ c \in Cancellable \ ctxDone
  /\ ctxDone' = ctxDone \cup {c}
  /\ UNCHANGED <<monitors, itemVars, handlerVars, threadVars>>

\* Mutant: the watcher ends without stopping the item.
WatcherGivesUp(i) ==
  /\ watcher[i] = "select"
  /\ itemCtx[i] \in ctxDone
  /\ watcher' = [watcher EXCEPT ![i] = "exited"]
  /\ UNCHANGED <<monitors, numHandlers, itemKey, itemCtx, stopped, stopCh, starter,
                 synced, ctxDone, handlerVars, threadVars>>

\* case <-ctx.Done() of the watcher: StopInformer, and nothing in s.monitors.
WatcherOnCancel(i) ==
  /\ watcher[i] = "select"
  /\ itemCtx[i] \in ctxDone
  /\ watcher' = [watcher EXCEPT ![i] = "exited"]
  /\ StopInformer(i)
  /\ UNCHANGED <<monitors, numHandlers, itemKey, itemCtx, starter, synced, ctxDone,
                 handlerVars, threadVars>>

\* case <-i.stopCh of the watcher.
WatcherOnStop(i) ==
  /\ watcher[i] = "select"
  /\ stopCh[i] = "closed"
  /\ watcher' = [watcher EXCEPT ![i] = "exited"]
  /\ UNCHANGED <<monitors, numHandlers, itemKey, itemCtx, stopped, stopCh, starter,
                 synced, ctxDone, handlerVars, threadVars>>

-----------------------------------------------------------------------------

Informer(i) ==
  \/ StartInformer(i)
  \/ RunInformer(i)
  \/ InformerSync(i)
  \/ InformerExit(i)
  \/ WatcherOnCancel(i)
  \/ WatcherOnStop(i)

\* The calls in progress go on.
Continue(t) ==
  \/ AwaitSync(t)
  \/ \E h \in Handles : AttachHandler(t, h)
  \/ AttachRefused(t)
  \/ StopMonitor(t)
  \/ GetSecretReturn(t)

Environment ==
  \/ \E i \in Items : Informer(i)
  \/ \E h \in Handles : DeliverInitial(h)
  \/ \E c \in Contexts : CancelContext(c)

Add(t) == \E k \in Keys, c \in Contexts : AddSecretEventHandler(t, k, c)

\* Clients that use a registration until they have removed it, as Manager does.
Next ==
  \/ Environment
  \/ \E t \in Threads :
       \/ Add(t)
       \/ \E h \in held : RemoveSecretEventHandler(t, h) \/ GetSecret(t, h)
       \/ Continue(t)

Spec == Init /\ [][Next]_vars

\* The Go scheduler runs every goroutine that can run, the API server answers
\* the first list in the end, and a handler's OnAdd returns.
Fairness ==
  /\ \A i \in Items :
       /\ WF_vars(StartInformer(i))
       /\ WF_vars(RunInformer(i))
       /\ WF_vars(InformerSync(i))
       /\ WF_vars(InformerExit(i))
       /\ WF_vars(WatcherOnCancel(i) \/ WatcherOnStop(i))
  /\ \A h \in Handles : WF_vars(h \in listening /\ DeliverInitial(h))
  /\ \A t \in Threads : WF_vars(Continue(t))

FairSpec == Spec /\ Fairness

-----------------------------------------------------------------------------
(* What the state must satisfy.                                               *)

\* numHandlers, which decides when the shared informer is stopped, is the number
\* of registrations on the item that their owners have not removed.
CountMatchesHeld ==
  \A i \in Items : numHandlers[i] = Cardinality(HeldOn(i))

\* The item behind a registration is the one s.monitors has under its key, so
\* that RemoveSecretEventHandler and GetSecret reach it through the key alone.
HeldIsMonitored == \A h \in held : monitors[itemKey[reg[h]]] = reg[h]

\* A registration that was not removed gets the events of its secret as long as
\* the item runs.
HeldIsListening == \A h \in held : ~stopped[reg[h]] => h \in listening

\* No informer runs that nobody can stop: it is in s.monitors, or some call in
\* progress is about to put it there or to stop it.
NoLeakedInformer ==
  \A i \in Items :
    itemKey[i] # None /\ stopCh[i] = "open" =>
      monitors[itemKey[i]] = i \/ \E t \in Threads : mon[t] = i

\* Between calls, an informer that nobody uses is not kept running.
NoIdleInformer ==
  CanLock => \A i \in Items : ~stopped[i] => numHandlers[i] > 0

\* While GetSecret waits and reads, nobody takes its item out of s.monitors or
\* stops the informer that fills the store.
GetReadsLive ==
  \A t \in Threads :
    pc[t] = "get" => /\ monitors[itemKey[mon[t]]] = mon[t]
                     /\ ~stopped[mon[t]]

(* What a step may do.                                                        *)

\* No informer is stopped under a registration that was not removed.
StopsOnlyUnused ==
  [][\A i \in Items :
       ~stopped[i] /\ stopped'[i] => \A h \in held' : reg'[h] # i]_vars

\* "If the handler is not found ... an error is returned": the count goes down
\* only for a handler the informer had and has no more.
RemovalFindsHandler ==
  [][\A i \in Items :
       numHandlers'[i] < numHandlers[i] =>
         \E h \in listening \ listening' : reg[h] = i]_vars

\* A call of AddSecretEventHandler that has its item in hand succeeds: it attaches
\* the handler, and nobody stopped the item in between.
AddAttaches ==
  [][\A t \in Threads :
       pc[t] = "attach" /\ pc'[t] # "attach" => held' # held]_vars

\* "... starts the informer if not already running": since it does not look at an
\* item it finds under the key, that item's informer has to be running.
AddFindsLive ==
  [][\A t \in Threads :
       pc[t] = "idle" /\ pc'[t] = "attach" => ~stopped[mon'[t]]]_vars

(* What must happen.                                                          *)

\* Every call returns, and with it s.lock is released.
CallsReturn == \A t \in Threads : pc[t] # "idle" ~> pc[t] = "idle"

(* Each item is used as monitorv4/monitor.go expects: every step of the whole *)
(* is a step of the item's own specification, or none.                        *)

InformerOf(i) ==
  CASE starter[i] = "running" -> "running"
    [] starter[i] = "returned" -> "stopped"
    [] OTHER -> "new"

Item(i) == INSTANCE SingleItemMonitor WITH
  Starters  <- {i},
  Handlers  <- Handles,
  stopped   <- stopped[i],
  stopCh    <- stopCh[i],
  informer  <- InformerOf(i),
  starter   <- [g \in {i} |-> IF starter[i] \in {"none", "spawned"}
                              THEN "idle" ELSE starter[i]],
  watcher   <- [g \in {i} |-> watcher[i]],
  ctxDone   <- {g \in {i} : itemCtx[i] \in ctxDone},
  listeners <- listening \cap HandlersOf(i),
  attached  <- HeldOn(i),
  panicked  <- FALSE

ItemsImplementMonitor ==
  /\ \A i \in Items : Item(i)!Init
  /\ [][\A i \in Items : [Item(i)!Next]_(Item(i)!vars)]_vars

\* The goroutines of every item end as monitorv4/monitor.go has it: that of
\* StartInformer when its context is cancelled, all of them after a stop.
ItemsEnd ==
  \A i \in Items : Item(i)!CancelEndsStart /\ Item(i)!StopEndsGoroutines

=============================================================================
