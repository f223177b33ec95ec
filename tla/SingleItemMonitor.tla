---------------------------- MODULE SingleItemMonitor ----------------------------
(******************************************************************************)
(* monitorv4/monitor.go: one singleItemMonitor, the object that runs one      *)
(* SharedInformer for one secret.                                             *)
(*                                                                            *)
(* Every method takes i.lock for its whole body, except that StartInformer    *)
(* releases it before it calls informer.Run.  A critical section is therefore *)
(* one action; what interleaves is the goroutine of StartInformer, the        *)
(* goroutine it spawns to watch its context, and the callers of the other     *)
(* methods.                                                                   *)
(*                                                                            *)
(* A definition that is said to be a mutant is not the code: it is what a     *)
(* property is checked against.                                               *)
(******************************************************************************)
EXTENDS Naturals

CONSTANTS Starters,  \* the goroutines that call StartInformer, each with a context
          Handlers   \* the event handlers that clients add and remove

VARIABLES
  stopped,    \* i.stopped
  stopCh,     \* i.stopCh: "open" or "closed"
  informer,   \* i.informer: "new", "running" (inside Run) or "stopped"
  starter,    \* starter[g]: where goroutine g is in StartInformer
  watcher,    \* watcher[g]: the goroutine that StartInformer of g spawned
  ctxDone,    \* the goroutines whose context is cancelled
  listeners,  \* the handlers the informer distributes to
  attached,   \* the handlers whose registration a client holds
  panicked    \* close(i.stopCh) hit a closed channel: the process is gone

vars == <<stopped, stopCh, informer, starter, watcher, ctxDone, listeners,
          attached, panicked>>

TypeOK ==
  /\ stopped \in BOOLEAN
  /\ stopCh \in {"open", "closed"}
  /\ informer \in {"new", "running", "stopped"}
  /\ starter \in [Starters -> {"idle", "entered", "running", "returned"}]
  /\ watcher \in [Starters -> {"none", "select", "exited"}]
  /\ ctxDone \subseteq Starters
  /\ listeners \subseteq Handlers
  /\ attached \subseteq Handlers
  /\ panicked \in BOOLEAN

\* newSingleItemMonitor: not started counts as stopped.
Init ==
  /\ stopped = TRUE
  /\ stopCh = "open"
  /\ informer = "new"
  /\ starter = [g \in Starters |-> "idle"]
  /\ watcher = [g \in Starters |-> "none"]
  /\ ctxDone = {}
  /\ listeners = {}
  /\ attached = {}
  /\ panicked = FALSE

-----------------------------------------------------------------------------

\* The locked part of StartInformer: refuse if running, else spawn the context
\* watcher and declare the informer running.
StartInformer(g) ==
  /\ starter[g] = "idle"
  /\ \/ /\ stopped
        /\ stopped' = FALSE
        /\ watcher' = [watcher EXCEPT ![g] = "select"]
        /\ starter' = [starter EXCEPT ![g] = "entered"]
     \/ /\ ~stopped
        /\ starter' = [starter EXCEPT ![g] = "returned"]
        /\ UNCHANGED <<stopped, watcher>>
  /\ UNCHANGED <<stopCh, informer, ctxDone, listeners, attached, panicked>>

\* Mutants: Run starts without its listeners, or starts whatever happened before.
RunForgetsListeners(g) ==
  /\ starter[g] = "entered"
  /\ informer = "new" /\ stopCh = "open"
  /\ informer' = "running"
  /\ starter' = [starter EXCEPT ![g] = "running"]
  /\ listeners' = {}
  /\ UNCHANGED <<stopped, stopCh, watcher, ctxDone, attached, panicked>>
RunAgain(g) ==
  /\ starter[g] = "entered"
  /\ informer' = "running"
  /\ starter' = [starter EXCEPT ![g] = "running"]
  /\ UNCHANGED <<stopped, stopCh, watcher, ctxDone, listeners, attached, panicked>>

\* informer.Run(i.stopCh).  A SharedInformer runs at most once: a second Run
\* returns at once, and so does a Run whose channel is closed already.
RunInformer(g) ==
  /\ starter[g] = "entered"
  /\ \/ /\ informer = "new" /\ stopCh = "open"
        /\ informer' = "running"
        /\ starter' = [starter EXCEPT ![g] = "running"]
        /\ UNCHANGED listeners
     \/ /\ informer = "new" /\ stopCh = "closed"
        /\ informer' = "stopped"
        /\ listeners' = {}
        /\ starter' = [starter EXCEPT ![g] = "returned"]
     \/ /\ informer # "new"
        /\ starter' = [starter EXCEPT ![g] = "returned"]
        /\ UNCHANGED <<informer, listeners>>
  /\ UNCHANGED <<stopped, stopCh, watcher, ctxDone, attached, panicked>>

\* Run sees the closed channel: no listener may join any more, and the
\* processor closes and forgets the ones it has.
InformerExit(g) ==
  /\ starter[g] = "running"
  /\ stopCh = "closed"
  /\ informer' = "stopped"
  /\ listeners' = {}
  /\ starter' = [starter EXCEPT ![g] = "returned"]
  /\ UNCHANGED <<stopped, stopCh, watcher, ctxDone, attached, panicked>>

\* Mutants: stopped is not set; the channel is set to nil.
CloseAgain ==
  /\ ~stopped
  /\ stopCh' = "closed"
  /\ panicked' = (stopCh = "closed")
  /\ UNCHANGED stopped
DropStopCh ==
  /\ ~stopped
  /\ stopped' = TRUE
  /\ stopCh' = "nil"
  /\ UNCHANGED panicked

\* The body of StopInformer when it is not refused: close the channel.
CloseStopCh ==
  /\ ~stopped
  /\ stopped' = TRUE
  /\ stopCh' = "closed"
  /\ panicked' = (stopCh = "closed")

\* StopInformer called by a client.  On a stopped monitor it returns false and
\* changes nothing.
StopInformer ==
  /\ CloseStopCh
  /\ UNCHANGED <<informer, starter, watcher, ctxDone, listeners, attached>>

CancelContext(g) ==
  /\ g \notin ctxDone
  /\ ctxDone' = ctxDone \cup {g}
  /\ UNCHANGED <<stopped, stopCh, informer, starter, watcher, listeners,
                 attached, panicked>>

\* Mutant: the watcher ends without stopping the monitor.
WatcherGivesUp(g) ==
  /\ watcher[g] = "select"
  /\ g \in ctxDone
  /\ watcher' = [watcher EXCEPT ![g] = "exited"]
  /\ UNCHANGED <<stopped, stopCh, informer, starter, ctxDone, listeners, attached,
                 panicked>>

\* case <-ctx.Done() of the watcher: it calls StopInformer and ends.
WatcherOnCancel(g) ==
  /\ watcher[g] = "select"
  /\ g \in ctxDone
  /\ watcher' = [watcher EXCEPT ![g] = "exited"]
  /\ \/ CloseStopCh
     \/ stopped /\ UNCHANGED <<stopped, stopCh, panicked>>
  /\ UNCHANGED <<informer, starter, ctxDone, listeners, attached>>

\* Mutant: the watcher waits for its context alone.
NoStopCase(g) == FALSE

\* case <-i.stopCh of the watcher.
WatcherOnStop(g) ==
  /\ watcher[g] = "select"
  /\ stopCh = "closed"
  /\ watcher' = [watcher EXCEPT ![g] = "exited"]
  /\ UNCHANGED <<stopped, stopCh, informer, starter, ctxDone, listeners,
                 attached, panicked>>

\* AddEventHandler succeeds only on a running monitor whose informer has not
\* stopped; a refusal changes nothing.
AddEventHandler(h) ==
  /\ h \notin attached
  /\ ~stopped
  /\ informer # "stopped"
  /\ listeners' = listeners \cup {h}
  /\ attached' = attached \cup {h}
  /\ UNCHANGED <<stopped, stopCh, informer, starter, watcher, ctxDone, panicked>>

\* RemoveEventHandler: the informer drops the listener.  One it does not have
\* it ignores, without an error.
RemoveEventHandler(h) ==
  /\ ~stopped
  /\ listeners' = listeners \ {h}
  /\ attached' = attached \ {h}
  /\ UNCHANGED <<stopped, stopCh, informer, starter, watcher, ctxDone, panicked>>

Goroutine(g) ==
  \/ StartInformer(g)
  \/ RunInformer(g)
  \/ InformerExit(g)
  \/ WatcherOnCancel(g)
  \/ WatcherOnStop(g)

Next ==
  /\ ~panicked
  /\ \/ \E g \in Starters : Goroutine(g) \/ CancelContext(g)
     \/ StopInformer
     \/ \E h \in Handlers : AddEventHandler(h) \/ RemoveEventHandler(h)

Spec == Init /\ [][Next]_vars

\* The Go scheduler runs every goroutine that can run.  Clients owe nothing.
Fairness ==
  \A g \in Starters :
    /\ WF_vars(~panicked /\ RunInformer(g))
    /\ WF_vars(~panicked /\ InformerExit(g))
    /\ WF_vars(~panicked /\ (WatcherOnCancel(g) \/ WatcherOnStop(g)))

FairSpec == Spec /\ Fairness

-----------------------------------------------------------------------------

\* The goroutines whose StartInformer was not refused.
Started == {g \in Starters : watcher[g] # "none"}

\* "Returns false if called twice, or before StartInformer(); true otherwise":
\* i.stopCh is never closed twice, which takes the process down, unless the monitor
\* was started again after a stop, which StartInformer does not refuse.
OnlyRestartPanics == panicked => \E g1, g2 \in Started : g1 # g2

\* A handler whose registration a client holds is one the informer calls, until
\* the monitor is stopped.
AttachedIsListening == stopCh = "open" => attached = listeners

\* Run is called for real by one goroutine at most, however often and from
\* wherever StartInformer is called.
OneRunner ==
  \A g1, g2 \in Starters :
    starter[g1] = "running" /\ starter[g2] = "running" => g1 = g2

\* A stop is final: no later call makes the informer run that was stopped, or that
\* was to be.
StopIsFinal ==
  [][stopCh = "closed" =>
       /\ stopCh' = "closed"
       /\ informer' = "running" => informer = "running"]_vars

\* StartInformer "runs the informer until the provided context is canceled":
\* once its context is cancelled, the goroutine comes back.
CancelEndsStart ==
  \A g \in Starters :
    starter[g] \in {"entered", "running"} /\ g \in ctxDone ~>
      starter[g] = "returned" \/ panicked

\* No goroutine is left behind: once the channel is closed the informer stops
\* and the context watcher ends, even if its context is never cancelled.
StopEndsGoroutines ==
  \A g \in Starters :
    stopCh = "closed" ~>
      \/ watcher[g] # "select" /\ starter[g] \in {"idle", "returned"}
      \/ panicked

=============================================================================
