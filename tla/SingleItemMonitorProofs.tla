------------------------- MODULE SingleItemMonitorProofs -------------------------
(******************************************************************************)
(* Theorems about SingleItemMonitor: for any number of goroutines that start  *)
(* and any handlers.                                                          *)
(******************************************************************************)
EXTENDS SingleItemMonitor, TLAPS

-----------------------------------------------------------------------------
(* However often StartInformer is called.                                     *)

\* A goroutine is inside Run exactly while the informer runs, and an informer ends
\* only when its channel is closed.
RunShape ==
  /\ \A g \in Starters : starter[g] = "running" => informer = "running"
  /\ informer = "stopped" => stopCh = "closed"

IInv ==
  /\ TypeOK
  /\ RunShape
  /\ OneRunner
  /\ AttachedIsListening

LEMMA IInvInit == Init => IInv
BY DEF Init, IInv, TypeOK, RunShape, OneRunner, AttachedIsListening

\* The steps of the goroutines of StartInformer.
LEMMA GoroutineKeeps ==
  ASSUME IInv, NEW g \in Starters, Goroutine(g)
  PROVE  IInv'
<1>1. CASE StartInformer(g)
  BY <1>1
  DEF IInv, TypeOK, RunShape, OneRunner, AttachedIsListening, StartInformer
<1>2. CASE RunInformer(g)
  BY <1>2
  DEF IInv, TypeOK, RunShape, OneRunner, AttachedIsListening, RunInformer
<1>3. CASE InformerExit(g)
  BY <1>3
  DEF IInv, TypeOK, RunShape, OneRunner, AttachedIsListening, InformerExit
<1>4. CASE WatcherOnCancel(g)
  BY <1>4
  DEF IInv, TypeOK, RunShape, OneRunner, AttachedIsListening, WatcherOnCancel, CloseStopCh
<1>5. CASE WatcherOnStop(g)
  BY <1>5
  DEF IInv, TypeOK, RunShape, OneRunner, AttachedIsListening, WatcherOnStop
<1> QED
  BY <1>1, <1>2, <1>3, <1>4, <1>5 DEF Goroutine

LEMMA IInvStep == IInv /\ [Next]_vars => IInv'
<1> SUFFICES ASSUME IInv, [Next]_vars PROVE IInv'
  OBVIOUS
<1>1. CASE UNCHANGED vars
  BY <1>1 DEF vars, IInv, TypeOK, RunShape, OneRunner, AttachedIsListening
<1>2. CASE StopInformer
  BY <1>2
  DEF IInv, TypeOK, RunShape, OneRunner, AttachedIsListening, StopInformer, CloseStopCh
<1>3. ASSUME NEW g \in Starters, CancelContext(g) PROVE IInv'
  BY <1>3 DEF IInv, TypeOK, RunShape, OneRunner, AttachedIsListening, CancelContext
<1>4. ASSUME NEW h \in Handlers, AddEventHandler(h) PROVE IInv'
  BY <1>4 DEF IInv, TypeOK, RunShape, OneRunner, AttachedIsListening, AddEventHandler
<1>5. ASSUME NEW h \in Handlers, RemoveEventHandler(h) PROVE IInv'
  BY <1>5 DEF IInv, TypeOK, RunShape, OneRunner, AttachedIsListening, RemoveEventHandler
<1> QED
  BY <1>1, <1>2, <1>3, <1>4, <1>5, GoroutineKeeps DEF Next

LEMMA Invariance == Spec => []IInv
  BY IInvInit, IInvStep, PTL DEF Spec

\* No goroutine of the monitor takes a variable out of its type.
THEOREM TypeCorrect == Spec => []TypeOK
  BY Invariance, PTL DEF IInv

\* Whoever calls StartInformer, one goroutine at a time is inside Run.
THEOREM OneRuns == Spec => []OneRunner
  BY Invariance, PTL DEF IInv

\* Until the monitor is stopped, the informer calls the handlers whose registrations
\* are held, and no others.
THEOREM AttachedAreCalled == Spec => []AttachedIsListening
  BY Invariance, PTL DEF IInv

\* No call makes an informer run again, or for the first time, after a stop.
THEOREM StopsAreFinal == Spec => StopIsFinal
<1>1. Next => [stopCh = "closed" =>
                 /\ stopCh' = "closed"
                 /\ informer' = "running" => informer = "running"]_vars
  BY DEF Next, Goroutine, StartInformer, RunInformer, InformerExit, CancelContext,
         WatcherOnCancel, WatcherOnStop, StopInformer, CloseStopCh, AddEventHandler,
         RemoveEventHandler
<1> QED
  BY <1>1, PTL DEF Spec, StopIsFinal

-----------------------------------------------------------------------------
(* What it takes to close the channel twice.                                  *)

Restarted == \E g1, g2 \in Started : g1 # g2

\* The monitor runs, or has been stopped, only after a start; it runs with a closed
\* channel only after two.
StartShape ==
  /\ \A g \in Starters : starter[g] = "idle" => watcher[g] = "none"
  /\ ~stopped \/ stopCh = "closed" => \E g \in Starters : watcher[g] # "none"
  /\ ~stopped /\ stopCh = "closed" => Restarted

PanicInv == TypeOK /\ StartShape /\ OnlyRestartPanics

LEMMA PanicInvStep ==
  ASSUME TypeOK', PanicInv, [Next]_vars
  PROVE  PanicInv'
<1> SUFFICES StartShape' /\ OnlyRestartPanics'
  BY DEF PanicInv
<1> USE DEF PanicInv, TypeOK, StartShape, OnlyRestartPanics, Restarted, Started
<1>1. CASE UNCHANGED vars
  BY <1>1 DEF vars
<1>2. ASSUME NEW g \in Starters, StartInformer(g)
      PROVE  StartShape' /\ OnlyRestartPanics'
  <2>1. CASE stopped
    <3>1. /\ watcher' = [watcher EXCEPT ![g] = "select"]
          /\ starter' = [starter EXCEPT ![g] = "entered"]
          /\ ~stopped' /\ stopCh' = stopCh /\ panicked' = panicked
      BY <1>2, <2>1 DEF StartInformer
    <3>2. ASSUME stopCh = "closed" PROVE Restarted'
      <4>1. PICK g0 \in Starters : watcher[g0] # "none"
        BY <3>2
      <4>2. g0 # g
        BY <1>2, <4>1 DEF StartInformer
      <4> QED
        BY <3>1, <4>1, <4>2
    <3> QED
      BY <3>1, <3>2
  <2>2. CASE ~stopped
    BY <1>2, <2>2 DEF StartInformer
  <2> QED
    BY <2>1, <2>2
<1>3. ASSUME NEW g \in Starters, RunInformer(g) \/ InformerExit(g) \/ CancelContext(g)
      PROVE  StartShape' /\ OnlyRestartPanics'
  BY <1>3 DEF RunInformer, InformerExit, CancelContext
<1>4. ASSUME NEW g \in Starters, WatcherOnCancel(g) \/ WatcherOnStop(g)
      PROVE  StartShape' /\ OnlyRestartPanics'
  BY <1>4 DEF WatcherOnCancel, WatcherOnStop, CloseStopCh
<1>5. CASE StopInformer
  BY <1>5 DEF StopInformer, CloseStopCh
<1>6. ASSUME NEW h \in Handlers, AddEventHandler(h) \/ RemoveEventHandler(h)
      PROVE  StartShape' /\ OnlyRestartPanics'
  BY <1>6 DEF AddEventHandler, RemoveEventHandler
<1> QED
  BY <1>1, <1>2, <1>3, <1>4, <1>5, <1>6 DEF Next, Goroutine

\* Started once, a monitor never closes its channel twice, whoever stops it and
\* whenever its context is cancelled.
THEOREM RestartsPanic == Spec => []OnlyRestartPanics
<1>1. Init => PanicInv
  BY DEF Init, PanicInv, TypeOK, StartShape, OnlyRestartPanics, Restarted, Started
<1>2. IInv' /\ PanicInv /\ [Next]_vars => PanicInv'
  BY PanicInvStep DEF IInv
<1>3. PanicInv => OnlyRestartPanics
  BY DEF PanicInv
<1> QED
  BY <1>1, <1>2, <1>3, Invariance, PTL DEF Spec

=============================================================================
