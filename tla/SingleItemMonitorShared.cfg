\* Two goroutines call StartInformer, each with a context of its own.
SPECIFICATION FairSpec
CONSTANTS
  Starters = {g1, g2}
  Handlers = {h1, h2}
INVARIANTS
  TypeOK
  AttachedIsListening
  OneRunner
  OnlyRestartPanics
PROPERTIES
  StopIsFinal
  CancelEndsStart
  StopEndsGoroutines
CHECK_DEADLOCK FALSE
