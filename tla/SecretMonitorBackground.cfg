\* Contexts that are never cancelled, which is all the route controller passes.
SPECIFICATION FairSpec
CONSTANTS
  Keys = {k1, k2}
  Items = {i1, i2, i3}
  Handles = {h1, h2, h3}
  Threads = {t1, t2}
  Contexts = {background}
  Cancellable = {}
  None = None
INVARIANTS
  NoIdleInformer
  GetReadsLive
PROPERTIES
  StopsOnlyUnused
  AddAttaches
  CallsReturn
CHECK_DEADLOCK FALSE
