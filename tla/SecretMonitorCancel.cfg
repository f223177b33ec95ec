\* One of two contexts may be cancelled at any time.
SPECIFICATION FairSpec
CONSTANTS
  Keys = {k1, k2}
  Items = {i1, i2}
  Handles = {h1, h2}
  Threads = {t1, t2}
  Contexts = {background, request}
  Cancellable = {request}
  None = None
INVARIANTS
  TypeOK
  CountMatchesHeld
  HeldIsMonitored
  HeldIsListening
  NoLeakedInformer
PROPERTIES
  
  ItemsImplementMonitor
  ItemsEnd
CHECK_DEADLOCK FALSE
