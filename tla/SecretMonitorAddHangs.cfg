\* A context that is cancelled before the first sync.
SPECIFICATION FairSpec
CONSTANTS
  Keys = {k1}
  Items = {i1, i2}
  Handles = {h1, h2}
  Threads = {t1}
  Contexts = {background, request}
  Cancellable = {request}
  None = None
CHECK_DEADLOCK FALSE
PROPERTIES CallsReturn
