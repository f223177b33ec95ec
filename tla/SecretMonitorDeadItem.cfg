\* A key whose informer was stopped by its context.
SPECIFICATION Spec
CONSTANTS
  Keys = {k1}
  Items = {i1, i2}
  Handles = {h1, h2}
  Threads = {t1}
  Contexts = {background, request}
  Cancellable = {request}
  None = None
CHECK_DEADLOCK FALSE
PROPERTIES AddFindsLive
