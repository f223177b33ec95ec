\* One worker, the way main runs the route controller, with and without a context
\* that may be cancelled.
SPECIFICATION ManagerSpec
CONSTANTS
  Keys = {k1, k2}
  Items = {i1, i2, i3}
  Handles = {h1, h2, h3}
  Threads = {t1}
  Contexts = {background, request}
  Cancellable = {request}
  None = None
  Routes = {r1, r2}
SYMMETRY Symmetry
INVARIANTS
  ManagerTypeOK
  OwnsRegistrations
  FollowsRegistered
  HandlerIsOfRoute
PROPERTIES
  ImplementsRouteWatch
  UsesMonitorProperly
CHECK_DEADLOCK FALSE
