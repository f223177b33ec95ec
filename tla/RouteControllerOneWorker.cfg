\* One worker, as main starts the controller; the watch may break.
SPECIFICATION FairControllerSpec
CONSTANTS
  Routes = {r1, r2}
  Keys = {k1, k2}
  None = None
  Workers = {w1}
  MaxChanges = 2
  MaxBreaks = 1
INVARIANTS
  ControllerTypeOK
  BacklogLeadsToKnown
PROPERTIES
  Converges
  ChangesAreRead
CHECK_DEADLOCK FALSE
