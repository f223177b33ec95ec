\* A route is deleted while the watch is broken.
SPECIFICATION ControllerSpec
CONSTANTS
  Routes = {r1, r2}
  Keys = {k1, k2}
  None = None
  Workers = {w1}
  MaxChanges = 1
  MaxBreaks = 1
CHECK_DEADLOCK FALSE
INVARIANTS NeverCrashes
