\* All pairs of small objects.
SPECIFICATION Spec
CONSTANTS
  Objects <- MCObjects
  Unexported = {"wall"}
INVARIANTS
  ReportsChanges
CHECK_DEADLOCK FALSE
