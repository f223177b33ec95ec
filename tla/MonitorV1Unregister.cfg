\* Two routes register and unregister.
SPECIFICATION Spec
CONSTANTS
  Routes = {r1, r2}
  NoUid = NoUid
  Secrets = {dummy, other}
  Dummy = dummy
  Threads = {t1}
  Objects = {o1, o2}
  MaxRefs = 2
  None = None
INVARIANTS
  UnusedIsUnregistered
CHECK_DEADLOCK FALSE
