\* Two threads register, unregister and read two routes at any time.
SPECIFICATION FairSpec
CONSTANTS
  Routes = {r1, r2}
  Threads = {t1, t2}
  Objects = {o1, o2}
  Handlers = {h1}
  None = None
INVARIANTS
  V2TypeOK
  RegisteredRuns
PROPERTIES
  ReadsRegistered
  
  V2Settles
CHECK_DEADLOCK FALSE
