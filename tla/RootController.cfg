\* Two routes; the watch may break.
SPECIFICATION FairRootSpec
CONSTANTS
  k1 = k1
  k2 = k2
  s1 = s1
  s2 = s2
  s3 = s3
  Routes = {r1, r2}
  Keys = {k1, k2}
  Specs = {s1, s2, s3}
  SecretOf <- MCSecretOf
  Items = {i1, i2, i3, i4}
  Handles = {h1, h2, h3, h4}
  None = None
  MaxChanges = 2
  MaxBreaks = 1
INVARIANTS
  RootTypeOK
  RegisteredIsKnown
  OwnInformer
PROPERTIES
  RootConverges
CHECK_DEADLOCK FALSE
