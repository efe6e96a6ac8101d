CONSTANTS
  Slots = {s1, s2, s3}
  Docs = {d1, d2}
  Principals = {p1}
SPECIFICATION Spec
INVARIANTS
  DeadlockNeedsUpload
PROPERTIES
  ExclusiveLocksAreFreed
