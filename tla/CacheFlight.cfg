SPECIFICATION Spec
CONSTANTS
  r1 = r1
  r2 = r2
  r3 = r3
  a = a
  b = b
  bad = bad
  pa = pa
  pb = pb
  n1 = n1
  n2 = n2
  None = None
  Request = {r1, r2, r3}
  Node = {n1}
  Norm = {a}
  Invalid = {}
  Pk = {pa}
  Results <- OnePage
  CompleteTtl = 1
  PartialTtl = 1
  Neg4xxTtl = 9
  Neg5xxTtl = 9
  MapTtl = 9
  L1Ttl = 9
  LockTtl = 1
  HoldMax = 1
  PollMax = 1
  MaxNow = 1
  MaxFaults = 1
  MaxCrashes = 0
SYMMETRY Perms
VIEW ForFlight
INVARIANTS HoldersOwed StaleIsRefreshed
PROPERTY LockIsALeakyMutex
CHECK_DEADLOCK FALSE
