SPECIFICATION Spec
CONSTANTS
  r1 = r1
  r2 = r2
  r3 = r3
  a = a
  b = b
  bad = bad
  pa = pa
  pb = pb
  n1 = n1
  n2 = n2
  None = None
  Request = {r1, r2, r3}
  Node = {n1}
  Norm = {a}
  Invalid = {}
  Pk = {pa}
  Results <- OnePage
  CompleteTtl = 2
  PartialTtl = 2
  Neg4xxTtl = 1
  Neg5xxTtl = 1
  MapTtl = 4
  L1Ttl = 1
  LockTtl = 1
  HoldMax = 0
  PollMax = 1
  MaxNow = 4
  MaxFaults = 0
  MaxCrashes = 0
SYMMETRY Perms
INVARIANT RefreshRecrawls
CHECK_DEADLOCK FALSE
