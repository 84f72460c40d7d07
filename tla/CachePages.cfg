SPECIFICATION Spec
CONSTANTS
  r1 = r1
  r2 = r2
  r3 = r3
  a = a
  b = b
  bad = bad
  pa = pa
  pb = pb
  n1 = n1
  n2 = n2
  None = None
  Request = {r1, r2}
  Node = {n1, n2}
  Norm = {a, b, bad}
  Invalid = {bad}
  Pk = {pa, pb}
  Results <- Redirect
  CompleteTtl = 2
  PartialTtl = 1
  Neg4xxTtl = 1
  Neg5xxTtl = 1
  MapTtl = 4
  L1Ttl = 1
  LockTtl = 1
  HoldMax = 0
  PollMax = 2
  MaxNow = 2
  MaxFaults = 1
  MaxCrashes = 1
VIEW NoGhosts
SYMMETRY Perms
INVARIANTS TypeOK AnswerIsThePage AttemptBeforeVisible
CHECK_DEADLOCK FALSE
