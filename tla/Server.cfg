SPECIFICATION MCSpec
CONSTANTS
  r1 = r1
  r2 = r2
  a = a
  b = b
  pa = pa
  pb = pb
  n1 = n1
  n2 = n2
  None = None
  Request = {r1, r2}
  Node = {n1}
  Norm = {a, b}
  Invalid = {}
  Pk = {pa, pb}
  Results <- Sites
  HttpStatus <- Statuses
  CompleteTtl = 2
  PartialTtl = 1
  Neg4xxTtl = 1
  Neg5xxTtl = 1
  MapTtl = 4
  L1Ttl = 1
  LockTtl = 1
  HoldMax = 0
  PollMax = 1
  MaxNow = 0
  MaxFaults = 1
  MaxCrashes = 1
INVARIANTS ReplyIsTrue AskAgainServed
PROPERTIES Answered PromotedCrawlLands
CHECK_DEADLOCK FALSE
