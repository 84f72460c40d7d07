SPECIFICATION FairSpec
CONSTANTS
  u1 = u1
  u1hash = u1hash
  u2 = u2
  u3 = u3
  u4 = u4
  odd = odd
  lit = lit
  meta0 = meta0
  k1 = k1
  k2 = k2
  k3 = k3
  k4 = k4
  k5 = k5
  k6 = k6
  k7 = k7
  None = None
  Url = {u1, u1hash, u2, u3, u4, odd, meta0, lit}
  Key = {k1, k2, k3, k4, k5, k6, k7}
  Canonical <- PageOf
  Addr <- Addrs
  Blocked <- BlockedAddrs
  BeforeDns <- BeforeDnsOf
  Literal <- LiteralOf
  Parts <- PartsOf
  Status = {200, 301, 403, 503}
  MaxHops = 2
  Cap = 1
  MaxRetries = 1
INVARIANTS ConnectsWhereChecked HopsBounded NoPageTwice ChainIsTheWay
INVARIANTS OnlyThePublicWeb MasksAreTheRanges
PROPERTY FetchEnds
CHECK_DEADLOCK FALSE
