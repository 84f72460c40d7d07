SPECIFICATION Spec
CONSTANTS
  r1 = r1
  r2 = r2
  wpage = wpage
  slink = slink
  bad = bad
  www = www
  dom = dom
  sho = sho
  nowhere = nowhere
  u0 = u0
  u1 = u1
  u2 = u2
  None = None
  Request = {r1, r2}
  Url = {wpage, slink, bad}
  Invalid = {bad}
  Name = {www, dom, sho, nowhere}
  Names <- HostsOf
  Site <- SiteOf
  Short <- Targets
  Ua = {u0, u1, u2}
  DefaultUa = u0
  BotRecovery = TRUE
  RecoveryUas <- Uas
  Provider = {}
  Tables <- TwoTables
  Pages <- SomePages
  Renders <- SomeDoms
  Fills <- SomeFills
  Thrown = {"HTTP_403", "HTTP_404"}
  RuleTtl = 1
  LoadMax = 0
  MaxNow = 1
  MaxEdits = 1
  MaxLoadFaults = 1
  MaxLost = 1
VIEW View
SYMMETRY Perms
INVARIANTS TypeOK PartialKept RenderIsLastResort NoUaTwice EveryBlockTeaches LearnedApplies RowPerFailure RollupIsTheFailures
PROPERTY OverlayGrows
