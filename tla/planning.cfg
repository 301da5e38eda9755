SPECIFICATION Spec
CONSTANTS
  a1 = a1
  a2 = a2
  f1 = f1
  p1 = p1
  p2 = p2
  p3 = p3
  Posts = {p1, p2, p3}
  Times = {1, 3}
  PostedAt <- PostedTimes
  Never = Never
  Days = {0}
  DayLength = 2
  Accounts = {a1, a2}
  GroupRows = {g1}
  Campaigns = {k1}
  Jobs = {j1, j2}
  Profiles = {d1, d2}
  FbGroups = {f1}
  Clients = {c1, c2}
  Plans <- TwoPlans
  Scrapes <- PagesShown
  Limits = {2}
  Grace = 0
  None = None
  Gone = Gone
  MaxTime = 2
  MaxOps = 3
  MaxEdits = 2
  MaxFaults = 1
INVARIANTS JobsAsAsked MissingJobsHaveACause CrawlTakesNewest
SYMMETRY Symmetry
CHECK_DEADLOCK FALSE
