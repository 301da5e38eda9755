SPECIFICATION HostSpec
CONSTANTS
  s1 = s1
  s2 = s2
  s3 = s3
  Servers <- Host
  AutoStarters <- Starters
  Children = {c1, c2, c3}
  None = None
  MaxRuns = 2
INVARIANTS StraysHaveACause SidecarStays
SYMMETRY Symmetry
CHECK_DEADLOCK FALSE
