CONSTANTS
  c1 = c1  c2 = c2  c3 = c3  c4 = c4
  Callers = {c1, c2, c3, c4}
  MaxFailures = 2
  OpenDuration = 1
  HalfOpenMax = 1
SPECIFICATION BreakerSpec
INVARIANT FailuresAreConsecutive
PROPERTIES QuietAfterOpening HalfOpenIsSettled
