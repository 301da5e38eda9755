CONSTANTS
  r1 = r1  r2 = r2  g1 = g1  s1 = s1  s2 = s2
  w1 = w1  w2 = w2  c1 = c1  c2 = c2
  NoRow = NoRow
  Rows = {r1}
  Pages = {g1}
  PageOf <- OnePage
  Servers = {s1, s2}
  Workers = {w1, w2}
  Callers = {c1}
  Host <- HostOf
  MaxRetries = 2
  BatchSize = 1
  Grace = 0
  MaxTime = 1
  MaxDbFaults = 1
  MaxCrashes = 1
  MaxShutdowns = 0
SPECIFICATION Spec
INVARIANTS PostedOnceByWorkers PublishedIsOnFeed
CHECK_DEADLOCK FALSE
