CONSTANTS
  c1 = c1  c2 = c2  p = p  q = q  v = v  w = w  x = x
  Callers = {c1, c2}
  MaxFailures = 1
  OpenDuration = 1
  HalfOpenMax = 1
  Pages = {p, q}
  LocalId <- UUIDs
  FbId <- Numbers
  Conversations = {v, w, x}
  PageOf <- TwoAndOne
  PerConvCooldown = 1
  Window = 2
  PerPageMax = 2
  MaxAITurns = 2
  MaxMessages = 2
  MaxRedeliveries = 1
  MaxFaults = 1
  MaxToggles = 1
SPECIFICATION Spec
INVARIANTS StopIsHeard PagesKeepTheirLimit
