CONSTANTS
  k1 = k1  k2 = k2  w = w  v = v
  NoComment = NoComment
  Comments = {k1}
  IntentOf <- PriceOf
  SentimentOf <- Happy
  Sweepers = {w, v}
  Workers = {w}
  ClaimTimeout = 1
  SlowSweeps = FALSE
  MaxFaults = 1
  MaxStops = 1
  MaxLikes = 1
SPECIFICATION Spec
INVARIANTS OncePerClaim MarksAreTrue
PROPERTIES WantedActionsHappen
