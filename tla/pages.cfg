SPECIFICATION Spec
CONSTANTS
  Rows = {r1, r2}
  FbPages = {f1}
  t1 = t1
  t2 = t2
  Tokens <- PlainAndBase64
  Base64 <- OnlyT2
  Keys = {k1}
  Personas = {a1}
  Texts = {x0, x1}
  Clients = {c1, c2}
  Items = {i1}
  Publishers = {q1, q2}
  None = None
  Gone = Gone
  MaxOps = 3
  MaxRekeys = 1
  MaxFaults = 1
INVARIANTS FieldsAsAsked TokensReadable SilentAfterSwitchOff PostsAreAccounted
SYMMETRY Symmetry
CHECK_DEADLOCK FALSE
