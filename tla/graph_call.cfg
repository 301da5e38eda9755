CONSTANTS
  MaxRetries = 4
  InitialBackoff = 1
  GiveUp = {"badBody", "fbStop", "http4xx"}
SPECIFICATION CallSpec
INVARIANTS DuplicateNeedsLostReply
PROPERTIES EveryCallEnds
