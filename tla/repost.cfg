CONSTANTS
  a = a  b = b
  Jobs = {1, 2}
  Runs = {a, b}
  MaxFaults = 1
  MaxEdits = 1
SPECIFICATION Spec
INVARIANTS VerdictsFollowReports PostedTwiceOnlyIf
PROPERTIES CompletedIsFinal CampaignSettles
CHECK_DEADLOCK FALSE
