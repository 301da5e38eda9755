CONSTANTS
  a = a
  Accounts = {a}
  MaxPolls = 2
  MaxFaults = 2
  MaxCancels = 2
  MaxRestarts = 1
SPECIFICATION Spec
INVARIANTS SuccessIsTrue NoStrayBrowser RowsMatchSessions
PROPERTIES AddingEnds SessionsEnd
CHECK_DEADLOCK FALSE
