CONSTANTS
  a = a  m1 = m1  m2 = m2  h1 = h1  h2 = h2
  NoEntry = NoEntry  NoCustomer = NoCustomer
  Customers = {a}
  Messages = {m1, m2}
  Sender <- OneSender
  Entries = {1}
  Batch <- OneBatch
  Handlers = {h1, h2}
  MaxUnread = 1
  MaxRedeliveries = 1
  MaxFaults = 1
  MaxSyncs = 1
  MaxReads = 1
SPECIFICATION Spec
INVARIANTS CountedOnce UnseenMeansUnread LossesHaveACause LossIsOnRecord
PROPERTIES MessagesArrive
CHECK_DEADLOCK FALSE
