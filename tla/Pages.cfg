SPECIFICATION Spec
CONSTANTS
  None = None
  MaxFaults = 1
  MaxCards = 2
  MaxEntries = 3
  MaxReads = 2
  Tickets = {"t1", "t2"}
  Emails = {"ann"}
  Requests = {1, 2, 3}
CHECK_DEADLOCK FALSE
INVARIANTS
  TypeOK
  SentOnceEachWay
  FilesHaveBytes
  InternalStaysInternal
  ShownOnce
  SelfServeIsEmployee
PROPERTY
  HistoryCatchesUp
