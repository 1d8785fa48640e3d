SPECIFICATION ReaderSpec
CONSTANTS
  Transfers = {t1, t2}
  Receivers = {r1}
  MaxPending = 0
  Events <- ReaderEvents
  None = None
INVARIANTS
  RightPayload
PROPERTIES
  EveryReadReturns
CHECK_DEADLOCK FALSE
