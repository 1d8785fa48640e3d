SPECIFICATION FairSpec
CONSTANTS
  Transfers = {t1, t2}
  Receivers = {r1, r2}
  MaxPending = 2
  Events <- MendedEvents
  None = None
PROPERTIES
  HeldIsFreed
  AcceptedIsDelivered
CHECK_DEADLOCK FALSE
