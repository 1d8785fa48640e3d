SPECIFICATION Spec
CONSTANTS
  Transfers = {t1, t2}
  Receivers = {r1, r2}
  MaxPending = 2
  Events <- LateAckEvents
  None = None
INVARIANTS
  NeitherParksAlone
CHECK_DEADLOCK FALSE
