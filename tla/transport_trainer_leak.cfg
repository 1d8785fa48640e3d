SPECIFICATION FairSpec
CONSTANTS
  Transfers = {t1}
  Receivers = {r1}
  MaxPending = 2
  Events <- TrainerDropEvents
  None = None
PROPERTIES
  HeldIsFreed
CHECK_DEADLOCK FALSE
