SPECIFICATION Spec
CONSTANTS
  Transfers = {t1, t2}
  Receivers = {r1, r2}
  MaxPending = 1
  Events <- HandledEvents
  None = None
SYMMETRY Sym
INVARIANTS
  NeitherParksAlone
  NoSendDuringBroadcast
  CommitmentInv
PROPERTIES
  ImplementsHandoff
CHECK_DEADLOCK FALSE
