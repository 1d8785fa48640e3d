SPECIFICATION Spec
CONSTANTS
  Transfers = {t1, t2}
  Receivers = {r1, r2}
  MaxPending = 1
  Events <- CoreEvents
  None = None
SYMMETRY Sym
INVARIANTS
  TypeOK
  ExclusiveOwnership
  ReadsAreOneShot
  ManifestIsBacked
  RetentionIsBounded
  RendezvousInv
PROPERTIES
  DecisionIsFinal
CHECK_DEADLOCK FALSE
