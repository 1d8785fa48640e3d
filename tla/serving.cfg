SPECIFICATION FairSpec
CONSTANTS
  NumContextFrames = 1
  NumWaypoints = 1
  Loads <- MCLoads
  MaxBatch = 1
INVARIANTS TypeOK LabelsMatchTicks ActionsAreAttributed ExecutedMovesForward PoppedIsSettled NobodyIsStranded
CHECK_DEADLOCK FALSE
PROPERTIES GenerationReturns
