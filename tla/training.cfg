SPECIFICATION Spec
CONSTANTS
  Cases <- AllCases
  Ships <- Shippable
  Arrival <- Delivered
  Original <- Promised
  StepKinds <- KindsRead
INVARIANT TypeOK
INVARIANT RanksStayTogether
INVARIANT RowsAreTrainedOnce
INVARIANT PerfSurvivesTeardown
