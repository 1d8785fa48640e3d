SPECIFICATION FairSpec
CONSTANT
  Cases <- MCCases
INVARIANTS TypeOK ValidatedRunsAreLaunchable RuntimesAreSaturated ArtifactsAreSound NoWizardOutlivesItsRun
PROPERTIES SignalledRunsComeBack
CHECK_DEADLOCK FALSE
