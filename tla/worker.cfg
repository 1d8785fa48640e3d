SPECIFICATION FairSpec
CONSTANTS
  Prompts = {p1}
  States = {a, b}
  Workers = {w1, w2}
  Targets = {1, 2}
  MaxRetries = 1
  MaxFailures = 3
  None = none
INVARIANTS TypeOK ResolvedOnce PayloadsAreTracked
PROPERTIES EveryPayloadAnswered ThreadsExit
CHECK_DEADLOCK FALSE
