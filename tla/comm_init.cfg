SPECIFICATION FairSpec
CONSTANTS
  Policies = {p1, p2, p3}
  Rollouts = {s1, s2, s3}
  NumPolicies = 1
  NumRollouts = 2
  None = none
INVARIANTS TypeOK CommIsWhole
PROPERTY LaunchCompletes
CHECK_DEADLOCK FALSE
