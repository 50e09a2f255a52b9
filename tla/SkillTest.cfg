SPECIFICATION FairSpec
CONSTANTS
  s1 = s1
  s2 = s2
  s3 = s3
  Slots = {s1, s2, s3}
  Serves <- MCServes
  Requests = {q1}
  InputAt <- MCInputAt
  ExpectAt <- MCExpectAt
  Casts <- MCCasts
  MaxAttempts = 2
  None = None
INVARIANTS PassedIsEarned InputsInOrder
PROPERTIES JudgementStands VerdictFollowsRun
CHECK_DEADLOCK FALSE
