CONSTANTS
  s1 = s1
  s2 = s2
  s3 = s3
  Slots = {s1}
  Serves <- MCServes
  Requests = {q1}
  InputAt <- MCInputAt
  ExpectAt <- MCExpectAt
  MaxAttempts = 2
  Casts <- JustOne
  None = None
SPECIFICATION FairSpec
PROPERTIES VerdictIsWritten
CHECK_DEADLOCK FALSE
