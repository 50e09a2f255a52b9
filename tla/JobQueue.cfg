SPECIFICATION FairSpec
CONSTANTS
  Jobs = {j1}
  Workers = {w1, w2}
  Reapers = {r1}
  Owners = {o1, o2}
  Serves <- MCServes
  MaxAttempts = 2
  MaxRounds = 1
  None = None
INVARIANT HandlersExclusive
PROPERTIES LockedAttemptKeepsRow ImplementsLifecycle EventuallyTerminal
CHECK_DEADLOCK FALSE
