SPECIFICATION FairSpec
CONSTANTS
  p1 = p1
  m1 = m1
  s1 = s1
  s2 = s2
  c1 = c1
  Publishes = {p1}
  Manuals = {m1}
  Slots = {s1, s2}
  Callers = {c1}
  Serves <- MCServes
  MaxAttempts = 2
  None = None
INVARIANTS RecordAgrees LatestIsRunnable
PROPERTIES RequestSettles
CHECK_DEADLOCK FALSE
