CONSTANTS
  p1 = p1
  m1 = m1
  s1 = s1
  s2 = s2
  c1 = c1
  Publishes = {p1}
  Manuals = {}
  Slots = {s1}
  Callers = {}
  Serves <- Everything
  MaxAttempts = 2
  None = None
SPECIFICATION Spec
INVARIANTS RecordCloses
CHECK_DEADLOCK FALSE
