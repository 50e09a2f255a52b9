SPECIFICATION FairSpec
CONSTANTS
  Clients = {c1}
  Generations = {g1}
  Slots = {s1, s2}
  MaxAttempts = 2
  None = None
INVARIANTS SucceededIsInSource 
PROPERTIES GenerationSettles GenerationsAreJobs
CHECK_DEADLOCK FALSE
