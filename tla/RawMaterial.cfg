SPECIFICATION FairMaterialSpec
CONSTANTS
  MaxAnalyses = 3
  MaxAttempts = 2
  Slots = {s1, s2}
  Callers = {c1, c2}
  None = None
INVARIANTS ProcessingIsAttended
PROPERTIES AnalysisSettles AnalysesAreJobs
CHECK_DEADLOCK FALSE
