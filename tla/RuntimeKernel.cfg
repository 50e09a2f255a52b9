CONSTANTS
  Attempts = {a1, a2}
  Nodes <- MCNodes
  Entry = "i1"
  Kind <- MCKind
  Resume <- MCResume
  Moves <- MCMoves
  MaxSteps = 3
  MaxAttempts = 2
  MaxEvents = 2
  MaxForks = 1
  None = None
SPECIFICATION FairSpec
INVARIANTS NoStrandedRun EvidenceIsWindow
PROPERTIES SnapshotsAdvance JobKeepsItsLife InputIsDelivered TurnComesToRest
CHECK_DEADLOCK FALSE
