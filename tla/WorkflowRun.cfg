SPECIFICATION Spec
CONSTANTS
  Workflows <- MCWorkflows
  Edits <- MCEdits
  InputEvents <- MCInputEvents
  Statuses <- MCStatuses
  MaxInputs = 2
  MaxFailures = 1
INVARIANTS ScaffoldRuns StagesInOrder EveryRestIsAnswered
PROPERTY ProgressIsBacked
CHECK_DEADLOCK FALSE
