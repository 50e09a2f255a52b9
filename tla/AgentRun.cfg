SPECIFICATION FairSpec
CONSTANTS
  Agents <- MCAgents
  Proposals <- MCProposals
  MAX_BUILDER_REFERENCE_ASSETS = 2
  MaxInvocations = 2
  MaxContinuations = 1
  MaxWidth = 2
  MaxEvents = 14
INVARIANTS TakenIsChecked StatusIsEarned TimelineIsOfTheLast
PROPERTY EveryInvocationEnds
CHECK_DEADLOCK FALSE
