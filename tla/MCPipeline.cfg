SPECIFICATION FairSpec
CONSTANTS
  N = 3
  Configs <- MCConfigs
INVARIANTS
  ReportedMeansReaped
  ObservedFailureIsBlamed
PROPERTIES
  FailureEndsChain
  VerbReturns
CHECK_DEADLOCK FALSE
