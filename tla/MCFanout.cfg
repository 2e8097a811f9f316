SPECIFICATION FairSpec
CONSTANTS
  c1 = c1
  none = none
  v1 = v1
  v2 = v2
  Ops <- MCOps
  Cells = {c1}
  NoCell = none
  MaxTries = 3
  Plans <- MCPlans
  Scenes <- MCScenes
CHECK_DEADLOCK FALSE
INVARIANTS
  PayloadGoesOnce
  NoLivingTwin
  NoLostWakeup
PROPERTIES
  ImplementsBatch
  EveryCallReturns
