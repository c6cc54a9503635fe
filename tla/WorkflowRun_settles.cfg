SPECIFICATION FairSpec
CONSTANTS
  Delivery = {d1, d2}
  NoOutput = NoOutput
  StepCount = 3
  Requires <- Fork
  FailSteps = {2}
  Guarded = {}
  Adversity = {"overlap", "lostwrite"}
  MaxLost = 1
CHECK_DEADLOCK FALSE
INVARIANTS OneHolder RunningRowHasHolder RunningRunHasWorker EndedRunFullyRecorded
PROPERTY RunSettles
