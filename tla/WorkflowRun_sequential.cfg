SPECIFICATION Spec
CONSTANTS
  Delivery = {d1, d2, d3}
  NoOutput = NoOutput
  StepCount = 3
  Requires <- Fork
  FailSteps = {3}
  Guarded = {1}
  Adversity = {"crash", "force", "drift"}
  MaxLost = 0
SYMMETRY Symmetry
CHECK_DEADLOCK FALSE
INVARIANTS PublishedIsSound
PROPERTY KeepsPromise
