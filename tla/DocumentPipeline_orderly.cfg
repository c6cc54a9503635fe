SPECIFICATION Spec
CONSTANTS
  Client = {c1, c2}
  Worker = {w1, w2, w3}
  NoWorker = NoWorker
  Allowed = {"cancel", "delete", "retry", "crash"}
SYMMETRY Symmetry
CHECK_DEADLOCK FALSE
INVARIANTS CancelledNeverCompletes TaskMatchesStatus
PROPERTIES LinkedEntryIsKept KeepsLifecycle
