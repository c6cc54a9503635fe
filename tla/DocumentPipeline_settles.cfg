SPECIFICATION FairSpec
CONSTANTS
  Client = {c1, c2}
  Worker = {w1, w2}
  NoWorker = NoWorker
  Allowed = {"cancel", "delete", "retry", "poll", "overlap", "crash", "slow"}
CHECK_DEADLOCK FALSE
INVARIANT CompletedHasEntry
PROPERTY DocumentSettles
