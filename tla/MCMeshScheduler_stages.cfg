SPECIFICATION Spec
CONSTANTS
  Workers = {w1, w2}
  Instances = {1}
  Shards = {s1, s2}
  Sequences = {q1, q2}
  NoShard = NoShard
  Absent = Absent
  Unreconciled = 99
  MaxOpenPerShard = 1
  MaxRequests = 2
  RetainedBudget = 2
  Capacity = 6
  LoadBytes = 2
  SequenceBytes = 1
  MaxPreparing = 2
  MaxProbed = 1
  Faults = {"setupError", "cleanupError", "workerRestart"}
SYMMETRY Symmetry
INVARIANTS
  LedgerMatchesHolders
  ShardSlotsRespected
CHECK_DEADLOCK FALSE
