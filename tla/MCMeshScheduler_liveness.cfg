SPECIFICATION FairSpec
CONSTANTS
  Workers = {w1, w2}
  Instances = {1, 2}
  Shards = {s1, s2}
  Sequences = {q1}
  NoShard = NoShard
  Absent = Absent
  Unreconciled = 99
  MaxOpenPerShard = 1
  MaxRequests = 2
  RetainedBudget = 2
  Capacity = 6
  LoadBytes = 2
  SequenceBytes = 1
  MaxPreparing = 1
  MaxProbed = 1
  Faults = {"timeout", "setupError", "openError", "cleanupError", "workerRestart", "daemonRestart"}
PROPERTIES
  ReservationsReleased
CHECK_DEADLOCK FALSE
