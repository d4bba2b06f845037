SPECIFICATION Spec
CONSTANTS
  Workers = {w1}
  Instances = {1, 2}
  Shards = {s1, s2}
  Sequences = {q1, q2}
  NoShard = NoShard
  Absent = Absent
  Unreconciled = 99
  MaxOpenPerShard = 1
  MaxRequests = 2
  RetainedBudget = 2
  Capacity = 5
  LoadBytes = 2
  SequenceBytes = 1
  MaxPreparing = 1
  MaxProbed = 2
  Faults = {"timeout", "setupError", "openError", "cleanupError", "daemonRestart"}
SYMMETRY Symmetry
INVARIANTS
  TypeOK
  QuarantineCoversOpen
  LoadReservedUntilReflected
  MemoryRespected
CHECK_DEADLOCK FALSE
