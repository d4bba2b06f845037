SPECIFICATION Spec
CONSTANTS
  Workers = {w1}
  Instances = {1}
  Shards = {s1, s2}
  Sequences = {q1, q2, q3}
  NoShard = NoShard
  Absent = Absent
  Unreconciled = 99
  MaxOpenPerShard = 1
  MaxRequests = 2
  RetainedBudget = 2
  Capacity = 5
  LoadBytes = 2
  SequenceBytes = 1
  MaxPreparing = 2
  MaxProbed = 3
  Faults = {}
SYMMETRY Symmetry
INVARIANTS
  MemoryRespected
CHECK_DEADLOCK FALSE
