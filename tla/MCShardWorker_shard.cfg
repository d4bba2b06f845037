SPECIFICATION Spec
CONSTANTS
  w1 = w1
  s1 = s1
  s2 = s2
  Workers <- OneWorker
  Shards <- Both
  Host <- OnOne
  InputShards <- First
  OutputShards <- Last
  SequenceIDs = {q1, q2}
  Owners = {o1}
  NoOwner = NoOwner
  Closed = Closed
  NoMutation = NoMutation
  Tokens = {t1, t2}
  MaxOpenPerShard = 1
  MaximumSequenceLength = 3
  WorkerBudget = 6
  CacheBytes = 1
  OutputBytes = 1
  TokenBytes = 1
  MaxInput = 2
SYMMETRY Symmetry
INVARIANTS
  TypeOK
  ComputedOnce
  BudgetRespected
PROPERTIES
  PoisonHolds
CHECK_DEADLOCK FALSE
