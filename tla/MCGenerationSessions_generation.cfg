SPECIFICATION Spec
CONSTANTS
  w1 = w1
  w2 = w2
  Workers <- TwoWorkers
  Shards <- TwoStages
  Host <- OnTwo
  InputShards <- FirstStage
  OutputShards <- FinalStage
  SequenceIDs = {q1, q2}
  Owners = {a, b}
  Sessions = {a, b}
  Tokens = {a, b}
  NoOwner = NoOwner
  Closed = Closed
  NoMutation = NoMutation
  NoReply = NoReply
  MaxOpenPerShard = 2
  MaximumSequenceLength = 3
  WorkerBudget = 20
  CacheBytes = 1
  OutputBytes = 1
  TokenBytes = 1
  Prompt <- OwnPrompt
  Sample <- FirstToken
  Sampling <- FinalStage
  MaxTokens = 2
  Reordered = FALSE
  MaxFaults = 2
  MaxRestarts = 1
SYMMETRY Symmetry
INVARIANTS
  ConfirmedMeansReleased
  CleanupConfirmed
  SequencesHeld
  SetupSurvivesRace
  OwnTokens
CHECK_DEADLOCK FALSE
