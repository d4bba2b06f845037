SPECIFICATION Spec
CONSTANTS
  LayerCount = 3
  Workers <- Trio
  LinkKeys <- FirstLink
  ComputeKeys <- TwoExecutions
  LinkValues <- RoundTrips
  ComputeValues <- Executions
  Inventories <- Meshes
  Requests <- Plans
  None = None
  WordLimit = 60
  StatusMaxAge = 1
  MaxAge = 1
  MaxSamples = 2
  MaxSeries = 2
  RevisionLimit = 3
  PerSecond = 10
  Attempts = 2
  MaxTime = 2
INVARIANTS
  TypeOK
  PlannedFromEvidence
  PlanOptimal
CHECK_DEADLOCK FALSE
