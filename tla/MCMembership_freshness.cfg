SPECIFICATION FairSpec
CONSTANTS
  id1 = id1
  id2 = id2
  i1 = i1
  i2 = i2
  i3 = i3
  e1 = e1
  Agents <- Alone
  Absent = Absent
  Flying = Flying
  LeaseTTL = 1
  MaxDelay = 1
  MaxProbes = 2
  MaxLate = 1
  RevisionLimit = 4
  Faults = {"lost", "restart"}
INVARIANTS
  FreshMeansRecent
PROPERTIES
  AgentReturns
