SPECIFICATION Spec
CONSTANTS
  id1 = id1
  id2 = id2
  i1 = i1
  i2 = i2
  i3 = i3
  e1 = e1
  Agents <- Contenders
  Absent = Absent
  Flying = Flying
  LeaseTTL = 1
  MaxDelay = 0
  MaxProbes = 0
  MaxLate = 1
  RevisionLimit = 4
  Faults = {"lost", "crash"}
PROPERTIES
  LeasesKept
  LeaseIsOwned
  OnlyRivalsEvict
  RevisionFollowsInventory
