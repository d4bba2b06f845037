SPECIFICATION FairSpec
CONSTANTS
  open = open
  finish = finish
  Requests = {open, finish}
  Shutdowns = {}
  OneShots = {finish}
  MaxInstances = 2
INVARIANTS
  
  BoundReached
  StopsInOrder
  EvictionReported
PROPERTIES
  StopsWhenAsked
CHECK_DEADLOCK FALSE
