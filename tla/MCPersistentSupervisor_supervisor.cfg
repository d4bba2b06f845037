SPECIFICATION FairSpec
CONSTANTS
  state = state
  decode = decode
  stop = stop
  Calls <- AllCalls
  Probes = {state}
  Inferences = {decode}
  Stops = {stop}
  GivenID <- NoChosenID
  Clients = {1, 2}
  Nobody = Nobody
  PipeFrames = 1
  Impatient = {decode}
  Faults = {"mute", "canceled"}
  Unkillable = {1}
INVARIANTS
  AtMostOnce
  RefusedMeansNever
  ObservationsOrdered
PROPERTIES
  KilledForItsCalls
  CallersReleased
CHECK_DEADLOCK FALSE
