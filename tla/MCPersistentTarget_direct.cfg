SPECIFICATION FairSpec
CONSTANTS
  load = load
  decode = decode
  stop = stop
  Calls <- AllCalls
  Probes = {}
  Inferences = {decode}
  Stops = {stop}
  GivenID <- ChosenID
  Clients = {1}
  Nobody = Nobody
  PipeFrames = 1
  Impatient = {load, decode, stop}
  Faults = {"crash", "hang", "garble", "canceled"}
  Unkillable = {}
INVARIANTS
  NotDispatchedMeansNever
  AnswerIsOwn
  AnswersExpected
  InferenceNeverOutlived
PROPERTIES
  CallsReturn
CHECK_DEADLOCK FALSE
