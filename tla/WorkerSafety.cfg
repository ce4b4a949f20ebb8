SPECIFICATION MCSpec
CONSTANTS
  None = None
  Workers = {w1, w2}
  Dispatchers = {w1, w2}
  MaxTasks = 2
  MaxRetries = 1
  MaxPending = 1
  MaxConcurrent = 1
  Jobs = {"job"}
  Kinds = {"job", "run_op"}
  MaxBoots = 2
  Schedules = {s1}
  Requests = {q1}
  Crons = {{1, 2}, {2}}
  MaxTime = 2
  MaxEvents = 2
  Entities = {e1, e2}
  MaxSubs = 2
  MaxDeliveries = 1
  Batch = 2
  Scenarios = {
    {"run", "submit", "crash", "error", "lease"},
    {"time", "schedule", "update", "skip"},
    {"time", "schedule", "skip", "crash", "error"},
    {"time", "schedule", "skip", "error"},
    {"emit", "error"},
    {"emit", "crash", "fleet"}}
SYMMETRY Symmetry
INVARIANTS WorkerTypeOK ClaimHeld AttemptsAccounted DoneLogged SkipHonoured SteadyFiresOnce OneInFlight EntityOrder MarkedHandledOnce
PROPERTY DeliveryIsOrdered
