SPECIFICATION MCFairSpec
CONSTANTS
  None = None
  Workers = {w1}
  Dispatchers = {w1}
  MaxTasks = 3
  MaxRetries = 1
  MaxPending = 1
  MaxConcurrent = 1
  Jobs = {"job"}
  Kinds = {"job", "run_op"}
  MaxBoots = 2
  Schedules = {s1}
  Requests = {q1}
  Crons = {{1, 2}}
  MaxTime = 2
  MaxEvents = 2
  Entities = {e1, e2}
  MaxSubs = 2
  MaxDeliveries = 1
  Batch = 2
  Scenarios = {
    {"run", "submit", "crash", "error"},
    {"time", "skip", "crash"},
    {"time", "skip", "schedule"},
    {"emit", "error"},
    {"emit", "crash"}}
PROPERTIES TasksSettle OccurrencesServed UnstrandedEventsSettle
