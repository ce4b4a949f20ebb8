SPECIFICATION MCSpec
CONSTANTS
  None = None
  Workers = {w1}
  Dispatchers = {w1}
  MaxTasks = 2
  MaxRetries = 0
  MaxPending = 2
  MaxConcurrent = 1
  Jobs = {}
  Kinds = {"run_op"}
  MaxBoots = 1
  Schedules = {s1}
  Requests = {q1}
  Crons = {{1, 2}, {1, 3}}
  MaxTime = 3
  MaxEvents = 0
  Entities = {1}
  MaxSubs = 0
  MaxDeliveries = 0
  Batch = 1
  Scenarios = {{"time", "update"}}
INVARIANTS CadenceFollowsCron
