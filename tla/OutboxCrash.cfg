SPECIFICATION MCFairSpec
CONSTANTS
  None = None
  Workers = {w1}
  Dispatchers = {w1}
  MaxTasks = 0
  MaxRetries = 0
  MaxPending = 1
  MaxConcurrent = 1
  Jobs = {}
  Kinds = {"run_op"}
  MaxBoots = 2
  Schedules = {s1}
  Requests = {}
  Crons = {{}}
  MaxTime = 0
  MaxEvents = 1
  Entities = {1}
  MaxSubs = 1
  MaxDeliveries = 1
  Batch = 1
  Scenarios = {{"emit", "crash"}}
PROPERTIES EventsSettle
