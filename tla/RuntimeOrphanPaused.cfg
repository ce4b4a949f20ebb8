SPECIFICATION MCFairSpec
CONSTANTS
  Agents = {a1}
  Models = {m1}
  MaxTodos = 1
  MaxRuns = 1
  simple = simple
  Complexities = {simple}
  Priorities = {0}
  Capacities = {1}
  None = None
  User = User
  Workers = {w1}
  MaxWorkers = 1
  MaxTurns = 1
  MaxBoots = 2
  InitCap = 1
  Scenarios = {{"pause", "crash", "elapse"}}
PROPERTIES RunsEnd
