SPECIFICATION MCFairSpec
CONSTANTS
  Agents = {a1, a2}
  Models = {m1}
  MaxTodos = 2
  MaxRuns = 2
  simple = simple
  Complexities = {simple}
  Priorities = {0}
  Capacities = {1, 2}
  None = None
  User = User
  Workers = {w1}
  MaxWorkers = 2
  MaxTurns = 1
  MaxBoots = 2
  InitCap = 1
  Scenarios = {
    {"capacity"},
    {"solo", "capacity", "elapse"},
    {"solo", "stop", "error", "close", "crash", "elapse"}}
PROPERTIES RunsEnd UndisturbedTodosSettle
