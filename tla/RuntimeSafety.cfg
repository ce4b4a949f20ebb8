SPECIFICATION MCSpec
CONSTANTS
  Agents = {a1, a2}
  Models = {m1, m2}
  MaxTodos = 2
  MaxRuns = 2
  simple = simple
  Complexities = {simple}
  Priorities = {0}
  Capacities = {1, 2}
  None = None
  User = User
  Workers = {w1}
  MaxWorkers = 2
  MaxTurns = 2
  MaxBoots = 2
  InitCap = 1
  Scenarios = {
    {"stop", "capacity", "mono"},
    {"stop", "crash", "close", "error", "mono"},
    {"agent"},
    {"agent", "elapse", "solo", "mono"},
    {"pause", "continue", "stall", "elapse", "solo", "mono"},
    {"pause", "model", "delete", "elapse", "solo", "mono"}}
SYMMETRY Symmetry
INVARIANTS RuntimeTypeOK ExecutionBacked OrphanReachable
PROPERTIES ModelNotOversubscribed
