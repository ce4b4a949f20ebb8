SPECIFICATION MCSpec
CONSTANTS
  Agents = {a1, a2}
  Models = {m1}
  MaxTodos = 2
  MaxRuns = 3
  simple = simple
  Complexities = {simple, hard}
  Priorities = {0, 1}
  Capacities = {1, 2}
  None = None
  User = User
SYMMETRY Symmetry
INVARIANTS StoreTypeOK LedgerMatches AgentCurrent TranscriptFenced
PROPERTIES OutcomeFinal
CHECK_DEADLOCK FALSE
