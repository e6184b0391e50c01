SPECIFICATION UserBankSafety
CONSTANTS
  user = user
  logs = logs
  clue = clue
  Users = {user}
  Items = {logs, clue}
  Clues = {clue}
  Requests <- SampleRequests
  Calls = {o1, o2}
  DirectLogs = {d1}
  Wagers = {g1, g2}
  Stake = 1
  NoRequest = NoRequest
SYMMETRY Symmetry
INVARIANTS
  OverdraftIsWagered
CHECK_DEADLOCK FALSE
