SPECIFICATION UserBankSpec
CONSTANTS
  user = user
  logs = logs
  clue = clue
  Users = {user}
  Items = {logs, clue}
  Clues = {clue}
  Requests <- SampleRequests
  Calls = {o1, o2, o3}
  DirectLogs = {}
  Wagers = {}
  Stake = 1
  NoRequest = NoRequest
INVARIANTS
  Solvent
  OneClueOfATier
PROPERTIES
  BankSpec
  LogOnlyGrows
  CallsAreAnswered
CHECK_DEADLOCK FALSE
