SPECIFICATION GiveawaySpec
CONSTANTS
  hostess = hostess
  alice = alice
  bob = bob
  logs = logs
  Users = {hostess, alice, bob}
  Items = {logs}
  Clues = {}
  Requests = {}
  Giveaways = {g1, g2}
  Loots <- OneLog
  MaxActive = 1
  MaxClicks = 3
  MaxFreed <- HostessOnce
  InitialBank <- SomeLogs
  NoUser = NoUser
INVARIANTS
  GoodsAreKept
  ActiveIsBounded
  EntriesAsTold
PROPERTY GiveawaysEnd
CHECK_DEADLOCK FALSE
