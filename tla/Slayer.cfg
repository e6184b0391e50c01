SPECIFICATION SlayerSpec
CONSTANTS
  Calls = {c1, c2}
  Tasks = {t1, t2}
  Monsters = {tzhaar, wyrm}
  TzHaar = tzhaar
  Quantities = {2}
  BasePoints = 30
  ItemCost = 120
  MaxBlocks = 1
  StartPoints = 200
  KillsPerTrip = {1}
  MaxCalls = 3
  MaxTrips = 2
  MaxBroken = 1
  MaxFreed = 1
  NoTask = NoTask
  NoMonster = NoMonster
SYMMETRY Symmetry
CHECK_DEADLOCK FALSE
INVARIANTS
  OneOpenTask
  PointsAreKept
  SettledOnce
  SettledIsClosed
  BlocksWithinLimit
PROPERTIES
  ClosedStaysClosed
