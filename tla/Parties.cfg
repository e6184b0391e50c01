SPECIFICATION PartyFairSpec
CONSTANTS
  Users = {"ann", "bob", "cat", "dan"}
  Lobbies = {mass, raid}
  MaxClicks = 3
  Hosts <- FirstHosts
  NoUser = NoUser
  MinSize = 2
  MaxSize = 3
  Sliced = {raid}
CHECK_DEADLOCK FALSE
INVARIANTS
  OneParty
  LocksAreReleased
  TeamFits
PROPERTIES
  ImplementsGathering
  LobbiesSettle
