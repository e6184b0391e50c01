SPECIFICATION DealSpec
CONSTANTS
  alice = alice
  bob = bob
  logs = logs
  Users = {alice, bob}
  Items = {logs}
  Clues = {}
  Requests <- Spendings
  Deals = {d1, d2}
  Offers <- SampleOffers
  NoOffer = NoOffer
  InitialBank <- StartBank
  InitialCoins <- StartCoins
  MaxOthers = 2
INVARIANTS
  RefusedOnlyByRaces
PROPERTIES
  GoodsOnlyChangeHands
  DealsEnd
CHECK_DEADLOCK FALSE
