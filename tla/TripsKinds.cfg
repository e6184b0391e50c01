SPECIFICATION TripSpec
CONSTANTS
  Users = {"player", "moderator"}
  Commands = {c1, c2}
  NoUser = NoUser
  MaxOutstanding = 1
  EntryKinds <- PlayerAndModerator
  Parties <- Pairs
  Trips = {t1}
  MaxRestarts = 1
  NoTrip = NoTrip
INVARIANTS
  PaidAtMostOnce
  NobodyIsStranded
PROPERTIES
  DueTripSettles
  MinionGetsFree
