SPECIFICATION TripSafety
CONSTANTS
  Users = {u1, u2}
  Commands = {c1, c2}
  NoUser = NoUser
  MaxOutstanding = 2
  EntryKinds <- AllType
  Parties <- Pairs
  Trips = {t1, t2}
  MaxRestarts = 1
  NoTrip = NoTrip
SYMMETRY Symmetry
INVARIANTS
  OpenRowCached
  ChargedCanStart
PROPERTIES
  HandlerFreesOwnTrip
  CancelsWhatItAsked
