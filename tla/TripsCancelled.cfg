SPECIFICATION TripSafety
CONSTANTS
  Users = {u1}
  Commands = {c1}
  NoUser = NoUser
  MaxOutstanding = 2
  EntryKinds <- AllType
  Parties <- Solo
  Trips = {t1}
  MaxRestarts = 0
  NoTrip = NoTrip
INVARIANT CancelledIsNotPaid
