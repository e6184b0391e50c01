SPECIFICATION RefusingSpec
CONSTANTS
  Users = {u1}
  Commands = {c1, c2}
  NoUser = NoUser
  MaxOutstanding = 3
SYMMETRY Symmetry
INVARIANT BusyUsersAreRefused
