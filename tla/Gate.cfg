SPECIFICATION GateSpec
CONSTANTS
  Users = {u1}
  Commands = {c1, c2, c3}
  NoUser = NoUser
  MaxOutstanding = 3
INVARIANTS
  Accounting
  OneGatedCommand
PROPERTIES
  GatedStartsAloneAlways
  FreedWhenQuiet
