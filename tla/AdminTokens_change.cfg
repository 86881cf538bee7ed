SPECIFICATION AdminSpec
CONSTANTS
  Users = {u1, u2}
  Jtis = {j1, j2, j3}
  Reqs = {r1, r2, r3}
  None = None
  RowLocks = TRUE
  MaxPassword = 2
SYMMETRY Symmetry
INVARIANTS OldTokensDie
CHECK_DEADLOCK FALSE
