SPECIFICATION FairSpec
CONSTANTS
  Users = {u1}
  Jtis = {j1, j2, j3}
  Reqs = {r1, r2, r3}
  None = None
  RowLocks = TRUE
INVARIANTS SingleUse OneLiveTokenPerLogin
PROPERTIES LogoutIsFinal ImplementsExchange EveryRequestAnswered
CHECK_DEADLOCK FALSE
