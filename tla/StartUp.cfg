SPECIFICATION StartSpec
CONSTANTS
  Procs = {"server1", "server2", "worker1", "scheduler1"}
  Reqs = {"server1", "server2", "worker1", "scheduler1", "wizard"}
  Kind <- MCKind
  Deployments <- MCDeployments
  Ids = {i1, i2, i3}
  Names = {"boot", "ann"}
  BootName = "boot"
  Admins = {}
  Ops = {"seed", "setup"}
  None = None
INVARIANTS SettingsHonoured OneTreeServes TasksRunWhole
PROPERTIES EveryProcessServes
CHECK_DEADLOCK FALSE
