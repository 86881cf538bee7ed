SPECIFICATION Spec
CONSTANTS
  Ids = {i1, i2, i3, i4}
  Names = {boot_name, n1, n2}
  BootName = boot_name
  Admins = {}
  Reqs = {r1, r2, r3, r4}
  Ops = {"seed", "setup", "create", "delete", "edit"}
  None = None
  i1 = i1
  i2 = i2
  i3 = i3
  boot_name = boot_name
  n1 = n1
  n2 = n2
  r1 = r1
  r2 = r2
  r3 = r3
  r4 = r4
  i4 = i4
SYMMETRY Symmetry
INVARIANT AntiTakeover
INVARIANT SetupLeavesAnAdmin
PROPERTY LastHolderLostOnlyByRace
PROPERTY RecoveryLostOnlyByCrash
CHECK_DEADLOCK FALSE
