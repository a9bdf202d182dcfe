SPECIFICATION Spec
CONSTANTS
  Haps <- SomeHaps
  OPEN_PERMS = {"open"}
  ACL_AUTO = {"acl"}
  Runtime = "runtime"
  NoBundle = "none"
  Pids = {p1, p2}
  MaxFaults = 1
  MaxRenewals = 2
INVARIANTS OwnFiles
PROPERTIES CleanRunsInstall AppsKept
SYMMETRY SomePids
CHECK_DEADLOCK FALSE
