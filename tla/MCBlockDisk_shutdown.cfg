\* Hide with KFIO_DISK_OP_SHUTDOWN.
SPECIFICATION Spec
CONSTANTS
  Users = {u1, u2}
  HideFlags = {TRUE}
  MayFail = {}
  NoOne = NoOne
INVARIANTS ShutdownReleasesParent
CHECK_DEADLOCK FALSE
