\* A close races with a hide.
SPECIFICATION Spec
CONSTANTS
  Users = {u1, u2}
  HideFlags = {FALSE}
  MayFail = {}
  NoOne = NoOne
INVARIANTS NoLateRelease
CHECK_DEADLOCK FALSE
