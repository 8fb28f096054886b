\* Three users, both kinds of hide, every failure of expose.
SPECIFICATION FairSpec
CONSTANTS
  Users = {u1, u2, u3}
  HideFlags = {FALSE, TRUE}
  MayFail = {"gd", "rq", "param", "add"}
  NoOne = NoOne
INVARIANTS TypeOK ParentFollowsOpeners PlugFindsQueue PutDiskUnused
PROPERTIES OpenersOnlyFall HideCompletes ExposeCompletes
CHECK_DEADLOCK FALSE
