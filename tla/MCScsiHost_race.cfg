SPECIFICATION ScsiSpec
CONSTANTS
  LogicalUnits = {l1, l2}
  ScsiCmnds = {c1}
  HostIds = {h1, h2, h3}
  LateCalls = 1
  Nil = Nil
INVARIANT HostKeptForCounted
CHECK_DEADLOCK FALSE
