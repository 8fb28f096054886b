\* Three waiters, four states, every setter.
SPECIFICATION FairSpec
CONSTANTS
  Waiters = {w1, w2, w3}
  WaitSets = {{1}, {2, 3}, {3}}
  MaxState = 3
  FromSets = {{}, {1}, {2, 3}}
  ArcTables <- MCArcTables
  NoOne = NoOne
INVARIANTS IInv NoMissedState StateHeldForWaiter
PROPERTIES WaiterReturns
