\* Counters of one holder per class and two waiters overflow, serials wrap.
SPECIFICATION Spec
CONSTANTS
  Threads = {t1, t2, t3}
  Interruptible = {t1, t2, t3}
  DownModes = {"IS", "IX", "S"}
  UpgradeModes = {"IX", "U"}
  HeldMax = 1
  WaitMax = 2
  SerialMod = 4
  SerialBound = 4
SYMMETRY Symmetry
INVARIANTS IInv WaitersCounted
