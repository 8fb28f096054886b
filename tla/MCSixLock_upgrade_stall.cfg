\* The update lock and its upgrade to exclusive, two threads.
SPECIFICATION FairSpec
CONSTANTS
  Threads = {t1, t2}
  Interruptible = {}
  DownModes = {"U"}
  UpgradeModes = {"X"}
  HeldMax = 2
  WaitMax = 2
  SerialMod = 8
  SerialBound = 3
PROPERTIES NoStarvation
CHECK_DEADLOCK FALSE
