\* Shared and exclusive locks without conversions.
SPECIFICATION FairSpec
CONSTANTS
  Threads = {t1, t2, t3}
  Interruptible = {t1, t2, t3}
  DownModes = {"S", "X"}
  UpgradeModes = {}
  HeldMax = 3
  WaitMax = 3
  SerialMod = 4
  SerialBound = 4
PROPERTIES FreeLockTaken
