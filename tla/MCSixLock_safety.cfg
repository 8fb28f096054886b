\* Three threads, conversions included; no counter overflows, no serial wraps.
SPECIFICATION Spec
CONSTANTS
  Threads = {t1, t2, t3}
  Interruptible = {t1, t2, t3}
  DownModes = {"IS", "IX", "S", "U", "X"}
  UpgradeModes = {"IX", "S", "X"}
  HeldMax = 3
  WaitMax = 3
  SerialMod = 8
  SerialBound = 2
SYMMETRY Symmetry
INVARIANTS BookkeepingExact HoldersCompatible ConversionSerials
PROPERTIES ConversionOrder ImplementsGranularLock
