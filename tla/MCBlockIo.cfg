\* Three bios of six shapes, one submitter with kblockd.
SPECIFICATION FairSpec
CONSTANTS
  Bios = {b1, b2, b3}
  Threads = {t1}
  Kblockd = kblockd
  Shapes <- MCShapes
  MaxLen = 3
  MaxSg = 2
  MaxStalls = 2
  Backpressure = TRUE
  NULL = NULL
INVARIANTS TypeOK EachBioInOnePlace FbioMatchesChain NoSleepWithoutPressure
PROPERTIES EveryPlacedBioEnds
CHECK_DEADLOCK FALSE
