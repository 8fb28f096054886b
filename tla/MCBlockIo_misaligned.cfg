\* A bio that is not block aligned behind one that is.
SPECIFICATION Spec
CONSTANTS
  Bios = {b1, b2}
  Threads = {t1}
  Kblockd = kblockd
  Shapes <- MCMisaligned
  MaxLen = 4
  MaxSg = 3
  MaxStalls = 2
  Backpressure = FALSE
  NULL = NULL
INVARIANTS FbioBlockAligned
CHECK_DEADLOCK FALSE
