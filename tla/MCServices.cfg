SPECIFICATION Spec
CONSTANTS
  PageSize = 2
  NumPages = 2
  MaxVecs = 3
  MaxBytes = 4
  NoPage = NoPage
  LogicalUnits = {l1, l2}
  ScsiCmnds = {c1}
  HostIds = {h1, h2}
  LateCalls = 1
  Nil = Nil
  NodeIds = {n1, n2, n3, n4}
  NodeNames = {"a", "b"}
  Readers = {r1}
  MaxPathLen = 5
  Top = Top
  NoNode = NoNode
  MaxText = 4
  MaxCount = 2
  MaxPos = 5
  LocalBuf = 3
  RecordLens <- MCRecordLens
  FirstSize = 8
  NumCpus = 4
  NodesPossible = 3
  MaxQueues = 4
  Notifiers = {t1, t2}
  MaxStates = 6
  PciDevs = {p1, p2}
  HasScsi = TRUE
  ListNodes = {e1, e2, e3}
  Pushers = {w1, w2}
  Takers = {x1}
  Null = Null
  CvTasks = {k1, k2}
  NoHolder = NoHolder
  CdevFiles = {f1, f2}
  DevWaitLimit = 2
  PortHeads = {ph1, ph2}
  PortEntries = {pe1, pe2, pe3}
  WordBits = 4
  ByteBits = 2
  RangeBits = 3
  HalfBits = 3
  TickLimit = 12
  MaxUsecs = 80
INVARIANTS ServicesTypeOK ScatterExact ScatterPagesKept HostCountExact KinfoTreeExact KinfoFileExact
           CpuQueuesInRange HotplugArmed DriverLayers AtomicListExact PollNotLost CondVarSound
           PortListExact AlgorithmsExact
PROPERTIES CommandAnsweredOnce AtomicBagRefined
CHECK_DEADLOCK FALSE
