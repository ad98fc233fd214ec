SPECIFICATION FairSpec
CONSTANTS
  GenIds = {g1, g2}
  PoolIds = {c1, c2}
  NewKinds = {"proc"}
  NoProc = NoProc
  NoneRunning = NoneRunning
  NoRequest = NoRequest
  ConsSize = 1
  ObjSize = 2
  SoftLimit = 4
  MaxRefs = 1
  MaxReady = 1
  MaxFinalizers = 2
INVARIANTS BytesAccounted WeakTablesLive HeapInv FinalizedOnce
PROPERTIES KeepsPromise FinalizerRuns CollectionEnds
