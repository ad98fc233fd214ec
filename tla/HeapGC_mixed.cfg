SPECIFICATION Spec
CONSTANTS
  GenIds = {g1, g2, g3}
  PoolIds = {}
  NewKinds = {"proc", "guardian"}
  NoProc = NoProc
  NoneRunning = NoneRunning
  NoRequest = NoRequest
  ConsSize = 1
  ObjSize = 2
  SoftLimit = 6
  MaxRefs = 1
  MaxReady = 1
  MaxFinalizers = 1
SYMMETRY Symmetry
INVARIANTS ReachableIsLive CondemnedIsUnreachable NothingLeaks
PROPERTIES GuardianReceives KeepsPromise

