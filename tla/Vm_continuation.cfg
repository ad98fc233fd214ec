SPECIFICATION VmSpec
CONSTANTS
  Programs <- SkippingPrograms
  Tags = {}
  AnyTag = "any"
  NoTransfer = NoTransfer
  MaxSteps = 5
  MaxWinds = 1
  MaxConts = 1
  Var = {}
  Ground = {}
  Thunk = {}
  Hooked = {}
  Equations <- NoEquations
  MaxEquations = 0
  Unbound = "unbound"
  NoDomain = NoDomain
  MaxWrites = 0
  MaxMarks = 0
INVARIANTS AfterAlwaysRuns
