SPECIFICATION VmSpec
CONSTANTS
  Programs <- AllPrograms
  Tags = {"t"}
  AnyTag = "any"
  NoTransfer = NoTransfer
  MaxSteps = 7
  MaxWinds = 2
  MaxConts = 2
  Var = {"x", "y"}
  Ground = {"1", "2"}
  Thunk = {"p", "q"}
  Hooked = {"x"}
  Equations <- SomeEquations
  MaxEquations = 2
  Unbound = "unbound"
  NoDomain = NoDomain
  MaxWrites = 4
  MaxMarks = 1
INVARIANTS StacksMatchFrames EnteredMatchesWinds
INVARIANTS UnwindRestores WakeupsKept DomainHonoured
PROPERTIES HandlerReached
