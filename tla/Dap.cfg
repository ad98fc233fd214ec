SPECIFICATION FairSpec
CONSTANTS
  Line = {l1, l2}
  NoLine = NoLine
  MaxDepth = 2
  MaxJumps = 1
  Clients <- AllClients
  StopOnEntry = {TRUE, FALSE}
  MaxRestarts = 1
INVARIANTS ClientKnows StepIsFresh BreakpointHonoured
PROPERTIES PauseAnswered
CHECK_DEADLOCK FALSE
