SPECIFICATION FairSpec
CONSTANTS
  Line = {l1}
  NoLine = NoLine
  MaxDepth = 1
  MaxJumps = 0
  Clients <- Disconnecting
  StopOnEntry = {FALSE}
  MaxRestarts = 0
PROPERTIES LeavingWakes
CHECK_DEADLOCK FALSE
