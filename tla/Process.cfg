SPECIFICATION ProcessSpec
CONSTANTS
  Disk <- SmallDisk
  Submissions <- SomeSubmissions
  MaxSubmits = 3
  MaxEvals = 2
  MaxFailures = 1
  MaxReserves = 12
  t1 = t1
  t2 = t2
  Thread = {t1, t2}
  Options <- SomeOptions
  PipeSize = 1
  MaxOutput = 2
INVARIANTS SlotsKept ImportsReadDefinitions InitialisedInOrder NothingHalfLoaded HandleIsChild OutputComplete RunCleansUp
PROPERTIES CallReturns
CHECK_DEADLOCK FALSE
