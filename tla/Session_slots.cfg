SPECIFICATION Spec
CONSTANTS
  Disk <- SmallDisk
  Submissions <- SomeSubmissions
  MaxSubmits = 3
  MaxEvals = 2
  MaxFailures = 1
  MaxReserves = 12
INVARIANTS ArtifactSlotsKept
CHECK_DEADLOCK FALSE
