SPECIFICATION SSpec
CONSTANTS
  Sock = {s1, s2, s3}
  Threads = {}
  NoSock = NoSock
  Slot = {i1, i2}
  Strategy = "one-for-one"
  RecvModes = {"timed"}
  Programs <- Nothing
  MaxSent = 1
  MaxWire = 1
  MaxSkip = 16
  MaxNotif = 1
PROPERTIES CrashedChildIsRestarted
CHECK_DEADLOCK FALSE
