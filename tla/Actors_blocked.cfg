SPECIFICATION Spec
CONSTANTS
  proc = proc
  thread = thread
  Sock = {proc, thread}
  Threads = {thread}
  NoSock = NoSock
  RecvModes = {"timed", "wait"}
  Programs <- OnlyMail
  MaxSent = 2
  MaxWire = 1
  MaxSkip = 2
  MaxNotif = 1
PROPERTIES MonitoredRecvReturns
CHECK_DEADLOCK FALSE
