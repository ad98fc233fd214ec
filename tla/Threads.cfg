SPECIFICATION ThreadsSpec
CONSTANTS
  proc = proc
  thread = thread
  Sock = {proc, thread}
  Threads = {thread}
  NoSock = NoSock
  RecvModes = {"timed", "wait"}
  Programs <- Uses
  MaxSent = 2
  MaxWire = 1
  MaxSkip = 2
  MaxNotif = 1
  Caller = {u1, u2, u3}
  String = {a, b}
  NoStr = NoStr
  NoId = NoId
  OutOfRange = OutOfRange
  PayloadMask = 3
  IdBound = 5
INVARIANTS HandleTracksChild JoinMeansDone NothingLeft IdsResolve InternInv
PROPERTIES KeepsChannel DeathIsReported HangIsReported DebuggerAnswers KeepsDictionary
CHECK_DEADLOCK FALSE
