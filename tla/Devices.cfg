CONSTANTS
  LhdThreads = {d1, d2}
  LHD_SECTSIZE = 2
  Blocks = 2
  Word = 4
  Requests <- MCRequests
  Values = {0, 1, 2}
  MaxLhdCalls = 2
  EmuThreads = {e1, e2}
  NoOwner = NoOwner
  Handles = {0, 1, 2}
  EmuFiles <- MCEmuFiles
  EmuRetries = 1
  MaxEmuCalls = 3
  MaxEmuErrors = 2
  ConThreads = {"t1", "t2", "t3"}
  NoThread = "none"
  Jobs <- MCJobs
  Text <- MCText
  Keys <- MCKeys
  CONSOLE_INPUT_BUFFER_SIZE = 3
  DELAYBUFSIZE = 4
  KgetsMax = 3
  MaxTyped <- MCTyped
  Cards <- MCCards
  Noisy = {1}
  DudLimit = 2
  MaxRaises = 2
  Sleepers = {s1}
  Second = 6
  Early = 2
  MaxDelay = 1
  LastTick = 16
  MaxSecs = 2
SPECIFICATION Spec
INVARIANTS DriversExact
PROPERTIES ImplementsBlockDevice DevicesProgress
CHECK_DEADLOCK FALSE
