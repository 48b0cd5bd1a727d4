CONSTANTS
  Threads = {0, 1, 2, 3}
  NoThread = NoThread
  InitialCount = 0
  MaxPosts = 3
  NROPES = 2
  Killers = {"k1", "k2"}
  NTHREADS = 3
  NLOCKLOOPS = 2
  NCVLOOPS = 2
  NCVS = 2
  NLOOPS = 2
  NWAITCHANS = 2
  SLEEPALOT_ITERS = 2
  TestRuns = 1
  FsThreads = 2
  NCHUNKS = 3
  NLONG = 2
  NCREATE = 2
  FsFaults = 1
  FsRuns = 1
SPECIFICATION KtSpec
INVARIANTS
  SemaphoreSound
  BalloonSound
  KernelTestsPass
PROPERTIES
  KernelTestsReturn
CHECK_DEADLOCK FALSE
