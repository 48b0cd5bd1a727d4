SPECIFICATION FilesSpec
CONSTANTS
  Procs = {p1, p2, p3}
  first = p1
  OPEN_MAX = 2
  FirstFd = 1
  Handles = {h1, h2}
  FileSize = 1
  Modes = {"wronly"}
  MaxOffset = 1
  MaxFileCalls = 5
  Destroyed = Destroyed
  NULL = NULL
  VfsProcs = {q1}
  kproc = kproc
  None = None
  Devices <- MCDevices
  Paths <- MCPaths
  VfsNames = {"f"}
  Inodes = {1}
  VfsMaxCalls = 3
  MaxMounts = 2
  SemfsThreads = {t1, t2, t3}
  Nobody = Nobody
  SemfsNames = {"a"}
  COUNTS = 3
  Amounts = {1, 2}
  SemfsMaxCalls = 3
  MaxSems = 2
  SemfsMaxFailures = 1
SYMMETRY Symmetry
INVARIANT DescriptorsHold
INVARIANT VnodesHold
INVARIANT SemfsHolds
CHECK_DEADLOCK FALSE
