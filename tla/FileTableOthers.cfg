SPECIFICATION Spec
CONSTANTS
  Procs = {p1, p2, p3}
  first = p1
  OPEN_MAX = 2
  FirstFd = 1
  Handles = {h1, h2}
  FileSize = 1
  Modes = {"rdwr"}
  MaxOffset = 1
  MaxFileCalls = 6
  Destroyed = Destroyed
  NULL = NULL
INVARIANT OpenDescriptorsHaveHandles
CHECK_DEADLOCK FALSE
