CONSTANTS
  Threads = {t1, t2, t3, t4, t5}
  NumCPUs = 2
SPECIFICATION Spec
SYMMETRY Symmetry
INVARIANTS
  ThreadsAccounted
  StackUsedByOneCPU
  UnidleNotLost
  NoStackFreedInUse
