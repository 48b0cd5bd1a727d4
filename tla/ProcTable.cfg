\* Three entries in the table, three structures, three user threads.
SPECIFICATION MCSpec
CONSTANTS
  Procs = {kproc, p1, p2, p3}
  kproc = kproc
  Threads = {menu, t1, t2, t3}
  menu = menu
  LastPid = 4
  Codes = {c1, c2}
  NULL = NULL
  MaxFailures = 2
  \* Six pages of user memory, two of them the stack; the kernel above.  The
  \* pointers to three arguments fill a page; ten do not fit on the stack.
  VM_PAGE = 8
  USERTOP = 48
  ADDRESSES = 64
  STACKPAGES = 2
  PTR_SIZE = 2
  ARG_MAX = 10
  ArgLists <- MCArgLists
  Images <- MCImages
SYMMETRY Symmetry
INVARIANTS TableSound WaitAnswerIsExitCode NoMissedExit ExecSound
CHECK_DEADLOCK FALSE
