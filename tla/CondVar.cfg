\* Three threads: one holds the lock while one waits for it and one for a signal.
CONSTANTS
  Threads = {t1, t2, t3}
  NoThread = NoThread
SPECIFICATION FairSpec
INVARIANTS LockSound WakeupsKept
PROPERTIES SpinlocksReleased SleepersProgress ImplementsMonitor
CHECK_DEADLOCK FALSE
