CONSTANTS
  boot1 = boot1
  boot2 = boot2
  Threads = {boot1, boot2, t3}
  NumCPUs = 2
  NumLocks = 1
  Boot <- TwoBoot
  \* Two user threads, which both CPUs run, beside the menu's thread.
  TrapCPUs = {cpu0, cpu1}
  TrapThreads = {boot, u1, u2}
  boot = boot
  NOBODY = NOBODY
SPECIFICATION MCSpec
INVARIANTS
  SpinlocksSound
  InterruptsComeBack
  TrapsHold
