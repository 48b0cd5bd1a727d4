\* Two CPUs, between which processes migrate while their translations stay
\* behind, and fewer physical pages than two processes want.
SPECIFICATION Spec
CONSTANTS
  Procs = {p1, p2}
  CPUs = {c1, c2}
  StartIdx = 1
  EndIdx = 3
  HeapStart = 0
  StackBase = 2
  StackTop = 3
  NUM_TLB = 2
  Values = {0, 1}
  NULL = NULL
SYMMETRY Symmetry
INVARIANTS MemoryIsPrivate TlbSound PagesAccounted
PROPERTY UsesCoremap
