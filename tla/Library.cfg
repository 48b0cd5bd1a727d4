SPECIFICATION MCSpec
CONSTANTS
    HALF_BITS = 2
    INT_SIZE = 4
    LL_SIZE = 6
    WORD = 2
    MBLOCKSIZE = 2
    PAGE_SIZE = 12
    HeapLimit = 24
    MallocSizes = {0, 5, 14}
    WIDTH = 8
    Arrays <- StateArrays
    Seeds = {1, 6}
    MaxDraws = 3
    Lists = {"a", "b"}
    ListThreads = {"t", "u", "v"}
    ArrayValues = {"p", "q"}
    ArrayMax = 5
    Unset = Unset
    BITS_PER_WORD = 3
    Bits = 5
    NUMNAMES = 7
    TESTSIZE = 6
    NoContents = NoContents
    KmThreads = 2
    NTRIES = 7
    KmPages = {5, 20, 40}
    NUM_KM3 = 6
    KM3_BLOCK = 2
    \* As many references to a root as threads; the heap, large requests and
    \* user pages compete for four pages.
    t1 = t1
    t2 = t2
    k1 = k1
    Threads = {t1, t2}
    StartIdx = 1
    EndIdx = 5
    Owners = {o1}
    Types = {k1}
    PerPage <- TwoBlocks
    NUM_PAGEREFPAGES = 2
    NPAGEREFS_PER_PAGE = 2
    LargestBig = 2
    BIG = BIG
    NULL = NULL
SYMMETRY Symmetry
INVARIANTS
    LibcExact
    UserHeapSound
    KernelLibraryExact
    KernelHeapSound
    MemorySound
CHECK_DEADLOCK FALSE
