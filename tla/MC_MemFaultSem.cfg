\* A miss answered by bad_area() leaves mmap_sem held for read.
CONSTANTS
    h1 = h1
    h2 = h2
    NONE = NONE
    Handlers <- MC_OneHandler
    Vma <- MC_Vma
    Addrs <- MC_Addrs
    ReqAddrs = {0, 7}
    PidKnown = {TRUE}
    Aligned = {TRUE}
    TASK_SIZE_MAX = 8
    StackLimit = 5
    PageIds = {1, 2, 3}
    MaxPrefetch = 0
    MaxRequests = 2
SPECIFICATION Spec
INVARIANT MmapSemReleased
