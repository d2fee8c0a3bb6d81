\* LLC misses for an unmapped user address from a known and an unknown pid: no path reaches a BUG(), so only the handler itself can abort.
CONSTANTS
    h1 = h1
    h2 = h2
    NONE = NONE
    Handlers <- MC_OneHandler
    Vma <- MC_Vma
    Addrs <- MC_Addrs
    ReqAddrs = {7}
    PidKnown = {TRUE, FALSE}
    Aligned = {TRUE}
    TASK_SIZE_MAX = 8
    StackLimit = 5
    PageIds = {1, 2}
    MaxPrefetch = 0
    MaxRequests = 2
SPECIFICATION Spec
INVARIANT RequestsNeverAbort
