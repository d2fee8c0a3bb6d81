\* The prefetcher re-reads the PTE after its pte_none() check and replaces the page a flush wrote.
CONSTANTS
    h1 = h1
    h2 = h2
    NONE = NONE
    Handlers <- MC_OneHandler
    Vma <- MC_Vma
    Addrs <- MC_Addrs
    ReqAddrs = {0}
    PidKnown = {TRUE}
    Aligned = {TRUE}
    TASK_SIZE_MAX = 8
    StackLimit = 5
    PageIds = {1, 2, 3}
    MaxPrefetch = 1
    MaxRequests = 2
SPECIFICATION Spec
INVARIANT ContentMatchesAddress
