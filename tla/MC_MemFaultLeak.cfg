\* The loser of a do_anonymous_page() install race keeps its page.
CONSTANTS
    h1 = h1
    h2 = h2
    NONE = NONE
    Handlers <- MC_Handlers
    Vma <- MC_Vma
    Addrs <- MC_Addrs
    ReqAddrs = {3}
    PidKnown = {TRUE}
    Aligned = {TRUE}
    TASK_SIZE_MAX = 8
    StackLimit = 5
    PageIds = {1, 2, 3}
    MaxPrefetch = 0
    MaxRequests = 1
SPECIFICATION Spec
INVARIANT NoPageLeak
