\* One LLC-miss handler, taking every error path and a stack expansion, and the prefetcher racing on the file-backed pages.
CONSTANTS
    h1 = h1
    h2 = h2
    NONE = NONE
    Handlers <- MC_OneHandler
    Vma <- MC_Vma
    Addrs <- MC_Addrs
    ReqAddrs = {0, 1, 3, 4, 5, 7, 8}
    PidKnown = {TRUE, FALSE}
    Aligned = {}
    TASK_SIZE_MAX = 8
    StackLimit = 5
    PageIds = {1, 2, 3, 4}
    MaxPrefetch = 2
    MaxRequests = 3
SPECIFICATION Spec
INVARIANT TypeOK PagesExclusive ContentMatchesAddress
PROPERTY HandlersNeverReplace
