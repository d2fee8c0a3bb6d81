\* Two LLC-miss handlers racing on the file-backed and anonymous pages.
CONSTANTS
    h1 = h1
    h2 = h2
    NONE = NONE
    Handlers <- MC_Handlers
    Vma <- MC_Vma
    Addrs <- MC_Addrs
    ReqAddrs = {0, 1, 3}
    PidKnown = {TRUE, FALSE}
    Aligned = {TRUE, FALSE}
    TASK_SIZE_MAX = 8
    StackLimit = 5
    PageIds = {1, 2, 3, 4}
    MaxPrefetch = 0
    MaxRequests = 2
SYMMETRY MC_Symmetry
SPECIFICATION Spec
INVARIANT ReplyCorrect
PROPERTY HandlersNeverReplace
