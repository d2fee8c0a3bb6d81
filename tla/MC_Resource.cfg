\* Every order of request_resource() and insert_resource() calls on seven resources.
CONSTANTS
    ram1 = ram1
    ram2 = ram2
    dev = dev
    bus = bus
    dup = dup
    bad = bad
    inv = inv
    ROOT = ROOT
    NULL = NULL
    Res <- MC_Res
    ResStart <- MC_ResStart
    ResEnd <- MC_ResEnd
    Ram <- MC_Ram
    W = 4
    PAGE_SHIFT = 1
SPECIFICATION Spec
INVARIANT ChildListsOrdered NestingIsAncestry WalkSound LookupFindsTopLevel
PROPERTY RefinesResourceSet
