\* walk_system_ram_range() against the WalkComplete reference, over every tree reached.
CONSTANTS
    ram1 = ram1
    ram2 = ram2
    dev = dev
    bus = bus
    dup = dup
    bad = bad
    inv = inv
    ROOT = ROOT
    NULL = NULL
    Res <- MC_Res
    ResStart <- MC_ResStart
    ResEnd <- MC_ResEnd
    Ram <- MC_Ram
    W = 4
    PAGE_SHIFT = 1
SPECIFICATION Spec
INVARIANT WalkComplete
