\* Scheduler core: one waker, one affinity setter; no task exits (exits are covered by MC_SchedLive.cfg and MC_SchedDeadWake.cfg) and no fork (Nices = {}: the fork is checked in MC_SchedLive.cfg).
CONSTANTS
    c1 = c1
    c2 = c2
    i1 = i1
    i2 = i2
    t1 = t1
    t2 = t2
    w1 = w1
    w2 = w2
    a1 = a1
    NULL = NULL
    CPUs <- MC_CPUs
    Tasks <- MC_Tasks
    Idle <- MC_Idle
    TaskClass <- MC_TaskClass
    Masks <- MC_Masks
    Wakers = {w1}
    Setters = {a1}
    NrUnintBound = 2
    Exiting = {}
    Nices = {}
    RtPrios = {1, 99}
SPECIFICATION Spec
INVARIANT TypeOK RqMatchesOnRq RunsOnOneCpu CurrIsQueuedHere RunningIsQueued
PROPERTY CpuStableWhileOnCpu RefinesTaskLifecycle
