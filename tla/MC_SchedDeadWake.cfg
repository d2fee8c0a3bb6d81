\* A wakeup racing with the exit of the task it wakes.
CONSTANTS
    c1 = c1
    c2 = c2
    i1 = i1
    i2 = i2
    t1 = t1
    t2 = t2
    w1 = w1
    w2 = w2
    a1 = a1
    NULL = NULL
    CPUs <- MC_CPUs
    Tasks <- MC_OneTask
    Idle <- MC_Idle
    TaskClass <- MC_OneTaskClass
    Masks <- MC_Masks
    Wakers = {w1}
    Setters = {a1}
    NrUnintBound = 2
    Exiting <- MC_OneTask
    Nices = {}
    RtPrios = {1, 99}
SPECIFICATION Spec
PROPERTY RefinesTaskLifecycle
