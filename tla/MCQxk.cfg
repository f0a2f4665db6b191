SPECIFICATION SpecSync
CONSTANTS
    c1 = c1
    c2 = c2
    isr = isr
    t1 = t1
    t2 = t2
    Idle = Idle
    NoOwner = NoOwner
    Cores = {c1, c2}
    BootCore = c1
    Posters = {isr}
    AOs = {1}
    Threads = {t1, t2}
    ThreadPrio <- MCThreadPrio
    MaxOps = 4
    MaxCount = 1
    Capacity = 1
    Ceilings = {0, 1, 2}
INVARIANTS
    OneCoreAtATime
    CeilingReleased
    NoSpuriousWakeup
    NoLostWakeupInTurn
