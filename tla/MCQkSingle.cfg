CONSTANTS
    Prios <- MCPrios
    threshold <- MCThreshold
    Cores <- MCCores
    Posters <- MCPosters
    SMP = FALSE
    NoCore <- MCNoCore
    Ceilings <- MCCeilings
    MaxOps = 2
    MaxInitial = 1
SPECIFICATION FairSpec
INVARIANTS
    TypeOK
    LockProtects
    NoLostEvent
    ScheduledHasEvent
PROPERTIES
    RunUntilIdleDrains
    EventuallyDispatched
