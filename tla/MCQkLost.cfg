CONSTANTS
    Prios <- MCPrios
    threshold <- MCThreshold
    Cores <- MCCores
    Posters <- MCPosters
    SMP = FALSE
    NoCore <- MCNoCore
    Ceilings <- MCCeilings
    MaxOps = 1
    MaxInitial = 1
SPECIFICATION Spec
INVARIANTS
    PostMarksReady
