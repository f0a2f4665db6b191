CONSTANTS
    Prios <- MCPrios
    threshold <- MCThreshold
    Cores <- MCCores
    Posters <- MCPosters
    SMP = TRUE
    NoCore <- MCNoCore
    Ceilings <- MCCeilings
    MaxOps = 2
    MaxInitial = 0
SPECIFICATION Spec
INVARIANTS
    Isolation
    PreemptionThreshold
