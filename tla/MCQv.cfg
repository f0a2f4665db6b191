CONSTANTS
    Prios <- MCPrios
    Cores = {c1, c2}
    Boot = c1
    Posters = {irq}
    Builds = {TRUE, FALSE}
    NoCore = NoCore
    Signals = {sig}
    PubSub = TRUE
    Ceilings <- MCCeilings
    MaxOps = 3
SPECIFICATION FairSpec
CHECK_DEADLOCK FALSE
PROPERTIES
    OneAtATimeInOrder
    ChoosesHighest
    EventuallyHandled
    StopEnds
