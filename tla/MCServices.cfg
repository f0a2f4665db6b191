SPECIFICATION Spec
CONSTANTS
    Timers = {"t1", "t2"}
    RateOf <- MCRateOf
    Dangling = {"t1"}
    Timeouts = {0, 1, 3}
    None <- MCNone
    Intervals <- MCIntervals
    MaxPolls = 3
    ThinkTicks = {3}
    EatTicks = {2, 4}
    MaxPresses = 2
    Inline = 3
    Capacities = {3, 4}
    Margins = {0, 2}
    MaxEvents = 4
    Threads = {"a", "b", "c"}
    ThreadId <- MCThreadId
    MAX_THREADS = 2
    MaxDepth = 1
    MaxSteps = 2
    Chunk = 4
    Word = 2
    Fifo = 2
    RxFifo = 2
    Lengths = {0, 3, 5}
    Segments = {0, 2}
    MaxCalls = 2
    MaxArrivals = 3
INVARIANTS FiresOnTime TableAccounts MarginKept ExactlyOnce DriverHonest
PROPERTIES FinallyFed
CHECK_DEADLOCK FALSE
