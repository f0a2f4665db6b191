SPECIFICATION Spec
CONSTANTS
    Stacks <- MCStacks
    PeerFrames <- MCPeerFrames
    MaxRetries = 1
    Own = 1
    Bcast = 65535
    NoFrame = NoFrame
    None = None
    Apps = {"sender", "fota"}
    Lens = {4, 221}
    Dsts = {2}
    Chunks = 1
    MaxRequests <- MCMaxRequests
    MaxQueue = 1
INVARIANTS AirBudget FcntNamesFrame DeliveredWasSent
PROPERTIES FailIsFinal PendingIsSent
CHECK_DEADLOCK FALSE
