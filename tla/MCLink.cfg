SPECIFICATION Spec
CONSTANTS
    Payloads <- MCPayloads
    FirstSeqs = {123, 255}
    MaxFrames = 3
    MaxDamage = 1
    Noise = {0, 125, 126}
    MaxRecordLen = 64
    Fns = {"f1", "f2", "f3"}
    ProbeSlots = 2
    MaxAsked = 3
    MaxEmitted = 2
    MaxWork = 3
    MaxBreaks = 1
INVARIANTS CommandsParsed NoMisread ProbeFresh
PROPERTIES CommandsServed WholeDecoded
CHECK_DEADLOCK FALSE
