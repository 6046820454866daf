SPECIFICATION FairSpec
VIEW LivenessView
CONSTANTS
    Peers = {p1}
    EntryIds = {e1, e2}
    RoundIds = {r1, r2}
    NoEntry = NoEntry
    NoRound = NoRound
    MaxBufferedMessages = 1
    MaxBufferedBytes = 1
    MessageSizes = {1}
    HangUpThreshold = 1
    MaxGeneration = 1
    MaxOverflows = 0
PROPERTIES
    BufferedIsApplied
    TickReturns
    StopResolves
CHECK_DEADLOCK FALSE
