SPECIFICATION Spec
CONSTANTS
    Peers = {p1}
    EntryIds = {e1, e2, e3}
    RoundIds = {r1, r2, r3}
    NoEntry = NoEntry
    NoRound = NoRound
    MaxBufferedMessages = 1
    MaxBufferedBytes = 2
    MessageSizes = {1, 3}
    HangUpThreshold = 2
    MaxGeneration = 2
    MaxOverflows = 1
SYMMETRY Symmetry
VIEW View
INVARIANTS
    Singleflight
CHECK_DEADLOCK FALSE
