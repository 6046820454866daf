SPECIFICATION Spec
CHECK_DEADLOCK FALSE
CONSTANTS
    KnownPeers = {"p", "q"}
    Addresses = {"a1", "a2"}
    AllowedAddresses = {"a1", "a2"}
    MaxFetchAttempts = 2
    SeenTtl = 0
    SeenMax = 2
    CacheTtl = 2
    CacheMax = 2
    MaxPeerTime = 3
    MaxLearners = 1
    StaticPeers = {"x"}
    StartupTicks = 1
    MaxRetries = 1
PROPERTY CacheKeepsItsTtl
