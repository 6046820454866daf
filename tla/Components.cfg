SPECIFICATION Spec
VIEW View
CHECK_DEADLOCK FALSE
CONSTANTS
    SkillIds = {s1, s2}
    BuiltinSkills = {s1}
    LateSkills = {s2}
    TaskIds = {t1, t2}
    QueueIds = {q1, q2, q3, q4}
    Priorities = {1, 2}
    MaxConcurrent = 2
    MaxQueueSize = 2
    KeepCompleted = 2
    ChainLength = 3
    RoutePeers = {1, 2}
    CpuLoads = {0, 100}
    ExecutionIds = {"e1", "e2"}
    Writers = {1, 2}
    Envelopes = {m1}
    Ttls = {0, 2, 4}
    SeenFor = 3
    BucketSize = 2
    RefillRate = 1
    BucketIdle = 2
    FailureThreshold = 2
    ResetTimeout = 2
    HourLimit = 2
    DayLimit = 3
    SoftLimit = 1
    UsageIds = {u1, u2, u3}
    Hour = 1
    Day = 3
    Week = 4
    MaxNow = 5
    IngressNodes = {"n1", "n2", "n3"}
    SharingNodes = {"n1", "n2"}
    ApprovalNodes = {"n1", "n2"}
    ChannelCount = 2
    MaxLegs = 3
    KnownServers = {"unifi"}
    Tools = {"list", "block"}
    Channels = {"a", "b"}
    MaxEntries = 2
    MaxRules = 3
    OrderIds = {"o1", "o2"}
    Issuers = {"i1", "i2"}
    Consumers = {"c1", "c2"}
    WakeInstances = {"w1", "w2"}
    WakeWindow = 2
    MaxWakeTime = 5
    CapNodes = {"a", "b", "c"}
    CapOwners = {"a"}
    RelayNodes = {"c"}
    Reports = {"unhealthy"}
    MaxStamp = 2
    MaxWire = 1
    StaleAfter = 0
    Retention = 1
    MaxRowAge = 4
    DebounceUp = 2
    DebounceDown = 3
    MaxRegistrations = 2
    MaxResults = 6
    ExpiryDays = 3
    UnusedDays = 1
    MaxDays = 6
    Graph = {"s1", "s2", "s3"}
    VersionNumbers = {0, 1}
    KnownPeers = {"p", "q"}
    Addresses = {"a1", "a2"}
    AllowedAddresses = {"a1"}
    MaxFetchAttempts = 2
    SeenTtl = 0
    SeenMax = 1
    CacheTtl = 1
    CacheMax = 2
    MaxPeerTime = 2
    MaxLearners = 1
    StaticPeers = {"x", "y"}
    StartupTicks = 2
    MaxRetries = 2
    AddressBits = 2
    Hosts = {"h"}
    MeshMembers = {2, 3}
    Starters = {"s1", "s2"}
    MaxStarts = 2
    HardwareIds = {"h1"}
    AdminKey = 9
    MaxKeys = 6
    CaValidity = 3
    NodeValidity = 2
    RenewBefore = 1
    RecoverBefore = 0
    MaxDay = 4
    Nonces = {1, 2}
    NonceTtl = 1
    MaxNonceClock = 2
    Applicants = {"p", "q"}
    Csrs = {1, 2}
    Agents = {"a1", "a2"}
    AgentTypes = {"cli", "ide"}
    MaxAgents = 1
    AgentStaleAfter = 2
    SweepWindow = 2
    LockTime = 2
    MaxAgentTime = 4
    MaxLines = 2
    Ticks = {1, 2, 3}
    BeatStart = 2
    BeatMax = 10
    MaxEmpty = 6
    Segments = {"skills", "..", "..x", "."}
    MaxDepth = 3
    AllowedDir <- MCAllowedDir
    MaxChunks = 1
    P2pPeers = {"me", "p", "q"}
    SelfPeer = "me"
    Protocols = {"reg", "hb"}
    StreamIds = {1, 2}
    MaxDials = 2
    MaxEvents = 4
    CredentialNames = {"c"}
    MaxPassphrases = 3
    EnvPassphrases = {1, 9}
    MaxBoots = 3
    VaultTtl = 1
    MaxVaultTime = 3
    SecretIds = {"r"}
INVARIANTS
    ComponentsTypeOK TasksAreServed CallsAreGoverned SkillsAreTracked
    PeersAreKept AlgorithmsAreSound IdentityIsCoherent HostKeepsItsWord
PROPERTIES AnsweredOnce NothingIsUndone
