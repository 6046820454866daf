SPECIFICATION FairSpec
VIEW View
CONSTANTS
    PeerIds = {p1, p2}
    AgentIds = {l1, p1}
    Hosts = {h1}
    Objects = {1, 2}
    None = None
    MissedBeatsThreshold = 2
    MaxFetches = 1
INVARIANTS TypeOK StoredUnderOwnId VerifiedIsBound
PROPERTIES RejectedLeavesBindings FlipIsUnambiguous NoPhantomPeer
