SPECIFICATION Spec
VIEW View
CONSTANTS
    PeerIds = {p1, p2}
    AgentIds = {l1, p1}
    Hosts = {h1}
    Objects = {1, 2, 3}
    None = None
    MissedBeatsThreshold = 1
    MaxFetches = 1
PROPERTIES RejectedLeavesPeers
