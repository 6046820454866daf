SPECIFICATION Spec
SYMMETRY Symmetry
CONSTANTS
    n1 = n1
    t1 = t1
    t2 = t2
    ip1 = ip1
    ip2 = ip2
    n2 = n2
    Nodes = {n1, n2}
    CaOf <- MCCaOf
    OwnCa = "own"
    Tokens = {t1, t2}
    Ips = {ip1, ip2}
    Handshakes = {1, 2}
    None = None
    MaxAttempts = 2
    MaxFailuresPerIp = 3
INVARIANTS TypeOK TokenAdmitsOne RevokedAdmittedNobody JoinedIsAccounted TrustFollowsPairing RestartKeepsPeers PinGuessesBounded
PROPERTIES OnlyLatestHandshakePairs
