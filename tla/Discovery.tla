----------------------------- MODULE Discovery ------------------------------
(***************************************************************************)
(* How nodes find each other and tell each other apart: the interface      *)
(* policy (discovery-policy.ts), the mDNS publisher and browser            *)
(* (discovery.ts), the identity a node emits and the one its peers accept  *)
(* (peer-identity.ts), the server-identity pins of outbound connections    *)
(* (server-identity-pin.ts, mesh-server-identity.ts, mesh-connect.ts), the *)
(* choice of a peer (peer-selection.ts, scoped-multicast.ts), coordinator  *)
(* election (coordinator.ts) and partition detection                       *)
(* (partition-detector.ts).                                                *)
(*                                                                         *)
(* IPv4 addresses have AddressBits bits instead of 32, the first one the   *)
(* most significant.                                                       *)
(***************************************************************************)
EXTENDS Integers, Sequences, FiniteSets

CONSTANTS
    AddressBits,      \* width of an address
    Hosts,            \* dialled hosts
    MeshMembers       \* nodes of the election and of the partition detector

ASSUME DiscoveryAssumption == AddressBits \in Nat \ {0} /\ MeshMembers \subseteq Nat

VARIABLES
    net,            \* one publisher and one browser under the same policy
    attestation,    \* one node's identity decision and its receiver's
    pins,           \* ServerIdentityPinStore.pins
    admitted,       \* certificates accepted per host
    loads,          \* what the callers of peer-selection.ts pass in
    views           \* per node: the candidates it sees, its coordinator, its detector

discoveryVars == <<net, attestation, pins, admitted, loads, views>>

Ip == [1..AddressBits -> {0, 1}]
None == "none"
NoIp == <<2>>          \* no address; HostName stands for a name still to be resolved
HostName == <<3>>

(***************************************************************************)
(* discovery-policy.ts                                                     *)
(***************************************************************************)

(* JavaScript shifts by the count modulo the width, so a shift by the full *)
(* width is a shift by zero.                                               *)
shiftCount(prefix) == (AddressBits - prefix) % AddressBits

(* ip & mask, where mask is all ones shifted left for the prefix.          *)
masked(ip, prefix) ==
    [k \in 1..AddressBits |-> IF k <= AddressBits - shiftCount(prefix) THEN ip[k] ELSE 0]

(* Faulty: prefix 0 is left to the mask.                                   *)
ipInCidrByMask(ip, cidr) == masked(ip, cidr.prefix) = masked(cidr.base, cidr.prefix)

ipInCidr(ip, cidr) == cidr.prefix = 0 \/ masked(ip, cidr.prefix) = masked(cidr.base, cidr.prefix)

isPeerIpAllowed(ip, policy) == policy.cidrs # {} => \E c \in policy.cidrs : ipInCidr(ip, c)

(* DEFAULT_EXCLUDE_PATTERNS and the user's patterns, as the interface      *)
(* names they match.                                                       *)
excludedName(name, policy) == name \in {"docker0"} \cup policy.excludes

(* listActiveIPv4Interfaces leaves out internal ones; an address in an     *)
(* allowed CIDR wins over the patterns.  Selections are sets of positions. *)
selectMeshInterfaces(ifaces, policy) ==
    {k \in 1..Len(ifaces) :
        /\ ~ifaces[k].internal
        /\ IF policy.cidrs # {} THEN \E c \in policy.cidrs : ipInCidr(ifaces[k].addr, c)
           ELSE ~excludedName(ifaces[k].name, policy)}

(* orderMeshInterfaces: preferred names first, in their order, then by     *)
(* name.  Sorting is stable: of equals the first stays first.              *)
ifaceRank(name, policy) ==
    IF \E k \in 1..Len(policy.preferred) : policy.preferred[k] = name
    THEN CHOOSE k \in 1..Len(policy.preferred) : policy.preferred[k] = name
    ELSE Len(policy.preferred) + (CASE name = "docker0" -> 1 [] name = "eth0" -> 2 [] name = "wlan0" -> 3)

getMeshIp(ifaces, policy) ==
    LET usable == selectMeshInterfaces(ifaces, policy)
        rank(i) == ifaceRank(ifaces[i].name, policy)
    IN  IF usable = {} THEN NoIp
        ELSE ifaces[CHOOSE i \in usable : \A j \in usable \ {i} :
                        rank(i) < rank(j) \/ (rank(i) = rank(j) /\ i < j)].addr

(***************************************************************************)
(* discovery.ts.  Configure picks a network, a policy and the proto field  *)
(* of the publisher; both nodes run with the same policy.                  *)
(***************************************************************************)
Interface == [name : {"docker0", "eth0", "wlan0"}, addr : Ip, internal : BOOLEAN]
Cidr == [base : {b \in Ip : b[1] = 1}, prefix : 0..AddressBits]
NetworkPolicy == [cidrs : {{}} \cup {{c} : c \in Cidr}, excludes : {{}, {"eth0"}},
                  preferred : {<<>>, <<"wlan0">>}, requireTls : BOOLEAN]

Configure ==
    /\ net.state = "start"
    /\ \E i, j \in Interface, policy \in NetworkPolicy, tls \in BOOLEAN :
           /\ i.name # j.name /\ i.addr # j.addr /\ ~i.internal
           /\ net' = [state |-> "configured", ifaces |-> <<i, j>>, policy |-> policy, tls |-> tls]
    /\ UNCHANGED <<attestation, pins, admitted, loads, views>>

(* The constructor refuses a CIDR policy no local interface meets.         *)
ConstructDiscovery ==
    /\ net.state = "configured"
    /\ LET meshIp == getMeshIp(net.ifaces, net.policy)
       IN  net' = [state |-> IF net.policy.cidrs # {} /\ meshIp = NoIp THEN "refused" ELSE "up",
                   ifaces |-> net.ifaces, policy |-> net.policy, tls |-> net.tls, meshIp |-> meshIp]
    /\ UNCHANGED <<attestation, pins, admitted, loads, views>>

(* publish, then restrictServiceToIp: the A records (one per external      *)
(* interface) are cut down to the mesh address when there is one.          *)
Publish ==
    /\ net.state = "up"
    /\ net' = [state |-> "published", ifaces |-> net.ifaces, policy |-> net.policy, tls |-> net.tls,
               meshIp |-> net.meshIp,
               records |-> {k \in 1..Len(net.ifaces) :
                               /\ ~net.ifaces[k].internal
                               /\ net.meshIp = NoIp \/ net.ifaces[k].addr = net.meshIp}]
    /\ UNCHANGED <<attestation, pins, admitted, loads, views>>

(* The browser's callback: the first allowed address, else the host name   *)
(* (only without a CIDR policy), and a TLS peer where TLS is required.     *)
Browse ==
    /\ net.state = "published"
    /\ LET allowed == {k \in net.records : isPeerIpAllowed(net.ifaces[k].addr, net.policy)}
           ignored == \/ allowed = {} /\ (net.records # {} \/ net.policy.cidrs # {})
                      \/ net.policy.requireTls /\ ~net.tls
           host == IF allowed = {} THEN HostName
                   ELSE net.ifaces[CHOOSE k \in allowed : \A j \in allowed : k <= j].addr
       IN  net' = [state |-> "browsed", ifaces |-> net.ifaces, policy |-> net.policy, tls |-> net.tls,
                   meshIp |-> net.meshIp, records |-> net.records,
                   peer |-> IF ignored THEN NoIp ELSE host]
    /\ UNCHANGED <<attestation, pins, admitted, loads, views>>

(***************************************************************************)
(* peer-identity.ts.  A URI is canonical ("p", "q": node/<PeerID>), legacy *)
(* ("host": host/../agent/..) or neither ("other").                        *)
(***************************************************************************)
Canonical == {"p", "q"}

(* resolveSelfIdentity *)
emitted(in) ==
    IF in.flag /\ in.peerId # None /\ (\E k \in 1..Len(in.sans) : in.sans[k] = in.peerId) /\ in.attesting
    THEN in.peerId ELSE "host"

(* The first canonical SAN of a certificate.                               *)
canonicalCertSan(sans) ==
    LET first == {k \in 1..Len(sans) : sans[k] \in Canonical /\ \A j \in 1..(k - 1) : sans[j] \notin Canonical}
    IN  IF first = {} THEN None ELSE sans[CHOOSE k \in first : TRUE]

(* attestedPeerIdFromCert: the one a pinned attesting CA vouches for.      *)
attested(sans, attesting) == IF attesting THEN canonicalCertSan(sans) ELSE None

(* authorizeHttpsSender *)
authorized(sender, certId) == sender = "host" \/ (sender \in Canonical /\ sender = certId)

(* What a node decides from at boot: the flag, its PeerID, the SANs of its *)
(* certificate and whether an attesting CA issued it.                      *)
IdentityInput ==
    [flag : BOOLEAN, peerId : {None, "p"}, attesting : BOOLEAN,
     sans : {<<>>} \cup {<<u>> : u \in {"p", "q", "host"}} \cup {<<u, v>> : u, v \in {"p", "q", "host"}}]

(* What the node emits, and what a receiver makes of it: /mesh/message     *)
(* asks a canonical sender for its SAN and for an attesting issuer.        *)
decision(in) ==
    [in |-> in, sender |-> emitted(in), verified |-> attested(in.sans, in.attesting),
     accepted |-> /\ authorized(emitted(in), canonicalCertSan(in.sans))
                  /\ emitted(in) \in Canonical => attested(in.sans, in.attesting) # None]

ResolveIdentity ==
    /\ attestation = {} /\ loads = {}
    /\ \E in \in IdentityInput : attestation' = {decision(in)}
    /\ UNCHANGED <<net, pins, admitted, loads, views>>

(***************************************************************************)
(* The pinning check of outbound connections.  A certificate is the set of *)
(* its normalised SPIFFE identities.                                       *)
(***************************************************************************)

(* verifyMeshServerIdentity *)
verifiedServer(cert, expected) == cert # {} /\ (expected # None => expected \in cert)

(* Faulty: the first identity of any accepted certificate is pinned.       *)
pinAfterAny(host, cert) == IF pins[host] = None THEN CHOOSE id \in cert : TRUE ELSE pins[host]

(* observe of a certificate with exactly one identity; a pin stays.        *)
pinAfter(host, cert) ==
    IF pins[host] = None /\ Cardinality(cert) = 1 THEN CHOOSE id \in cert : TRUE ELSE pins[host]

(* makePinningMeshCheckServerIdentity, at every TLS handshake.             *)
Handshake(host, cert) ==
    /\ verifiedServer(cert, pins[host])
    /\ pins' = [pins EXCEPT ![host] = pinAfter(host, cert)]
    /\ admitted' = [admitted EXCEPT ![host] = @ \cup {cert}]
    /\ UNCHANGED <<net, attestation, loads, views>>

(***************************************************************************)
(* peer-selection.ts: a load is <<ram, cpu, agents>>, or NoLoad.           *)
(***************************************************************************)
NoLoad == <<>>
heavier(a, b) == \/ a[1] > b[1]
                 \/ a[1] = b[1] /\ a[2] > b[2]
                 \/ a[1] = b[1] /\ a[2] = b[2] /\ a[3] > b[3]

(* pickLeastLoaded: the first of the least loaded candidates with data,    *)
(* the first candidate when there is none.                                 *)
pickLeastLoaded(candidates, load) ==
    LET with == SelectSeq(candidates, LAMBDA c : load[c] # NoLoad)
        best(i) == /\ \A j \in 1..Len(with) : ~heavier(load[with[i]], load[with[j]])
                   /\ \A j \in 1..(i - 1) : heavier(load[with[j]], load[with[i]])
    IN  IF with = <<>> THEN candidates[1] ELSE with[CHOOSE i \in 1..Len(with) : best(i)]

(* chooseTargetAgent: an explicit target must be a candidate.              *)
chooseTargetAgent(candidates, load, explicit) ==
    IF explicit # None THEN IF \E k \in 1..Len(candidates) : candidates[k] = explicit THEN explicit ELSE None
    ELSE pickLeastLoaded(candidates, load)

ChooseTarget ==
    /\ attestation = {} /\ loads = {}
    /\ \E load \in [{"x", "y", "z"} -> {NoLoad} \cup ((0..1) \X (0..1) \X (0..1))],
          candidates \in {<<"x", "y">>, <<"z", "x", "y">>}, explicit \in {None, "z"} :
           loads' = {[load |-> load, candidates |-> candidates, explicit |-> explicit,
                      target |-> chooseTargetAgent(candidates, load, explicit)]}
    /\ UNCHANGED <<net, attestation, pins, admitted, views>>

(***************************************************************************)
(* coordinator.ts and partition-detector.ts.  joinedAt of a node is its    *)
(* place in JoinOrder; two nodes may have joined at the same time.         *)
(***************************************************************************)
joinedAt(n) == n \div 2

(* elect: the longest member, then the smallest identifier.                *)
elect(n, seen) ==
    CHOOSE m \in seen \cup {n} : \A o \in seen \cup {n} :
        joinedAt(m) < joinedAt(o) \/ (joinedAt(m) = joinedAt(o) /\ m <= o)

Elect(n) ==
    /\ views' = [views EXCEPT ![n].coordinator = elect(n, views[n].current)]
    /\ UNCHANGED <<net, attestation, pins, admitted, loads>>

(* evaluateState with the default threshold of a half.                     *)
evaluateState(expected, connected) ==
    IF expected = 0 \/ connected = expected THEN "healthy"
    ELSE IF connected = 0 THEN "isolated"
    ELSE IF 2 * (expected - connected) >= expected THEN "partitioned" ELSE "degraded"

Detected(v) == [v EXCEPT !.state = evaluateState(Cardinality(v.expected), Cardinality(v.current))]

AddKnownPeer(n, m) ==
    /\ views' = [views EXCEPT ![n] = Detected([views[n] EXCEPT !.expected = @ \cup {m}, !.lost = @ \ {m}])]
    /\ UNCHANGED <<net, attestation, pins, admitted, loads>>
PeerLost(n, m) ==
    /\ views' = [views EXCEPT ![n] = Detected([views[n] EXCEPT !.current = @ \ {m}, !.lost = @ \cup {m}])]
    /\ UNCHANGED <<net, attestation, pins, admitted, loads>>
PeerReconnected(n, m) ==
    /\ views' = [views EXCEPT ![n] = Detected([views[n] EXCEPT !.current = @ \cup {m}, !.lost = @ \ {m}])]
    /\ UNCHANGED <<net, attestation, pins, admitted, loads>>

DiscoveryInit ==
    /\ net = [state |-> "start"] /\ attestation = {} /\ loads = {}
    /\ pins = [h \in Hosts |-> None] /\ admitted = [h \in Hosts |-> {}]
    /\ views = [n \in MeshMembers |-> [coordinator |-> n, expected |-> {}, current |-> {}, lost |-> {},
                                       state |-> "healthy"]]

NetNext == Configure \/ ConstructDiscovery \/ Publish \/ Browse
InputNext == ResolveIdentity \/ ChooseTarget
PinNext == \E h \in Hosts, cert \in SUBSET {"p", "q"} : Handshake(h, cert)
ViewNext == \E n \in MeshMembers :
    Elect(n) \/ \E m \in MeshMembers \ {n} : AddKnownPeer(n, m) \/ PeerLost(n, m) \/ PeerReconnected(n, m)

DiscoveryTypeOK ==
    /\ net.state \in {"start", "configured", "refused", "up", "published", "browsed"}
    /\ \A h \in Hosts : pins[h] \in {None, "p", "q"}
    /\ \A n \in MeshMembers : views[n].coordinator \in MeshMembers

(***************************************************************************)
(* Properties.                                                             *)
(***************************************************************************)

(* The reference for ipInCidr: the first prefix bits agree.                *)
CidrIsPrefix == \A ip, base \in Ip, prefix \in 0..AddressBits :
    ipInCidr(ip, [base |-> base, prefix |-> prefix]) <=> \A k \in 1..prefix : ip[k] = base[k]

(* Nodes under one policy find each other where the policy says: a CIDR    *)
(* policy never leads to an address outside it (or to a host name), and a  *)
(* node that started with a mesh address is found at that address by every *)
(* browser that accepts its protocol.                                      *)
FoundWhereAllowed ==
    net.state = "browsed" =>
        /\ net.peer # NoIp /\ net.policy.cidrs # {} =>
               \E ip \in Ip, c \in net.policy.cidrs :
                   net.peer = ip /\ \A k \in 1..c.prefix : ip[k] = c.base[k]
        /\ net.meshIp # NoIp /\ (net.policy.requireTls => net.tls) => net.peer = net.meshIp

(* A node whose certificate names one canonical identity is accepted under *)
(* the identity it chose to emit by every receiver, and one that trusts    *)
(* the same attesting issuers verifies it under that identity              *)
(* (resolveSelfIdentity against authorizeHttpsSender and                   *)
(* attestedPeerIdFromCert).                                                *)
EmittedIsAccepted == \A d \in attestation :
    Cardinality({k \in 1..Len(d.in.sans) : d.in.sans[k] \in Canonical}) <= 1 =>
        d.accepted /\ (d.sender \in Canonical => d.verified = d.sender)

(* Once a host is pinned, every certificate ever accepted for it afterwards*)
(* names the pinned identity, and no certificate accepted before the pin   *)
(* named exactly one other identity.                                       *)
PinHolds == \A h \in Hosts : pins[h] # None => {pins[h]} \in admitted[h]
    /\ \A cert \in admitted[h] : Cardinality(cert) = 1 => pins[h] \in cert

(* Two nodes that see each other, and the same others, agree on the        *)
(* coordinator once both have elected.                                     *)
ElectionAgrees == \A n, m \in MeshMembers :
    views[n].current \cup {n} = views[m].current \cup {m} =>
        elect(n, views[n].current) = elect(m, views[m].current)
=============================================================================
