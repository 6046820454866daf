-------------------------------- MODULE Mesh --------------------------------
(***************************************************************************)
(* The peer table of a daemon: MeshManager (packages/daemon/src/mesh.ts),  *)
(* the discovery callbacks and static-peer reconciler that fill it         *)
(* (index.ts) and the /message endpoint that binds attested PeerIDs to     *)
(* entries (agent-card.ts).                                                *)
(*                                                                         *)
(* One action is one uninterrupted stretch of JavaScript.  What a callback *)
(* captured before an await (a MeshPeer object, a discovery record) it     *)
(* uses after it, so MeshPeer objects live on a heap and `peers' maps an   *)
(* agentId to an object.                                                   *)
(*                                                                         *)
(* A canonical URI spiffe://thinklocal/node/<PeerID> is represented by its *)
(* PeerID; a legacy URI .../host/<id> is any other member of AgentIds.     *)
(*                                                                         *)
(* Abstracted: signatures and keys (whether a signature is good, and the   *)
(* card's key one that can be parsed, is a free choice), and               *)
(* authenticatedSeen, the keys learned from inbound connections (whether   *)
(* it resolves a canonical sender the table does not is a free choice).    *)
(***************************************************************************)
EXTENDS Integers, FiniteSets

CONSTANTS
    PeerIds,               \* libp2p PeerIDs
    AgentIds,              \* the agent URIs in use, canonical and legacy
    Hosts,                 \* host addresses
    Objects,               \* heap cells for MeshPeer objects (a bound)
    None,                  \* null / undefined
    MissedBeatsThreshold,  \* missedBeatsThreshold
    MaxFetches             \* bound on the card fetches in flight

ASSUME ConstantsAssumption ==
    /\ None \notin PeerIds \cup AgentIds \cup Hosts \cup Objects
    /\ Objects \subseteq Nat
    /\ AgentIds # {} /\ Hosts # {}
    /\ MissedBeatsThreshold \in Nat \ {0}
    /\ MaxFetches \in Nat

VARIABLES
    peers,     \* this.peers: agentId -> MeshPeer object, or None
    obj,       \* the MeshPeer objects
    probes,    \* pending health checks: <<agentId, object>> as captured
    fetches,   \* discovery records whose agent card is being fetched
    bound      \* history: <<object, PeerID, outcome>> for the last message whose
               \* binding of the object stayed

vars == <<peers, obj, probes, fetches, bound>>

-----------------------------------------------------------------------------
(* Objects *)

\* spiffeUriToPeerId(uri) finds a PeerID
Canonical(uri) == uri \in PeerIds

\* agentCard stands for its spiffeUri; whether a message is signed by the
\* card's key is left open.
MeshPeer ==
    [agentId : AgentIds, host : Hosts, status : {"online", "offline"},
     missedBeats : 0..MissedBeatsThreshold, agentCard : AgentIds \cup {None},
     peerId : PeerIds \cup {None}, peerIdVerified : BOOLEAN]

\* A record found by mDNS.  Nothing ties the PeerID it announces, or the one in
\* a card, to its agentId.
DiscoveredPeer ==
    [agentId : AgentIds, host : Hosts, p2pPeerId : PeerIds \cup {None}]

\* A heap cell that nothing refers to any more.
InUse(o) == \E a \in AgentIds : peers[a] = o \/ <<a, o>> \in probes
FreeObjects == {o \in Objects : ~InUse(o)}

NewPeer(d) ==
    [agentId |-> d.agentId, host |-> d.host, status |-> "online",
     missedBeats |-> 0, agentCard |-> None, peerId |-> d.p2pPeerId,
     peerIdVerified |-> FALSE]

\* lastSeen = now, missedBeats = 0, status = 'online'
Heard(p) == [p EXCEPT !.missedBeats = 0, !.status = "online"]

Init ==
    /\ peers = [a \in AgentIds |-> None]
    /\ obj = [o \in Objects |-> NewPeer(CHOOSE d \in DiscoveredPeer : TRUE)]
    /\ probes = {} /\ fetches = {}
    /\ bound = {}

-----------------------------------------------------------------------------
(* Discovery *)

\* addPeer: the object of a known agentId is online again; an unknown one gets
\* a new object o.  The bindings of a recycled heap cell are forgotten.
AddPeer(d, o) ==
    IF peers[d.agentId] # None
    THEN [peers |-> peers, bound |-> bound,
          obj |-> [obj EXCEPT ![peers[d.agentId]] = Heard(@)]]
    ELSE [peers |-> [peers EXCEPT ![d.agentId] = o],
          bound |-> {b \in bound : b[1] # o},
          obj |-> [obj EXCEPT ![o] = NewPeer(d)]]

\* Faulty variant: a changed PeerID keeps the verification of the old one.
UpdateAgentCardKeepsVerified(p, card, cardPeerId) ==
    LET newPeerId == IF cardPeerId = None THEN p.peerId ELSE cardPeerId
    IN  [p EXCEPT !.agentCard = card, !.peerId = newPeerId]

\* updateAgentCard: a PeerID that changes loses its verification.
UpdateAgentCard(p, card, cardPeerId) ==
    LET newPeerId == IF cardPeerId = None THEN p.peerId ELSE cardPeerId
    IN  [p EXCEPT !.agentCard = card, !.peerId = newPeerId,
                  !.peerIdVerified = @ /\ newPeerId = p.peerId]

\* confirmPeerDiscovery
ConfirmPeerDiscovery(p, d) == [Heard(p) EXCEPT !.host = d.host]

\* discovery.onPeerFound up to the await of the card.
OnPeerFound(d) ==
    /\ Cardinality(fetches) < MaxFetches /\ d \notin fetches
    /\ peers[d.agentId] = None => FreeObjects # {}
    /\ LET r == AddPeer(d, CHOOSE o \in FreeObjects : TRUE)
       IN  peers' = r.peers /\ obj' = r.obj /\ bound' = r.bound
    /\ fetches' = fetches \cup {d}
    /\ UNCHANGED <<probes>>

\* The card arrived and matches the announced URI and fingerprint.
CardFetched(d, cardPeerId) ==
    /\ d \in fetches
    /\ fetches' = fetches \ {d}
    /\ obj' = IF peers[d.agentId] = None THEN obj
              ELSE [obj EXCEPT ![peers[d.agentId]] =
                       ConfirmPeerDiscovery(
                           UpdateAgentCard(@, d.agentId, cardPeerId), d)]
    /\ UNCHANGED <<peers, probes, bound>>

\* The fetch failed, or the card names another URI or key.
CardRefused(d) ==
    /\ d \in fetches
    /\ fetches' = fetches \ {d}
    /\ UNCHANGED <<peers, obj, probes, bound>>

\* connectStaticPeerOnce after its awaits: addPeer and updateAgentCard.
ConnectStaticPeer(d, cardPeerId) ==
    /\ d.p2pPeerId = None
    /\ peers[d.agentId] = None => FreeObjects # {}
    /\ LET r == AddPeer(d, CHOOSE o \in FreeObjects : TRUE)
           o == r.peers[d.agentId]
       IN  /\ peers' = r.peers /\ bound' = r.bound
           /\ obj' = [r.obj EXCEPT ![o] =
                  UpdateAgentCard(@, d.agentId, cardPeerId)]
    /\ UNCHANGED <<probes, fetches>>

-----------------------------------------------------------------------------
(* Heartbeat *)

\* Faulty variant: entries without a card are not polled.
CheckPeersWithCard ==
    /\ probes = {}
    /\ probes' = {<<a, peers[a]>> : a \in
                    {b \in AgentIds : /\ peers[b] # None
                                      /\ obj[peers[b]].status # "offline"
                                      /\ obj[peers[b]].agentCard # None}}
    /\ probes' # {}
    /\ UNCHANGED <<peers, obj, fetches, bound>>

\* The timer fires and no check is in flight: checkPeers captures every entry
\* that is not offline and polls its /health.
CheckPeers ==
    /\ probes = {}
    /\ probes' = {<<a, peers[a]>> : a \in
                    {b \in AgentIds : peers[b] # None /\ obj[peers[b]].status # "offline"}}
    /\ probes' # {}
    /\ UNCHANGED <<peers, obj, fetches, bound>>

\* response.ok: recordHeartbeat(agentId), on the object now under that key.
ProbeOk(a, o) ==
    /\ <<a, o>> \in probes
    /\ probes' = probes \ {<<a, o>>}
    /\ obj' = IF peers[a] = None THEN obj ELSE [obj EXCEPT ![peers[a]] = Heard(@)]
    /\ UNCHANGED <<peers, fetches, bound>>

\* Faulty variant: one missed beat too many.
HandleMissedBeatLate(p) ==
    LET missed == p.missedBeats + 1
    IN  [p EXCEPT !.missedBeats = missed,
                  !.status = IF missed > MissedBeatsThreshold THEN "offline" ELSE @]

\* handleMissedBeat
HandleMissedBeat(p) ==
    LET missed == p.missedBeats + 1
    IN  [p EXCEPT !.missedBeats = missed,
                  !.status = IF missed >= MissedBeatsThreshold THEN "offline" ELSE @]

\* An error status, a refused connection or the 5 s timeout: the captured
\* object misses a beat.
ProbeFailed(a, o) ==
    /\ <<a, o>> \in probes
    /\ probes' = probes \ {<<a, o>>}
    /\ obj' = [obj EXCEPT ![o] = HandleMissedBeat(@)]
    /\ UNCHANGED <<peers, fetches, bound>>

-----------------------------------------------------------------------------
(* Resolving and binding identities *)

InMap(pe) == {o \in Objects : \E a \in AgentIds : pe[a] = o}

\* The entries whose card can vouch for a canonical URI.
VerifiedMatches(pe, ob, uri) ==
    {o \in InMap(pe) : /\ ob[o].agentCard # None
                       /\ ob[o].peerIdVerified /\ ob[o].peerId = uri}

\* The entries whose publicKey resolvePeerPublicKey may return for a URI, {}
\* for undefined: for a canonical URI the only entry with that verified PeerID;
\* for a legacy URI the entry under that key, else the first whose card carries
\* the URI.
ResolvePeerPublicKey(pe, ob, uri) ==
    IF Canonical(uri)
    THEN LET matches == VerifiedMatches(pe, ob, uri)
         IN  IF Cardinality(matches) = 1 THEN matches ELSE {}
    ELSE IF pe[uri] # None /\ ob[pe[uri]].agentCard # None
         THEN {pe[uri]}
         ELSE {o \in InMap(pe) : ob[o].agentCard = uri}

Only(S) == IF Cardinality(S) = 1 THEN CHOOSE o \in S : TRUE ELSE None

\* Discovery knows the node: the entry under the sender's URI, else the only
\* entry that carries the attested PeerID.
DiscoveredTarget(peerId, sender) ==
    IF peers[sender] # None THEN peers[sender]
    ELSE Only({o \in InMap(peers) : obj[o].peerId = peerId})

\* The only entry with a card at the connection's address that is not bound to
\* another PeerID.
HostTarget(peerId, remoteHost) ==
    Only({o \in InMap(peers) : /\ obj[o].agentCard # None
                               /\ obj[o].host = remoteHost
                               /\ obj[o].peerId \in {None, peerId}})

\* The keys of the other entries that carry the PeerID.
Duplicates(peerId, t) ==
    {a \in AgentIds : peers[a] \notin {None, t} /\ obj[peers[a]].peerId = peerId}

Unmarked ==
    [ok |-> FALSE, target |-> None, peers |-> peers, obj |-> obj,
     removed |-> {}, rekeyed |-> FALSE]

\* Faulty variant: the duplicates of a flipped node stay in the table.
MarkPeerIdVerifiedNoSupersession(peerId, sender, remoteHost) ==
    LET t == DiscoveredTarget(peerId, sender)
    IN  IF t = None \/ (t # None /\ obj[t].peerId \notin {None, peerId})
        THEN Unmarked
        ELSE [ok |-> TRUE, target |-> t, removed |-> {}, rekeyed |-> FALSE,
              peers |-> peers,
              obj |-> [obj EXCEPT ![t].peerId = peerId, ![t].peerIdVerified = TRUE]]

\* markPeerIdVerified(peerId, sender, remoteHost): binds the target entry,
\* removes the duplicates of a canonical sender (removePeer: status 'offline',
\* onPeerOffline, delete) and re-keys a target discovery knew to the sender's
\* canonical URI.
MarkPeerIdVerified(peerId, sender, remoteHost) ==
    LET known == DiscoveredTarget(peerId, sender)
        t == IF known # None THEN known ELSE HostTarget(peerId, remoteHost)
    IN  IF t = None \/ (t # None /\ obj[t].peerId \notin {None, peerId})
        THEN Unmarked
        ELSE
        LET removed == IF sender = peerId THEN Duplicates(peerId, t) ELSE {}
            prior == obj[t].agentId
            rekeyed == sender = peerId /\ prior # sender /\ known # None
            kept == [a \in AgentIds |-> IF a \in removed THEN None ELSE peers[a]]
        IN  [ok |-> TRUE, target |-> t, removed |-> removed, rekeyed |-> rekeyed,
             peers |-> IF rekeyed
                       THEN [kept EXCEPT ![prior] = None, ![sender] = t] ELSE kept,
             obj |-> [o \in Objects |->
                IF o = t
                THEN [obj[t] EXCEPT !.peerId = peerId, !.peerIdVerified = TRUE,
                                    !.agentId = IF rekeyed THEN sender ELSE @]
                ELSE IF \E a \in removed : peers[a] = o
                THEN [obj[o] EXCEPT !.status = "offline"] ELSE obj[o]]]

\* Faulty variant: the re-keyed entry keeps its canonical agentId.
RollbackKeepsAgentId(m, sender) ==
    IF ~m.ok THEN [peers |-> m.peers, obj |-> m.obj] ELSE
    LET t == m.target
        prior == obj[t].agentId
        unkeyed == IF m.rekeyed
                   THEN [m.peers EXCEPT ![sender] = None, ![prior] = t]
                   ELSE m.peers
    IN  [peers |-> [a \in AgentIds |->
                       IF a \in m.removed /\ unkeyed[a] = None
                       THEN peers[a] ELSE unkeyed[a]],
         obj |-> [m.obj EXCEPT ![t].peerId = obj[t].peerId,
                               ![t].peerIdVerified = obj[t].peerIdVerified]]

\* Faulty variant: the re-key is not undone.
RollbackKeepsKey(m, sender) ==
    IF ~m.ok THEN [peers |-> m.peers, obj |-> m.obj] ELSE
    LET t == m.target
    IN  [peers |-> [a \in AgentIds |->
                       IF a \in m.removed /\ m.peers[a] = None
                       THEN peers[a] ELSE m.peers[a]],
         obj |-> [m.obj EXCEPT ![t].peerId = obj[t].peerId,
                               ![t].peerIdVerified = obj[t].peerIdVerified]]

\* rollback(): unbinds the target, undoes the re-key, then puts the superseded
\* entries back whose key is free.  What removePeer did to them stays.
Rollback(m, sender) ==
    IF ~m.ok THEN [peers |-> m.peers, obj |-> m.obj] ELSE
    LET t == m.target
        prior == obj[t].agentId
        unkeyed == IF m.rekeyed
                   THEN [m.peers EXCEPT ![sender] = None, ![prior] = t]
                   ELSE m.peers
    IN  [peers |-> [a \in AgentIds |->
                       IF a \in m.removed /\ unkeyed[a] = None
                       THEN peers[a] ELSE unkeyed[a]],
         obj |-> [m.obj EXCEPT ![t].peerId = obj[t].peerId,
                               ![t].peerIdVerified = obj[t].peerIdVerified,
                               ![t].agentId = prior]]

-----------------------------------------------------------------------------
(* POST /message *)

\* The channel check: a canonical sender presents a pinned certificate for its
\* PeerID; a legacy sender may present one for any PeerID, or none.
Authorized(sender, attested) == Canonical(sender) => attested = sender

Attest(sender, attested, remoteHost) ==
    IF attested = None THEN Unmarked
    ELSE MarkPeerIdVerified(attested, sender, remoteHost)

\* A canonical sender that no entry vouches for may still be known to
\* authenticatedSeen; an ambiguous one is not looked up there.
Resolvable(pe, ob, sender) ==
    \/ ResolvePeerPublicKey(pe, ob, sender) # {}
    \/ Canonical(sender) /\ VerifiedMatches(pe, ob, sender) = {}

\* How a message ended whose tentative binding stays.
Outcomes == {"accepted", "threw"}

\* The sender resolves, and nothing is rolled back.
KeepBinding(sender, attested, remoteHost, outcome) ==
    /\ Authorized(sender, attested)
    /\ LET m == Attest(sender, attested, remoteHost)
       IN  /\ Resolvable(m.peers, m.obj, sender)
           /\ peers' = m.peers /\ obj' = m.obj
           /\ bound' = IF m.ok
                       THEN {b \in bound : b[1] # m.target}
                                \cup {<<m.target, attested, outcome>>}
                       ELSE bound
    /\ UNCHANGED <<probes, fetches>>

\* Its signature and TTL are good.
AcceptMessage(sender, attested, remoteHost) ==
    KeepBinding(sender, attested, remoteHost, "accepted")

\* decodeAndVerify throws, since the key in the sender's card cannot be parsed:
\* the catch answers 400.
ThrowMessage(sender, attested, remoteHost) ==
    KeepBinding(sender, attested, remoteHost, "threw")

\* The sender does not resolve, or the message is badly signed or expired: the
\* binding is rolled back and the answer is 403.
RejectMessage(sender, attested, remoteHost) ==
    /\ Authorized(sender, attested)
    /\ LET r == Rollback(Attest(sender, attested, remoteHost), sender)
       IN  peers' = r.peers /\ obj' = r.obj
    /\ UNCHANGED <<probes, fetches, bound>>

-----------------------------------------------------------------------------
Discovery ==
    \/ \E d \in DiscoveredPeer :
        \/ OnPeerFound(d)
        \/ CardRefused(d)
        \/ \E pid \in PeerIds \cup {None} :
            CardFetched(d, pid) \/ ConnectStaticPeer(d, pid)

Heartbeat ==
    \/ CheckPeers
    \/ \E pr \in probes : ProbeOk(pr[1], pr[2]) \/ ProbeFailed(pr[1], pr[2])

Messages ==
    \E sender \in AgentIds, attested \in PeerIds \cup {None}, h \in Hosts :
        \/ AcceptMessage(sender, attested, h)
        \/ ThrowMessage(sender, attested, h)
        \/ RejectMessage(sender, attested, h)

Next == Discovery \/ Heartbeat \/ Messages

Spec == Init /\ [][Next]_vars

\* setInterval keeps firing, and every fetch ends within its 5 s timeout.
Fairness ==
    /\ WF_vars(CheckPeers)
    /\ \A a \in AgentIds, o \in Objects :
        WF_vars(ProbeOk(a, o) \/ ProbeFailed(a, o))

FairSpec == Spec /\ Fairness

-----------------------------------------------------------------------------
(* Properties *)

\* Types; missedBeats stays within the threshold although results of earlier
\* checks arrive late.
TypeOK ==
    /\ peers \in [AgentIds -> Objects \cup {None}]
    /\ obj \in [Objects -> MeshPeer]
    /\ probes \subseteq AgentIds \X Objects
    /\ fetches \subseteq DiscoveredPeer
    /\ bound \subseteq Objects \X PeerIds \X Outcomes

\* Every entry of the table is stored under its own agentId, through re-keys
\* and their rollbacks (mesh.ts, 127a).
StoredUnderOwnId ==
    \A a \in AgentIds : peers[a] # None => obj[peers[a]].agentId = a

\* peerIdVerified holds only for the PeerID that a message attested for that
\* entry which was accepted, or whose check threw on the sender's key; never for
\* one that came from mDNS or a card later on, nor for one a message attested
\* that was answered 403 (mesh.ts, peerIdVerified).
VerifiedIsBound ==
    \A a \in AgentIds :
        peers[a] # None /\ obj[peers[a]].peerIdVerified
            => \E outcome \in Outcomes :
                   <<peers[a], obj[peers[a]].peerId, outcome>> \in bound

Binding(o) == <<obj[o].agentId, obj[o].peerId, obj[o].peerIdVerified>>

\* A message answered 403 leaves no trace in the table: the same keys hold the
\* same entries with the same bindings, whatever the tentative verification
\* removed, bound or re-keyed (agent-card.ts, rollback).
RejectedLeavesBindings ==
    [][\A s \in AgentIds, p \in PeerIds, h \in Hosts :
            RejectMessage(s, p, h) =>
                /\ peers' = peers
                /\ \A o \in Objects : Binding(o)' = Binding(o)]_vars

\* After a message of a canonical sender that verified an entry for good, no
\* other entry carries the PeerID, so that the sender's key cannot become
\* ambiguous: the identity flip leaves no duplicate (mesh.ts, supersession).
FlipIsUnambiguous ==
    [][\A p \in PeerIds \cap AgentIds, h \in Hosts, outcome \in Outcomes :
            KeepBinding(p, p, h, outcome) /\ MarkPeerIdVerified(p, p, h).ok =>
                Cardinality({o \in InMap(peers') : obj'[o].peerId = p}) = 1]_vars

Online(o) == o \in InMap(peers) /\ obj[o].status = "online"

\* A health check succeeded, or discovery found the node again.
HeardFrom(o) ==
    /\ obj'[o] = Heard(obj'[o])
    /\ \/ \E pr \in probes : peers[pr[1]] = o /\ ProbeOk(pr[1], pr[2])
       \/ \E d \in DiscoveredPeer :
            /\ peers[d.agentId] = o
            /\ \/ OnPeerFound(d)
               \/ \E pid \in PeerIds \cup {None} :
                    CardFetched(d, pid) \/ ConnectStaticPeer(d, pid)

\* An entry that stays online forever keeps being heard from: a peer that
\* stopped answering goes offline although checks overlap with re-keys,
\* removals and late results (checkPeers).
NoPhantomPeer ==
    \A o \in Objects : <>[]Online(o) => []<><<HeardFrom(o)>>_vars

\* A message answered 403 leaves every entry as it was, its status included: what
\* the transaction of markPeerIdVerified promises.
RejectedLeavesPeers ==
    [][\A s \in AgentIds, p \in PeerIds, h \in Hosts :
            RejectMessage(s, p, h) => peers' = peers /\ obj' = obj]_vars
=============================================================================
