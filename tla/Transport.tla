----------------------------- MODULE Transport -----------------------------
(***************************************************************************)
(* The libp2p node of a daemon (libp2p-runtime.ts): its start, the dials   *)
(* made for discovered peers, and the streams whose number it reports.     *)
(* Dials and handlers run while events arrive.  The daemon installs its    *)
(* shutdown handler after start() has returned, so stop() comes later.     *)
(***************************************************************************)
EXTENDS Integers, FiniteSets

CONSTANTS
    P2pPeers,           \* peers of the network, the node itself among them
    SelfPeer,           \* state.peerId
    Protocols,          \* LIBP2P_PROTOCOLS
    StreamIds,          \* bound: streams opened in one behaviour
    MaxDials            \* bound: dials to one peer that the model follows

ASSUME TransportAssumption ==
    /\ SelfPeer \in P2pPeers /\ MaxDials \in Nat
    /\ "none" \notin Protocols /\ IsFiniteSet(StreamIds)

VARIABLES
    p2pStage,           \* how far start() has come
    p2pStopped,         \* stopped
    peerStore,          \* peers the node's own store knows
    dialingPeers,       \* the de-duplication set
    dials,              \* dials[p]: node.dial(p) calls that have not settled
    p2pConnected,       \* node.getConnections(), by peer
    streams,            \* streams[s]: none, or who opened it, for what, and whether it is closed
    openStreams         \* the counter of every protocol

p2pVars == <<p2pStage, p2pStopped, peerStore, dialingPeers, dials, p2pConnected, streams, openStreams>>

NoStream == [by |-> "none", protocol |-> "none", closed |-> FALSE]

(* createInitialLibp2pState: not started, every protocol at zero. *)
TransportInit ==
    /\ p2pStage = "off" /\ p2pStopped = FALSE
    /\ peerStore = {} /\ dialingPeers = {}
    /\ dials = [p \in P2pPeers |-> 0]
    /\ p2pConnected = {}
    /\ streams = [s \in StreamIds |-> NoStream]
    /\ openStreams = [q \in Protocols |-> 0]

(* start: the node is created, handlers and listeners are attached, and    *)
(* only then it is started, so events find the own peer id.                *)
CreateNode ==
    /\ p2pStage = "off" /\ p2pStage' = "created"
    /\ UNCHANGED <<p2pStopped, peerStore, dialingPeers, dials, p2pConnected, streams, openStreams>>

NodeReady ==
    /\ p2pStage = "created" /\ p2pStage' = "scan"
    /\ UNCHANGED <<p2pStopped, peerStore, dialingPeers, dials, p2pConnected, streams, openStreams>>

(* Faulty: nobody asks whether a dial to the peer is under way. *)
dialedUnasked(found) ==
    {p \in found : ~p2pStopped /\ p # SelfPeer /\ p \notin p2pConnected}

(* autoDialDiscoveredPeer: the peers of found that are dialled now. *)
dialed(found) ==
    {p \in found : ~p2pStopped /\ p # SelfPeer /\ p \notin dialingPeers /\ p \notin p2pConnected}

AutoDial(found) ==
    /\ \A p \in dialed(found) : dials[p] < MaxDials
    /\ dialingPeers' = dialingPeers \cup dialed(found)
    /\ dials' = [p \in P2pPeers |-> IF p \in dialed(found) THEN dials[p] + 1 ELSE dials[p]]

(* dialKnownPeers: peers found before the listener was there. *)
DialKnownPeers ==
    /\ p2pStage = "scan" /\ p2pStage' = "up"
    /\ AutoDial(peerStore)
    /\ UNCHANGED <<p2pStopped, peerStore, p2pConnected, streams, openStreams>>

(* onDiscovery: an mDNS announcement, repeated every 20 s. *)
PeerDiscovered(p) ==
    /\ p2pStage # "off"
    /\ peerStore' = peerStore \cup {p}
    /\ AutoDial({p})
    /\ UNCHANGED <<p2pStage, p2pStopped, p2pConnected, streams, openStreams>>

(* The dial settles; its finally forgets the peer whatever came of it. *)
DialSettles(p, ok) ==
    /\ dials[p] > 0
    /\ dials' = [dials EXCEPT ![p] = @ - 1]
    /\ dialingPeers' = dialingPeers \ {p}
    /\ p2pConnected' = IF ok /\ ~p2pStopped THEN p2pConnected \cup {p} ELSE p2pConnected
    /\ UNCHANGED <<p2pStage, p2pStopped, peerStore, streams, openStreams>>

(* peer:connect of a connection the other side opened, peer:disconnect. *)
PeerConnects(p) ==
    /\ p2pStage # "off" /\ ~p2pStopped /\ p # SelfPeer /\ p \notin p2pConnected
    /\ p2pConnected' = p2pConnected \cup {p}
    /\ UNCHANGED <<p2pStage, p2pStopped, peerStore, dialingPeers, dials, streams, openStreams>>

PeerDisconnects(p) ==
    /\ p \in p2pConnected
    /\ p2pConnected' = p2pConnected \ {p}
    /\ UNCHANGED <<p2pStage, p2pStopped, peerStore, dialingPeers, dials, streams, openStreams>>

StopRuntime ==
    /\ p2pStage = "up" /\ ~p2pStopped
    /\ p2pStopped' = TRUE
    /\ dialingPeers' = {} /\ p2pConnected' = {}
    /\ UNCHANGED <<p2pStage, peerStore, dials, streams, openStreams>>

onStreamOpened(q) == [openStreams EXCEPT ![q] = @ + 1]
onStreamClosed(q) == [openStreams EXCEPT ![q] = IF @ = 0 THEN 0 ELSE @ - 1]

(* dialProtocol: counted once the remote side has agreed to the protocol. *)
DialProtocol(s, q) ==
    /\ p2pConnected # {} /\ streams[s] = NoStream
    /\ streams' = [streams EXCEPT ![s] = [by |-> "us", protocol |-> q, closed |-> FALSE]]
    /\ openStreams' = onStreamOpened(q)
    /\ UNCHANGED <<p2pStage, p2pStopped, peerStore, dialingPeers, dials, p2pConnected>>

(* Faulty: every call of close or abort counts. *)
CloseWrappedTwice(s) ==
    /\ streams[s].by = "us"
    /\ streams' = [streams EXCEPT ![s].closed = TRUE]
    /\ openStreams' = onStreamClosed(streams[s].protocol)
    /\ UNCHANGED <<p2pStage, p2pStopped, peerStore, dialingPeers, dials, p2pConnected>>

(* wrapStream: close() and abort() may both be called, and repeatedly. *)
CloseWrapped(s) ==
    /\ streams[s].by = "us"
    /\ streams' = [streams EXCEPT ![s].closed = TRUE]
    /\ openStreams' = IF streams[s].closed THEN openStreams ELSE onStreamClosed(streams[s].protocol)
    /\ UNCHANGED <<p2pStage, p2pStopped, peerStore, dialingPeers, dials, p2pConnected>>

(* The handler of a protocol: counted on arrival, and in ensureClosed when *)
(* it has returned or thrown; closing the stream it was given counts not.  *)
IncomingStream(s, q) ==
    /\ p2pConnected # {} /\ streams[s] = NoStream
    /\ streams' = [streams EXCEPT ![s] = [by |-> "them", protocol |-> q, closed |-> FALSE]]
    /\ openStreams' = onStreamOpened(q)
    /\ UNCHANGED <<p2pStage, p2pStopped, peerStore, dialingPeers, dials, p2pConnected>>

HandlerEnds(s) ==
    /\ streams[s].by = "them" /\ ~streams[s].closed
    /\ streams' = [streams EXCEPT ![s].closed = TRUE]
    /\ openStreams' = onStreamClosed(streams[s].protocol)
    /\ UNCHANGED <<p2pStage, p2pStopped, peerStore, dialingPeers, dials, p2pConnected>>

TransportNext ==
    \/ CreateNode \/ NodeReady \/ DialKnownPeers \/ StopRuntime
    \/ \E p \in P2pPeers :
          \/ PeerDiscovered(p) \/ PeerConnects(p) \/ PeerDisconnects(p)
          \/ \E ok \in BOOLEAN : DialSettles(p, ok)
    \/ \E s \in StreamIds :
          \/ CloseWrapped(s) \/ HandlerEnds(s)
          \/ \E q \in Protocols : DialProtocol(s, q) \/ IncomingStream(s, q)

TransportTypeOK ==
    /\ p2pStage \in {"off", "created", "scan", "up"} /\ p2pStopped \in BOOLEAN
    /\ peerStore \subseteq P2pPeers /\ dialingPeers \subseteq P2pPeers
    /\ dials \in [P2pPeers -> 0..MaxDials]
    /\ p2pConnected \subseteq P2pPeers
    /\ streams \in [StreamIds -> [by : {"none", "us", "them"}, protocol : Protocols \cup {"none"},
                                  closed : BOOLEAN]]
    /\ openStreams \in [Protocols -> 0..Cardinality(StreamIds)]

(* However often a peer is announced, connects and drops, one dial to it   *)
(* is under way at a time, none to the node itself, and while the node     *)
(* runs the de-duplication set names exactly the dials under way, so no    *)
(* failed dial leaves a peer that is never dialled again.                  *)
DialedOnce ==
    /\ \A p \in P2pPeers : dials[p] <= 1
    /\ dials[SelfPeer] = 0
    /\ ~p2pStopped => dialingPeers = {p \in P2pPeers : dials[p] > 0}

(* The number of streams reported for a protocol is the number that is     *)
(* open, whoever opened them and however often they are closed.            *)
StreamsAreCounted ==
    \A q \in Protocols :
        openStreams[q] = Cardinality({s \in StreamIds : streams[s].protocol = q /\ ~streams[s].closed})
=============================================================================
