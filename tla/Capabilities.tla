---------------------------- MODULE Capabilities ----------------------------
(***************************************************************************)
(* The capability registry of a daemon (registry.ts), the gossip rounds    *)
(* that carry each owner's capabilities to its peers (gossip.ts), the      *)
(* skill manager that registers and announces local skills (skills.ts),    *)
(* and the activation table that decides which announced capability may be *)
(* used (capability-activation.ts, skill-discovery.ts).                    *)
(*                                                                         *)
(* One skill is offered by each owner, so a key agent_id::skill_id is its  *)
(* owner.  Owners outside RelayNodes run this code and send only what they *)
(* own; a relay node runs an older release that sends everything it knows. *)
(* The replicated document is merged by Automerge (external): per key the  *)
(* merge keeps one of the two values.                                      *)
(***************************************************************************)
EXTENDS Integers, FiniteSets

CONSTANTS
    CapNodes,       \* daemons
    CapOwners,      \* the daemons that offer a skill
    RelayNodes,     \* daemons whose gossip also carries foreign entries
    Reports,        \* the availabilities a health check reports; the property tells none apart
    MaxStamp,       \* bound: how long the clock runs
    MaxWire,        \* bound: messages in flight
    StaleAfter,     \* markStaleCapabilities(maxAgeMs)
    Retention,      \* pruneRevokedOlderThan(maxAgeMs)
    MaxRowAge       \* bound: how long the activation table's clock runs

ASSUME CapAssumption ==
    /\ CapOwners \subseteq CapNodes /\ RelayNodes \subseteq CapNodes
    /\ StaleAfter \in Nat /\ Retention \in Nat
    /\ {MaxStamp, MaxRowAge} \subseteq Nat \ {0}

VARIABLES
    doc,            \* doc[n][o]: node n's replicated entry of owner o
    avail,          \* avail[n][o]: the side map, never replicated
    localSkills,    \* localSkills[n]: n's skill manager holds the skill
    installed,      \* installed[n]: installed.json holds it
    wire,           \* gossip and announcements in flight
    stamp,          \* the clock behind updated_at
    heard,          \* heard[n]: owners n heard from since it removed them (history)
    activation,     \* activation[o]: the row of o's capability on this node
    revokedAt,      \* when it was revoked
    rowClock        \* the clock behind revoked_at

capVars == <<doc, avail, localSkills, installed, wire, stamp, heard>>
activationVars == <<activation, revokedAt, rowClock>>

NoEntry == [health |-> "none", at |-> 0]
Entry == {NoEntry} \cup [health : {"healthy", "degraded", "offline"}, at : 1..MaxStamp]
Availability == {"none"} \cup Reports
Rows == {"none", "discovered", "active", "suspended", "revoked"}

CapTypeOK ==
    /\ doc \in [CapNodes -> [CapOwners -> Entry]]
    /\ avail \in [CapNodes -> [CapOwners -> Availability]]
    /\ localSkills \in [CapNodes -> BOOLEAN] /\ installed \in [CapNodes -> BOOLEAN]
    /\ \A m \in wire : m.kind \in {"sync", "announce"} /\ m.from \in CapNodes /\ m.to \in CapNodes
    /\ stamp \in 1..MaxStamp
    /\ heard \in [CapNodes -> SUBSET CapOwners]
    /\ activation \in [CapOwners -> Rows] /\ revokedAt \in [CapOwners -> 0..MaxRowAge]
    /\ rowClock \in 1..MaxRowAge

(* A fresh registry is the genesis document: no entries.                   *)
loadGenesisDoc == [o \in CapOwners |-> NoEntry]

CapInit ==
    /\ doc = [n \in CapNodes |-> loadGenesisDoc]
    /\ avail = [n \in CapNodes |-> [o \in CapOwners |-> "none"]]
    /\ localSkills = [n \in CapNodes |-> FALSE] /\ installed = [n \in CapNodes |-> FALSE]
    /\ wire = {} /\ stamp = 1
    /\ heard = [n \in CapNodes |-> {}]
    /\ activation = [o \in CapOwners |-> "none"] /\ revokedAt = [o \in CapOwners |-> 0]
    /\ rowClock = 1

Time ==
    /\ stamp < MaxStamp /\ stamp' = stamp + 1
    /\ UNCHANGED <<doc, avail, localSkills, installed, wire, heard>>

(***************************************************************************)
(* The owner's side.                                                       *)
(***************************************************************************)

(* CapabilityRegistry.register: the entry is written with the local time,  *)
(* whoever its owner is; the side map is not part of it.                   *)
register(d, owner) == [d EXCEPT ![owner] = [health |-> "healthy", at |-> stamp]]

(* registerLocal, also on behalf of handleTransferResponse.                *)
RegisterLocal(o) ==
    /\ \E a \in Reports : avail' = [avail EXCEPT ![o][o] = a]
    /\ localSkills' = [localSkills EXCEPT ![o] = TRUE]
    /\ installed' = [installed EXCEPT ![o] = TRUE]
    /\ doc' = [doc EXCEPT ![o] = register(@, o)]
    /\ UNCHANGED <<wire, stamp, heard>>

UnregisterLocal(o) ==
    /\ localSkills[o]
    /\ localSkills' = [localSkills EXCEPT ![o] = FALSE]
    /\ installed' = [installed EXCEPT ![o] = FALSE]
    /\ doc' = [doc EXCEPT ![o][o] = NoEntry]
    /\ avail' = [avail EXCEPT ![o][o] = "none"]
    /\ UNCHANGED <<wire, stamp, heard>>

(* The health monitor's transition hook writes the owner's own record,     *)
(* whether or not the skill is still registered.                           *)
SetAvailability(o) ==
    /\ \E a \in Reports :
           a # avail[o][o] /\ avail' = [avail EXCEPT ![o][o] = a]
    /\ UNCHANGED <<doc, localSkills, installed, wire, stamp, heard>>

(* A restart: the registry is in memory only, the manager reads            *)
(* installed.json.                                                         *)
RestartRegistry(n) ==
    /\ doc' = [doc EXCEPT ![n] = loadGenesisDoc]
    /\ avail' = [avail EXCEPT ![n] = [o \in CapOwners |-> "none"]]
    /\ localSkills' = [localSkills EXCEPT ![n] = installed[n]]
    /\ heard' = [heard EXCEPT ![n] = {}]
    /\ UNCHANGED <<installed, wire, stamp>>

(***************************************************************************)
(* Gossip and announcements.                                               *)
(***************************************************************************)

(* exportCapabilities, and the owner filter every current release applies. *)
exported(n) == [o \in CapOwners |-> IF o = n \/ n \in RelayNodes THEN doc[n][o] ELSE NoEntry]

(* syncWithPeer: what n sends to one of the peers the round selected.      *)
SyncWithPeer(n, peer) ==
    /\ Cardinality(wire) < MaxWire /\ n # peer
    /\ wire' = wire \cup {[kind |-> "sync", from |-> n, to |-> peer, caps |-> exported(n),
                           avail |-> [o \in CapOwners |->
                                         IF exported(n)[o] = NoEntry THEN "none" ELSE avail[n][o]]]}
    /\ UNCHANGED <<doc, avail, localSkills, installed, stamp, heard>>

(* SKILL_ANNOUNCE when a peer comes online.                                *)
AnnounceSkills(n, peer) ==
    /\ Cardinality(wire) < MaxWire /\ n # peer /\ n \in CapOwners /\ localSkills[n]
    /\ wire' = wire \cup {[kind |-> "announce", from |-> n, to |-> peer]}
    /\ UNCHANGED <<doc, avail, localSkills, installed, stamp, heard>>

(* The request fails or times out.                                         *)
LoseMessage(m) == wire' = wire \ {m} /\ UNCHANGED <<doc, avail, localSkills, installed, stamp, heard>>

(* Faulty: the owner gate is missing.                                      *)
acceptedFromAnyone(m) == {o \in CapOwners : m.caps[o] # NoEntry}

(* importPeerCapabilities' gate: the peer may speak for itself only.       *)
accepted(m) == {o \in CapOwners : m.caps[o] # NoEntry /\ o = m.from}

(* handleSyncMessage: import before anything else.  A newer entry replaces *)
(* the old one; the availability is taken even when the entry is not newer.*)
ReceiveSync(m) ==
    /\ m.kind = "sync"
    /\ doc' = [doc EXCEPT ![m.to] =
                  [o \in CapOwners |-> IF o \in accepted(m) /\ (@[o] = NoEntry \/ m.caps[o].at > @[o].at)
                                       THEN m.caps[o] ELSE @[o]]]
    /\ avail' = [avail EXCEPT ![m.to] =
                  [o \in CapOwners |-> IF o \in accepted(m) /\ m.avail[o] # "none"
                                       THEN m.avail[o] ELSE @[o]]]
    /\ heard' = [heard EXCEPT ![m.to] = @ \cup ({m.from} \cap CapOwners)]
    /\ wire' = wire \ {m}
    /\ UNCHANGED <<localSkills, installed, stamp>>

(* handleAnnounce: registered under the sender with this node's time,      *)
(* unless this node has the same skill itself.                             *)
ReceiveAnnounce(m) ==
    /\ m.kind = "announce"
    /\ doc' = IF localSkills[m.to] THEN doc ELSE [doc EXCEPT ![m.to] = register(@, m.from)]
    /\ heard' = [heard EXCEPT ![m.to] = @ \cup {m.from}]
    /\ wire' = wire \ {m}
    /\ UNCHANGED <<avail, localSkills, installed, stamp>>

(* onPeerOffline: markAgentOffline, then removePeerCapabilities.           *)
PeerOffline(n, o) ==
    /\ n # o
    /\ doc' = [doc EXCEPT ![n][o] = NoEntry]
    /\ avail' = [avail EXCEPT ![n][o] = "none"]
    /\ heard' = [heard EXCEPT ![n] = @ \ {o}]
    /\ UNCHANGED <<localSkills, installed, wire, stamp>>

markStaleCapabilities(n) ==
    /\ \E o \in CapOwners : doc[n][o].health = "healthy" /\ stamp - doc[n][o].at > StaleAfter
    /\ doc' = [doc EXCEPT ![n] = [o \in CapOwners |->
                  IF @[o].health = "healthy" /\ stamp - @[o].at > StaleAfter
                  THEN [@[o] EXCEPT !.health = "degraded"] ELSE @[o]]]
    /\ UNCHANGED <<avail, localSkills, installed, wire, stamp, heard>>

(* receiveSyncMessage of the CRDT, with the side-map fields stripped from  *)
(* what arrives (normalizeCrdtSchema): only the document changes.          *)
MergeDoc(n, peer) ==
    /\ n # peer /\ doc[n] # doc[peer]
    /\ \E fromPeer \in SUBSET CapOwners :
           doc' = [doc EXCEPT ![n] = [o \in CapOwners |-> IF o \in fromPeer THEN doc[peer][o] ELSE @[o]]]
    /\ UNCHANGED <<avail, localSkills, installed, wire, stamp, heard>>

CapNext ==
    \/ Time
    \/ \E o \in CapOwners : RegisterLocal(o) \/ UnregisterLocal(o) \/ SetAvailability(o)
    \/ \E n \in CapNodes : RestartRegistry(n) \/ markStaleCapabilities(n)
    \/ \E n, peer \in CapNodes : SyncWithPeer(n, peer) \/ AnnounceSkills(n, peer) \/ MergeDoc(n, peer)
    \/ \E m \in wire : ReceiveSync(m) \/ ReceiveAnnounce(m) \/ LoseMessage(m)
    \/ \E n \in CapNodes, o \in CapOwners : PeerOffline(n, o)

(***************************************************************************)
(* Activation of announced capabilities.                                   *)
(***************************************************************************)

(* Faulty: activate forgets the state it starts from.                      *)
activateAny(state) == IF state = "none" THEN "none" ELSE "active"

(* activate, and discover before it.                                       *)
activate(state) == IF state \in {"discovered", "suspended"} THEN "active" ELSE state
discover(state) == IF state = "none" THEN "discovered" ELSE state

(* handlePeerAnnouncement: every announced capability is discovered and    *)
(* then activated, on every announcement.                                  *)
HandlePeerAnnouncement(o) ==
    /\ activation' = [activation EXCEPT ![o] = activate(discover(@))]
    /\ UNCHANGED <<revokedAt, rowClock>>

SuspendCapability(o) ==
    /\ activation[o] = "active" /\ activation' = [activation EXCEPT ![o] = "suspended"]
    /\ UNCHANGED <<revokedAt, rowClock>>

RevokeCapability(o) ==
    /\ activation[o] \notin {"none", "revoked"}
    /\ activation' = [activation EXCEPT ![o] = "revoked"]
    /\ revokedAt' = [revokedAt EXCEPT ![o] = rowClock]
    /\ UNCHANGED rowClock

(* pruneRevokedOlderThan, for all rows at once.                            *)
pruned == {o \in CapOwners : activation[o] = "revoked" /\ revokedAt[o] < rowClock - Retention}
PruneRevoked ==
    /\ pruned # {}
    /\ activation' = [o \in CapOwners |-> IF o \in pruned THEN "none" ELSE activation[o]]
    /\ revokedAt' = [o \in CapOwners |-> IF o \in pruned THEN 0 ELSE revokedAt[o]]
    /\ UNCHANGED rowClock

RowTime ==
    /\ rowClock < MaxRowAge /\ rowClock' = rowClock + 1
    /\ UNCHANGED <<activation, revokedAt>>

ActivationNext ==
    \/ \E o \in CapOwners : HandlePeerAnnouncement(o) \/ SuspendCapability(o) \/ RevokeCapability(o)
    \/ PruneRevoked
    \/ RowTime

(***************************************************************************)
(* Properties.                                                             *)
(***************************************************************************)

(* A node's record of another owner's availability was told to it by that  *)
(* owner, in a message the owner sent itself, after the node last removed  *)
(* the owner: neither a relay nor the replicated document may bring a      *)
(* removed peer's availability back (importPeerCapabilities' owner gate).  *)
AvailabilityIsDirect == \A n \in CapNodes, o \in CapOwners :
    n # o /\ avail[n][o] # "none" => o \in heard[n]

(* A revoked capability is not activated again while its row is kept, and  *)
(* the row is kept for the whole retention time.                           *)
RevokedIsKept == [][\A o \in CapOwners : activation[o] = "revoked" =>
    \/ activation'[o] = "revoked"
    \/ activation'[o] = "none" /\ rowClock - revokedAt[o] > Retention]_activationVars
=============================================================================
