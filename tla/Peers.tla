------------------------------- MODULE Peers --------------------------------
(***************************************************************************)
(* How a daemon comes to know the signing key of a peer it has not         *)
(* discovered: learning from an authenticated inbound connection           *)
(* (inbound-peer-learner.ts), the authenticated-seen map of mesh.ts, the   *)
(* locator cache that survives a restart (peer-cache.ts) and the re-       *)
(* learning at boot (boot-relearn.ts).  Also the reconciler that keeps     *)
(* configured peers connected (static-peer-reconciler.ts) and the daemon   *)
(* client's retries (mesh-client.ts).                                      *)
(*                                                                         *)
(* A peer's card carries its own identity and its own key: "the key of p"  *)
(* is p.  Addresses change hands, so a fetch may reach another peer.       *)
(***************************************************************************)
EXTENDS Integers, FiniteSets

CONSTANTS
    KnownPeers,         \* peers, also their PeerIDs and keys
    Addresses,          \* host:port endpoints
    AllowedAddresses,   \* endpoints isReLearnHostAllowed accepts
    MaxFetchAttempts,   \* maxFetchAttempts
    SeenTtl, SeenMax,   \* AUTH_SEEN_TTL_MS, AUTH_SEEN_MAX
    CacheTtl, CacheMax, \* PEER_CACHE_TTL_MS, PEER_CACHE_MAX
    MaxPeerTime,        \* bound: how long the clock runs
    MaxLearners,        \* bound: learning attempts under way
    StaticPeers,        \* configured peers
    StartupTicks,       \* ticks in the reconciler's start-up window
    MaxRetries          \* MeshClientConfig.maxRetries

ASSUME PeersAssumption ==
    /\ AllowedAddresses \subseteq Addresses /\ Addresses # {} /\ SeenTtl <= CacheTtl
    /\ MaxFetchAttempts \in Nat \ {0} /\ {StartupTicks, MaxRetries} \subseteq Nat

VARIABLES
    where,          \* where[p]: the address p listens on now
    seenPeers,      \* authenticatedSeen
    bootTargets,    \* bootReLearnTargets
    cacheFile,      \* mesh/peer-cache.json
    learners,       \* learning attempts waiting for a card
    peerClock,
    reconciler,     \* the static-peer reconciler
    request         \* one call of the daemon client

learnVars == <<where, seenPeers, bootTargets, cacheFile, learners, peerClock>>
peersVars == <<where, seenPeers, bootTargets, cacheFile, learners, peerClock, reconciler, request>>

(* A locator holds no key; fp says whether a certificate fingerprint of    *)
(* 64 hex digits is stored.                                                *)
NoLocator == [endpoint |-> "none", fp |-> FALSE, last |-> 0]
NoSeen == [key |-> "none", endpoint |-> "none", fp |-> FALSE, last |-> 0]
Latest(S, f, n) == {p \in S : Cardinality({q \in S : f[q].last > f[p].last}) < n}

PeersInit ==
    /\ where = [p \in KnownPeers |-> CHOOSE a \in Addresses : TRUE]
    /\ seenPeers = [p \in KnownPeers |-> NoSeen]
    /\ bootTargets = [p \in KnownPeers |-> NoLocator] /\ cacheFile = bootTargets
    /\ learners = {} /\ peerClock = 1
    /\ reconciler = [pending |-> {}, todo |-> {}, state |-> "off", stopped |-> FALSE, ticks |-> 0]
    /\ request = [state |-> "idle", attempt |-> 0, done |-> 0, answer |-> "none"]

(***************************************************************************)
(* The authenticated-seen map.                                             *)
(***************************************************************************)

(* resolvePeerPublicKey's last resort for a canonical sender.              *)
resolvable(p) == seenPeers[p] # NoSeen /\ peerClock - seenPeers[p].last <= SeenTtl

(* recordAuthenticatedSeen: expired entries go, the new one is written,    *)
(* and one oldest entry goes when the map is over its limit.               *)
RecordSeen(p, entry) ==
    LET live(q) == IF q = p THEN entry
                   ELSE IF peerClock - seenPeers[q].last > SeenTtl THEN NoSeen ELSE seenPeers[q]
        members == {q \in KnownPeers : live(q) # NoSeen}
        oldest == {q \in members : \A r \in members : live(q).last <= live(r).last}
    IN  IF Cardinality(members) <= SeenMax
        THEN seenPeers' = [q \in KnownPeers |-> live(q)]
        ELSE \E o \in oldest : seenPeers' = [q \in KnownPeers |-> IF q = o THEN NoSeen ELSE live(q)]

(***************************************************************************)
(* Learning.  A learner knows which peer it expects and where it asks.     *)
(***************************************************************************)
Learner(p, a, via) == [peer |-> p, endpoint |-> a, via |-> via, attempt |-> 1]

(* The wiring in index.ts: the certificate's attested peer must be the     *)
(* sender, and only a sender whose key is unknown is learned.              *)
mayLearn(p, sender) == sender = p /\ ~resolvable(p)

isReLearnHostAllowed(a) == a \in AllowedAddresses

(* The targets runBootReLearn goes through.                                *)
relearnTargets == {p \in KnownPeers : bootTargets[p] # NoLocator}

(* learnInboundPeer up to the fetch: an inbound request whose certificate  *)
(* attests p and whose envelope names `sender`.  Without a remote address  *)
(* the known one is asked, if policy allows, over a pinned connection.     *)
LearnInbound(p, sender) ==
    /\ mayLearn(p, sender)                             \* and rateLimitOk
    /\ Cardinality(learners) < MaxLearners
    /\ \/ learners' = learners \cup {Learner(p, where[p], "inbound")}
       \/ \E a \in {b \in Addresses : isReLearnHostAllowed(b)} : learners' = learners \cup {Learner(p, a, "fallback")}
    /\ UNCHANGED <<where, seenPeers, bootTargets, cacheFile, peerClock>>

(* relearnPeer up to the fetch, for a target loaded at boot.               *)
RelearnPeer(p) ==
    /\ p \in relearnTargets /\ ~resolvable(p)
    /\ isReLearnHostAllowed(bootTargets[p].endpoint)
    /\ Cardinality(learners) < MaxLearners
    /\ learners' = learners \cup {Learner(p, bootTargets[p].endpoint, "boot")}
    /\ UNCHANGED <<where, seenPeers, bootTargets, cacheFile, peerClock>>

(* Who answers: the connection itself when unpinned, the expected peer or  *)
(* a failed handshake when pinned (fetchAgentCardPinned).                  *)
answers(l, p) == where[p] = l.endpoint /\ (l.via # "inbound" => p = l.peer)

(* Faulty: any card with a key will do.                                    *)
cardAcceptedAny(l, p) == TRUE

(* The card's identity must be the attested one.                           *)
cardAccepted(l, p) == p = l.peer

CardArrives(l) ==
    /\ \E p \in KnownPeers :
           /\ answers(l, p)
           /\ IF cardAccepted(l, p)
              THEN RecordSeen(l.peer, [key |-> p, endpoint |-> l.endpoint,
                                       fp |-> l.via # "boot", last |-> peerClock])
              ELSE UNCHANGED seenPeers
    /\ learners' = learners \ {l}
    /\ UNCHANGED <<where, bootTargets, cacheFile, peerClock>>

(* A refused connection, a timeout or a pin mismatch: retried with a pause,*)
(* and given up after the last attempt.                                    *)
FetchThrows(l) ==
    /\ learners' = IF l.attempt < MaxFetchAttempts
                   THEN (learners \ {l}) \cup {[l EXCEPT !.attempt = @ + 1]} ELSE learners \ {l}
    /\ UNCHANGED <<where, seenPeers, bootTargets, cacheFile, peerClock>>

PeerMoves(p) ==
    /\ \E a \in Addresses \ {where[p]} : where' = [where EXCEPT ![p] = a]
    /\ UNCHANGED <<seenPeers, bootTargets, cacheFile, learners, peerClock>>

PeerTime ==
    /\ peerClock < MaxPeerTime /\ peerClock' = peerClock + 1
    /\ UNCHANGED <<where, seenPeers, bootTargets, cacheFile, learners>>

(***************************************************************************)
(* The locator cache.                                                      *)
(***************************************************************************)
locator(s) == IF s = NoSeen THEN NoLocator ELSE [endpoint |-> s.endpoint, fp |-> s.fp, last |-> s.last]

(* Faulty: the flush writes what is live now.                              *)
mergeLocatorsLive(live, loaded) == live

(* mergeLocators: what was loaded at boot, overwritten by what is live.    *)
mergeLocators(live, loaded) ==
    [p \in KnownPeers |-> IF live[p] # NoLocator THEN live[p] ELSE loaded[p]]

(* flushPeerCache, every five minutes and at shutdown; writeAtomic.        *)
FlushPeerCache ==
    /\ cacheFile' = mergeLocators([p \in KnownPeers |-> locator(seenPeers[p])], bootTargets)
    /\ cacheFile' # cacheFile
    /\ UNCHANGED <<where, seenPeers, bootTargets, learners, peerClock>>

(* parseCache: an implausible or expired entry is dropped, the newest kept.*)
parseable(l) == l # NoLocator /\ l.fp /\ peerClock - l.last <= CacheTtl
parseCache(file) ==
    LET good == {p \in KnownPeers : parseable(file[p])}
    IN  [p \in KnownPeers |-> IF p \in Latest(good, file, CacheMax) THEN file[p] ELSE NoLocator]

(* The daemon stops and starts: memory is lost, the cache is loaded.       *)
Reboot ==
    /\ seenPeers' = [p \in KnownPeers |-> NoSeen] /\ learners' = {}
    /\ bootTargets' = parseCache(cacheFile)
    /\ UNCHANGED <<where, cacheFile, peerClock>>

LearnNext ==
    \/ \E p, sender \in KnownPeers : LearnInbound(p, sender)
    \/ \E p \in KnownPeers : RelearnPeer(p) \/ PeerMoves(p)
    \/ \E l \in learners : CardArrives(l) \/ FetchThrows(l)
    \/ FlushPeerCache \/ Reboot \/ PeerTime

(***************************************************************************)
(* startStaticPeerReconciler in steady mode: tick, attemptAll, schedule.   *)
(***************************************************************************)
ReconcilerStarts ==
    /\ reconciler.state = "off"
    /\ reconciler' = [reconciler EXCEPT !.pending = StaticPeers, !.state = "timer"]
TickFires ==
    /\ reconciler.state = "timer" /\ ~reconciler.stopped
    /\ reconciler' = [reconciler EXCEPT !.state = "running", !.todo = reconciler.pending]
(* connectOnce settles for one peer of the snapshot.                       *)
ConnectOnce(p) ==
    /\ reconciler.state = "running" /\ p \in reconciler.todo /\ ~reconciler.stopped
    /\ \E ok \in BOOLEAN :
           reconciler' = [reconciler EXCEPT !.todo = @ \ {p},
                                            !.pending = IF ok THEN @ \ {p} ELSE @]

(* Faulty: the stop is not looked at again after the attempts.             *)
TickEndsUnchecked ==
    /\ reconciler.state = "running" /\ (reconciler.todo = {} \/ reconciler.stopped)
    /\ reconciler' = [reconciler EXCEPT !.state = "timer"]

(* After the attempts: stop, or schedule; past the start-up window every   *)
(* configured peer is tried again.                                         *)
TickEnds ==
    /\ reconciler.state = "running" /\ (reconciler.todo = {} \/ reconciler.stopped)
    /\ LET late == reconciler.ticks >= StartupTicks
       IN  reconciler' = IF reconciler.stopped THEN [reconciler EXCEPT !.state = "ended", !.todo = {}]
                         ELSE [reconciler EXCEPT !.state = "timer", !.ticks = IF late THEN @ ELSE @ + 1,
                                                 !.pending = IF late THEN StaticPeers ELSE @]
ReconcilerStop ==
    /\ reconciler.state # "off" /\ ~reconciler.stopped
    /\ reconciler' = [reconciler EXCEPT !.stopped = TRUE,
                                        !.state = IF @ = "timer" THEN "ended" ELSE @]

ReconcilerNext == ReconcilerStarts \/ TickFires \/ TickEnds \/ ReconcilerStop
                  \/ \E p \in StaticPeers : ConnectOnce(p)

(***************************************************************************)
(* MeshDaemonClient.post and withRetry.                                    *)
(***************************************************************************)
SendRequest ==
    /\ request.state = "idle"
    /\ request' = [state |-> "sent", attempt |-> 0, done |-> 0, answer |-> "none"]

(* The daemon carries the request out, or not, and the answer is a success,*)
(* a status worth a retry, another status, a network error or a timeout.   *)
RequestSettles(effect, outcome) ==
    /\ request.state = "sent"
    /\ outcome = "ok" => effect = 1
    /\ LET retry == outcome \in {"retryable", "network"} /\ request.attempt < MaxRetries
       IN  request' = [request EXCEPT !.done = @ + effect,
                          !.attempt = IF retry THEN @ + 1 ELSE @,
                          !.state = IF retry THEN "sent" ELSE "over",
                          !.answer = IF retry THEN @ ELSE IF outcome = "ok" THEN "ok" ELSE "error"]

ClientNext ==
    \/ SendRequest
    \/ \E effect \in 0..1, outcome \in {"ok", "retryable", "fatal", "network", "timeout"} :
           RequestSettles(effect, outcome)

PeersTypeOK ==
    /\ where \in [KnownPeers -> Addresses]
    /\ \A p \in KnownPeers : seenPeers[p].key \in KnownPeers \cup {"none"}
    /\ \A l \in learners : l.attempt \in 1..MaxFetchAttempts
    /\ reconciler.pending \subseteq StaticPeers /\ reconciler.ticks \in 0..StartupTicks
    /\ request.attempt \in 0..MaxRetries

(***************************************************************************)
(* Properties.                                                             *)
(***************************************************************************)

(* The key kept for a peer is that peer's key, although the address that   *)
(* was asked may meanwhile belong to another peer (the card check of       *)
(* learnInboundPeer and relearnPeer).                                      *)
KeyIsOwners == \A p \in KnownPeers : seenPeers[p].key \in {p, "none"}

(* A flush never forgets a peer that was loaded at boot (mergeLocators).   *)
FlushKeepsLoaded == [][\A p \in KnownPeers :
    cacheFile' # cacheFile /\ bootTargets[p] # NoLocator => cacheFile'[p] # NoLocator]_learnVars

(* After stop() the reconciler schedules nothing, even when it was stopped *)
(* in the middle of a connection attempt; until then it never ends.        *)
ReconcilerKeepsOn ==
    /\ reconciler.stopped => reconciler.state \in {"running", "ended"}
    /\ ~reconciler.stopped => reconciler.state # "ended"

(* A caller that is told "ok" had its request carried out, and one call    *)
(* carries it out at most once per attempt.                                *)
RetriesAreBounded ==
    /\ request.answer = "ok" => request.done >= 1
    /\ request.done <= MaxRetries + 1

(* What peer-cache.ts promises of its 14-day lifetime: a locator leaves    *)
(* the file only when it has expired or was displaced by the limit.        *)
CacheKeepsItsTtl == [][\A p \in KnownPeers :
    cacheFile[p] # NoLocator /\ cacheFile'[p] = NoLocator =>
        peerClock - cacheFile[p].last > CacheTtl]_learnVars
=============================================================================
