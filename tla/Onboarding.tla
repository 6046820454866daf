----------------------------- MODULE Onboarding -----------------------------
(***************************************************************************)
(* How a node comes to be trusted: one-time join tokens (token-store.ts,   *)
(* token-api.ts), PIN pairing (pairing-handler.ts), the list of paired     *)
(* peers and its file (pairing.ts) and the CA bundles of the TLS server    *)
(* and of outgoing connections (trust-store.ts, index.ts, agent-card.ts).  *)
(*                                                                         *)
(* The handlers do not await, so each is one action; what separates their  *)
(* writes is a crash or an exception.  The token table is SQLite, and a    *)
(* statement that returned survives the process; paired-peers.json is      *)
(* rewritten in place, and a write that does not finish may leave it       *)
(* unreadable.  Sessions and failure counts are in memory.                 *)
(*                                                                         *)
(* Abstracted: the clock (a token, a session or a lockout ends at some     *)
(* time), SPAKE2 and AES-GCM (a message made with another handshake's key  *)
(* does not decrypt; an initiator gives one agentId in both its requests), *)
(* requests refused for their form, rate limits other than the PIN's.      *)
(***************************************************************************)
EXTENDS Integers, FiniteSets

CONSTANTS
    Nodes,             \* nodes that want to join or pair, by agentId
    CaOf,              \* the CA each pairing node presents
    OwnCa,             \* this node's CA, shared with the nodes that join
    Tokens,            \* onboarding tokens
    Ips,               \* client addresses
    Handshakes,        \* SPAKE2 runs: the keys sessions agree on (a bound)
    None,              \* null
    MaxAttempts,       \* wrong PINs before a session is invalidated
    MaxFailuresPerIp   \* MAX_FAILURES_PER_IP

ASSUME ConstantsAssumption ==
    /\ None \notin Nodes \cup Tokens \cup Ips \cup Handshakes
    /\ None # OwnCa
    /\ Handshakes \subseteq Nat
    /\ \A n \in Nodes : CaOf[n] \notin {None, OwnCa}
    /\ MaxAttempts \in Nat \ {0} /\ MaxFailuresPerIp \in Nat \ {0}

VARIABLES
    token,       \* the onboarding_tokens table
    peers,       \* PairingStore.peers: agentId -> caCertPem, or None
    file,        \* paired-peers.json, or None when it does not parse
    bundle,      \* the CAs of the server's TLS context
    outgoing,    \* initialCaBundle: the CAs of the outgoing dispatcher
    unsaved,     \* history: the last save failed
    stale,       \* history: the last change did not reach the server
    session,     \* activeSession, or None
    failed,      \* failedAttempts
    ipFailures,  \* ip -> failures counted against it
    offers,      \* <<node, key>>: initiators that finished their handshake
    admitted,    \* history: <<token, node>> registered as a peer by a join
    wrongPins    \* history: wrong PINs since the session began or a right one

store == <<peers, file, bundle, outgoing, unsaved, stale>>

pairing == <<session, failed, ipFailures, offers, wrongPins>>

vars == <<token, store, pairing, admitted>>

-----------------------------------------------------------------------------
(* PairingStore and the trust store *)

NoPeers == [n \in Nodes |-> None]

\* buildTrustedCaBundle
TrustedCaBundle(pe) == {OwnCa} \cup ({pe[n] : n \in Nodes} \ {None})

\* Faulty variant: the peer is not written to the file.
AddPeerNoSave(n, ca) ==
    /\ peers' = [peers EXCEPT ![n] = ca]
    /\ unsaved' = FALSE
    /\ UNCHANGED file

\* addPeer: set and save.
AddPeer(n, ca) ==
    /\ peers' = [peers EXCEPT ![n] = ca]
    /\ file' = peers'
    /\ unsaved' = FALSE

\* addPeer whose save throws, the file as it was or cut short; the map has
\* the peer, and its caller does not come to rebuild the trust store.
AddPeerThrows(n, ca) ==
    /\ peers' = [peers EXCEPT ![n] = ca]
    /\ file' \in {file, None}
    /\ unsaved' = TRUE /\ stale' = TRUE
    /\ UNCHANGED <<bundle, outgoing>>

\* Faulty variant: the listeners are not told.
RebuildQuietly == stale' = FALSE /\ UNCHANGED <<bundle, outgoing>>

\* reloadTlsContext: it may fail, and keeps that to itself.
ReloadTlsContext ==
    /\ stale' \in BOOLEAN
    /\ bundle' = IF stale' THEN bundle ELSE TrustedCaBundle(peers')

\* TrustStoreNotifier.rebuild: the listener index.ts registers reloads the
\* server and leaves the outgoing dispatcher alone.
Rebuild == ReloadTlsContext /\ UNCHANGED outgoing

\* The daemon starts with what the file holds, nothing if it does not parse
\* (the file stays as it is until the next save).
Restart(content) ==
    /\ file' = content
    /\ peers' = IF content = None THEN NoPeers ELSE content
    /\ bundle' = TrustedCaBundle(peers') /\ outgoing' = bundle'
    /\ unsaved' = FALSE /\ stale' = FALSE
    /\ session' = None /\ failed' = 0 /\ wrongPins' = 0
    /\ ipFailures' = [ip \in Ips |-> 0]
    /\ UNCHANGED offers

\* What a process that dies while it saves the peer leaves: nothing written,
\* a truncated file, or all of it.
Torn(n, ca) == {file, None, [peers EXCEPT ![n] = ca]}

-----------------------------------------------------------------------------
(* Tokens *)

Token == [used : Nodes \cup {None}, revoked : BOOLEAN, expired : BOOLEAN]

\* POST /api/token/create
CreateToken(t) ==
    /\ token[t] = None
    /\ token' = [token EXCEPT ![t] =
                    [used |-> None, revoked |-> FALSE, expired |-> FALSE]]
    /\ UNCHANGED <<store, pairing, admitted>>

\* expires_at passes.
TokenExpires(t) ==
    /\ token[t] # None /\ ~token[t].expired
    /\ token' = [token EXCEPT ![t].expired = TRUE]
    /\ UNCHANGED <<store, pairing, admitted>>

\* Faulty variant: a used token can be revoked too.
RevocableUsed(t) == token[t] # None /\ ~token[t].revoked

\* A used or revoked token is not revoked (again).
Revocable(t) == token[t] # None /\ token[t].used = None /\ ~token[t].revoked

\* POST /api/token/revoke
RevokeToken(t) ==
    /\ Revocable(t)
    /\ token' = [token EXCEPT ![t].revoked = TRUE]
    /\ UNCHANGED <<store, pairing, admitted>>

\* Faulty variant: revocation is not looked at.
ValidIgnoringRevocation(t) ==
    token[t] # None /\ token[t].used = None /\ ~token[t].expired

\* validateToken
Valid(t) ==
    /\ token[t] # None
    /\ ~token[t].revoked /\ token[t].used = None /\ ~token[t].expired

\* Faulty variant: the token is marked at the end of a join that completed.
MarkUsedLate(t, n, completed) ==
    token' = IF completed THEN [token EXCEPT ![t].used = n] ELSE token

\* markUsed, before the certificate is made: also when the rest of the join
\* does not complete.
MarkUsed(t, n, completed) == token' = [token EXCEPT ![t].used = n]

\* POST /onboarding/join: consume the token, make the certificate, register
\* the node as a peer that shares our CA, reload the trust store.
Join(t, n) ==
    /\ Valid(t)
    /\ MarkUsed(t, n, TRUE)
    /\ AddPeer(n, OwnCa)
    /\ Rebuild
    /\ admitted' = admitted \cup {<<t, n>>}
    /\ UNCHANGED pairing

\* ... createNodeCert throws, and the join is answered 500.
JoinCertFails(t, n) ==
    /\ Valid(t)
    /\ MarkUsed(t, n, FALSE)
    /\ UNCHANGED <<store, pairing, admitted>>

\* ... addPeer throws, and the join is answered 500.
JoinSaveFails(t, n) ==
    /\ Valid(t)
    /\ MarkUsed(t, n, FALSE)
    /\ AddPeerThrows(n, OwnCa)
    /\ admitted' = admitted \cup {<<t, n>>}
    /\ UNCHANGED pairing

\* ... the daemon dies after markUsed and is started again.
JoinCrashes(t, n) ==
    /\ Valid(t)
    /\ MarkUsed(t, n, FALSE)
    /\ \E content \in Torn(n, OwnCa) :
          /\ Restart(content)
          /\ admitted' = IF content \notin {file, None}
                         THEN admitted \cup {<<t, n>>} ELSE admitted

-----------------------------------------------------------------------------
(* PIN pairing *)

\* key is the shared key of a session in handshake.
Session ==
    [state : {"waiting", "handshake", "completed", "failed"},
     expired : BOOLEAN, key : Handshakes \cup {None}]

\* null is neither a row of the table nor a session.
ASSUME NullAssumption == None \notin Token /\ None \notin Session

\* cleanExpiredSession
Cleaned == IF session # None /\ session.expired THEN None ELSE session

\* A session was started here and its time is not over.
Waiting == Cleaned # None /\ Cleaned.state = "waiting"

\* Five minutes pass.
SessionExpires ==
    /\ session # None /\ ~session.expired
    /\ session' = [session EXCEPT !.expired = TRUE]
    /\ UNCHANGED <<token, store, failed, ipFailures, offers, admitted, wrongPins>>

\* POST /pairing/start: a new session with a new PIN, unless one is waiting.
\* (failedAttempts is not reset.)
PairingStart ==
    /\ ~Waiting
    /\ session' = [state |-> "waiting", expired |-> FALSE, key |-> None]
    /\ wrongPins' = 0
    /\ UNCHANGED <<token, store, failed, ipFailures, offers, admitted>>

\* Faulty variant: the address is locked one failure late.
isIpLockedLate(ip) == ipFailures[ip] > MaxFailuresPerIp

isIpLocked(ip) == ipFailures[ip] >= MaxFailuresPerIp

\* The lockout of an address runs out: its next request starts from zero.
LockoutEnds(ip) ==
    /\ isIpLocked(ip)
    /\ ipFailures' = [ipFailures EXCEPT ![ip] = 0]
    /\ UNCHANGED <<token, store, session, failed, offers, admitted, wrongPins>>

\* Faulty variant: the attempt that reaches the limit is let through.
TooManyOffByOne(n) == n > MaxAttempts

\* failedAttempts >= 3
TooMany(n) == n >= MaxAttempts

\* recordIpFailure: a full map is pruned of the addresses whose last failure is
\* longer ago than a lockout lasts.
RecordIpFailure(ip) ==
    \E pruned \in SUBSET (Ips \ {ip}) :
        ipFailures' = [i \in Ips |-> IF i = ip THEN ipFailures[i] + 1
                                    ELSE IF i \in pruned THEN 0 ELSE ipFailures[i]]

\* POST /pairing/init with a wrong PIN.
PairingInitWrongPin(ip) ==
    /\ ~isIpLocked(ip) /\ Waiting
    /\ RecordIpFailure(ip)
    /\ wrongPins' = wrongPins + 1
    /\ IF TooMany(failed + 1)
       THEN session' = None /\ failed' = 0
       ELSE session' = session /\ failed' = failed + 1
    /\ UNCHANGED <<token, store, offers, admitted>>

\* POST /pairing/init by node n, which knows the PIN and is not paired: both
\* ends derive a key, and the session (its time starting over) is in handshake.
PairingInit(n, ip) ==
    /\ ~isIpLocked(ip) /\ Waiting
    /\ peers[n] = None
    /\ \E k \in Handshakes :
          /\ \A o \in offers : o[2] < k
          /\ \A j \in Handshakes : (\A o \in offers : o[2] < j) => k <= j
          /\ session' = [state |-> "handshake", expired |-> FALSE, key |-> k]
          /\ offers' = offers \cup {<<n, k>>}
    /\ failed' = 0 /\ wrongPins' = 0
    /\ UNCHANGED <<token, store, ipFailures, admitted>>

\* ... and SPAKE2 rejects its message: the session goes on waiting.
PairingInitThrows(n, ip) ==
    /\ ~isIpLocked(ip) /\ Waiting
    /\ peers[n] = None
    /\ failed' = 0 /\ wrongPins' = 0
    /\ UNCHANGED <<token, store, session, ipFailures, offers, admitted>>

\* POST /pairing/init that finds no waiting session, or comes from a locked
\* address or a paired node: only an expired session is dropped.
PairingInitRefused ==
    /\ session # None /\ session.expired
    /\ session' = None
    /\ UNCHANGED <<token, store, failed, ipFailures, offers, admitted, wrongPins>>

\* Faulty variant: any finished handshake will do.
DecryptsAny(o) == TRUE

\* decryptWithKey(activeSession.sharedKey, ...) succeeds.
Decrypts(o) == session.key = o[2]

\* What /pairing/confirm asks of the session.  (Not whether it expired.)
InHandshake == session # None /\ session.state = "handshake"

\* POST /pairing/confirm by the initiator of handshake o: the peer is stored
\* and the trust store reloaded.
PairingConfirm(o) ==
    /\ InHandshake /\ Decrypts(o)
    /\ AddPeer(o[1], CaOf[o[1]])
    /\ Rebuild
    /\ session' = [session EXCEPT !.state = "completed"]
    /\ UNCHANGED <<token, failed, ipFailures, offers, admitted, wrongPins>>

\* ... that cannot be decrypted: by the initiator of a handshake that another
\* one replaced, or by anybody.
PairingConfirmUndecryptable ==
    /\ InHandshake
    /\ session' = [session EXCEPT !.state = "failed"]
    /\ UNCHANGED <<token, store, failed, ipFailures, offers, admitted, wrongPins>>

\* ... addPeer throws, and the confirmation is answered 403.
PairingConfirmSaveFails(o) ==
    /\ InHandshake /\ Decrypts(o)
    /\ AddPeerThrows(o[1], CaOf[o[1]])
    /\ session' = [session EXCEPT !.state = "failed"]
    /\ UNCHANGED <<token, failed, ipFailures, offers, admitted, wrongPins>>

\* ... and the daemon dies while it saves.
PairingConfirmCrashes(o) ==
    /\ InHandshake /\ Decrypts(o)
    /\ \E content \in Torn(o[1], CaOf[o[1]]) : Restart(content)
    /\ UNCHANGED <<token, admitted>>

\* The daemon is restarted between two requests.
DaemonRestarts ==
    /\ Restart(file)
    /\ UNCHANGED <<token, admitted>>

-----------------------------------------------------------------------------
Init ==
    /\ token = [t \in Tokens |-> None]
    /\ peers = NoPeers /\ file = NoPeers
    /\ bundle = {OwnCa} /\ outgoing = {OwnCa} /\ unsaved = FALSE /\ stale = FALSE
    /\ session = None /\ failed = 0 /\ ipFailures = [ip \in Ips |-> 0]
    /\ offers = {} /\ admitted = {} /\ wrongPins = 0

Next ==
    \/ \E t \in Tokens : CreateToken(t) \/ TokenExpires(t) \/ RevokeToken(t)
    \/ \E t \in Tokens, n \in Nodes :
          \/ Join(t, n) \/ JoinCertFails(t, n) \/ JoinSaveFails(t, n)
          \/ JoinCrashes(t, n)
    \/ SessionExpires \/ PairingStart \/ PairingInitRefused \/ DaemonRestarts
    \/ PairingConfirmUndecryptable
    \/ \E ip \in Ips : LockoutEnds(ip) \/ PairingInitWrongPin(ip)
    \/ \E n \in Nodes, ip \in Ips : PairingInit(n, ip) \/ PairingInitThrows(n, ip)
    \/ \E o \in offers :
          PairingConfirm(o) \/ PairingConfirmSaveFails(o) \/ PairingConfirmCrashes(o)

Spec == Init /\ [][Next]_vars

-----------------------------------------------------------------------------
(* Properties *)

Cas == {OwnCa} \cup {CaOf[n] : n \in Nodes}

PeerMap == [Nodes -> Cas \cup {None}]

\* Types; the failures of an address stop at the limit that locks it
\* (isIpLocked, recordIpFailure in pairing-handler.ts).
TypeOK ==
    /\ token \in [Tokens -> Token \cup {None}]
    /\ peers \in PeerMap
    /\ file \in PeerMap \cup {None}
    /\ bundle \subseteq Cas /\ outgoing \subseteq Cas
    /\ unsaved \in BOOLEAN /\ stale \in BOOLEAN
    /\ session \in Session \cup {None}
    /\ failed \in 0 .. (MaxAttempts - 1)
    /\ ipFailures \in [Ips -> 0 .. MaxFailuresPerIp]
    /\ offers \subseteq Nodes \X Handshakes
    /\ admitted \subseteq Tokens \X Nodes
    /\ wrongPins \in Nat

\* A token brings at most one node into the mesh, whatever joins fail or die
\* half way and however the daemon restarts: token-api.ts consumes it before
\* anything else.
TokenAdmitsOne ==
    \A x, y \in admitted : x[1] = y[1] => x[2] = y[2]

\* Revocation and use exclude each other: no node came in with a token that
\* is shown as revoked (validateToken, markUsed and revokeToken together).
RevokedAdmittedNobody ==
    \A x \in admitted : token[x[1]] # None /\ ~token[x[1]].revoked

\* Every node that is a peer of ours through our own CA is accounted for by a
\* used token, in memory, in the file and after any crash.
JoinedIsAccounted ==
    \A n \in Nodes :
        peers[n] = OwnCa \/ (file # None /\ file[n] = OwnCa)
            => \E t \in Tokens : token[t] # None /\ token[t].used = n

\* Whenever the last change of the store reached it, the server's TLS context
\* trusts exactly the CAs of the paired peers, those included whose own save or
\* reload had failed (every change is followed by a rebuild of the whole bundle).
\* It says nothing of outgoing connections, which keep the CAs of the start.
TrustFollowsPairing == ~stale => bundle = TrustedCaBundle(peers)

\* Unless the last save failed, a restart finds the same peers (or the daemon
\* itself started from a file it could not read, and has none).
RestartKeepsPeers ==
    ~unsaved => file = peers \/ (file = None /\ peers = NoPeers)

\* A waiting session has seen fewer wrong PINs in a row than the limit,
\* although failedAttempts outlives sessions and expiry.
PinGuessesBounded == Waiting => wrongPins < MaxAttempts

\* A CA enters the peers by pairing only from the node whose handshake is the
\* latest: an answer to an earlier handshake, delayed past a new session, does
\* not pair (or the file, read again, held it already).
OnlyLatestHandshakePairs ==
    [][\A n \in Nodes :
          peers[n] # CaOf[n] /\ peers'[n] = CaOf[n] =>
             \/ \E o \in offers : o[1] = n /\ \A q \in offers : q[2] <= o[2]
             \/ file # None /\ file[n] = CaOf[n]]_vars
=============================================================================
