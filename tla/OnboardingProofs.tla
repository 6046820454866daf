-------------------------- MODULE OnboardingProofs --------------------------
(***************************************************************************)
(* Proofs about Onboarding, for any nodes, tokens, addresses and limits.   *)
(* The safety theorems follow from one inductive invariant, IInv, whose    *)
(* three new parts say what the stores have in common: who was admitted is *)
(* written in the token table, a live session has counted every wrong PIN, *)
(* and a session in handshake holds the newest key.                        *)
(***************************************************************************)
EXTENDS Onboarding, TLAPS

\* The token of an admitted node is used by that node, and not revoked.
AdmittedIsWritten ==
    \A x \in admitted : /\ token[x[1]] # None
                        /\ token[x[1]].used = x[2]
                        /\ ~token[x[1]].revoked

\* failedAttempts has counted the wrong PINs of the session there is.
GuessesAreCounted == session # None => wrongPins <= failed

\* A session in handshake holds the key of the latest handshake.
KeyIsLatest == InHandshake => \A o \in offers : o[2] <= session.key

IInv ==
    /\ TypeOK /\ AdmittedIsWritten /\ JoinedIsAccounted
    /\ TrustFollowsPairing /\ RestartKeepsPeers
    /\ GuessesAreCounted /\ KeyIsLatest

-----------------------------------------------------------------------------
\* The initial state: no tokens, no peers, no session.
LEMMA InitIInv == Init => IInv
  <1> SUFFICES ASSUME Init PROVE IInv
    OBVIOUS
  <1> USE ConstantsAssumption DEF ConstantsAssumption, Init, NoPeers
  <1>1. TypeOK
    <2>1. token \in [Tokens -> Token \cup {None}] /\ peers \in PeerMap /\ file \in PeerMap
      BY DEF PeerMap
    <2>2. bundle \subseteq Cas /\ outgoing \subseteq Cas /\ ipFailures \in [Ips -> 0 .. MaxFailuresPerIp]
      BY DEF Cas
    <2>3. failed \in 0 .. (MaxAttempts - 1) /\ wrongPins \in Nat
      OBVIOUS
    <2>4. unsaved \in BOOLEAN /\ stale \in BOOLEAN /\ session \in Session \cup {None}
      OBVIOUS
    <2>5. offers \subseteq Nodes \X Handshakes /\ admitted \subseteq Tokens \X Nodes
      OBVIOUS
    <2> QED BY <2>1, <2>2, <2>3, <2>4, <2>5 DEF TypeOK
  <1>2. AdmittedIsWritten /\ GuessesAreCounted /\ KeyIsLatest
    BY DEF AdmittedIsWritten, GuessesAreCounted, KeyIsLatest, InHandshake
  <1>3. JoinedIsAccounted /\ RestartKeepsPeers
    BY DEF JoinedIsAccounted, RestartKeepsPeers
  <1>4. TrustFollowsPairing
    BY DEF TrustFollowsPairing, TrustedCaBundle
  <1> QED BY <1>1, <1>2, <1>3, <1>4 DEF IInv

-----------------------------------------------------------------------------
(* What the steps have in common. *)

\* A step that consumes a valid token: the row of another token stays, and
\* this one is used by n.
LEMMA MarkUsedEffect ==
    ASSUME TypeOK, AdmittedIsWritten, NEW t \in Tokens, NEW n \in Nodes,
           NEW completed, Valid(t), MarkUsed(t, n, completed)
    PROVE  /\ token' \in [Tokens -> Token \cup {None}]
           /\ token'[t] # None /\ token'[t].used = n /\ ~token'[t].revoked
           /\ \A u \in Tokens \ {t} : token'[u] = token[u]
           /\ \A x \in admitted : x[1] # t
  <1>1. token[t] \in Token /\ token[t].used = None /\ ~token[t].revoked
    BY DEF TypeOK, Valid
  <1>2. token'[t] = [token[t] EXCEPT !.used = n] /\ token'[t] \in Token
    BY <1>1 DEF MarkUsed, TypeOK, Token
  <1>3. \A x \in admitted : x[1] # t
    BY <1>1, ConstantsAssumption DEF ConstantsAssumption, AdmittedIsWritten, TypeOK
  <1> QED BY <1>1, <1>2, <1>3, NullAssumption DEF MarkUsed, TypeOK, Token

\* Whom the store, in memory or on disk, has as a node that shares our CA.
Ours(n) == peers[n] = OwnCa \/ (file # None /\ file[n] = OwnCa)

\* What the store promises on its own, and that the step adds to the nodes that
\* share our CA at most those of S.
StoreStep(S) ==
    /\ peers' \in PeerMap /\ file' \in PeerMap \cup {None}
    /\ bundle' \subseteq Cas /\ outgoing' \subseteq Cas
    /\ unsaved' \in BOOLEAN /\ stale' \in BOOLEAN
    /\ TrustFollowsPairing' /\ RestartKeepsPeers'
    /\ \A n \in Nodes : Ours(n)' => n \in S \/ Ours(n)

\* The bundle built from a peer map trusts the CAs in use only.
LEMMA BundleType ==
    ASSUME NEW pe \in PeerMap PROVE TrustedCaBundle(pe) \subseteq Cas
  BY DEF PeerMap, TrustedCaBundle, Cas

\* addPeer and the rebuild after it.
LEMMA AddPeerEffect ==
    ASSUME TypeOK, NEW n \in Nodes, NEW ca \in Cas, AddPeer(n, ca), Rebuild
    PROVE  StoreStep(IF ca = OwnCa THEN {n} ELSE {})
  <1>1. peers' \in PeerMap /\ file' = peers' /\ ~unsaved' /\ unsaved' \in BOOLEAN
    BY DEF TypeOK, PeerMap, AddPeer
  <1>2. bundle' \subseteq Cas /\ outgoing' \subseteq Cas
    BY <1>1, BundleType DEF Rebuild, ReloadTlsContext, TypeOK
  <1>5. stale' \in BOOLEAN /\ TrustFollowsPairing'
    BY <1>1 DEF Rebuild, ReloadTlsContext, TrustFollowsPairing, TrustedCaBundle
  <1>3. RestartKeepsPeers'
    BY <1>1 DEF RestartKeepsPeers
  <1>4. \A m \in Nodes : Ours(m)' => m \in (IF ca = OwnCa THEN {n} ELSE {}) \/ Ours(m)
    BY <1>1 DEF AddPeer, Ours, TypeOK, PeerMap
  <1> QED BY <1>1, <1>2, <1>3, <1>4, <1>5 DEF StoreStep

\* addPeer whose save throws.
LEMMA AddPeerThrowsEffect ==
    ASSUME TypeOK, NEW n \in Nodes, NEW ca \in Cas, AddPeerThrows(n, ca)
    PROVE  StoreStep(IF ca = OwnCa THEN {n} ELSE {})
  <1>1. /\ peers' \in PeerMap /\ file' \in {file, None} /\ unsaved' = TRUE
        /\ stale' = TRUE /\ bundle' = bundle /\ outgoing' = outgoing
    BY DEF TypeOK, PeerMap, AddPeerThrows
  <1>2. TrustFollowsPairing' /\ RestartKeepsPeers'
    BY <1>1 DEF TrustFollowsPairing, RestartKeepsPeers
  <1>3. \A m \in Nodes : Ours(m)' => m \in (IF ca = OwnCa THEN {n} ELSE {}) \/ Ours(m)
    BY <1>1 DEF AddPeerThrows, Ours, TypeOK, PeerMap
  <1> QED BY <1>1, <1>2, <1>3 DEF StoreStep, TypeOK

\* A start of the daemon, from the file as it was or as a save left it.
LEMMA RestartEffect ==
    ASSUME TypeOK, NEW S, NEW content \in PeerMap \cup {None}, Restart(content),
           content # None => \A n \in Nodes : content[n] = OwnCa => n \in S \/ Ours(n)
    PROVE  StoreStep(S)
  <1>1. /\ file' = content /\ ~unsaved' /\ unsaved' \in BOOLEAN
        /\ peers' = IF content = None THEN NoPeers ELSE content
        /\ bundle' = TrustedCaBundle(peers') /\ outgoing' = bundle' /\ stale' = FALSE
    BY DEF Restart
  <1>2. NoPeers \in PeerMap
    BY DEF NoPeers, PeerMap
  <1>3. peers' \in PeerMap
    BY <1>1, <1>2
  <1>4. bundle' \subseteq Cas /\ outgoing' \subseteq Cas /\ TrustFollowsPairing'
    BY <1>1, <1>3, BundleType DEF TrustFollowsPairing, TrustedCaBundle
  <1>5. RestartKeepsPeers'
    BY <1>1 DEF RestartKeepsPeers, NoPeers
  <1>6. \A n \in Nodes : Ours(n)' => n \in S \/ Ours(n)
    BY <1>1, ConstantsAssumption DEF ConstantsAssumption, Ours, NoPeers
  <1> QED BY <1>1, <1>3, <1>4, <1>5, <1>6 DEF StoreStep

\* What a crash during the save of a peer leaves to the next start.
LEMMA TornRestart ==
    ASSUME TypeOK, NEW n \in Nodes, NEW ca \in Cas, NEW content \in Torn(n, ca),
           Restart(content)
    PROVE  /\ StoreStep(IF ca = OwnCa THEN {n} ELSE {})
           /\ session' = None /\ failed' = 0 /\ wrongPins' = 0 /\ offers' = offers
           /\ ipFailures' = [ip \in Ips |-> 0]
  <1>1. content \in PeerMap \cup {None}
    BY DEF Torn, TypeOK, PeerMap
  <1>2. content # None =>
            \A m \in Nodes : content[m] = OwnCa
                => m \in (IF ca = OwnCa THEN {n} ELSE {}) \/ Ours(m)
    BY DEF Torn, TypeOK, PeerMap, Ours
  <1>3. StoreStep(IF ca = OwnCa THEN {n} ELSE {})
    BY <1>1, <1>2, RestartEffect
  <1> QED BY <1>3 DEF Restart

\* A step that leaves the store alone.
LEMMA StoreRests == ASSUME IInv, UNCHANGED store PROVE StoreStep({})
  BY DEF IInv, TypeOK, store, StoreStep, TrustFollowsPairing, RestartKeepsPeers,
         TrustedCaBundle, NoPeers, Ours

-----------------------------------------------------------------------------
(* The token table. *)

\* What the table promises: its rows keep their type and the node that used
\* them, and the nodes of S are accounted for after the step.
TokenStep(S) ==
    /\ token' \in [Tokens -> Token \cup {None}]
    /\ \A t \in Tokens : token[t] # None /\ token[t].used # None =>
            /\ token'[t] # None /\ token'[t].used = token[t].used
            /\ token'[t].revoked = token[t].revoked
    /\ \A n \in S : \E t \in Tokens : token'[t] # None /\ token'[t].used = n

LEMMA MarkUsedTokenStep ==
    ASSUME TypeOK, AdmittedIsWritten, NEW t \in Tokens, NEW n \in Nodes,
           NEW completed, Valid(t), MarkUsed(t, n, completed)
    PROVE  TokenStep({n})
  BY MarkUsedEffect DEF TokenStep, Valid

\* Creation, expiry and revocation.
LEMMA TableTokenStep ==
    ASSUME TypeOK, NEW t \in Tokens,
           CreateToken(t) \/ TokenExpires(t) \/ RevokeToken(t)
    PROVE  TokenStep({})
  <1>1. CASE CreateToken(t)
    BY <1>1 DEF CreateToken, TypeOK, TokenStep, Token
  <1>2. CASE TokenExpires(t)
    <2>1. token[t] \in Token
      BY <1>2 DEF TokenExpires, TypeOK
    <2>2. token' = [token EXCEPT ![t] = [token[t] EXCEPT !.expired = TRUE]]
          /\ [token[t] EXCEPT !.expired = TRUE] \in Token
      BY <1>2, <2>1 DEF TokenExpires, TypeOK, Token
    <2> QED BY <2>1, <2>2, NullAssumption DEF TypeOK, TokenStep, Token
  <1>3. CASE RevokeToken(t)
    <2>1. token[t] \in Token /\ token[t].used = None
      BY <1>3 DEF RevokeToken, Revocable, TypeOK
    <2>2. token' = [token EXCEPT ![t] = [token[t] EXCEPT !.revoked = TRUE]]
          /\ [token[t] EXCEPT !.revoked = TRUE] \in Token
      BY <1>3, <2>1 DEF RevokeToken, TypeOK, Token
    <2> QED BY <2>1, <2>2, NullAssumption DEF TypeOK, TokenStep, Token
  <1> QED BY <1>1, <1>2, <1>3

LEMMA TableRests == ASSUME TypeOK, UNCHANGED token PROVE TokenStep({})
  BY DEF TypeOK, TokenStep

\* Table and store together: the nodes the store gains are accounted for.
LEMMA Accounted ==
    ASSUME IInv, NEW S, TokenStep(S), StoreStep(S)
    PROVE  JoinedIsAccounted'
  <1> SUFFICES ASSUME NEW n \in Nodes, Ours(n)'
               PROVE  \E t \in Tokens : token'[t] # None /\ token'[t].used = n
    BY DEF JoinedIsAccounted, Ours
  <1>1. CASE n \in S
    BY <1>1 DEF TokenStep
  <1>2. CASE Ours(n)
    <2>1. PICK t \in Tokens : token[t] # None /\ token[t].used = n
      BY <1>2 DEF IInv, JoinedIsAccounted, Ours
    <2> QED BY <2>1, ConstantsAssumption DEF ConstantsAssumption, TokenStep
  <1> QED BY <1>1, <1>2 DEF StoreStep

\* Who was admitted before stays written in the table.
LEMMA WrittenStays ==
    ASSUME IInv, NEW S, TokenStep(S), admitted' = admitted
    PROVE  AdmittedIsWritten'
  <1> SUFFICES ASSUME NEW x \in admitted
               PROVE  token'[x[1]] # None /\ token'[x[1]].used = x[2] /\ ~token'[x[1]].revoked
    BY DEF AdmittedIsWritten
  <1>1. x[1] \in Tokens /\ x[2] \in Nodes
    BY DEF IInv, TypeOK
  <1> QED BY <1>1, ConstantsAssumption DEF ConstantsAssumption, IInv, AdmittedIsWritten, TokenStep
-----------------------------------------------------------------------------
(* PIN pairing. *)

\* What the session, its counters and the handshakes promise.
PairingStep ==
    /\ session' \in Session \cup {None}
    /\ failed' \in 0 .. (MaxAttempts - 1)
    /\ ipFailures' \in [Ips -> 0 .. MaxFailuresPerIp]
    /\ offers' \subseteq Nodes \X Handshakes
    /\ wrongPins' \in Nat
    /\ GuessesAreCounted' /\ KeyIsLatest'

LEMMA PairingRests == ASSUME IInv, UNCHANGED pairing PROVE PairingStep
  BY DEF IInv, TypeOK, pairing, PairingStep, GuessesAreCounted, KeyIsLatest, InHandshake

\* A process that starts has no session and no counts.
LEMMA RestartPairing ==
    ASSUME IInv, session' = None, failed' = 0, wrongPins' = 0, offers' = offers,
           ipFailures' = [ip \in Ips |-> 0]
    PROVE  PairingStep
  <1>1. 0 \in 0 .. (MaxAttempts - 1) /\ 0 \in 0 .. MaxFailuresPerIp
    BY ConstantsAssumption DEF ConstantsAssumption
  <1> QED
    BY <1>1 DEF IInv, TypeOK, PairingStep, GuessesAreCounted, KeyIsLatest, InHandshake

\* Sessions start, expire, fail and complete: none of this puts one in handshake.
LEMMA SessionStep ==
    ASSUME IInv, session' \in Session \cup {None},
           failed' = failed, ipFailures' = ipFailures, offers' = offers,
           wrongPins' = wrongPins \/ wrongPins' = 0,
           session' # None /\ wrongPins' # 0 => session # None,
           InHandshake' => InHandshake /\ session'.key = session.key
    PROVE  PairingStep
  <1>1. GuessesAreCounted' /\ wrongPins' \in Nat
    BY DEF IInv, TypeOK, GuessesAreCounted
  <1>2. KeyIsLatest'
    BY DEF IInv, KeyIsLatest
  <1> QED BY <1>1, <1>2 DEF IInv, TypeOK, PairingStep

\* A wrong PIN counts once against its address and once against the session.
LEMMA WrongPinStep ==
    ASSUME IInv, NEW ip \in Ips, PairingInitWrongPin(ip)
    PROVE  PairingStep
  <1> USE ConstantsAssumption DEF ConstantsAssumption
  <1>1. ipFailures' \in [Ips -> 0 .. MaxFailuresPerIp]
    <2>1. ipFailures[ip] + 1 \in 0 .. MaxFailuresPerIp
      BY DEF PairingInitWrongPin, isIpLocked, IInv, TypeOK
    <2> QED BY <2>1 DEF PairingInitWrongPin, RecordIpFailure, IInv, TypeOK
  <1>2. wrongPins' \in Nat /\ wrongPins' = wrongPins + 1
    BY DEF PairingInitWrongPin, IInv, TypeOK
  <1>3. CASE TooMany(failed + 1)
    <2>1. session' = None /\ failed' = 0 /\ offers' = offers
      BY <1>3 DEF PairingInitWrongPin
    <2> QED BY <1>1, <1>2, <2>1
            DEF IInv, TypeOK, PairingStep, GuessesAreCounted, KeyIsLatest, InHandshake
  <1>4. CASE ~TooMany(failed + 1)
    <2>1. session' = session /\ failed' = failed + 1 /\ offers' = offers
      BY <1>4 DEF PairingInitWrongPin
    <2>2. failed' \in 0 .. (MaxAttempts - 1)
      BY <1>4, <2>1 DEF TooMany, IInv, TypeOK
    <2>3. GuessesAreCounted'
      BY <1>2, <2>1 DEF IInv, TypeOK, GuessesAreCounted
    <2>4. KeyIsLatest'
      BY <2>1 DEF IInv, KeyIsLatest, InHandshake
    <2> QED BY <1>1, <1>2, <2>1, <2>2, <2>3, <2>4 DEF IInv, TypeOK, PairingStep
  <1> QED BY <1>3, <1>4

\* A handshake gets a key above all earlier ones.
LEMMA HandshakeStep ==
    ASSUME IInv, NEW n \in Nodes, NEW ip \in Ips, PairingInit(n, ip)
    PROVE  PairingStep
  <1> USE ConstantsAssumption DEF ConstantsAssumption
  <1>1. PICK k \in Handshakes :
            /\ \A o \in offers : o[2] < k
            /\ session' = [state |-> "handshake", expired |-> FALSE, key |-> k]
            /\ offers' = offers \cup {<<n, k>>}
    BY DEF PairingInit
  <1>2. failed' = 0 /\ wrongPins' = 0 /\ ipFailures' = ipFailures
    BY DEF PairingInit
  <1>3. session' \in Session
    BY <1>1 DEF Session
  <1>4. \A o \in offers' : o[2] <= k
    <2>1. \A o \in offers : o[2] \in Nat
      BY DEF IInv, TypeOK
    <2> QED BY <1>1, <2>1
  <1>5. KeyIsLatest'
    BY <1>1, <1>4 DEF KeyIsLatest
  <1>6. GuessesAreCounted' /\ failed' \in 0 .. (MaxAttempts - 1) /\ wrongPins' \in Nat
    BY <1>2 DEF GuessesAreCounted
  <1>7. offers' \subseteq Nodes \X Handshakes
    BY <1>1 DEF IInv, TypeOK
  <1> QED BY <1>2, <1>3, <1>5, <1>6, <1>7 DEF IInv, TypeOK, PairingStep

-----------------------------------------------------------------------------
\* The parts of a step make up the invariant.
LEMMA Assemble ==
    ASSUME IInv, NEW S, TokenStep(S), StoreStep(S), PairingStep,
           admitted' \subseteq Tokens \X Nodes, AdmittedIsWritten'
    PROVE  IInv'
  <1>1. JoinedIsAccounted'
    BY Accounted
  <1>2. TypeOK'
    BY DEF TypeOK, TokenStep, StoreStep, PairingStep
  <1> QED BY <1>1, <1>2 DEF IInv, StoreStep, PairingStep

LEMMA AssembleQuiet ==
    ASSUME IInv, TokenStep({}), StoreStep({}), PairingStep, admitted' = admitted
    PROVE  IInv'
  BY WrittenStays, Assemble DEF IInv, TypeOK

\* A join, however far it comes: the nodes of S are in the store afterwards and
\* only the joining one is admitted.
LEMMA JoinStep ==
    ASSUME IInv, NEW t \in Tokens, NEW n \in Nodes, NEW completed,
           Valid(t), MarkUsed(t, n, completed), StoreStep({n}), PairingStep,
           admitted' = admitted \cup {<<t, n>>} \/ admitted' = admitted
    PROVE  IInv'
  <1>1. TokenStep({n})
    BY MarkUsedTokenStep DEF IInv
  <1>2. token'[t] # None /\ token'[t].used = n /\ ~token'[t].revoked
    BY MarkUsedEffect DEF IInv
  <1>3. ASSUME NEW x \in admitted
        PROVE  token'[x[1]] # None /\ token'[x[1]].used = x[2] /\ ~token'[x[1]].revoked
    BY <1>1, ConstantsAssumption
       DEF ConstantsAssumption, IInv, TypeOK, AdmittedIsWritten, TokenStep
  <1>4. AdmittedIsWritten'
    BY <1>2, <1>3 DEF AdmittedIsWritten
  <1>5. admitted' \subseteq Tokens \X Nodes
    BY DEF IInv, TypeOK
  <1> QED BY <1>1, <1>4, <1>5, Assemble

\* Every step keeps the invariant.
LEMMA NextIInv == IInv /\ [Next]_vars => IInv'
  <1> SUFFICES ASSUME IInv, [Next]_vars PROVE IInv'
    OBVIOUS
  <1>0. OwnCa \in Cas /\ \A n \in Nodes : CaOf[n] \in Cas /\ CaOf[n] # OwnCa
    BY ConstantsAssumption DEF ConstantsAssumption, Cas
  <1>t. TypeOK
    BY DEF IInv
  <1>1. ASSUME NEW t \in Tokens, CreateToken(t) \/ TokenExpires(t) \/ RevokeToken(t)
        PROVE  IInv'
    <2>1. UNCHANGED <<store, pairing, admitted>>
      BY <1>1 DEF CreateToken, TokenExpires, RevokeToken
    <2> QED BY <1>1, <1>t, <2>1, TableTokenStep, StoreRests, PairingRests, AssembleQuiet
  <1>2. ASSUME NEW t \in Tokens, NEW n \in Nodes, Join(t, n)
        PROVE  IInv'
    <2>1. StoreStep({n})
      BY <1>0, <1>2, <1>t, AddPeerEffect DEF Join
    <2>2. PairingStep
      BY <1>2, PairingRests DEF Join
    <2> QED BY <1>2, <2>1, <2>2, JoinStep DEF Join
  <1>3. ASSUME NEW t \in Tokens, NEW n \in Nodes, JoinCertFails(t, n)
        PROVE  IInv'
    <2>1. StoreStep({n}) /\ PairingStep
      BY <1>3, StoreRests, PairingRests DEF JoinCertFails, StoreStep
    <2> QED BY <1>3, <2>1, JoinStep DEF JoinCertFails
  <1>4. ASSUME NEW t \in Tokens, NEW n \in Nodes, JoinSaveFails(t, n)
        PROVE  IInv'
    <2>1. StoreStep({n})
      BY <1>0, <1>4, <1>t, AddPeerThrowsEffect DEF JoinSaveFails
    <2>2. PairingStep
      BY <1>4, PairingRests DEF JoinSaveFails
    <2> QED BY <1>4, <2>1, <2>2, JoinStep DEF JoinSaveFails
  <1>5. ASSUME NEW t \in Tokens, NEW n \in Nodes, JoinCrashes(t, n)
        PROVE  IInv'
    <2>1. PICK content \in Torn(n, OwnCa) :
            /\ Restart(content)
            /\ admitted' = admitted \cup {<<t, n>>} \/ admitted' = admitted
      BY <1>5 DEF JoinCrashes
    <2>2. StoreStep({n})
      BY <1>0, <1>t, <2>1, TornRestart
    <2>3. PairingStep
      BY <1>0, <1>t, <2>1, TornRestart, RestartPairing
    <2> QED BY <1>5, <2>1, <2>2, <2>3, JoinStep DEF JoinCrashes
  <1>6. ASSUME SessionExpires \/ PairingStart \/ PairingInitRefused
        PROVE  IInv'
    <2>1. UNCHANGED <<token, store, admitted>>
      BY <1>6 DEF SessionExpires, PairingStart, PairingInitRefused
    <2>2. PairingStep
      <3>1. CASE SessionExpires
        BY <1>t, <3>1, SessionStep DEF SessionExpires, TypeOK, Session, InHandshake
      <3>2. CASE PairingStart
        BY <1>t, <3>2, SessionStep DEF PairingStart, TypeOK, Session, InHandshake
      <3>3. CASE PairingInitRefused
        BY <1>t, <3>3, SessionStep DEF PairingInitRefused, TypeOK, InHandshake
      <3> QED BY <1>6, <3>1, <3>2, <3>3
    <2> QED BY <1>t, <2>1, <2>2, TableRests, StoreRests, AssembleQuiet
  <1>7. ASSUME DaemonRestarts
        PROVE  IInv'
    <2>1. Restart(file) /\ UNCHANGED <<token, admitted>>
      BY <1>7 DEF DaemonRestarts
    <2>2. StoreStep({})
      BY <1>t, <2>1, RestartEffect DEF TypeOK, Ours
    <2>3. PairingStep
      BY <2>1, RestartPairing DEF Restart
    <2> QED BY <1>t, <2>1, <2>2, <2>3, TableRests, AssembleQuiet
  <1>8. ASSUME NEW ip \in Ips, LockoutEnds(ip) \/ PairingInitWrongPin(ip)
        PROVE  IInv'
    <2>1. UNCHANGED <<token, store, admitted>>
      BY <1>8 DEF LockoutEnds, PairingInitWrongPin
    <2>2. ASSUME LockoutEnds(ip) PROVE PairingStep
      <3>1. ipFailures' \in [Ips -> 0 .. MaxFailuresPerIp]
        BY <1>t, <2>2, ConstantsAssumption DEF ConstantsAssumption, LockoutEnds, TypeOK
      <3> QED BY <2>2, <3>1 DEF LockoutEnds, PairingStep, IInv, TypeOK,
                 GuessesAreCounted, KeyIsLatest, InHandshake
    <2> QED BY <1>8, <1>t, <2>1, <2>2, WrongPinStep, TableRests, StoreRests, AssembleQuiet
  <1>9. ASSUME NEW n \in Nodes, NEW ip \in Ips, PairingInit(n, ip) \/ PairingInitThrows(n, ip)
        PROVE  IInv'
    <2>1. UNCHANGED <<token, store, admitted>>
      BY <1>9 DEF PairingInit, PairingInitThrows
    <2>2. ASSUME PairingInitThrows(n, ip) PROVE PairingStep
      <3>1. failed' \in 0 .. (MaxAttempts - 1) /\ wrongPins' \in Nat /\ wrongPins' <= failed'
        BY <2>2, ConstantsAssumption DEF ConstantsAssumption, PairingInitThrows
      <3> QED BY <2>2, <3>1 DEF PairingInitThrows, PairingStep, IInv, TypeOK,
                 GuessesAreCounted, KeyIsLatest, InHandshake
    <2> QED BY <1>9, <1>t, <2>1, <2>2, HandshakeStep, TableRests, StoreRests, AssembleQuiet
  <1>10. ASSUME NEW o \in offers, PairingConfirm(o)
         PROVE  IInv'
    <2>1. o[1] \in Nodes
      BY <1>t DEF TypeOK
    <2>2. StoreStep({})
      BY <1>0, <1>10, <1>t, <2>1, AddPeerEffect DEF PairingConfirm
    <2>3. PairingStep
      BY <1>10, <1>t, SessionStep DEF PairingConfirm, TypeOK, Session, InHandshake
    <2> QED BY <1>10, <1>t, <2>2, <2>3, TableRests, AssembleQuiet DEF PairingConfirm
  <1>11. ASSUME PairingConfirmUndecryptable
         PROVE  IInv'
    <2>1. PairingStep
      BY <1>11, <1>t, SessionStep DEF PairingConfirmUndecryptable, TypeOK, Session, InHandshake
    <2> QED BY <1>11, <1>t, <2>1, TableRests, StoreRests, AssembleQuiet
            DEF PairingConfirmUndecryptable
  <1>12. ASSUME NEW o \in offers, PairingConfirmSaveFails(o)
         PROVE  IInv'
    <2>1. o[1] \in Nodes
      BY <1>t DEF TypeOK
    <2>2. StoreStep({})
      BY <1>0, <1>12, <1>t, <2>1, AddPeerThrowsEffect DEF PairingConfirmSaveFails
    <2>3. PairingStep
      BY <1>12, <1>t, SessionStep DEF PairingConfirmSaveFails, TypeOK, Session, InHandshake
    <2> QED BY <1>12, <1>t, <2>2, <2>3, TableRests, AssembleQuiet
            DEF PairingConfirmSaveFails
  <1>13. ASSUME NEW o \in offers, PairingConfirmCrashes(o)
         PROVE  IInv'
    <2>1. PICK content \in Torn(o[1], CaOf[o[1]]) : Restart(content)
      BY <1>13 DEF PairingConfirmCrashes
    <2>2. o[1] \in Nodes
      BY <1>t DEF TypeOK
    <2>3. StoreStep({}) /\ PairingStep
      BY <1>0, <1>t, <2>1, <2>2, TornRestart, RestartPairing
    <2> QED BY <1>13, <1>t, <2>3, TableRests, AssembleQuiet DEF PairingConfirmCrashes
  <1>14. CASE UNCHANGED vars
    BY <1>14, <1>t, TableRests, StoreRests, PairingRests, AssembleQuiet DEF vars
  <1> QED BY <1>1, <1>2, <1>3, <1>4, <1>5, <1>6, <1>7, <1>8, <1>9, <1>10, <1>11, <1>12,
             <1>13, <1>14 DEF Next

-----------------------------------------------------------------------------
\* The inductive invariant holds throughout.
LEMMA Invariance == Spec => []IInv
  BY InitIInv, NextIInv, PTL DEF Spec

\* Tokens, peers, sessions and counters keep their types, and the failures of
\* an address stop at the limit that locks it (token-store.ts, pairing.ts,
\* pairing-handler.ts).
THEOREM TypeCorrect == Spec => []TypeOK
  BY Invariance, PTL DEF IInv

\* A token brings at most one node into the mesh, whatever joins fail or die
\* half way (token-api.ts consumes it first).
THEOREM TokenAdmitsOneHolds == Spec => []TokenAdmitsOne
  <1>1. IInv => TokenAdmitsOne
    BY DEF IInv, AdmittedIsWritten, TokenAdmitsOne
  <1> QED BY <1>1, Invariance, PTL

\* No node came in with a token that is shown as revoked (token-store.ts).
THEOREM RevokedAdmittedNobodyHolds == Spec => []RevokedAdmittedNobody
  <1>1. IInv => RevokedAdmittedNobody
    BY DEF IInv, AdmittedIsWritten, RevokedAdmittedNobody
  <1> QED BY <1>1, Invariance, PTL

\* Every peer that shares our CA is accounted for by a used token, in memory
\* and in the file, after any crash (token-api.ts, pairing.ts).
THEOREM JoinedIsAccountedHolds == Spec => []JoinedIsAccounted
  BY Invariance, PTL DEF IInv

\* Whenever the last change of the store reached it, the server's TLS context
\* trusts exactly the CAs of the paired peers (trust-store.ts, agent-card.ts).
THEOREM TrustFollowsPairingHolds == Spec => []TrustFollowsPairing
  BY Invariance, PTL DEF IInv

\* Unless the last save failed, a restart finds the same peers (pairing.ts).
THEOREM RestartKeepsPeersHolds == Spec => []RestartKeepsPeers
  BY Invariance, PTL DEF IInv

\* A waiting session has seen fewer wrong PINs in a row than the limit, although
\* failedAttempts outlives sessions (pairing-handler.ts).
THEOREM PinGuessesAreBounded == Spec => []PinGuessesBounded
  <1>1. IInv => PinGuessesBounded
    BY ConstantsAssumption
       DEF ConstantsAssumption, IInv, TypeOK, GuessesAreCounted, PinGuessesBounded, Waiting,
           Cleaned
  <1> QED BY <1>1, Invariance, PTL

\* A CA enters the peers by pairing only from the node of the latest handshake
\* (pairing-handler.ts, /pairing/confirm).
THEOREM OnlyLatestHandshakePairsHolds == Spec => OnlyLatestHandshakePairs
  <1> DEFINE Pairs(n) ==
          peers[n] # CaOf[n] /\ peers'[n] = CaOf[n] =>
             \/ \E o \in offers : o[1] = n /\ \A q \in offers : q[2] <= o[2]
             \/ file # None /\ file[n] = CaOf[n]
  <1>1. ASSUME IInv, [Next]_vars, NEW n \in Nodes PROVE Pairs(n)
    <2>0. TypeOK /\ CaOf[n] # None /\ CaOf[n] # OwnCa
      BY <1>1, ConstantsAssumption DEF ConstantsAssumption, IInv
    <2>1. CASE peers' = peers
      BY <2>1
    <2>2. ASSUME NEW m \in Nodes, NEW ca, peers' = [peers EXCEPT ![m] = ca],
                 ca = OwnCa \/ \E o \in offers : o[1] = m /\ \A q \in offers : q[2] <= o[2]
          PROVE  Pairs(n)
      BY <2>0, <2>2 DEF TypeOK, PeerMap
    <2>3. ASSUME NEW content, Restart(content), content = file \/ content = None
          PROVE  Pairs(n)
      BY <2>0, <2>3 DEF Restart, NoPeers
    <2>4. ASSUME NEW o \in offers, InHandshake, Decrypts(o)
          PROVE  o[1] \in Nodes /\ \A q \in offers : q[2] <= o[2]
      BY <1>1, <2>0, <2>4 DEF IInv, KeyIsLatest, Decrypts, TypeOK
    <2>5. ASSUME NEW t \in Tokens, NEW m \in Nodes, JoinCrashes(t, m)
          PROVE  Pairs(n)
      <3>1. PICK content \in Torn(m, OwnCa) : Restart(content)
        BY <2>5 DEF JoinCrashes
      <3>2. CASE content = file \/ content = None
        BY <2>3, <3>1, <3>2
      <3>3. CASE content = [peers EXCEPT ![m] = OwnCa] /\ content # None
        BY <2>2, <3>1, <3>3 DEF Restart
      <3> QED BY <3>1, <3>2, <3>3 DEF Torn
    <2>6. ASSUME NEW o \in offers, PairingConfirmCrashes(o)
          PROVE  Pairs(n)
      <3>1. PICK content \in Torn(o[1], CaOf[o[1]]) : Restart(content)
        BY <2>6 DEF PairingConfirmCrashes
      <3>2. CASE content = file \/ content = None
        BY <2>3, <3>1, <3>2
      <3>3. CASE content = [peers EXCEPT ![o[1]] = CaOf[o[1]]] /\ content # None
        BY <2>2, <2>4, <2>6, <3>1, <3>3 DEF Restart, PairingConfirmCrashes
      <3> QED BY <3>1, <3>2, <3>3 DEF Torn
    <2>7. ASSUME NEW o \in offers, PairingConfirm(o) \/ PairingConfirmSaveFails(o)
          PROVE  Pairs(n)
      BY <2>2, <2>4, <2>7 DEF PairingConfirm, PairingConfirmSaveFails, AddPeer, AddPeerThrows
    <2>8. ASSUME NEW t \in Tokens, NEW m \in Nodes, Join(t, m) \/ JoinSaveFails(t, m)
          PROVE  Pairs(n)
      BY <2>2, <2>8 DEF Join, JoinSaveFails, AddPeer, AddPeerThrows
    <2>9. CASE DaemonRestarts
      BY <2>3, <2>9 DEF DaemonRestarts
    <2> HIDE DEF Pairs
    <2> QED
      BY <1>1, <2>1, <2>5, <2>6, <2>7, <2>8, <2>9
         DEF Next, vars, store, CreateToken, TokenExpires, RevokeToken, JoinCertFails,
             SessionExpires, PairingStart, PairingInitRefused, LockoutEnds,
             PairingInitWrongPin, PairingInit, PairingInitThrows, PairingConfirmUndecryptable
  <1>2. IInv /\ [Next]_vars => \A n \in Nodes : Pairs(n)
    BY <1>1
  <1> QED BY <1>2, Invariance, PTL DEF Spec, OnlyLatestHandshakePairs
=============================================================================
