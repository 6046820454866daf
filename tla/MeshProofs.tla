----------------------------- MODULE MeshProofs -----------------------------
(***************************************************************************)
(* Proofs about Mesh, for any PeerIDs, agent URIs, hosts and number of     *)
(* MeshPeer objects.  TypeOK is not inductive: that a missed beat keeps    *)
(* the count within the threshold needs to know that an entry which is     *)
(* online, or whose health check is under way, is still below it, and that *)
(* no entry has two checks under way.                                      *)
(***************************************************************************)
EXTENDS Mesh, FiniteSetTheorems, TLAPS

Probed(o) == \E a \in AgentIds : <<a, o>> \in probes

\* An entry that can still miss a beat is below the threshold.
BelowThreshold ==
    \A o \in Objects : obj[o].status = "online" \/ Probed(o)
                          => obj[o].missedBeats < MissedBeatsThreshold

\* An entry is checked under one key at a time.
ProbedOnce ==
    \A a, b \in AgentIds, o \in Objects :
        <<a, o>> \in probes /\ <<b, o>> \in probes => a = b

IInv == TypeOK /\ StoredUnderOwnId /\ VerifiedIsBound /\ BelowThreshold /\ ProbedOnce

\* Entries under different keys are different objects.
LEMMA KeysAreUnique ==
    ASSUME TypeOK, StoredUnderOwnId, NEW a \in AgentIds, NEW b \in AgentIds,
           peers[a] # None, peers[a] = peers[b]
    PROVE  a = b
  BY DEF StoredUnderOwnId

\* The objects of the table are objects.
LEMMA EntryType ==
    ASSUME TypeOK, NEW a \in AgentIds, peers[a] # None
    PROVE  peers[a] \in Objects /\ obj[peers[a]] \in MeshPeer
  BY DEF TypeOK

LEMMA NewPeerType ==
    ASSUME NEW d \in DiscoveredPeer
    PROVE  /\ NewPeer(d) \in MeshPeer /\ NewPeer(d).agentId = d.agentId
           /\ ~NewPeer(d).peerIdVerified /\ NewPeer(d).missedBeats = 0
           /\ d.agentId \in AgentIds /\ d.host \in Hosts /\ d.p2pPeerId \in PeerIds \cup {None}
  BY ConstantsAssumption DEF ConstantsAssumption, DiscoveredPeer, NewPeer, MeshPeer

LEMMA InitIInv == Init => IInv
  <1> SUFFICES ASSUME Init PROVE IInv
    OBVIOUS
  <1> DEFINE d == CHOOSE x \in DiscoveredPeer : TRUE
  <1>1. \E x \in DiscoveredPeer : TRUE
    <2>1. PICK a \in AgentIds, h \in Hosts : TRUE
      BY ConstantsAssumption DEF ConstantsAssumption
    <2>2. [agentId |-> a, host |-> h, p2pPeerId |-> None] \in DiscoveredPeer
      BY <2>1 DEF DiscoveredPeer
    <2> QED BY <2>2
  <1>2. d \in DiscoveredPeer
    BY <1>1
  <1> HIDE DEF d
  <1>3. obj = [o \in Objects |-> NewPeer(d)]
    BY DEF Init, d
  <1>4. obj \in [Objects -> MeshPeer] /\ \A o \in Objects : obj[o].missedBeats = 0
    BY <1>2, <1>3, NewPeerType
  <1>5. TypeOK
    BY <1>4 DEF Init, TypeOK
  <1>6. StoredUnderOwnId /\ VerifiedIsBound /\ ProbedOnce
    BY DEF Init, StoredUnderOwnId, VerifiedIsBound, ProbedOnce
  <1>7. BelowThreshold
    BY <1>4, ConstantsAssumption DEF ConstantsAssumption, BelowThreshold
  <1> QED BY <1>5, <1>6, <1>7 DEF IInv

-----------------------------------------------------------------------------
(* Operators on one object. *)

LEMMA HeardEffect ==
    ASSUME NEW p \in MeshPeer
    PROVE  /\ Heard(p) \in MeshPeer /\ Heard(p).missedBeats = 0
           /\ Heard(p).agentId = p.agentId /\ Heard(p).peerId = p.peerId
           /\ Heard(p).peerIdVerified = p.peerIdVerified
  <1>1. 0 \in 0..MissedBeatsThreshold
    BY ConstantsAssumption DEF ConstantsAssumption
  <1> QED BY <1>1 DEF Heard, MeshPeer

\* A card may change an unverified PeerID; a verified one only by losing its
\* verification.
LEMMA UpdateAgentCardEffect ==
    ASSUME NEW p \in MeshPeer, NEW card \in AgentIds, NEW pid \in PeerIds \cup {None}
    PROVE  /\ UpdateAgentCard(p, card, pid) \in MeshPeer
           /\ UpdateAgentCard(p, card, pid).agentId = p.agentId
           /\ UpdateAgentCard(p, card, pid).missedBeats = p.missedBeats
           /\ UpdateAgentCard(p, card, pid).status = p.status
           /\ UpdateAgentCard(p, card, pid).peerIdVerified =>
                 p.peerIdVerified /\ UpdateAgentCard(p, card, pid).peerId = p.peerId
  BY DEF UpdateAgentCard, MeshPeer

LEMMA ConfirmEffect ==
    ASSUME NEW p \in MeshPeer, NEW d \in DiscoveredPeer
    PROVE  /\ ConfirmPeerDiscovery(p, d) \in MeshPeer
           /\ ConfirmPeerDiscovery(p, d).agentId = p.agentId
           /\ ConfirmPeerDiscovery(p, d).peerId = p.peerId
           /\ ConfirmPeerDiscovery(p, d).peerIdVerified = p.peerIdVerified
           /\ ConfirmPeerDiscovery(p, d).missedBeats = 0
  BY HeardEffect, NewPeerType DEF ConfirmPeerDiscovery, MeshPeer

\* Objects may change as long as they keep their id, their verified PeerID and
\* their missed beats or fewer.
Keeps(p, q) ==
    /\ q \in MeshPeer /\ q.agentId = p.agentId
    /\ q.peerIdVerified => p.peerIdVerified /\ q.peerId = p.peerId
    /\ q.missedBeats = 0 \/ (q.missedBeats = p.missedBeats /\ q.status \in {p.status, "offline"})

\* A step that changes the objects this way, and takes no check on.
LEMMA KeepingStep ==
    ASSUME IInv, obj' \in [Objects -> MeshPeer],
           \A o \in Objects : Keeps(obj[o], obj'[o]),
           peers' = peers, bound' = bound, probes' \subseteq probes,
           fetches' \subseteq DiscoveredPeer
    PROVE  IInv'
  <1> USE DEF IInv
  <1>1. TypeOK'
    BY DEF TypeOK
  <1>2. StoredUnderOwnId'
    BY DEF TypeOK, StoredUnderOwnId, Keeps
  <1>3. VerifiedIsBound'
    BY DEF TypeOK, VerifiedIsBound, Keeps
  <1>4. BelowThreshold'
    <2> SUFFICES ASSUME NEW o \in Objects, obj'[o].status = "online" \/ Probed(o)'
                 PROVE  obj'[o].missedBeats < MissedBeatsThreshold
      BY DEF BelowThreshold
    <2>1. Keeps(obj[o], obj'[o]) /\ (Probed(o)' => Probed(o))
      BY DEF Probed
    <2>2. CASE obj'[o].missedBeats = 0
      BY <2>2, ConstantsAssumption DEF ConstantsAssumption
    <2>3. CASE obj'[o].missedBeats = obj[o].missedBeats /\ obj'[o].status \in {obj[o].status, "offline"}
      BY <2>1, <2>3 DEF BelowThreshold
    <2> QED BY <2>1, <2>2, <2>3 DEF Keeps
  <1>5. ProbedOnce'
    BY DEF ProbedOnce
  <1> QED BY <1>1, <1>2, <1>3, <1>4, <1>5
-----------------------------------------------------------------------------
(* Discovery. *)

LEMMA FreeObject ==
    ASSUME NEW o \in FreeObjects
    PROVE  /\ o \in Objects
           /\ \A a \in AgentIds : peers[a] # o /\ <<a, o>> \notin probes
  BY DEF FreeObjects, InUse

\* addPeer: an entry that is known is heard from, an unknown one is a new
\* object that nothing refers to.
LEMMA AddPeerStep ==
    ASSUME IInv, NEW d \in DiscoveredPeer, NEW o, NEW upd,
           peers[d.agentId] = None => o \in FreeObjects,
           peers' = AddPeer(d, o).peers, bound' = AddPeer(d, o).bound,
           obj' = [AddPeer(d, o).obj EXCEPT ![AddPeer(d, o).peers[d.agentId]] = upd],
           \A p \in MeshPeer :
              p = AddPeer(d, o).obj[AddPeer(d, o).peers[d.agentId]] => Keeps(p, upd),
           probes' = probes, fetches' \subseteq DiscoveredPeer
    PROVE  IInv'
  <1> DEFINE a == d.agentId
  <1>0. a \in AgentIds
    BY NewPeerType
  <1> HIDE DEF a
  <1>1. CASE peers[a] # None
    <2>1. peers[a] \in Objects /\ obj[peers[a]] \in MeshPeer
      BY <1>0, <1>1, EntryType DEF IInv
    <2>2. /\ peers' = peers /\ bound' = bound
          /\ obj' = [[obj EXCEPT ![peers[a]] = Heard(@)] EXCEPT ![peers[a]] = upd]
          /\ Keeps(Heard(obj[peers[a]]), upd)
      BY <1>1, <2>1, HeardEffect DEF AddPeer, a, IInv, TypeOK
    <2>3. /\ upd \in MeshPeer /\ upd.missedBeats = 0
          /\ Keeps(obj[peers[a]], upd)
      BY <2>1, <2>2, HeardEffect DEF Keeps
    <2>4. obj' = [obj EXCEPT ![peers[a]] = upd]
      BY <2>1, <2>2 DEF IInv, TypeOK
    <2>5. \A x \in Objects : Keeps(obj[x], obj'[x])
      BY <2>1, <2>3, <2>4 DEF IInv, TypeOK, Keeps
    <2>6. obj' \in [Objects -> MeshPeer]
      BY <2>3, <2>4 DEF IInv, TypeOK
    <2> QED BY <2>2, <2>5, <2>6, KeepingStep
  <1>2. CASE peers[a] = None
    <2>1. o \in Objects /\ \A b \in AgentIds : peers[b] # o /\ <<b, o>> \notin probes
      BY <1>2, FreeObject DEF a
    <2>2. /\ peers' = [peers EXCEPT ![a] = o] /\ bound' = {b \in bound : b[1] # o}
          /\ obj' = [[obj EXCEPT ![o] = NewPeer(d)] EXCEPT ![o] = upd]
          /\ Keeps(NewPeer(d), upd)
      BY <1>0, <1>2, <2>1, NewPeerType DEF AddPeer, a, IInv, TypeOK
    <2>3. /\ upd \in MeshPeer /\ upd.agentId = a /\ ~upd.peerIdVerified
          /\ upd.missedBeats = 0
      BY <2>2, NewPeerType DEF Keeps, a
    <2>4. obj' = [obj EXCEPT ![o] = upd]
      BY <2>1, <2>2 DEF IInv, TypeOK
    <2>5. TypeOK'
      <3>1. peers' \in [AgentIds -> Objects \cup {None}]
        BY <2>1, <2>2 DEF IInv, TypeOK
      <3>3. obj' \in [Objects -> MeshPeer]
        BY <2>1, <2>3, <2>4 DEF IInv, TypeOK
      <3>2. bound' \subseteq Objects \X PeerIds \X Outcomes
        BY <2>2 DEF IInv, TypeOK
      <3> QED BY <3>1, <3>2, <3>3 DEF IInv, TypeOK
    <2>6. StoredUnderOwnId' /\ VerifiedIsBound'
      <3> SUFFICES ASSUME NEW b \in AgentIds, peers'[b] # None
                   PROVE  /\ obj'[peers'[b]].agentId = b
                          /\ obj'[peers'[b]].peerIdVerified =>
                                \E outcome \in Outcomes :
                                   <<peers'[b], obj'[peers'[b]].peerId, outcome>> \in bound'
        BY DEF StoredUnderOwnId, VerifiedIsBound
      <3>1. CASE b = a
        BY <1>0, <2>1, <2>2, <2>3, <2>4, <3>1 DEF IInv, TypeOK
      <3>2. CASE b # a
        <4>1. peers'[b] = peers[b] /\ peers[b] # o /\ peers[b] \in Objects
          BY <2>1, <2>2, <3>2 DEF IInv, TypeOK
        <4>2. obj'[peers'[b]] = obj[peers[b]]
          BY <2>4, <4>1 DEF IInv, TypeOK
        <4> QED BY <2>2, <4>1, <4>2 DEF IInv, StoredUnderOwnId, VerifiedIsBound
      <3> QED BY <3>1, <3>2
    <2>7. BelowThreshold'
      <3> SUFFICES ASSUME NEW x \in Objects, obj'[x].status = "online" \/ Probed(x)'
                   PROVE  obj'[x].missedBeats < MissedBeatsThreshold
        BY DEF BelowThreshold
      <3>1. CASE x = o
        BY <2>1, <2>3, <2>4, <3>1, ConstantsAssumption DEF ConstantsAssumption, IInv, TypeOK
      <3>2. CASE x # o
        BY <2>4, <3>2 DEF IInv, TypeOK, BelowThreshold, Probed
      <3> QED BY <3>1, <3>2
    <2>8. ProbedOnce'
      BY DEF IInv, ProbedOnce
    <2> QED BY <2>5, <2>6, <2>7, <2>8 DEF IInv
  <1> QED BY <1>1, <1>2

LEMMA OnPeerFoundStep ==
    ASSUME IInv, NEW d \in DiscoveredPeer, OnPeerFound(d)
    PROVE  IInv'
  <1> DEFINE o == CHOOSE x \in FreeObjects : TRUE
             r == AddPeer(d, o)
             a == d.agentId
  <1>0. a \in AgentIds
    BY NewPeerType
  <1>1. peers[a] = None => o \in FreeObjects
    BY DEF OnPeerFound
  <1>2. peers' = r.peers /\ bound' = r.bound /\ obj' = r.obj /\ probes' = probes
    BY DEF OnPeerFound
  <1>3. fetches' \subseteq DiscoveredPeer
    BY DEF OnPeerFound, IInv, TypeOK
  <1> HIDE DEF o
  <1>4. r.peers[a] \in Objects /\ r.obj \in [Objects -> MeshPeer]
    <2>1. CASE peers[a] # None
      <3>1. peers[a] \in Objects /\ obj[peers[a]] \in MeshPeer
        BY <1>0, <2>1, EntryType DEF IInv
      <3> QED BY <2>1, <3>1, HeardEffect DEF AddPeer, IInv, TypeOK
    <2>2. CASE peers[a] = None
      <3>1. o \in Objects
        BY <1>1, <2>2, FreeObject
      <3> QED BY <1>0, <2>2, <3>1, NewPeerType DEF AddPeer, IInv, TypeOK
    <2> QED BY <2>1, <2>2
  <1> DEFINE upd == r.obj[r.peers[a]]
  <1>5. upd \in MeshPeer /\ Keeps(upd, upd)
    BY <1>4 DEF Keeps
  <1>6. obj' = [r.obj EXCEPT ![r.peers[a]] = upd]
    BY <1>2, <1>4
  <1>7. \A p \in MeshPeer : p = r.obj[r.peers[a]] => Keeps(p, upd)
    BY <1>5
  <1> QED BY <1>1, <1>2, <1>3, <1>6, <1>7, AddPeerStep

LEMMA ConnectStaticPeerStep ==
    ASSUME IInv, NEW d \in DiscoveredPeer, NEW pid \in PeerIds \cup {None},
           ConnectStaticPeer(d, pid)
    PROVE  IInv'
  <1> DEFINE o == CHOOSE x \in FreeObjects : TRUE
             r == AddPeer(d, o)
             a == d.agentId
             upd == UpdateAgentCard(r.obj[r.peers[a]], a, pid)
  <1>0. a \in AgentIds
    BY NewPeerType
  <1>1. peers[a] = None => o \in FreeObjects
    BY DEF ConnectStaticPeer
  <1>2. peers' = r.peers /\ bound' = r.bound /\ probes' = probes /\ fetches' = fetches
    BY DEF ConnectStaticPeer
  <1>3. obj' = [r.obj EXCEPT ![r.peers[a]] = upd]
    BY DEF ConnectStaticPeer
  <1>4. \A p \in MeshPeer : p = r.obj[r.peers[a]] => Keeps(p, upd)
    BY <1>0, UpdateAgentCardEffect DEF Keeps
  <1>5. fetches' \subseteq DiscoveredPeer
    BY <1>2 DEF IInv, TypeOK
  <1> HIDE DEF o
  <1> QED BY <1>1, <1>2, <1>3, <1>4, <1>5, AddPeerStep

LEMMA CardFetchedStep ==
    ASSUME IInv, NEW d \in DiscoveredPeer, NEW pid \in PeerIds \cup {None},
           CardFetched(d, pid)
    PROVE  IInv'
  <1> DEFINE a == d.agentId
  <1>0. a \in AgentIds
    BY NewPeerType
  <1>1. /\ peers' = peers /\ bound' = bound /\ probes' = probes
        /\ fetches' \subseteq DiscoveredPeer
    BY DEF CardFetched, IInv, TypeOK
  <1>2. CASE peers[a] = None
    BY <1>1, <1>2, KeepingStep DEF CardFetched, IInv, TypeOK, Keeps
  <1>3. CASE peers[a] # None
    <2> DEFINE p == obj[peers[a]]
               u == UpdateAgentCard(p, a, pid)
               q == ConfirmPeerDiscovery(u, d)
    <2>1. peers[a] \in Objects /\ p \in MeshPeer
      BY <1>0, <1>3, EntryType DEF IInv
    <2>2. u \in MeshPeer /\ u.agentId = p.agentId
          /\ (u.peerIdVerified => p.peerIdVerified /\ u.peerId = p.peerId)
      BY <1>0, <2>1, UpdateAgentCardEffect
    <2>3. obj' = [obj EXCEPT ![peers[a]] = q]
      BY <1>3 DEF CardFetched
    <2> HIDE DEF p, u
    <2>4. q \in MeshPeer /\ Keeps(p, q)
      BY <2>2, ConfirmEffect DEF Keeps
    <2> HIDE DEF q
    <2>5. obj' \in [Objects -> MeshPeer] /\ \A x \in Objects : Keeps(obj[x], obj'[x])
      BY <2>1, <2>3, <2>4 DEF IInv, TypeOK, Keeps, p
    <2> QED BY <1>1, <2>5, KeepingStep
  <1> QED BY <1>2, <1>3

-----------------------------------------------------------------------------
(* Heartbeat. *)

LEMMA CheckPeersStep == ASSUME IInv, CheckPeers PROVE IInv'
  <1>1. /\ peers' = peers /\ obj' = obj /\ fetches' = fetches /\ bound' = bound
        /\ \A a \in AgentIds, o \in Objects : <<a, o>> \in probes' =>
              peers[a] = o /\ peers[a] # None /\ obj[o].status # "offline"
        /\ probes' \subseteq AgentIds \X Objects
    BY DEF CheckPeers, IInv, TypeOK
  <1>2. TypeOK' /\ StoredUnderOwnId' /\ VerifiedIsBound'
    BY <1>1 DEF IInv, TypeOK, StoredUnderOwnId, VerifiedIsBound
  <1>3. BelowThreshold'
    <2>1. \A o \in Objects : obj[o].status \in {"online", "offline"}
      BY DEF IInv, TypeOK, MeshPeer
    <2> QED BY <1>1, <2>1 DEF IInv, BelowThreshold, Probed
  <1>4. ProbedOnce'
    BY <1>1, KeysAreUnique DEF IInv, ProbedOnce
  <1> QED BY <1>2, <1>3, <1>4 DEF IInv

LEMMA ProbeOkStep ==
    ASSUME IInv, NEW a \in AgentIds, NEW o \in Objects, ProbeOk(a, o)
    PROVE  IInv'
  <1>1. /\ peers' = peers /\ bound' = bound /\ probes' \subseteq probes
        /\ fetches' \subseteq DiscoveredPeer
    BY DEF ProbeOk, IInv, TypeOK
  <1>2. CASE peers[a] = None
    BY <1>1, <1>2, KeepingStep DEF ProbeOk, IInv, TypeOK, Keeps
  <1>3. CASE peers[a] # None
    <2>1. peers[a] \in Objects /\ obj[peers[a]] \in MeshPeer
      BY <1>3, EntryType DEF IInv
    <2>2. Keeps(obj[peers[a]], Heard(obj[peers[a]]))
      BY <2>1, HeardEffect DEF Keeps
    <2>3. obj' = [obj EXCEPT ![peers[a]] = Heard(obj[peers[a]])]
      BY <1>3 DEF ProbeOk
    <2>4. obj' \in [Objects -> MeshPeer] /\ \A x \in Objects : Keeps(obj[x], obj'[x])
      BY <2>1, <2>2, <2>3 DEF IInv, TypeOK, Keeps
    <2> QED BY <1>1, <2>4, KeepingStep
  <1> QED BY <1>2, <1>3

LEMMA ProbeFailedStep ==
    ASSUME IInv, NEW a \in AgentIds, NEW o \in Objects, ProbeFailed(a, o)
    PROVE  IInv'
  <1> DEFINE p == obj[o]
             q == HandleMissedBeat(p)
  <1>1. /\ peers' = peers /\ bound' = bound /\ fetches' = fetches
        /\ <<a, o>> \in probes /\ probes' = probes \ {<<a, o>>}
        /\ obj' = [obj EXCEPT ![o] = q]
    BY DEF ProbeFailed
  <1>2. p \in MeshPeer /\ p.missedBeats < MissedBeatsThreshold
    BY <1>1 DEF IInv, TypeOK, BelowThreshold, Probed
  <1>3. /\ q \in MeshPeer /\ q.agentId = p.agentId /\ q.peerId = p.peerId
        /\ q.peerIdVerified = p.peerIdVerified
        /\ q.status = "online" => q.missedBeats < MissedBeatsThreshold
    <2>1. p.missedBeats + 1 \in 0..MissedBeatsThreshold
      BY <1>2, ConstantsAssumption DEF ConstantsAssumption, MeshPeer
    <2>2. q \in MeshPeer /\ q.agentId = p.agentId /\ q.peerId = p.peerId
          /\ q.peerIdVerified = p.peerIdVerified /\ q.missedBeats = p.missedBeats + 1
      BY <1>2, <2>1 DEF HandleMissedBeat, MeshPeer
    <2>3. q.status = "online" => ~(p.missedBeats + 1 >= MissedBeatsThreshold)
      BY <1>2 DEF HandleMissedBeat, MeshPeer
    <2> QED BY <2>1, <2>2, <2>3, ConstantsAssumption DEF ConstantsAssumption
  <1> HIDE DEF q
  <1>4. \A x \in Objects : obj'[x] = IF x = o THEN q ELSE obj[x]
    BY <1>1 DEF IInv, TypeOK
  <1>5. TypeOK'
    BY <1>1, <1>3 DEF IInv, TypeOK
  <1>6. StoredUnderOwnId' /\ VerifiedIsBound'
    BY <1>1, <1>3, <1>4 DEF IInv, TypeOK, StoredUnderOwnId, VerifiedIsBound
  <1>7. BelowThreshold'
    <2> SUFFICES ASSUME NEW x \in Objects, obj'[x].status = "online" \/ Probed(x)'
                 PROVE  obj'[x].missedBeats < MissedBeatsThreshold
      BY DEF BelowThreshold
    <2>1. CASE x = o
      <3>1. ~Probed(x)'
        BY <1>1, <2>1 DEF Probed, IInv, ProbedOnce
      <3> QED BY <1>3, <1>4, <2>1, <3>1
    <2>2. CASE x # o
      BY <1>1, <1>4, <2>2 DEF IInv, BelowThreshold, Probed
    <2> QED BY <2>1, <2>2
  <1>8. ProbedOnce'
    BY <1>1 DEF IInv, ProbedOnce
  <1> QED BY <1>5, <1>6, <1>7, <1>8 DEF IInv
-----------------------------------------------------------------------------
(* POST /message. *)

\* Only(S) is a member of S, or None.
LEMMA OnlyEffect == ASSUME NEW S PROVE Only(S) \in S \cup {None}
  <1>1. Cardinality(S) = 1 => S # {}
    BY FS_EmptySet
  <1> QED BY <1>1 DEF Only

\* What markPeerIdVerified did when it found the entry t: t is an entry of the
\* table that is not bound to another PeerID; the other entries of a canonical
\* sender that carry the PeerID are gone, and t is stored under the sender if it
\* was not and the key was free.
Marked(m, t, p, s) ==
    /\ m.ok /\ m.target = t /\ t \in Objects
    /\ obj[t].agentId \in AgentIds /\ peers[obj[t].agentId] = t
    /\ obj[t].peerId \in {None, p}
    /\ m.removed = IF s = p THEN Duplicates(p, t) ELSE {}
    /\ m.rekeyed \in BOOLEAN
    /\ m.rekeyed => s = p /\ obj[t].agentId # s /\ peers[s] = None
    /\ m.peers = IF m.rekeyed
                 THEN [[a \in AgentIds |-> IF a \in m.removed THEN None ELSE peers[a]]
                          EXCEPT ![obj[t].agentId] = None, ![s] = t]
                 ELSE [a \in AgentIds |-> IF a \in m.removed THEN None ELSE peers[a]]
    /\ m.obj = [o \in Objects |->
                IF o = t
                THEN [obj[t] EXCEPT !.peerId = p, !.peerIdVerified = TRUE,
                                    !.agentId = IF m.rekeyed THEN s ELSE @]
                ELSE IF \E a \in m.removed : peers[a] = o
                THEN [obj[o] EXCEPT !.status = "offline"] ELSE obj[o]]

LEMMA MarkIsMarked ==
    ASSUME IInv, NEW p \in PeerIds, NEW s \in AgentIds, NEW h \in Hosts,
           MarkPeerIdVerified(p, s, h) # Unmarked
    PROVE  \E t \in Objects : Marked(MarkPeerIdVerified(p, s, h), t, p, s)
  <1> DEFINE m == MarkPeerIdVerified(p, s, h)
             known == DiscoveredTarget(p, s)
             t == IF known # None THEN known ELSE HostTarget(p, h)
             removed == IF s = p THEN Duplicates(p, t) ELSE {}
             prior == obj[t].agentId
             rekeyed == s = p /\ prior # s /\ known # None
             kept == [a \in AgentIds |-> IF a \in removed THEN None ELSE peers[a]]
  <1>1. known = None \/ (\E a \in AgentIds : peers[a] = known)
    <2>1. CASE peers[s] # None
      BY <2>1 DEF DiscoveredTarget
    <2>2. CASE peers[s] = None
      BY <2>2, OnlyEffect DEF DiscoveredTarget, InMap
    <2> QED BY <2>1, <2>2
  <1>2. HostTarget(p, h) = None \/ (\E a \in AgentIds : peers[a] = HostTarget(p, h))
    BY OnlyEffect DEF HostTarget, InMap
  <1>3. t # None /\ obj[t].peerId \in {None, p}
    BY DEF MarkPeerIdVerified
  <1>4. m = [ok |-> TRUE, target |-> t, removed |-> removed, rekeyed |-> rekeyed,
             peers |-> IF rekeyed THEN [kept EXCEPT ![prior] = None, ![s] = t] ELSE kept,
             obj |-> [o \in Objects |->
                IF o = t
                THEN [obj[t] EXCEPT !.peerId = p, !.peerIdVerified = TRUE,
                                    !.agentId = IF rekeyed THEN s ELSE @]
                ELSE IF \E a \in removed : peers[a] = o
                THEN [obj[o] EXCEPT !.status = "offline"] ELSE obj[o]]]
    BY <1>3 DEF MarkPeerIdVerified
  <1>5. PICK a \in AgentIds : peers[a] = t
    BY <1>1, <1>2, <1>3
  <1>6. t \in Objects /\ prior = a
    BY <1>3, <1>5 DEF IInv, TypeOK, StoredUnderOwnId
  <1>7. rekeyed => peers[s] = None
    <2> SUFFICES ASSUME rekeyed, peers[s] # None PROVE FALSE
      OBVIOUS
    <2>1. t = peers[s]
      BY DEF DiscoveredTarget
    <2> QED BY <1>5, <1>6, <2>1 DEF IInv, StoredUnderOwnId
  <1> HIDE DEF m, t, known
  <1>8. Marked(m, t, p, s)
    BY <1>3, <1>4, <1>5, <1>6, <1>7 DEF Marked
  <1> QED BY <1>6, <1>8 DEF m

LEMMA MarkedEffect ==
    ASSUME IInv, NEW p \in PeerIds, NEW s \in AgentIds, NEW t \in Objects, NEW m,
           Marked(m, t, p, s)
    PROVE  /\ m.peers \in [AgentIds -> Objects \cup {None}]
           /\ \A a \in AgentIds : m.peers[a] =
                 IF m.rekeyed /\ a = s THEN t
                 ELSE IF a \in m.removed \/ (m.rekeyed /\ a = obj[t].agentId) THEN None
                 ELSE peers[a]
           /\ m.obj \in [Objects -> MeshPeer]
           /\ m.obj[t].peerId = p /\ m.obj[t].peerIdVerified
           /\ m.obj[t].agentId = IF m.rekeyed THEN s ELSE obj[t].agentId
           /\ m.obj[t].missedBeats = obj[t].missedBeats /\ m.obj[t].status = obj[t].status
           /\ \A o \in Objects \ {t} :
                 /\ m.obj[o].agentId = obj[o].agentId /\ m.obj[o].peerId = obj[o].peerId
                 /\ m.obj[o].peerIdVerified = obj[o].peerIdVerified
                 /\ m.obj[o].missedBeats = obj[o].missedBeats
                 /\ m.obj[o].status \in {obj[o].status, "offline"}
  <1>1. /\ m.peers \in [AgentIds -> Objects \cup {None}]
        /\ \A a \in AgentIds : m.peers[a] =
              IF m.rekeyed /\ a = s THEN t
              ELSE IF a \in m.removed \/ (m.rekeyed /\ a = obj[t].agentId) THEN None
              ELSE peers[a]
    <2>1. CASE m.rekeyed
      BY <2>1 DEF Marked, IInv, TypeOK
    <2>2. CASE ~m.rekeyed
      BY <2>2 DEF Marked, IInv, TypeOK
    <2> QED BY <2>1, <2>2 DEF Marked
  <1> DEFINE q == [obj[t] EXCEPT !.peerId = p, !.peerIdVerified = TRUE,
                                 !.agentId = IF m.rekeyed THEN s ELSE @]
  <1>2. obj[t] \in MeshPeer
    BY DEF IInv, TypeOK
  <1>3. /\ q \in MeshPeer /\ q.peerId = p /\ q.peerIdVerified
        /\ q.agentId = IF m.rekeyed THEN s ELSE obj[t].agentId
        /\ q.missedBeats = obj[t].missedBeats /\ q.status = obj[t].status
    BY <1>2 DEF MeshPeer, Marked
  <1>4. m.obj[t] = q
    BY DEF Marked
  <1>5. ASSUME NEW o \in Objects, o # t
        PROVE  /\ m.obj[o] \in MeshPeer
               /\ m.obj[o].agentId = obj[o].agentId /\ m.obj[o].peerId = obj[o].peerId
               /\ m.obj[o].peerIdVerified = obj[o].peerIdVerified
               /\ m.obj[o].missedBeats = obj[o].missedBeats
               /\ m.obj[o].status \in {obj[o].status, "offline"}
    <2>1. obj[o] \in MeshPeer
      BY DEF IInv, TypeOK
    <2>2. m.obj[o] = [obj[o] EXCEPT !.status = "offline"] \/ m.obj[o] = obj[o]
      BY <1>5 DEF Marked
    <2> QED BY <2>1, <2>2 DEF MeshPeer
  <1>6. m.obj \in [Objects -> MeshPeer]
    <2>1. \A o \in Objects : m.obj[o] \in MeshPeer
      BY <1>3, <1>4, <1>5
    <2> QED BY <2>1 DEF Marked
  <1> QED BY <1>1, <1>3, <1>4, <1>5, <1>6

\* rollback() puts every key and every binding back; only a removed entry's
\* status is not what it was.
LEMMA RollbackEffect ==
    ASSUME IInv, NEW p \in PeerIds, NEW s \in AgentIds, NEW t \in Objects, NEW m,
           Marked(m, t, p, s)
    PROVE  /\ Rollback(m, s).peers = peers
           /\ Rollback(m, s).obj \in [Objects -> MeshPeer]
           /\ \A o \in Objects :
                 /\ Keeps(obj[o], Rollback(m, s).obj[o])
                 /\ Rollback(m, s).obj[o].peerId = obj[o].peerId
                 /\ Rollback(m, s).obj[o].peerIdVerified = obj[o].peerIdVerified
  <1> DEFINE prior == obj[t].agentId
             unkeyed == IF m.rekeyed
                        THEN [m.peers EXCEPT ![s] = None, ![prior] = t] ELSE m.peers
             pe == [a \in AgentIds |-> IF a \in m.removed /\ unkeyed[a] = None
                                       THEN peers[a] ELSE unkeyed[a]]
             ob == [m.obj EXCEPT ![t].peerId = obj[t].peerId,
                                 ![t].peerIdVerified = obj[t].peerIdVerified,
                                 ![t].agentId = prior]
  <1>1. Rollback(m, s) = [peers |-> pe, obj |-> ob]
    BY DEF Rollback, Marked
  <1>2. /\ m.peers \in [AgentIds -> Objects \cup {None}]
        /\ \A a \in AgentIds : m.peers[a] =
              IF m.rekeyed /\ a = s THEN t
              ELSE IF a \in m.removed \/ (m.rekeyed /\ a = prior) THEN None
              ELSE peers[a]
    BY MarkedEffect
  <1>3. /\ m.rekeyed => prior # s /\ peers[s] = None
        /\ prior \in AgentIds /\ peers[prior] = t
    BY DEF Marked
  <1>4. \A a \in AgentIds : a \in m.removed => peers[a] # t
    BY DEF Marked, Duplicates
  <1>5. \A a \in AgentIds : pe[a] = peers[a]
    <2> TAKE a \in AgentIds
    <2>1. CASE m.rekeyed
      BY <1>2, <1>3, <1>4, <2>1
    <2>2. CASE ~m.rekeyed
      BY <1>2, <1>4, <2>2
    <2> QED BY <1>3, <2>1, <2>2
  <1>6. pe = peers
    BY <1>5 DEF IInv, TypeOK
  <1>7. m.obj \in [Objects -> MeshPeer] /\ obj[t] \in MeshPeer /\ m.obj[t] \in MeshPeer
    BY MarkedEffect DEF IInv, TypeOK
  <1> DEFINE back == [m.obj[t] EXCEPT !.peerId = obj[t].peerId,
                                      !.peerIdVerified = obj[t].peerIdVerified,
                                      !.agentId = prior]
  <1>8. ob = [m.obj EXCEPT ![t] = back]
    BY <1>7 DEF MeshPeer
  <1>9. back \in MeshPeer /\ Keeps(obj[t], back) /\ back.peerId = obj[t].peerId
        /\ back.peerIdVerified = obj[t].peerIdVerified
    <2>1. m.obj[t].missedBeats = obj[t].missedBeats /\ m.obj[t].status = obj[t].status
      BY MarkedEffect
    <2> QED BY <1>7, <2>1 DEF MeshPeer, Keeps
  <1> HIDE DEF back, pe
  <1>10. ASSUME NEW o \in Objects
         PROVE  /\ ob[o] \in MeshPeer /\ Keeps(obj[o], ob[o]) /\ ob[o].peerId = obj[o].peerId
                /\ ob[o].peerIdVerified = obj[o].peerIdVerified
    <2>1. CASE o = t
      BY <1>7, <1>8, <1>9, <2>1
    <2>2. CASE o # t
      <3>1. ob[o] = m.obj[o] /\ m.obj[o] \in MeshPeer
        BY <1>7, <1>8, <2>2
      <3> QED BY <2>2, <3>1, MarkedEffect DEF Keeps
    <2> QED BY <2>1, <2>2
  <1>11. ob \in [Objects -> MeshPeer]
    BY <1>7, <1>8, <1>9
  <1> HIDE DEF ob
  <1> QED BY <1>1, <1>6, <1>10, <1>11

\* Without a target, nothing is marked and nothing is rolled back.
LEMMA UnmarkedEffect ==
    ASSUME NEW s
    PROVE  /\ ~Unmarked.ok /\ Unmarked.peers = peers /\ Unmarked.obj = obj
           /\ Rollback(Unmarked, s) = [peers |-> peers, obj |-> obj]
  BY DEF Unmarked, Rollback

\* A rejected message leaves every key and every binding.
LEMMA RejectEffect ==
    ASSUME IInv, NEW s \in AgentIds, NEW p \in PeerIds \cup {None}, NEW h \in Hosts,
           RejectMessage(s, p, h)
    PROVE  /\ peers' = peers /\ obj' \in [Objects -> MeshPeer]
           /\ \A o \in Objects :
                 /\ Keeps(obj[o], obj'[o]) /\ obj'[o].peerId = obj[o].peerId
                 /\ obj'[o].peerIdVerified = obj[o].peerIdVerified
  <1> DEFINE m == Attest(s, p, h)
  <1>1. peers' = Rollback(m, s).peers /\ obj' = Rollback(m, s).obj
    BY DEF RejectMessage
  <1> HIDE DEF m
  <1>2. CASE m = Unmarked
    BY <1>1, <1>2, UnmarkedEffect DEF IInv, TypeOK, Keeps
  <1>3. CASE m # Unmarked
    <2>1. p \in PeerIds /\ m = MarkPeerIdVerified(p, s, h)
      BY <1>3 DEF Attest, m
    <2>2. PICK t \in Objects : Marked(m, t, p, s)
      BY <1>3, <2>1, MarkIsMarked
    <2> QED BY <1>1, <2>1, <2>2, RollbackEffect
  <1> QED BY <1>2, <1>3

LEMMA RejectStep ==
    ASSUME IInv, NEW s \in AgentIds, NEW p \in PeerIds \cup {None}, NEW h \in Hosts,
           RejectMessage(s, p, h)
    PROVE  IInv'
  <1>1. bound' = bound /\ probes' = probes /\ fetches' \subseteq DiscoveredPeer
    BY DEF RejectMessage, IInv, TypeOK
  <1> QED BY <1>1, RejectEffect, KeepingStep

LEMMA KeepStep ==
    ASSUME IInv, NEW s \in AgentIds, NEW p \in PeerIds \cup {None}, NEW h \in Hosts,
           NEW how \in Outcomes, KeepBinding(s, p, h, how)
    PROVE  IInv'
  <1> DEFINE m == Attest(s, p, h)
  <1>1. /\ peers' = m.peers /\ obj' = m.obj /\ probes' = probes /\ fetches' = fetches
        /\ bound' = IF m.ok
                    THEN {b \in bound : b[1] # m.target} \cup {<<m.target, p, how>>}
                    ELSE bound
    BY DEF KeepBinding
  <1> HIDE DEF m
  <1>2. CASE m = Unmarked
    <2>1. /\ peers' = peers /\ bound' = bound /\ probes' \subseteq probes
          /\ obj' = obj /\ fetches' \subseteq DiscoveredPeer
      BY <1>1, <1>2, UnmarkedEffect DEF IInv, TypeOK
    <2>2. obj' \in [Objects -> MeshPeer] /\ \A o \in Objects : Keeps(obj[o], obj'[o])
      BY <2>1 DEF IInv, TypeOK, Keeps
    <2> QED BY <2>1, <2>2, KeepingStep
  <1>3. CASE m # Unmarked
    <2>1. p \in PeerIds /\ m = MarkPeerIdVerified(p, s, h)
      BY <1>3 DEF Attest, m
    <2>2. PICK t \in Objects : Marked(m, t, p, s)
      BY <1>3, <2>1, MarkIsMarked
    <2>3. /\ obj[t].agentId \in AgentIds /\ peers[obj[t].agentId] = t
          /\ m.rekeyed => obj[t].agentId # s /\ peers[s] = None
          /\ bound' = {b \in bound : b[1] # t} \cup {<<t, p, how>>}
          /\ \A a \in m.removed : peers[a] # t
      BY <1>1, <2>2 DEF Marked, Duplicates
    <2>4. TypeOK'
      <3>1. bound' \subseteq Objects \X PeerIds \X Outcomes
        BY <2>1, <2>3 DEF IInv, TypeOK
      <3> QED BY <1>1, <2>1, <2>2, <3>1, MarkedEffect DEF IInv, TypeOK
    <2>5. ASSUME NEW a \in AgentIds, peers'[a] # None
          PROVE  /\ obj'[peers'[a]].agentId = a
                 /\ obj'[peers'[a]].peerIdVerified =>
                       \E outcome \in Outcomes :
                          <<peers'[a], obj'[peers'[a]].peerId, outcome>> \in bound'
      <3>1. peers'[a] = IF m.rekeyed /\ a = s THEN t
                        ELSE IF a \in m.removed \/ (m.rekeyed /\ a = obj[t].agentId) THEN None
                        ELSE peers[a]
        BY <1>1, <2>1, <2>2, MarkedEffect
      <3>2. /\ obj'[t].peerId = p
            /\ obj'[t].agentId = IF m.rekeyed THEN s ELSE obj[t].agentId
        BY <1>1, <2>1, <2>2, MarkedEffect
      <3>3. CASE peers'[a] = t
        <4>1. obj'[t].agentId = a
          <5>1. CASE m.rekeyed
            <6>1. CASE a # s
              <7>1. peers[a] = t /\ a # obj[t].agentId
                BY <2>5, <3>1, <3>3, <5>1, <6>1
              <7> QED BY <2>3, <2>5, <3>3, <7>1 DEF IInv, StoredUnderOwnId
            <6> QED BY <3>2, <5>1, <6>1
          <5>2. CASE ~m.rekeyed
            BY <2>3, <2>5, <3>1, <3>2, <3>3, <5>2 DEF IInv, StoredUnderOwnId
          <5> QED BY <5>1, <5>2
        <4> QED BY <2>3, <3>2, <3>3, <4>1
      <3>4. CASE peers'[a] # t
        <4>1. peers'[a] = peers[a] /\ peers[a] # None /\ peers[a] \in Objects
          BY <2>5, <3>1, <3>4 DEF IInv, TypeOK
        <4>2. /\ obj'[peers[a]].agentId = obj[peers[a]].agentId
              /\ obj'[peers[a]].peerId = obj[peers[a]].peerId
              /\ obj'[peers[a]].peerIdVerified = obj[peers[a]].peerIdVerified
          BY <1>1, <2>1, <2>2, <3>4, <4>1, MarkedEffect
        <4>3. obj'[peers'[a]].agentId = a
          BY <4>1, <4>2 DEF IInv, StoredUnderOwnId
        <4>4. CASE obj'[peers'[a]].peerIdVerified
          <5>1. PICK outcome \in Outcomes :
                    <<peers[a], obj[peers[a]].peerId, outcome>> \in bound
            BY <4>1, <4>2, <4>4 DEF IInv, VerifiedIsBound
          <5> DEFINE b == <<peers[a], obj[peers[a]].peerId, outcome>>
          <5>2. b \in bound /\ b[1] # t
            BY <3>4, <4>1, <5>1
          <5>3. b \in bound'
            BY <2>3, <5>2
          <5> QED BY <4>1, <4>2, <4>3, <5>3
        <4> QED BY <4>3, <4>4
      <3> QED BY <3>3, <3>4
    <2>6. StoredUnderOwnId' /\ VerifiedIsBound'
      BY <2>5 DEF StoredUnderOwnId, VerifiedIsBound
    <2>7. BelowThreshold'
      <3>1. \A o \in Objects : /\ obj'[o].missedBeats = obj[o].missedBeats
                               /\ obj'[o].status \in {obj[o].status, "offline"}
        BY <1>1, <2>1, <2>2, MarkedEffect
      <3> QED BY <1>1, <3>1 DEF IInv, BelowThreshold, Probed
    <2>8. ProbedOnce'
      BY <1>1 DEF IInv, ProbedOnce
    <2> QED BY <2>4, <2>6, <2>7, <2>8 DEF IInv
  <1> QED BY <1>2, <1>3

-----------------------------------------------------------------------------
\* Every step keeps the invariant.
LEMMA NextIInv == IInv /\ [Next]_vars => IInv'
  <1> SUFFICES ASSUME IInv, [Next]_vars PROVE IInv'
    OBVIOUS
  <1>1. CASE Discovery
    <2>1. ASSUME NEW d \in DiscoveredPeer, CardRefused(d) PROVE IInv'
      BY <2>1, KeepingStep DEF CardRefused, IInv, TypeOK, Keeps
    <2> QED BY <1>1, <2>1, OnPeerFoundStep, CardFetchedStep, ConnectStaticPeerStep
            DEF Discovery
  <1>2. CASE Heartbeat
    <2>1. ASSUME NEW pr \in probes, ProbeOk(pr[1], pr[2]) \/ ProbeFailed(pr[1], pr[2])
          PROVE  IInv'
      <3>1. pr[1] \in AgentIds /\ pr[2] \in Objects
        BY DEF IInv, TypeOK
      <3> QED BY <2>1, <3>1, ProbeOkStep, ProbeFailedStep
    <2> QED BY <1>2, <2>1, CheckPeersStep DEF Heartbeat
  <1>3. CASE Messages
    <2>1. \A outcome \in {"accepted", "threw"} : outcome \in Outcomes
      BY DEF Outcomes
    <2> QED BY <1>3, <2>1, KeepStep, RejectStep
            DEF Messages, AcceptMessage, ThrowMessage
  <1>4. CASE UNCHANGED vars
    BY <1>4 DEF vars, IInv, TypeOK, StoredUnderOwnId, VerifiedIsBound, BelowThreshold,
                Probed, ProbedOnce
  <1> QED BY <1>1, <1>2, <1>3, <1>4 DEF Next

LEMMA Invariance == Spec => []IInv
  BY InitIInv, NextIInv, PTL DEF Spec

\* The peer table and its objects keep their types, and missedBeats stays
\* within the threshold although results of earlier checks arrive late
\* (mesh.ts, checkPeers and handleMissedBeat).
THEOREM TypeCorrect == Spec => []TypeOK
  BY Invariance, PTL DEF IInv

\* Every entry is stored under its own agentId, through re-keys and their
\* rollbacks (mesh.ts, markPeerIdVerified).
THEOREM StoredUnderOwnIdHolds == Spec => []StoredUnderOwnId
  BY Invariance, PTL DEF IInv

\* peerIdVerified holds only for the PeerID that the last message which kept its
\* binding bound to the entry (mesh.ts, peerIdVerified).
THEOREM VerifiedIsBoundHolds == Spec => []VerifiedIsBound
  BY Invariance, PTL DEF IInv

\* A message answered 403 leaves the same keys with the same entries and bindings
\* (agent-card.ts, rollback).
THEOREM RejectedLeavesBindingsHolds == Spec => RejectedLeavesBindings
  <1>1. IInv => \A s \in AgentIds, p \in PeerIds, h \in Hosts :
                    RejectMessage(s, p, h) =>
                        /\ peers' = peers
                        /\ \A o \in Objects : Binding(o)' = Binding(o)
    BY RejectEffect DEF Keeps, Binding
  <1> QED BY <1>1, Invariance, PTL DEF RejectedLeavesBindings

\* A message of a canonical sender that verified an entry for good leaves no
\* other entry with that PeerID (mesh.ts, supersession).
THEOREM FlipIsUnambiguousHolds == Spec => FlipIsUnambiguous
  <1>1. ASSUME IInv, NEW p \in PeerIds \cap AgentIds, NEW h \in Hosts,
               NEW outcome \in Outcomes, KeepBinding(p, p, h, outcome), MarkPeerIdVerified(p, p, h).ok
        PROVE  Cardinality({o \in InMap(peers') : obj'[o].peerId = p}) = 1
    <2> DEFINE m == MarkPeerIdVerified(p, p, h)
    <2>1. m # Unmarked /\ p # None
      BY <1>1, UnmarkedEffect, ConstantsAssumption DEF ConstantsAssumption
    <2>2. peers' = m.peers /\ obj' = m.obj
      BY <1>1, <2>1 DEF KeepBinding, Attest
    <2> HIDE DEF m
    <2>3. PICK t \in Objects : Marked(m, t, p, p)
      BY <1>1, <2>1, MarkIsMarked DEF m
    <2>4. \A a \in AgentIds : peers'[a] =
              IF m.rekeyed /\ a = p THEN t
              ELSE IF a \in m.removed \/ (m.rekeyed /\ a = obj[t].agentId) THEN None
              ELSE peers[a]
      BY <1>1, <2>2, <2>3, MarkedEffect
    <2>5. obj'[t].peerId = p /\ \A o \in Objects \ {t} : obj'[o].peerId = obj[o].peerId
      BY <1>1, <2>2, <2>3, MarkedEffect
    <2>6. /\ obj[t].agentId \in AgentIds /\ peers[obj[t].agentId] = t
          /\ m.removed = Duplicates(p, t)
      BY <2>3 DEF Marked
    <2>7. \E a \in AgentIds : peers'[a] = t
      <3>1. CASE m.rekeyed
        BY <2>4, <3>1
      <3>2. CASE ~m.rekeyed
        BY <2>4, <2>6, <3>2 DEF Duplicates
      <3> QED BY <3>1, <3>2
    <2>8. ASSUME NEW o \in Objects, o # t, NEW a \in AgentIds, peers'[a] = o
          PROVE  obj'[o].peerId # p
      <3>1. a \notin m.removed /\ peers[a] = o /\ o # None
        BY <2>4, <2>8, ConstantsAssumption DEF ConstantsAssumption
      <3>2. obj[o].peerId # p
        BY <2>6, <2>8, <3>1 DEF Duplicates
      <3> QED BY <2>5, <2>8, <3>2
    <2>9. {o \in InMap(peers') : obj'[o].peerId = p} = {t}
      BY <2>5, <2>7, <2>8 DEF InMap
    <2> QED BY <2>9, FS_Singleton
  <1>2. IInv => \A p \in PeerIds \cap AgentIds, h \in Hosts, outcome \in Outcomes :
            KeepBinding(p, p, h, outcome) /\ MarkPeerIdVerified(p, p, h).ok =>
                Cardinality({o \in InMap(peers') : obj'[o].peerId = p}) = 1
    BY <1>1
  <1> QED BY <1>2, Invariance, PTL DEF FlipIsUnambiguous
=============================================================================
