---------------------------- MODULE RegistrySync ----------------------------
(***************************************************************************)
(* The per-peer anti-entropy coordinator of the capability registry        *)
(* (packages/daemon/src/registry-sync-coordinator.ts) with the libp2p      *)
(* adapter that drives it (registry-sync-libp2p-adapter.ts).               *)
(*                                                                         *)
(* JavaScript runs one callback at a time, so every stretch of code        *)
(* between two awaits is one action.  A sync round is an object of its     *)
(* own: it captures the peer entry and its generation when it starts,      *)
(* suspends in transport.send and perhaps in transport.hangUp, and runs    *)
(* its cleanup on whatever entry the map holds when it resumes.  Entries   *)
(* therefore live on a heap, and `peers' maps a peer to an entry's id.     *)
(*                                                                         *)
(* Abstracted: the Automerge SyncState (whether generateSyncMessage has    *)
(* something to send is a free choice), message contents, lastError,       *)
(* lastRoundAt, rounds and converged (read by /api/status only).           *)
(***************************************************************************)
EXTENDS Integers, FiniteSets

CONSTANTS
    Peers,               \* the libp2p peer ids
    EntryIds,            \* heap cells for PeerSyncEntry objects (a bound)
    RoundIds,            \* slots for concurrently running rounds (a bound)
    NoEntry, NoRound,    \* "undefined" and "null"
    MaxBufferedMessages, \* MAX_BUFFERED_MESSAGES
    MaxBufferedBytes,    \* MAX_BUFFERED_BYTES
    MessageSizes,        \* byteLength of the frames peers send
    HangUpThreshold,     \* hangUpThreshold, timeouts in a row before hangUp
    MaxGeneration,       \* bound on the reconnects of one peer
    MaxOverflows         \* bound on the overflow handlers pending per peer

ASSUME ConstantsAssumption ==
    /\ NoEntry \notin EntryIds
    /\ NoRound \notin RoundIds
    /\ MaxBufferedMessages \in Nat \ {0}
    /\ MaxBufferedBytes \in Nat
    /\ MessageSizes \subseteq Nat \ {0}
    /\ HangUpThreshold \in Nat \ {0}
    /\ MaxGeneration \in Nat \ {0}
    /\ MaxOverflows \in Nat

VARIABLES
    peers,      \* this.peers: the current entry of each peer, or NoEntry
    entry,      \* the PeerSyncEntry objects
    round,      \* the running rounds
    kicks,      \* peers with a queued microtask that calls runRound
    overflows,  \* onMessageFromPeer calls awaiting hangUp, per peer
    tick,       \* the tick timer: "off", "armed", "running" (inside tick())
                \* or "rejected" (tick() threw before it armed the timer)
    tickWaits,  \* the rounds tick() awaits
    stop,       \* stop(): "no", "waiting" for the rounds or "done"
    stopWaits,  \* the rounds stop() awaits
    unhandled,  \* a promise rejected that nobody handles
    removed     \* history: peers whose entry was deleted while running

vars == <<peers, entry, round, kicks, overflows, tick, tickWaits, stop,
          stopWaits, unhandled, removed>>

-----------------------------------------------------------------------------
(* Objects *)

\* Whether a round's AbortController fired, and who called abort(): the round
\* timer, or the coordinator itself ('peer state replaced by reconnect', 'peer
\* disconnected', 'inbound buffer overflow', 'coordinator stopped').
Causes == {"no", "timeout", "coordinator"}

\* spoiled: the buffer holds a frame that receiveSyncMessage throws on.
\* inflight stands for both `inflight' and `abortController', which runRound
\* sets together and clears together.
PeerSyncEntry ==
    [generation : Nat \ {0}, inflight : RoundIds \cup {NoRound},
     buffered : 0..MaxBufferedMessages, bytes : 0..MaxBufferedBytes,
     spoiled : BOOLEAN, timeouts : Nat]

\* phase: awaiting transport.send, awaiting transport.hangUp, or resolved and
\* waiting for the outer finally to run.
Round ==
    [phase : {"send", "hangup", "done"}, peer : Peers, eid : EntryIds,
     generation : Nat \ {0}, aborted : Causes]

Idle == [phase |-> "idle"]

\* Faulty variant: the generation does not survive a reconnect.
CreatePeerEntryNoToken(previousGeneration) ==
    [generation |-> 1, inflight |-> NoRound,
     buffered |-> 0, bytes |-> 0, spoiled |-> FALSE, timeouts |-> 0]

CreatePeerEntry(previousGeneration) ==
    [generation |-> previousGeneration + 1, inflight |-> NoRound,
     buffered |-> 0, bytes |-> 0, spoiled |-> FALSE, timeouts |-> 0]

stopped == stop # "no"
Known == {p \in Peers : peers[p] # NoEntry}
Running == {r \in RoundIds : round[r] # Idle}
FreeRounds == RoundIds \ Running

\* Heap cells no map entry and no running round refers to any more.
FreeEntries ==
    {e \in EntryIds : /\ \A p \in Peers : peers[p] # e
                      /\ \A r \in Running : round[r].eid # e}

Init ==
    /\ peers = [p \in Peers |-> NoEntry]
    /\ entry = [e \in EntryIds |-> CreatePeerEntry(0)]
    /\ round = [r \in RoundIds |-> Idle]
    /\ kicks = {}
    /\ overflows = [p \in Peers |-> 0]
    /\ tick = "off" /\ tickWaits = {}
    /\ stop = "no" /\ stopWaits = {}
    /\ unhandled = FALSE
    /\ removed = {}

-----------------------------------------------------------------------------
(* runRound *)

\* entry.abortController?.abort(...) on the current entries of the peers in ps.
\* An AbortController keeps its first reason, and after send returned nobody
\* looks at the signal.
Abort(ps) ==
    [r \in RoundIds |->
        IF /\ round[r] # Idle /\ round[r].phase = "send"
           /\ round[r].aborted = "no"
           /\ \E p \in ps \cap Known : entry[peers[p]].inflight = r
        THEN [round[r] EXCEPT !.aborted = "coordinator"] ELSE round[r]]

\* Faulty variant: runRound does not look at `stopped'.
StartableStopped(ps, pe, en) ==
    {p \in ps : pe[p] # NoEntry /\ en[pe[p]].inflight = NoRound}

\* The peers of ps for which runRound gets past its three early returns.
Startable(ps, pe, en) ==
    {p \in ps : ~stopped /\ pe[p] # NoEntry /\ en[pe[p]].inflight = NoRound}

\* entry.inflight = promise
Latched(en, r) == [en EXCEPT !.inflight = r]

\* What a round captures.  It suspends in send, or has nothing to send.
NewRound(p, e, generation, sends) ==
    [phase |-> IF sends THEN "send" ELSE "done", peer |-> p, eid |-> e,
     generation |-> generation, aborted |-> "no"]

\* Faulty variant: the cleanup of a round with nothing to send runs in the
\* inner finally, before `entry.inflight = promise'.
RunRoundInnerCleanup(start, pe, en, rd, slot, sending) ==
    /\ entry' = [e \in EntryIds |->
            IF \E p \in start : pe[p] = e
            THEN Latched(en[e], slot[CHOOSE p \in start : pe[p] = e])
            ELSE en[e]]
    /\ round' = [r \in RoundIds |->
            IF \E p \in sending : slot[p] = r
            THEN LET p == CHOOSE q \in sending : slot[q] = r
                 IN  NewRound(p, pe[p], en[pe[p]].generation, TRUE)
            ELSE rd[r]]

\* runRound(p) for every p in `start', up to the first await: the round r is
\* started with slot[p]; it suspends in send when generateSyncMessage returned
\* a message (p in `sending') and is resolved at once when it returned null.
RunRound(start, pe, en, rd, slot, sending) ==
    /\ entry' = [e \in EntryIds |->
            IF \E p \in start : pe[p] = e
            THEN Latched(en[e], slot[CHOOSE p \in start : pe[p] = e])
            ELSE en[e]]
    /\ round' = [r \in RoundIds |->
            IF \E p \in start : slot[p] = r
            THEN LET p == CHOOSE q \in start : slot[q] = r
                 IN  NewRound(p, pe[p], en[pe[p]].generation, p \in sending)
            ELSE rd[r]]

\* Distinct free slots for the rounds about to start.
Slots(start) ==
    {s \in [start -> FreeRounds] : \A p, q \in start : s[p] = s[q] => p = q}

\* runRound for the peers of ps against the map pe, heap en and rounds rd.
RunRounds(ps, pe, en, rd) ==
    LET start == Startable(ps, pe, en)
    IN  \E slot \in Slots(start), sending \in SUBSET start :
            RunRound(start, pe, en, rd, slot, sending)

-----------------------------------------------------------------------------
(* Connection events and inbound frames *)

\* onPeerConnect: replaces a known peer's entry (generation + 1, old round
\* aborted) or creates one, and starts its first round.
OnPeerConnect(p) ==
    /\ ~stopped
    /\ \E e \in FreeEntries :
        LET previous == IF peers[p] = NoEntry THEN 0
                        ELSE entry[peers[p]].generation
            pe == [peers EXCEPT ![p] = e]
            en == [entry EXCEPT ![e] = CreatePeerEntry(previous)]
        IN  /\ previous < MaxGeneration
            /\ peers' = pe
            /\ RunRounds({p}, pe, en, Abort({p}))
    /\ UNCHANGED <<unhandled, kicks, overflows, tick, tickWaits, stop, stopWaits, removed>>

\* onPeerDisconnect: aborts the round and forgets the entry.
OnPeerDisconnect(p) ==
    /\ peers[p] # NoEntry
    /\ round' = Abort({p})
    /\ peers' = [peers EXCEPT ![p] = NoEntry]
    /\ removed' = removed \cup {p}
    /\ UNCHANGED <<unhandled, entry, kicks, overflows, tick, tickWaits, stop, stopWaits>>

\* Faulty variant: off by one in the message limit.
OverflowOffByOne(e, size) ==
    \/ entry[e].buffered > MaxBufferedMessages
    \/ entry[e].bytes + size > MaxBufferedBytes

\* The buffer of entry e has no room for another `size' bytes.
Overflow(e, size) ==
    \/ entry[e].buffered >= MaxBufferedMessages
    \/ entry[e].bytes + size > MaxBufferedBytes

\* inboundBuffer.push(message), inboundBufferBytes = nextBytes
Buffered(en, size, malformed) ==
    [en EXCEPT !.buffered = @ + 1, !.bytes = @ + size, !.spoiled = @ \/ malformed]

\* onMessageFromPeer, a round of the peer in flight: buffer the message.
BufferMessage(p, size, malformed) ==
    /\ ~stopped /\ peers[p] # NoEntry
    /\ entry[peers[p]].inflight # NoRound
    /\ ~Overflow(peers[p], size)
    /\ entry' = [entry EXCEPT ![peers[p]] = Buffered(@, size, malformed)]
    /\ UNCHANGED <<unhandled, peers, round, kicks, overflows, tick, tickWaits, stop,
                   stopWaits, removed>>

\* onMessageFromPeer, buffer full: abort the round and suspend in hangUp.
OverflowHangUp(p, size) ==
    /\ ~stopped /\ peers[p] # NoEntry
    /\ entry[peers[p]].inflight # NoRound
    /\ Overflow(peers[p], size)
    /\ overflows[p] < MaxOverflows
    /\ round' = Abort({p})
    /\ overflows' = [overflows EXCEPT ![p] = @ + 1]
    /\ UNCHANGED <<unhandled, peers, entry, kicks, tick, tickWaits, stop, stopWaits,
                   removed>>

\* ... hangUp returned: delete whatever entry the peer has by now.
OverflowHungUp(p) ==
    /\ overflows[p] > 0
    /\ overflows' = [overflows EXCEPT ![p] = @ - 1]
    /\ peers' = [peers EXCEPT ![p] = NoEntry]
    /\ removed' = removed \cup {p}
    /\ UNCHANGED <<unhandled, entry, round, kicks, tick, tickWaits, stop, stopWaits>>

\* onMessageFromPeer, no round in flight: apply the message to the entry's
\* SyncState (a new entry for an unknown peer) and answer with a round.
ReceiveMessage(p) ==
    /\ ~stopped
    /\ \/ /\ peers[p] = NoEntry
          /\ \E e \in FreeEntries :
                LET pe == [peers EXCEPT ![p] = e]
                    en == [entry EXCEPT ![e] = CreatePeerEntry(0)]
                IN  peers' = pe /\ RunRounds({p}, pe, en, round)
       \/ /\ peers[p] # NoEntry
          /\ entry[peers[p]].inflight = NoRound
          /\ RunRounds({p}, peers, entry, round)
          /\ UNCHANGED peers
    /\ UNCHANGED <<unhandled, kicks, overflows, tick, tickWaits, stop, stopWaits, removed>>

\* receiveSyncMessage throws on the frame, which the adapter catches: only the
\* new entry of an unknown peer stays.
ReceiveMalformed(p) ==
    /\ ~stopped /\ peers[p] = NoEntry
    /\ \E e \in FreeEntries :
           /\ peers' = [peers EXCEPT ![p] = e]
           /\ entry' = [entry EXCEPT ![e] = CreatePeerEntry(0)]
    /\ UNCHANGED <<unhandled, round, kicks, overflows, tick, tickWaits, stop,
                   stopWaits, removed>>

-----------------------------------------------------------------------------
(* The suspended parts of a round *)

\* The inner promise of a round resolves; its abort signal is history.
Resolved(rd) == [rd EXCEPT !.phase = "done", !.aborted = "no"]

\* entry.consecutiveTimeouts = n
Struck(en, n) == [en EXCEPT !.timeouts = n]

\* setTimeout(() => ac.abort('round timeout'), roundTimeoutMs)
RoundTimeout(r) ==
    /\ round[r] # Idle /\ round[r].phase = "send" /\ round[r].aborted = "no"
    /\ round' = [round EXCEPT ![r].aborted = "timeout"]
    /\ UNCHANGED <<unhandled, peers, entry, kicks, overflows, tick, tickWaits, stop,
                   stopWaits, removed>>

\* send resolved (possibly although the signal fired: the frame was out).
SendOk(r) ==
    /\ round[r] # Idle /\ round[r].phase = "send"
    /\ round' = [round EXCEPT ![r] = Resolved(@)]
    /\ entry' = [entry EXCEPT ![round[r].eid] = Struck(@, 0)]
    /\ UNCHANGED <<unhandled, peers, kicks, overflows, tick, tickWaits, stop, stopWaits,
                   removed>>

\* send threw.  A fired signal, or an error whose text says timeout or abort,
\* counts as a strike on the captured entry; the last one hangs up the peer.
SendFail(r, abortLike) ==
    /\ round[r] # Idle /\ round[r].phase = "send"
    /\ round[r].aborted # "no" => abortLike
    /\ LET e == round[r].eid
           strikes == entry[e].timeouts + (IF abortLike THEN 1 ELSE 0)
       IN  /\ entry' = [entry EXCEPT ![e] = Struck(@, strikes)]
           /\ round' = [round EXCEPT ![r] =
                  IF abortLike /\ strikes >= HangUpThreshold
                  THEN [@ EXCEPT !.phase = "hangup"] ELSE Resolved(@)]
    /\ UNCHANGED <<unhandled, peers, kicks, overflows, tick, tickWaits, stop, stopWaits,
                   removed>>

\* Faulty variant: any entry of the peer will do.
StillCurrentNoToken(r) == peers[round[r].peer] # NoEntry

\* The map still holds an entry of the generation the round captured.
StillCurrent(r) ==
    LET p == round[r].peer
    IN  peers[p] # NoEntry /\ entry[peers[p]].generation = round[r].generation

\* Faulty variant: the round never resolves when the entry was replaced.
HungUpOnlyCurrent(r) ==
    /\ round[r] # Idle /\ round[r].phase = "hangup"
    /\ StillCurrent(r)
    /\ round' = [round EXCEPT ![r] = Resolved(@)]
    /\ peers' = [peers EXCEPT ![round[r].peer] = NoEntry]
    /\ removed' = removed \cup {round[r].peer}
    /\ UNCHANGED <<unhandled, entry, kicks, overflows, tick, tickWaits, stop, stopWaits>>

\* hangUp returned: delete the entry if it still has the round's generation.
HungUp(r) ==
    /\ round[r] # Idle /\ round[r].phase = "hangup"
    /\ round' = [round EXCEPT ![r] = Resolved(@)]
    /\ IF StillCurrent(r)
       THEN /\ peers' = [peers EXCEPT ![round[r].peer] = NoEntry]
            /\ removed' = removed \cup {round[r].peer}
       ELSE UNCHANGED <<peers, removed>>
    /\ UNCHANGED <<unhandled, entry, kicks, overflows, tick, tickWaits, stop, stopWaits>>

\* inboundBuffer.splice(0), inboundBufferBytes = 0
Drained(en) == [en EXCEPT !.buffered = 0, !.bytes = 0, !.spoiled = FALSE]

\* Faulty variant: the buffer is not drained.
FinallyNoDrain(r) ==
    /\ round[r] # Idle /\ round[r].phase = "done"
    /\ entry' = IF StillCurrent(r)
                THEN [entry EXCEPT ![peers[round[r].peer]].inflight = NoRound]
                ELSE entry
    /\ round' = [round EXCEPT ![r] = Idle]
    /\ tickWaits' = tickWaits \ {r}
    /\ stopWaits' = stopWaits \ {r}
    /\ UNCHANGED <<peers, kicks, overflows, tick, stop, unhandled, removed>>

\* The cleanup of r comes to a buffered frame receiveSyncMessage throws on.
Throws(r) == StillCurrent(r) /\ ~stopped /\ entry[peers[round[r].peer]].spoiled

\* The outer finally: release the single-flight latch of the entry of the
\* same generation, drain its buffer and queue the follow-up round.
Finally(r) ==
    /\ round[r] # Idle /\ round[r].phase = "done" /\ ~Throws(r)
    /\ LET p == round[r].peer
           e == peers[p]
           drain == entry[e].buffered > 0 /\ ~stopped
       IN  IF StillCurrent(r)
           THEN /\ entry' = [entry EXCEPT ![e] = Latched(
                        IF drain THEN Drained(@) ELSE @, NoRound)]
                /\ kicks' = IF drain THEN kicks \cup {p} ELSE kicks
           ELSE UNCHANGED <<entry, kicks>>
    /\ round' = [round EXCEPT ![r] = Idle]
    /\ tickWaits' = tickWaits \ {r}
    /\ stopWaits' = stopWaits \ {r}
    /\ UNCHANGED <<peers, overflows, tick, stop, unhandled, removed>>

\* It throws: the latch is released and the buffer spliced by then, the frames
\* after the malformed one are lost and no follow-up round is queued.  runRound
\* rejects, and with it a tick() that awaits it (Promise.all), which leaves the
\* timer unarmed.  The callers of republish() catch, all others do not; which of
\* them started a round is not kept.
FinallyThrows(r) ==
    /\ round[r] # Idle /\ round[r].phase = "done" /\ Throws(r)
    /\ entry' = [entry EXCEPT ![peers[round[r].peer]] = Latched(Drained(@), NoRound)]
    /\ round' = [round EXCEPT ![r] = Idle]
    /\ IF r \in tickWaits THEN tick' = "rejected" /\ tickWaits' = {}
                          ELSE UNCHANGED <<tick, tickWaits>>
    /\ stopWaits' = stopWaits \ {r}
    /\ unhandled' \in (IF r \in tickWaits THEN {TRUE} ELSE BOOLEAN)
    /\ UNCHANGED <<peers, kicks, overflows, stop, removed>>

\* Node.js ends a process with an unhandled rejection before its next callback,
\* and the service manager starts another.
ProcessEnds ==
    /\ unhandled
    /\ peers' = [p \in Peers |-> NoEntry]
    /\ entry' = [e \in EntryIds |-> CreatePeerEntry(0)]
    /\ round' = [r \in RoundIds |-> Idle]
    /\ kicks' = {} /\ overflows' = [p \in Peers |-> 0]
    /\ tick' = "off" /\ tickWaits' = {} /\ stop' = "no" /\ stopWaits' = {}
    /\ unhandled' = FALSE /\ removed' = {}

\* The queued microtask (runRound returns at once for an unknown peer).
Kick(p) ==
    /\ p \in kicks
    /\ kicks' = kicks \ {p}
    /\ RunRounds({p}, peers, entry, round)
    /\ UNCHANGED <<unhandled, peers, overflows, tick, tickWaits, stop, stopWaits, removed>>

-----------------------------------------------------------------------------
(* The periodic loop, republish, start and stop *)

\* start(), called once at boot.
Start ==
    /\ ~stopped /\ tick = "off"
    /\ tick' = "armed"
    /\ UNCHANGED <<unhandled, peers, entry, round, kicks, overflows, tickWaits, stop,
                   stopWaits, removed>>

\* The timer fires: a round for every known peer, then wait for all of them.
Tick ==
    /\ tick = "armed"
    /\ RunRounds(Peers, peers, entry, round)
    /\ tick' = "running"
    /\ tickWaits' = {r \in RoundIds : round[r] = Idle /\ round'[r] # Idle}
    /\ UNCHANGED <<unhandled, peers, kicks, overflows, stop, stopWaits, removed>>

\* ... all awaited rounds have ended: scheduleNextTick.
TickDone ==
    /\ tick = "running" /\ tickWaits = {}
    /\ tick' = IF stopped THEN "off" ELSE "armed"
    /\ UNCHANGED <<unhandled, peers, entry, round, kicks, overflows, tickWaits, stop,
                   stopWaits, removed>>

\* republish(): a round for every known peer, now.
Republish ==
    /\ ~stopped
    /\ RunRounds(Peers, peers, entry, round)
    /\ UNCHANGED <<unhandled, peers, kicks, overflows, tick, tickWaits, stop, stopWaits,
                   removed>>

\* stop(): clear the timer, abort the rounds the entries know of, await them.
Stop ==
    /\ ~stopped
    /\ stop' = "waiting"
    /\ tick' = IF tick = "armed" THEN "off" ELSE tick
    /\ round' = Abort(Peers)
    /\ stopWaits' = {entry[peers[p]].inflight : p \in Known} \ {NoRound}
    /\ UNCHANGED <<unhandled, peers, entry, kicks, overflows, tickWaits, removed>>

\* ... they are all settled: peers.clear().
StopDone ==
    /\ stop = "waiting"
    /\ \A r \in stopWaits : round[r].phase = "done"
    /\ stop' = "done"
    /\ stopWaits' = {}
    /\ peers' = [p \in Peers |-> NoEntry]
    /\ UNCHANGED <<unhandled, entry, round, kicks, overflows, tick, tickWaits, removed>>

Next ==
    \/ /\ ~unhandled
       /\ \/ \E p \in Peers :
             \/ OnPeerConnect(p)
             \/ OnPeerDisconnect(p)
             \/ ReceiveMessage(p)
             \/ ReceiveMalformed(p)
             \/ OverflowHungUp(p)
             \/ Kick(p)
             \/ \E size \in MessageSizes, malformed \in BOOLEAN : BufferMessage(p, size, malformed)
             \/ \E size \in MessageSizes : OverflowHangUp(p, size)
          \/ \E r \in RoundIds :
             \/ RoundTimeout(r)
             \/ SendOk(r)
             \/ \E abortLike \in BOOLEAN : SendFail(r, abortLike)
             \/ HungUp(r)
             \/ Finally(r)
             \/ FinallyThrows(r)
          \/ Start
          \/ Tick
          \/ TickDone
          \/ Republish
          \/ Stop
          \/ StopDone
    \/ ProcessEnds

Spec == Init /\ [][Next]_vars

\* What a round is suspended in comes to an end.
RoundProceeds(r) ==
    /\ ~unhandled
    /\ SendOk(r) \/ SendFail(r, TRUE) \/ SendFail(r, FALSE) \/ HungUp(r) \/ Finally(r) \/ FinallyThrows(r)

\* Fairness.  A settled promise resumes its continuation; transport.send and
\* hangUp settle because libp2p bounds a dial and the round timer aborts an
\* open stream.  Nothing is assumed of connection events or inbound frames.
Fairness ==
    /\ \A r \in RoundIds : WF_vars(RoundProceeds(r))
    /\ WF_vars(~unhandled /\ TickDone)
    /\ WF_vars(~unhandled /\ StopDone)

FairSpec == Spec /\ Fairness

-----------------------------------------------------------------------------
(* Properties *)

\* The shape of the coordinator's state; the buffer limits of
\* onMessageFromPeer are the ranges of `buffered' and `bytes'.
TypeOK ==
    /\ peers \in [Peers -> EntryIds \cup {NoEntry}]
    /\ entry \in [EntryIds -> PeerSyncEntry]
    /\ round \in [RoundIds -> Round \cup {Idle}]
    /\ kicks \subseteq Peers
    /\ overflows \in [Peers -> 0..MaxOverflows]
    /\ tick \in {"off", "armed", "running", "rejected"} /\ tickWaits \subseteq Running
    /\ stop \in {"no", "waiting", "done"} /\ stopWaits \subseteq Running
    /\ unhandled \in BOOLEAN
    /\ removed \subseteq Peers

\* The single-flight latch of a current entry is never stuck: whenever
\* entry.inflight is set, the round it belongs to is still running and will,
\* by its generation, release that same entry in its outer finally.  (The
\* comment in runRound's finally tells of the bug where it stayed set.)
LatchHasRound ==
    \A p \in Known :
        LET en == entry[peers[p]]
        IN  en.inflight # NoRound =>
                /\ en.inflight \in Running
                /\ round[en.inflight].peer = p
                /\ round[en.inflight].eid = peers[p]
                /\ round[en.inflight].generation = en.generation

\* No inbound message is stranded: as long as the coordinator runs, messages
\* wait in a current entry's buffer only while a round is in flight whose
\* cleanup will drain them, and the byte count is zero with the buffer.
NoStrandedMessages ==
    ~stopped => \A p \in Known :
        LET en == entry[peers[p]]
        IN  /\ en.inflight = NoRound => en.buffered = 0
            /\ en.buffered = 0 <=> en.bytes = 0

\* What the generation token does guarantee about single flight: as long as
\* the entry of a peer was only ever replaced (reconnect), never deleted, a
\* round of that peer that is not aborted is the one its current entry knows.
SingleflightUntilRemoved ==
    \A r \in Running :
        LET p == round[r].peer
        IN  /\ p \notin removed /\ stop # "done"
            /\ round[r].phase = "send" /\ round[r].aborted = "no"
            => peers[p] # NoEntry /\ entry[peers[p]].inflight = r

\* "Per-Peer Singleflight: pro Peer max. ein laufender Sync": no two rounds
\* of one peer are sending with neither of them aborted.
Singleflight ==
    \A r, s \in Running :
        /\ round[r].peer = round[s].peer
        /\ round[r].phase = "send" /\ round[r].aborted = "no"
        /\ round[s].phase = "send" /\ round[s].aborted = "no"
        => r = s

\* "bei drei Timeouts in Folge ... hangUp(peerId)": the strike that hangs up
\* a peer is a timeout, not an abort the coordinator issued itself.
HangUpMeansTimeout ==
    \A r \in Running :
        round[r].phase = "hangup" => round[r].aborted \in {"no", "timeout"}

\* stop() "bricht laufende Rounds aktiv ab und raeumt Peer-State auf": once
\* it has resolved the map is empty and every round still sending is aborted,
\* except for peers whose entry was deleted under a running round before.
StopQuiesces ==
    stop = "done" =>
        /\ Known = {}
        /\ \A r \in Running :
            round[r].phase = "send" /\ round[r].peer \notin removed
            => round[r].aborted # "no"

\* Once stopped, no callback (microtask, tick, late frame, connect event)
\* starts another round.
NothingStartsAfterStop ==
    [][stopped => \A r \in RoundIds : round[r] = Idle => round'[r] = Idle]_vars

\* A buffered message is applied, unless its entry goes away, stop() wins or a
\* malformed message joins it in the buffer.
BufferedIsApplied ==
    \A p \in Peers :
        peers[p] # NoEntry /\ entry[peers[p]].buffered > 0
        ~> \/ stopped
           \/ peers[p] = NoEntry
           \/ entry[peers[p]].buffered = 0
           \/ entry[peers[p]].spoiled

\* The periodic loop goes on: every tick() arms the next one, unless stop() wins
\* or the cleanup of some round threw, of which nothing but a malformed frame in
\* a buffer is the cause.
TickReturns == tick = "running" ~> tick = "armed" \/ stopped \/ unhandled

\* stop() always resolves: it is never stuck behind a round it awaits, and only
\* a process that is about to end anyway does not come to it.
StopResolves == stopped ~> stop = "done" \/ unhandled

-----------------------------------------------------------------------------
(* The inductive invariant *)

\* Two peers never share an entry.
EntriesDistinct ==
    \A p, q \in Known : peers[p] = peers[q] => p = q

\* What makes the generation a token, for a peer whose entry was never
\* deleted: a running round either is the one its current entry knows, or it
\* belongs to an older generation and has been told to abort.
OldRoundsAreStale ==
    stop # "done" => \A r \in Running :
        LET p == round[r].peer
        IN  p \notin removed =>
                /\ peers[p] # NoEntry
                /\ \/ entry[peers[p]].inflight = r
                   \/ /\ round[r].generation < entry[peers[p]].generation
                      /\ round[r].phase = "send" => round[r].aborted # "no"

\* stop() has aborted what runs, and nothing has started since.
StoppedIsAborted ==
    stopped => \A r \in Running :
        round[r].phase = "send" /\ round[r].peer \notin removed
        => round[r].aborted # "no"

IInv ==
    /\ TypeOK
    /\ EntriesDistinct
    /\ LatchHasRound
    /\ NoStrandedMessages
    /\ OldRoundsAreStale
    /\ StoppedIsAborted
    /\ stop = "done" => Known = {}
=============================================================================
