------------------------- MODULE RegistrySyncProofs -------------------------
(***************************************************************************)
(* Proofs about RegistrySync, for any number of peers, entries and rounds  *)
(* and any buffer limits.  The safety theorems all follow from one         *)
(* inductive invariant, IInv.                                              *)
(***************************************************************************)
EXTENDS RegistrySync, TLAPS

USE DEF stopped

\* Setting the latch of an entry changes nothing else.
LEMMA LatchedType ==
    ASSUME NEW en \in PeerSyncEntry, NEW r \in RoundIds \cup {NoRound}
    PROVE  /\ Latched(en, r) \in PeerSyncEntry
           /\ Latched(en, r).inflight = r
           /\ Latched(en, r).generation = en.generation
           /\ Latched(en, r).buffered = en.buffered
           /\ Latched(en, r).bytes = en.bytes
  BY DEF PeerSyncEntry, Latched

\* A round remembers its peer, its entry and the entry's generation.
LEMMA NewRoundType ==
    ASSUME NEW p \in Peers, NEW e \in EntryIds, NEW g \in Nat \ {0},
           NEW sends
    PROVE  /\ NewRound(p, e, g, sends) \in Round
           /\ NewRound(p, e, g, sends).peer = p
           /\ NewRound(p, e, g, sends).eid = e
           /\ NewRound(p, e, g, sends).generation = g
  BY DEF Round, NewRound, Causes

\* runRound latched the idle entry e of peer p with the new round r ...
FreshEntry(e, p, r, pe, en) ==
    /\ ~stopped /\ pe[p] = e /\ en[e].inflight = NoRound
    /\ round[r] = Idle
    /\ entry'[e] = Latched(en[e], r)
    /\ round'[r] \in Round
    /\ round'[r].peer = p /\ round'[r].eid = e
    /\ round'[r].generation = en[e].generation

\* ... and the new round r is that of the idle entry of peer p.
FreshRound(r, p, pe, en) ==
    /\ ~stopped /\ pe[p] # NoEntry /\ round[r] = Idle
    /\ en[pe[p]].inflight = NoRound
    /\ entry'[pe[p]] = Latched(en[pe[p]], r)
    /\ round'[r] \in Round /\ round'[r].peer = p

\* The only entries changed are idle entries of ps, which get a fresh round,
\* and the only rounds changed are free slots, which get the round of such an
\* entry.
OnlyStarts(ps, pe, en, rd) ==
    /\ entry' \in [EntryIds -> PeerSyncEntry]
    /\ round' \in [RoundIds -> Round \cup {Idle}]
    /\ \A e \in EntryIds :
        \/ entry'[e] = en[e]
        \/ \E p \in ps, r \in RoundIds : FreshEntry(e, p, r, pe, en)
    /\ \A r \in RoundIds :
        round'[r] = rd[r] \/ \E p \in ps : FreshRound(r, p, pe, en)

\* What runRound does when called synchronously for the peers of ps.
LEMMA RunRoundsEffect ==
    ASSUME NEW ps \in SUBSET Peers,
           NEW pe \in [Peers -> EntryIds \cup {NoEntry}],
           NEW en \in [EntryIds -> PeerSyncEntry],
           NEW rd \in [RoundIds -> Round \cup {Idle}],
           ConstantsAssumption,
           \A p, q \in Peers : pe[p] # NoEntry /\ pe[p] = pe[q] => p = q,
           RunRounds(ps, pe, en, rd)
    PROVE  OnlyStarts(ps, pe, en, rd)
  <1> DEFINE start == Startable(ps, pe, en)
  <1>1. PICK slot \in Slots(start), sending \in SUBSET start :
            RunRound(start, pe, en, rd, slot, sending)
    BY DEF RunRounds
  <1>2. /\ start \subseteq ps
        /\ \A p \in start : /\ ~stopped /\ pe[p] # NoEntry
                            /\ pe[p] \in EntryIds
                            /\ en[pe[p]].inflight = NoRound
    BY DEF Startable
  <1>3. /\ slot \in [start -> FreeRounds]
        /\ \A p, q \in start : slot[p] = slot[q] => p = q
        /\ \A p \in start : slot[p] \in RoundIds /\ round[slot[p]] = Idle
    BY DEF Slots, FreeRounds, Running
  <1> HIDE DEF start
  <1>4. \A e \in EntryIds :
           \/ entry'[e] = en[e] /\ \A p \in start : pe[p] # e
           \/ \E p \in start : pe[p] = e /\ entry'[e] = Latched(en[e], slot[p])
    <2> TAKE e \in EntryIds
    <2>1. CASE \E p \in start : pe[p] = e
      <3>1. PICK p \in start : p = CHOOSE q \in start : pe[q] = e
        BY <2>1
      <3>2. pe[p] = e
        BY <2>1, <3>1
      <3> QED BY <1>1, <2>1, <3>1, <3>2 DEF RunRound
    <2>2. CASE ~ \E p \in start : pe[p] = e
      BY <1>1, <2>2 DEF RunRound
    <2> QED BY <2>1, <2>2
  <1>5. \A r \in RoundIds :
           \/ round'[r] = rd[r] /\ \A p \in start : slot[p] # r
           \/ \E p \in start :
                 /\ slot[p] = r
                 /\ round'[r] = NewRound(p, pe[p], en[pe[p]].generation, p \in sending)
    <2> TAKE r \in RoundIds
    <2>1. CASE \E p \in start : slot[p] = r
      <3>1. PICK p \in start : p = CHOOSE q \in start : slot[q] = r
        BY <2>1
      <3>2. slot[p] = r
        BY <2>1, <3>1
      <3> QED BY <1>1, <2>1, <3>1, <3>2 DEF RunRound
    <2>2. CASE ~ \E p \in start : slot[p] = r
      BY <1>1, <2>2 DEF RunRound
    <2> QED BY <2>1, <2>2
  <1>6. \A p \in start : en[pe[p]] \in PeerSyncEntry
    BY <1>2
  <1>7. \A p \in start : round'[slot[p]] =
            NewRound(p, pe[p], en[pe[p]].generation, p \in sending)
    <2> TAKE p \in start
    <2>1. PICK q \in start :
             /\ slot[q] = slot[p]
             /\ round'[slot[p]] =
                    NewRound(q, pe[q], en[pe[q]].generation, q \in sending)
      BY <1>3, <1>5
    <2>2. q = p
      BY <1>3, <2>1
    <2> QED BY <2>1, <2>2
  <1>8. \A p \in start : round'[slot[p]] \in Round
    <2> TAKE p \in start
    <2>1. pe[p] \in EntryIds /\ p \in Peers
      BY <1>2
    <2>2. en[pe[p]].generation \in Nat \ {0}
      BY <1>6 DEF PeerSyncEntry
    <2> QED BY <1>7, <2>1, <2>2, NewRoundType
  <1>9. \A p \in start : entry'[pe[p]] = Latched(en[pe[p]], slot[p])
    <2> TAKE p \in start
    <2>1. PICK q \in start : pe[q] = pe[p]
             /\ entry'[pe[p]] = Latched(en[pe[p]], slot[q])
      BY <1>2, <1>4
    <2>2. q = p
      BY <1>2, <2>1
    <2> QED BY <2>1, <2>2
  <1>10. entry' \in [EntryIds -> PeerSyncEntry]
    <2>1. \A e \in EntryIds : entry'[e] \in PeerSyncEntry
      BY <1>3, <1>4, LatchedType
    <2> QED BY <1>1, <2>1 DEF RunRound
  <1>11. round' \in [RoundIds -> Round \cup {Idle}]
    <2>1. \A r \in RoundIds : round'[r] \in Round \cup {Idle}
      BY <1>3, <1>5, <1>8
    <2> QED BY <1>1, <2>1 DEF RunRound
  <1>12. ASSUME NEW e \in EntryIds
         PROVE  \/ entry'[e] = en[e]
                \/ \E p \in ps, r \in RoundIds : FreshEntry(e, p, r, pe, en)
    <2>1. CASE \A p \in start : pe[p] # e
      BY <1>4, <2>1
    <2>2. CASE \E p \in start : pe[p] = e
      <3>1. PICK p \in start : pe[p] = e
        BY <2>2
      <3>2. round'[slot[p]].peer = p /\ round'[slot[p]].eid = e
            /\ round'[slot[p]].generation = en[e].generation
        BY <1>2, <1>6, <1>7, <3>1, NewRoundType DEF PeerSyncEntry
      <3>3. p \in ps /\ slot[p] \in RoundIds /\ round[slot[p]] = Idle
            /\ ~stopped /\ en[e].inflight = NoRound
        BY <1>2, <1>3, <3>1
      <3>4. entry'[e] = Latched(en[e], slot[p])
        BY <1>9, <3>1
      <3> QED BY <1>8, <3>1, <3>2, <3>3, <3>4 DEF FreshEntry
    <2> QED BY <2>1, <2>2
  <1>13. ASSUME NEW r \in RoundIds
         PROVE  round'[r] = rd[r] \/ \E p \in ps : FreshRound(r, p, pe, en)
    <2>1. CASE round'[r] = rd[r]
      BY <2>1
    <2>2. CASE \E p \in start : slot[p] = r
      <3>1. PICK p \in start : slot[p] = r
        BY <2>2
      <3>2. round'[r].peer = p
        BY <1>2, <1>6, <1>7, <3>1, NewRoundType DEF PeerSyncEntry
      <3>3. p \in ps /\ ~stopped /\ pe[p] # NoEntry /\ round[r] = Idle
            /\ en[pe[p]].inflight = NoRound
        BY <1>2, <1>3, <3>1
      <3> QED BY <1>8, <1>9, <3>1, <3>2, <3>3 DEF FreshRound
    <2> QED BY <1>5, <2>1, <2>2
  <1> QED BY <1>10, <1>11, <1>12, <1>13 DEF OnlyStarts

-----------------------------------------------------------------------------
\* abort() keeps a round what it is; if a round is unaborted afterwards while
\* sending, it is not the round of a current entry of ps.
LEMMA AbortEffect ==
    ASSUME TypeOK, NEW ps \in SUBSET Peers
    PROVE  /\ Abort(ps) \in [RoundIds -> Round \cup {Idle}]
           /\ \A r \in RoundIds :
                /\ Abort(ps)[r] = Idle <=> round[r] = Idle
                /\ round[r] # Idle =>
                    /\ Abort(ps)[r].peer = round[r].peer
                    /\ Abort(ps)[r].eid = round[r].eid
                    /\ Abort(ps)[r].generation = round[r].generation
                    /\ Abort(ps)[r].phase = round[r].phase
                    /\ round[r].aborted # "no" => Abort(ps)[r].aborted # "no"
                    /\ Abort(ps)[r].phase = "send" /\ Abort(ps)[r].aborted = "no"
                       => \A p \in ps \cap Known : entry[peers[p]].inflight # r
  <1>1. \A r \in RoundIds : round[r] # Idle => round[r] \in Round
    BY DEF TypeOK
  <1>2. Idle \notin Round
    BY DEF Idle, Round
  <1>3. ASSUME NEW r \in RoundIds, round[r] # Idle
        PROVE  /\ Abort(ps)[r] \in Round
               /\ Abort(ps)[r].peer = round[r].peer
               /\ Abort(ps)[r].eid = round[r].eid
               /\ Abort(ps)[r].generation = round[r].generation
               /\ Abort(ps)[r].phase = round[r].phase
               /\ round[r].aborted # "no" => Abort(ps)[r].aborted # "no"
               /\ Abort(ps)[r].phase = "send" /\ Abort(ps)[r].aborted = "no"
                  => \A p \in ps \cap Known : entry[peers[p]].inflight # r
    <2>1. round[r] \in Round
      BY <1>1, <1>3
    <2>2. CASE /\ round[r].phase = "send" /\ round[r].aborted = "no"
               /\ \E p \in ps \cap Known : entry[peers[p]].inflight = r
      <3>1. Abort(ps)[r] = [round[r] EXCEPT !.aborted = "coordinator"]
        BY <1>3, <2>2 DEF Abort
      <3> QED BY <2>1, <2>2, <3>1 DEF Round, Causes
    <2>3. CASE ~ (/\ round[r].phase = "send" /\ round[r].aborted = "no"
                  /\ \E p \in ps \cap Known : entry[peers[p]].inflight = r)
      <3>1. Abort(ps)[r] = round[r]
        BY <2>3 DEF Abort
      <3> QED BY <2>1, <2>3, <3>1
    <2> QED BY <2>2, <2>3
  <1>4. \A r \in RoundIds : round[r] = Idle => Abort(ps)[r] = Idle
    BY DEF Abort
  <1>5. \A r \in RoundIds : Abort(ps)[r] \in Round \cup {Idle}
    BY <1>3, <1>4
  <1>6. Abort(ps) = [r \in RoundIds |-> Abort(ps)[r]]
    BY DEF Abort
  <1> QED BY <1>2, <1>3, <1>4, <1>5, <1>6

\* The conjuncts of IInv other than TypeOK, which say what the map, the heap
\* and the rounds have to do with each other.
Linked ==
    /\ EntriesDistinct
    /\ LatchHasRound
    /\ NoStrandedMessages
    /\ OldRoundsAreStale
    /\ StoppedIsAborted
    /\ stop = "done" => Known = {}

\* Steps that create no entry and no round, release no latch and move no
\* message: they may abort and advance rounds, count strikes and delete
\* entries of peers that are then marked removed.
LEMMA QuietStep ==
    ASSUME TypeOK, TypeOK', Linked, stop' = stop,
           removed \subseteq removed',
           \A p \in Peers : \/ peers'[p] = peers[p]
                            \/ peers'[p] = NoEntry /\ p \in removed',
           \A e \in EntryIds :
                /\ entry'[e].generation = entry[e].generation
                /\ entry'[e].inflight = entry[e].inflight
                /\ entry'[e].buffered = entry[e].buffered
                /\ entry'[e].bytes = entry[e].bytes,
           \A r \in RoundIds :
                /\ round'[r] = Idle <=> round[r] = Idle
                /\ round[r] # Idle =>
                    /\ round'[r].peer = round[r].peer
                    /\ round'[r].eid = round[r].eid
                    /\ round'[r].generation = round[r].generation
                    /\ round'[r].phase = "send" =>
                        /\ round[r].phase = "send"
                        /\ round[r].aborted # "no" => round'[r].aborted # "no"
    PROVE  Linked'
  <1>1. \A p \in Known' : /\ p \in Known /\ peers'[p] = peers[p]
                           /\ peers[p] \in EntryIds
    BY DEF Known, TypeOK
  <1>2. \A r \in Running' : /\ r \in Running /\ r \in RoundIds
                             /\ round[r].peer \in Peers
    BY DEF Running, TypeOK, Round
  <1>3. EntriesDistinct'
    BY <1>1 DEF Linked, EntriesDistinct
  <1>4. LatchHasRound'
    <2> SUFFICES ASSUME NEW p \in Known', entry'[peers'[p]].inflight # NoRound
                 PROVE  LET en == entry'[peers'[p]] IN
                        /\ en.inflight \in Running'
                        /\ round'[en.inflight].peer = p
                        /\ round'[en.inflight].eid = peers'[p]
                        /\ round'[en.inflight].generation = en.generation
      BY DEF LatchHasRound
    <2>1. entry[peers[p]].inflight # NoRound /\ p \in Known
      BY <1>1
    <2>2. /\ entry[peers[p]].inflight \in Running
          /\ round[entry[peers[p]].inflight].peer = p
          /\ round[entry[peers[p]].inflight].eid = peers[p]
          /\ round[entry[peers[p]].inflight].generation
                = entry[peers[p]].generation
      BY <2>1 DEF Linked, LatchHasRound
    <2> QED BY <1>1, <2>2 DEF Running
  <1>5. NoStrandedMessages'
    BY <1>1 DEF Linked, NoStrandedMessages
  <1>6. OldRoundsAreStale'
    <2> SUFFICES ASSUME stop' # "done", NEW r \in Running',
                        round'[r].peer \notin removed'
                 PROVE  LET p == round'[r].peer IN
                        /\ peers'[p] # NoEntry
                        /\ \/ entry'[peers'[p]].inflight = r
                           \/ /\ round'[r].generation < entry'[peers'[p]].generation
                              /\ round'[r].phase = "send" => round'[r].aborted # "no"
      BY DEF OldRoundsAreStale
    <2> DEFINE p == round[r].peer
    <2>1. r \in Running /\ round[r] # Idle /\ round'[r].peer = p /\ p \in Peers
      BY <1>2 DEF Running
    <2>2. p \notin removed /\ peers'[p] = peers[p]
      BY <2>1
    <2>3. /\ peers[p] # NoEntry
          /\ \/ entry[peers[p]].inflight = r
             \/ /\ round[r].generation < entry[peers[p]].generation
                /\ round[r].phase = "send" => round[r].aborted # "no"
      BY <2>1, <2>2 DEF Linked, OldRoundsAreStale
    <2>4. peers[p] \in EntryIds /\ r \in RoundIds
      BY <1>2, <2>1, <2>3 DEF TypeOK
    <2> QED BY <2>1, <2>2, <2>3, <2>4
  <1>7. StoppedIsAborted'
    BY <1>2 DEF Linked, StoppedIsAborted, Running
  <1>8. (stop = "done" => Known = {})'
    BY <1>1 DEF Linked
  <1> QED BY <1>3, <1>4, <1>5, <1>6, <1>7, <1>8 DEF Linked

\* Steps that call runRound: if the map pe, the heap en and the rounds rd it
\* works on are linked, they are linked afterwards.
LEMMA StartStep ==
    ASSUME NEW ps \in SUBSET Peers,
           NEW pe \in [Peers -> EntryIds \cup {NoEntry}],
           NEW en \in [EntryIds -> PeerSyncEntry],
           NEW rd \in [RoundIds -> Round \cup {Idle}],
           ConstantsAssumption,
           RunRounds(ps, pe, en, rd),
           peers' = pe, stop' = stop, removed' = removed,
           \A r \in RoundIds : rd[r] = Idle <=> round[r] = Idle,
           \A p, q \in Peers : pe[p] # NoEntry /\ pe[p] = pe[q] => p = q,
           \A p \in Peers : pe[p] # NoEntry /\ en[pe[p]].inflight # NoRound =>
                /\ rd[en[pe[p]].inflight] # Idle
                /\ rd[en[pe[p]].inflight].peer = p
                /\ rd[en[pe[p]].inflight].eid = pe[p]
                /\ rd[en[pe[p]].inflight].generation = en[pe[p]].generation,
           stop = "no" => \A p \in Peers : pe[p] # NoEntry =>
                /\ en[pe[p]].inflight = NoRound => en[pe[p]].buffered = 0
                /\ en[pe[p]].buffered = 0 <=> en[pe[p]].bytes = 0,
           stop # "done" => \A r \in RoundIds :
                rd[r] # Idle /\ rd[r].peer \notin removed =>
                    /\ pe[rd[r].peer] # NoEntry
                    /\ \/ en[pe[rd[r].peer]].inflight = r
                       \/ /\ rd[r].generation < en[pe[rd[r].peer]].generation
                          /\ rd[r].phase = "send" => rd[r].aborted # "no",
           stop # "no" => \A r \in RoundIds :
                /\ rd[r] # Idle /\ rd[r].phase = "send"
                /\ rd[r].peer \notin removed
                => rd[r].aborted # "no",
           stop = "done" => \A p \in Peers : pe[p] = NoEntry
    PROVE  Linked'
  <1>1. /\ entry' \in [EntryIds -> PeerSyncEntry]
        /\ round' \in [RoundIds -> Round \cup {Idle}]
        /\ \A e \in EntryIds :
                \/ entry'[e] = en[e]
                \/ \E p \in ps, r \in RoundIds : FreshEntry(e, p, r, pe, en)
        /\ \A r \in RoundIds :
                round'[r] = rd[r] \/ \E p \in ps : FreshRound(r, p, pe, en)
    <2>1. OnlyStarts(ps, pe, en, rd)
      BY RunRoundsEffect
    <2> QED BY <2>1 DEF OnlyStarts
  <1>2. Idle \notin Round
    BY DEF Idle, Round
  <1>3. \A p \in Known' : p \in Peers /\ pe[p] # NoEntry /\ pe[p] \in EntryIds
    BY DEF Known
  <1>4. EntriesDistinct'
    BY <1>3 DEF EntriesDistinct
  <1>5. LatchHasRound'
    <2> SUFFICES ASSUME NEW p \in Known', entry'[pe[p]].inflight # NoRound
                 PROVE  /\ entry'[pe[p]].inflight \in Running'
                        /\ round'[entry'[pe[p]].inflight].peer = p
                        /\ round'[entry'[pe[p]].inflight].eid = pe[p]
                        /\ round'[entry'[pe[p]].inflight].generation
                              = entry'[pe[p]].generation
      BY DEF LatchHasRound
    <2>1. CASE entry'[pe[p]] = en[pe[p]]
      <3> DEFINE r == en[pe[p]].inflight
      <3>1. r \in RoundIds
        BY <1>3, <2>1 DEF PeerSyncEntry
      <3>2. rd[r] # Idle /\ round[r] # Idle
        BY <1>3, <2>1, <3>1
      <3>3. round'[r] = rd[r]
        BY <1>1, <3>1, <3>2 DEF FreshRound
      <3> QED BY <1>3, <2>1, <3>1, <3>2, <3>3 DEF Running
    <2>2. CASE \E q \in ps, r \in RoundIds : FreshEntry(pe[p], q, r, pe, en)
      <3>1. PICK q \in ps, r \in RoundIds : FreshEntry(pe[p], q, r, pe, en)
        BY <2>2
      <3> USE DEF FreshEntry
      <3>2. q = p
        BY <1>3, <3>1
      <3>3. /\ entry'[pe[p]].inflight = r
            /\ entry'[pe[p]].generation = en[pe[p]].generation
        BY <1>3, <3>1, LatchedType
      <3>4. r \in Running'
        BY <1>2, <3>1 DEF Running
      <3> QED BY <3>1, <3>2, <3>3, <3>4
    <2> QED BY <1>1, <1>3, <2>1, <2>2
  <1>6. NoStrandedMessages'
    <2> SUFFICES ASSUME stop = "no", NEW p \in Known'
                 PROVE  /\ entry'[pe[p]].inflight = NoRound
                              => entry'[pe[p]].buffered = 0
                        /\ entry'[pe[p]].buffered = 0 <=> entry'[pe[p]].bytes = 0
      BY DEF NoStrandedMessages
    <2>1. CASE entry'[pe[p]] = en[pe[p]]
      BY <1>3, <2>1
    <2>2. CASE \E q \in ps, r \in RoundIds : FreshEntry(pe[p], q, r, pe, en)
      <3>1. PICK q \in ps, r \in RoundIds : FreshEntry(pe[p], q, r, pe, en)
        BY <2>2
      <3> USE DEF FreshEntry
      <3>2. /\ entry'[pe[p]].buffered = en[pe[p]].buffered
            /\ entry'[pe[p]].bytes = en[pe[p]].bytes
        BY <1>3, <3>1, LatchedType
      <3> QED BY <1>3, <3>1, <3>2
    <2> QED BY <1>1, <1>3, <2>1, <2>2
  <1>7. OldRoundsAreStale'
    <2> SUFFICES ASSUME stop # "done", NEW r \in Running',
                        round'[r].peer \notin removed
                 PROVE  /\ pe[round'[r].peer] # NoEntry
                        /\ \/ entry'[pe[round'[r].peer]].inflight = r
                           \/ /\ round'[r].generation
                                    < entry'[pe[round'[r].peer]].generation
                              /\ round'[r].phase = "send" => round'[r].aborted # "no"
      BY DEF OldRoundsAreStale
    <2>0. r \in RoundIds /\ round'[r] # Idle
      BY SMTT(30) DEF Running
    <2>1. CASE round'[r] = rd[r]
      <3> DEFINE p == rd[r].peer
      <3>1. p \in Peers
        BY <2>0, <2>1 DEF Round
      <3>2. /\ pe[p] # NoEntry
            /\ \/ en[pe[p]].inflight = r
               \/ /\ rd[r].generation < en[pe[p]].generation
                  /\ rd[r].phase = "send" => rd[r].aborted # "no"
        BY <2>0, <2>1
      <3>3. pe[p] \in EntryIds
        BY <3>1, <3>2
      <3>4. /\ entry'[pe[p]].generation = en[pe[p]].generation
            /\ en[pe[p]].inflight = r => entry'[pe[p]].inflight = r
        <4>1. CASE entry'[pe[p]] = en[pe[p]]
          BY <4>1
        <4>2. CASE \E q \in ps, s \in RoundIds : FreshEntry(pe[p], q, s, pe, en)
          <5>1. PICK q \in ps, s \in RoundIds : FreshEntry(pe[p], q, s, pe, en)
            BY <4>2
          <5> USE DEF FreshEntry
          <5>2. entry'[pe[p]].generation = en[pe[p]].generation
            BY <3>3, <5>1, LatchedType, SMTT(30)
          <5>3. en[pe[p]].inflight # r
            BY <2>0, <5>1 DEF ConstantsAssumption
          <5> QED BY <5>2, <5>3
        <4> QED BY <1>1, <3>3, <4>1, <4>2
      <3> QED BY <2>1, <3>2, <3>4
    <2>2. CASE \E p \in ps : FreshRound(r, p, pe, en)
      <3>1. PICK p \in ps : FreshRound(r, p, pe, en)
        BY <2>2
      <3> USE DEF FreshRound
      <3>2. pe[p] \in EntryIds
        BY <3>1
      <3>3. entry'[pe[p]].inflight = r
        BY <2>0, <3>1, <3>2, LatchedType
      <3> QED BY <3>1, <3>3
    <2> QED BY <1>1, <2>0, <2>1, <2>2
  <1>8. StoppedIsAborted'
    <2> SUFFICES ASSUME stop # "no", NEW r \in Running',
                        round'[r].phase = "send", round'[r].peer \notin removed
                 PROVE  round'[r].aborted # "no"
      BY DEF StoppedIsAborted
    <2>1. r \in RoundIds /\ round'[r] = rd[r] /\ rd[r] # Idle
      BY <1>1 DEF Running, FreshRound
    <2> QED BY <2>1
  <1>9. (stop = "done" => Known = {})'
    BY DEF Known
  <1> QED BY <1>4, <1>5, <1>6, <1>7, <1>8, <1>9 DEF Linked

-----------------------------------------------------------------------------
\* A new entry has nothing in it.
LEMMA CreateType ==
    ASSUME NEW g \in Nat, ConstantsAssumption
    PROVE  /\ CreatePeerEntry(g) \in PeerSyncEntry
           /\ CreatePeerEntry(g).inflight = NoRound
           /\ CreatePeerEntry(g).generation = g + 1
           /\ CreatePeerEntry(g).buffered = 0
           /\ CreatePeerEntry(g).bytes = 0
  BY DEF CreatePeerEntry, PeerSyncEntry, ConstantsAssumption

\* The entry of a peer met for the first time.
LEMMA FirstEntryType ==
    /\ CreatePeerEntry(0) \in PeerSyncEntry
    /\ CreatePeerEntry(0).inflight = NoRound
    /\ CreatePeerEntry(0).buffered = 0 /\ CreatePeerEntry(0).bytes = 0
  <1> DEFINE g == 0
  <1>1. g \in Nat
    OBVIOUS
  <1> HIDE DEF g
  <1>2. /\ CreatePeerEntry(g) \in PeerSyncEntry
        /\ CreatePeerEntry(g).inflight = NoRound
        /\ CreatePeerEntry(g).buffered = 0 /\ CreatePeerEntry(g).bytes = 0
    BY <1>1, CreateType, ConstantsAssumption
  <1> QED BY <1>2 DEF g

\* Buffering a message that fits keeps the entry within its limits.
LEMMA BufferedType ==
    ASSUME NEW en \in PeerSyncEntry, NEW size \in Nat, NEW malformed \in BOOLEAN,
           en.buffered < MaxBufferedMessages, en.bytes + size <= MaxBufferedBytes
    PROVE  /\ Buffered(en, size, malformed) \in PeerSyncEntry
           /\ Buffered(en, size, malformed).buffered = en.buffered + 1
           /\ Buffered(en, size, malformed).bytes = en.bytes + size
           /\ Buffered(en, size, malformed).generation = en.generation
           /\ Buffered(en, size, malformed).inflight = en.inflight
  <1>1. /\ en.buffered + 1 \in 0..MaxBufferedMessages
        /\ en.bytes + size \in 0..MaxBufferedBytes
    BY ConstantsAssumption DEF PeerSyncEntry, ConstantsAssumption
  <1> DEFINE m == en.buffered + 1
             b == en.bytes + size
             s == en.spoiled \/ malformed
             x == [en EXCEPT !.buffered = m, !.bytes = b, !.spoiled = s]
  <1>2. x = Buffered(en, size, malformed)
    BY DEF Buffered, PeerSyncEntry
  <1>3. s \in BOOLEAN
    OBVIOUS
  <1> HIDE DEF m, b, s
  <1>4. /\ x \in PeerSyncEntry
        /\ x.buffered = m /\ x.bytes = b
        /\ x.generation = en.generation /\ x.inflight = en.inflight
    <2>1. m \in 0..MaxBufferedMessages /\ b \in 0..MaxBufferedBytes
      BY <1>1 DEF m, b
    <2> QED BY <1>3, <2>1 DEF PeerSyncEntry
  <1> QED BY <1>2, <1>4 DEF m, b

\* runRound on the coordinator's own state: microtask, tick, republish and a
\* frame for a known idle peer.
LEMMA RunRoundsInPlace ==
    ASSUME IInv, NEW ps \in SUBSET Peers, RunRounds(ps, peers, entry, round),
           peers' = peers, stop' = stop, removed' = removed
    PROVE  /\ Linked'
           /\ entry' \in [EntryIds -> PeerSyncEntry]
           /\ round' \in [RoundIds -> Round \cup {Idle}]
           /\ Running \subseteq Running'
           /\ stopped => \A r \in RoundIds : round'[r] = round[r]
  <1>1. TypeOK /\ ConstantsAssumption
    BY ConstantsAssumption DEF IInv
  <1>2. \A p, q \in Peers : peers[p] # NoEntry /\ peers[p] = peers[q] => p = q
    BY DEF IInv, EntriesDistinct, Known
  <1>3. /\ entry' \in [EntryIds -> PeerSyncEntry]
        /\ round' \in [RoundIds -> Round \cup {Idle}]
        /\ \A r \in RoundIds :
                round'[r] = round[r] \/ \E p \in ps : FreshRound(r, p, peers, entry)
    <2>1. OnlyStarts(ps, peers, entry, round)
      BY <1>1, <1>2, RunRoundsEffect DEF TypeOK
    <2> QED BY <2>1 DEF OnlyStarts
  <1>4. Running \subseteq Running'
    BY <1>3 DEF Running, FreshRound
  <1>5. \A p \in Peers : peers[p] # NoEntry /\ entry[peers[p]].inflight # NoRound =>
                /\ round[entry[peers[p]].inflight] # Idle
                /\ round[entry[peers[p]].inflight].peer = p
                /\ round[entry[peers[p]].inflight].eid = peers[p]
                /\ round[entry[peers[p]].inflight].generation = entry[peers[p]].generation
    BY DEF IInv, LatchHasRound, Known, Running
  <1>6. stop = "no" => \A p \in Peers : peers[p] # NoEntry =>
                /\ entry[peers[p]].inflight = NoRound => entry[peers[p]].buffered = 0
                /\ entry[peers[p]].buffered = 0 <=> entry[peers[p]].bytes = 0
    BY DEF IInv, NoStrandedMessages, Known
  <1>7. stop # "done" => \A r \in RoundIds :
                round[r] # Idle /\ round[r].peer \notin removed =>
                    /\ peers[round[r].peer] # NoEntry
                    /\ \/ entry[peers[round[r].peer]].inflight = r
                       \/ /\ round[r].generation < entry[peers[round[r].peer]].generation
                          /\ round[r].phase = "send" => round[r].aborted # "no"
    BY DEF IInv, OldRoundsAreStale, Running
  <1>8. stop # "no" => \A r \in RoundIds :
                /\ round[r] # Idle /\ round[r].phase = "send"
                /\ round[r].peer \notin removed
                => round[r].aborted # "no"
    BY DEF IInv, StoppedIsAborted, Running
  <1>9. stop = "done" => \A p \in Peers : peers[p] = NoEntry
    BY DEF IInv, Known
  <1>10. Linked'
    BY <1>1, <1>2, <1>5, <1>6, <1>7, <1>8, <1>9, StartStep DEF TypeOK
  <1>11. stopped => \A r \in RoundIds : round'[r] = round[r]
    BY <1>3 DEF FreshRound
  <1> QED BY <1>3, <1>4, <1>10, <1>11

\* runRound right after a new entry of generation g + 1 was put in the map for
\* p: g is 0 for an unknown peer, and the generation of the entry it replaces,
\* whose round has been aborted, for a known one.
LEMMA RunRoundsNewEntry ==
    ASSUME IInv, ~stopped, NEW p \in Peers, NEW e \in FreeEntries, NEW g \in Nat,
           g = (IF peers[p] = NoEntry THEN 0 ELSE entry[peers[p]].generation),
           peers' = [peers EXCEPT ![p] = e], stop' = stop, removed' = removed,
           RunRounds({p}, [peers EXCEPT ![p] = e],
                     [entry EXCEPT ![e] = CreatePeerEntry(g)], Abort({p}))
    PROVE  /\ Linked'
           /\ peers' \in [Peers -> EntryIds \cup {NoEntry}]
           /\ entry' \in [EntryIds -> PeerSyncEntry]
           /\ round' \in [RoundIds -> Round \cup {Idle}]
           /\ Running \subseteq Running'
  <1> DEFINE pe == [peers EXCEPT ![p] = e]
             en == [entry EXCEPT ![e] = CreatePeerEntry(g)]
             rd == Abort({p})
  <1>1. TypeOK /\ ConstantsAssumption
    BY ConstantsAssumption DEF IInv
  <1>2. /\ e \in EntryIds
        /\ \A q \in Peers : peers[q] # e
        /\ \A r \in RoundIds : round[r] # Idle => round[r].eid # e
    BY DEF FreeEntries, Running
  <1>3. /\ rd \in [RoundIds -> Round \cup {Idle}]
        /\ \A r \in RoundIds :
             /\ rd[r] = Idle <=> round[r] = Idle
             /\ round[r] # Idle =>
                 /\ rd[r].peer = round[r].peer
                 /\ rd[r].eid = round[r].eid
                 /\ rd[r].generation = round[r].generation
                 /\ rd[r].phase = round[r].phase
                 /\ round[r].aborted # "no" => rd[r].aborted # "no"
                 /\ rd[r].phase = "send" /\ rd[r].aborted = "no"
                    => \A q \in {p} \cap Known : entry[peers[q]].inflight # r
    BY <1>1, AbortEffect
  <1>4. /\ pe \in [Peers -> EntryIds \cup {NoEntry}]
        /\ en \in [EntryIds -> PeerSyncEntry]
    BY <1>1, <1>2, CreateType DEF TypeOK
  <1>5. /\ pe[p] = e /\ \A q \in Peers : q # p => pe[q] = peers[q]
        /\ \A f \in EntryIds : f # e => en[f] = entry[f]
        /\ en[e].inflight = NoRound /\ en[e].generation = g + 1
        /\ en[e].buffered = 0 /\ en[e].bytes = 0
    BY <1>1, <1>2, CreateType DEF TypeOK
  <1>6. \A q \in Peers : q # p /\ pe[q] # NoEntry =>
            /\ q \in Known /\ pe[q] = peers[q] /\ pe[q] # e /\ pe[q] \in EntryIds
            /\ en[pe[q]] = entry[peers[q]]
    BY <1>1, <1>2, <1>5 DEF Known, TypeOK
  <1>7. \A q, s \in Peers : pe[q] # NoEntry /\ pe[q] = pe[s] => q = s
    BY <1>1, <1>2, <1>5, <1>6 DEF IInv, EntriesDistinct, Known, ConstantsAssumption
  <1> HIDE DEF pe, en, rd
  <1>8. /\ entry' \in [EntryIds -> PeerSyncEntry]
        /\ round' \in [RoundIds -> Round \cup {Idle}]
        /\ \A r \in RoundIds :
                round'[r] = rd[r] \/ \E q \in {p} : FreshRound(r, q, pe, en)
    <2>1. RunRounds({p}, pe, en, rd)
      BY DEF pe, en, rd
    <2> DEFINE ps == {p}
    <2>2. ps \in SUBSET Peers /\ RunRounds(ps, pe, en, rd)
      BY <2>1
    <2> HIDE DEF ps
    <2>3. OnlyStarts(ps, pe, en, rd)
      BY <1>1, <1>3, <1>4, <1>7, <2>2, RunRoundsEffect
    <2> QED BY <2>3 DEF OnlyStarts, ps
  <1>9. Running \subseteq Running'
    BY <1>3, <1>8 DEF Running, FreshRound
  <1>10. \A q \in Peers : pe[q] # NoEntry /\ en[pe[q]].inflight # NoRound =>
                /\ rd[en[pe[q]].inflight] # Idle
                /\ rd[en[pe[q]].inflight].peer = q
                /\ rd[en[pe[q]].inflight].eid = pe[q]
                /\ rd[en[pe[q]].inflight].generation = en[pe[q]].generation
    BY <1>3, <1>5, <1>6 DEF IInv, LatchHasRound, Running
  <1>11. \A q \in Peers : pe[q] # NoEntry =>
                /\ en[pe[q]].inflight = NoRound => en[pe[q]].buffered = 0
                /\ en[pe[q]].buffered = 0 <=> en[pe[q]].bytes = 0
    BY <1>5, <1>6 DEF IInv, NoStrandedMessages
  <1>12. ASSUME NEW r \in RoundIds, rd[r] # Idle, rd[r].peer \notin removed
         PROVE  /\ pe[rd[r].peer] # NoEntry
                /\ \/ en[pe[rd[r].peer]].inflight = r
                   \/ /\ rd[r].generation < en[pe[rd[r].peer]].generation
                      /\ rd[r].phase = "send" => rd[r].aborted # "no"
    <2> DEFINE q == round[r].peer
    <2>1. round[r] # Idle /\ q \in Peers /\ rd[r].peer = q /\ r \in Running
          /\ round[r].generation \in Nat
      BY <1>1, <1>3, <1>12 DEF TypeOK, Round, Running
    <2>2. /\ peers[q] # NoEntry
          /\ \/ entry[peers[q]].inflight = r
             \/ /\ round[r].generation < entry[peers[q]].generation
                /\ round[r].phase = "send" => round[r].aborted # "no"
      BY <1>12, <2>1 DEF IInv, OldRoundsAreStale
    <2>3. CASE q # p
      BY <1>3, <1>5, <1>6, <2>1, <2>2, <2>3
    <2>4. CASE q = p
      <3>1. pe[q] = e /\ en[pe[q]].generation = g + 1
        BY <1>5, <2>4
      <3>2. g = entry[peers[p]].generation /\ p \in Known
        BY <2>2, <2>4 DEF Known
      <3>3. CASE entry[peers[p]].inflight = r
        <4>1. round[r].generation = g
          BY <1>1, <3>2, <3>3 DEF IInv, LatchHasRound, ConstantsAssumption
        <4>2. rd[r].phase = "send" => rd[r].aborted # "no"
          BY <1>3, <2>1, <3>2, <3>3
        <4> QED BY <1>2, <1>1, <1>3, <2>1, <3>1, <4>1, <4>2 DEF ConstantsAssumption
      <3>4. CASE /\ round[r].generation < entry[peers[q]].generation
                 /\ round[r].phase = "send" => round[r].aborted # "no"
        BY <1>1, <1>2, <1>3, <2>1, <2>4, <3>1, <3>2, <3>4, SMTT(30) DEF ConstantsAssumption
      <3> QED BY <2>2, <2>4, <3>3, <3>4
    <2> QED BY <2>3, <2>4
  <1>13. Linked'
    <2>1. RunRounds({p}, pe, en, rd) /\ peers' = pe
      BY DEF pe, en, rd
    <2>2. stop = "no" /\ {p} \in SUBSET Peers
      OBVIOUS
    <2> QED BY <1>1, <1>3, <1>4, <1>7, <1>10, <1>11, <1>12, <2>1, <2>2, StartStep
  <1> QED BY <1>4, <1>8, <1>9, <1>13 DEF pe

-----------------------------------------------------------------------------
\* IInv holds initially.
LEMMA InitIInv == Init => IInv
  <1> SUFFICES ASSUME Init PROVE IInv
    OBVIOUS
  <1>1. Known = {} /\ Running = {}
    BY DEF Init, Known, Running
  <1>2. TypeOK
    <2>1. entry \in [EntryIds -> PeerSyncEntry]
      BY FirstEntryType DEF Init
    <2>2. overflows \in [Peers -> 0..MaxOverflows]
      BY ConstantsAssumption DEF Init, ConstantsAssumption
    <2>3. round \in [RoundIds -> Round \cup {Idle}]
      BY DEF Init
    <2> QED BY <1>1, <2>1, <2>2, <2>3 DEF Init, TypeOK
  <1> QED BY <1>1, <1>2 DEF IInv, EntriesDistinct, LatchHasRound,
        NoStrandedMessages, OldRoundsAreStale, StoppedIsAborted, Init

\* Connection events and inbound frames preserve IInv.
LEMMA EventsPreserveIInv ==
    ASSUME IInv, NEW p \in Peers,
           \/ OnPeerConnect(p) \/ OnPeerDisconnect(p) \/ ReceiveMessage(p)
           \/ ReceiveMalformed(p) \/ OverflowHungUp(p) \/ Kick(p)
           \/ \E size \in MessageSizes, malformed \in BOOLEAN :
                 BufferMessage(p, size, malformed)
           \/ \E size \in MessageSizes : OverflowHangUp(p, size)
    PROVE  IInv'
  <1>1. TypeOK /\ Linked
    BY DEF IInv, Linked
  <1>2. SUFFICES TypeOK' /\ Linked'
    BY DEF IInv, Linked
  <1>3. CASE OnPeerConnect(p)
    <2>1. PICK e \in FreeEntries :
            LET previous == IF peers[p] = NoEntry THEN 0
                            ELSE entry[peers[p]].generation
            IN  /\ peers' = [peers EXCEPT ![p] = e]
                /\ RunRounds({p}, [peers EXCEPT ![p] = e],
                      [entry EXCEPT ![e] = CreatePeerEntry(previous)], Abort({p}))
      BY <1>3 DEF OnPeerConnect
    <2> DEFINE g == IF peers[p] = NoEntry THEN 0 ELSE entry[peers[p]].generation
    <2>2. g \in Nat
      BY <1>1 DEF TypeOK, PeerSyncEntry
    <2> HIDE DEF g
    <2>3. RunRounds({p}, [peers EXCEPT ![p] = e],
                    [entry EXCEPT ![e] = CreatePeerEntry(g)], Abort({p}))
      BY <2>1 DEF g
    <2>4. /\ ~stopped /\ stop' = stop /\ removed' = removed
          /\ UNCHANGED <<kicks, overflows, tick, tickWaits, stopWaits, unhandled>>
      BY <1>3 DEF OnPeerConnect
    <2>5. g = (IF peers[p] = NoEntry THEN 0 ELSE entry[peers[p]].generation)
      BY DEF g
    <2>6. /\ Linked'
          /\ peers' \in [Peers -> EntryIds \cup {NoEntry}]
          /\ entry' \in [EntryIds -> PeerSyncEntry]
          /\ round' \in [RoundIds -> Round \cup {Idle}]
          /\ Running \subseteq Running'
      BY <2>1, <2>2, <2>3, <2>4, <2>5, RunRoundsNewEntry
    <2> QED BY <1>1, <2>4, <2>6 DEF TypeOK
  <1>4. CASE OnPeerDisconnect(p)
    <2>1. TypeOK'
      <3>1. Running' = Running /\ round' \in [RoundIds -> Round \cup {Idle}]
        BY <1>1, <1>4, AbortEffect DEF OnPeerDisconnect, Running
      <3> QED BY <1>1, <1>4, <3>1 DEF TypeOK, OnPeerDisconnect
    <2> QED BY <1>1, <1>4, <2>1, AbortEffect, QuietStep
            DEF OnPeerDisconnect, TypeOK
  <1>5. CASE ReceiveMessage(p)
    <2>0. /\ ~stopped /\ stop' = stop /\ removed' = removed
          /\ UNCHANGED <<kicks, overflows, tick, tickWaits, stopWaits, unhandled>>
      BY <1>5 DEF ReceiveMessage
    <2>1. CASE peers[p] = NoEntry
      <3>1. PICK e \in FreeEntries :
              /\ peers' = [peers EXCEPT ![p] = e]
              /\ RunRounds({p}, [peers EXCEPT ![p] = e],
                           [entry EXCEPT ![e] = CreatePeerEntry(0)], round)
        BY <1>5, <2>1 DEF ReceiveMessage
      <3>2. Abort({p}) = round
        <4>1. Abort({p}) = [r \in RoundIds |-> round[r]]
          BY <2>1 DEF Abort, Known
        <4> QED BY <1>1, <4>1 DEF TypeOK
      <3>3. RunRounds({p}, [peers EXCEPT ![p] = e],
                      [entry EXCEPT ![e] = CreatePeerEntry(0)], Abort({p}))
        BY <3>1, <3>2
      <3>4. /\ Linked'
            /\ peers' \in [Peers -> EntryIds \cup {NoEntry}]
            /\ entry' \in [EntryIds -> PeerSyncEntry]
            /\ round' \in [RoundIds -> Round \cup {Idle}]
            /\ Running \subseteq Running'
        <4> DEFINE g == 0
        <4>1. g \in Nat /\ g = (IF peers[p] = NoEntry THEN 0
                                 ELSE entry[peers[p]].generation)
          BY <2>1
        <4>2. RunRounds({p}, [peers EXCEPT ![p] = e],
                        [entry EXCEPT ![e] = CreatePeerEntry(g)], Abort({p}))
          BY <3>3
        <4> HIDE DEF g
        <4> QED BY <2>0, <3>1, <4>1, <4>2, RunRoundsNewEntry
      <3> QED BY <1>1, <2>0, <3>4 DEF TypeOK
    <2>2. CASE peers[p] # NoEntry
      <3>1. RunRounds({p}, peers, entry, round) /\ peers' = peers
        BY <1>5, <2>2 DEF ReceiveMessage
      <3> QED BY <1>1, <2>0, <3>1, RunRoundsInPlace DEF TypeOK
    <2> QED BY <2>1, <2>2
  <1>6. CASE OverflowHungUp(p)
    <2>1. TypeOK'
      BY <1>1, <1>6, ConstantsAssumption
      DEF TypeOK, OverflowHungUp, Running, ConstantsAssumption
    <2> QED BY <1>1, <1>6, <2>1, QuietStep DEF OverflowHungUp, TypeOK
  <1>7. CASE Kick(p)
    BY <1>1, <1>7, RunRoundsInPlace DEF Kick, TypeOK
  <1>8. CASE \E size \in MessageSizes, malformed \in BOOLEAN :
                BufferMessage(p, size, malformed)
    <2>1. PICK size \in MessageSizes, malformed \in BOOLEAN :
              BufferMessage(p, size, malformed)
      BY <1>8
    <2> DEFINE e == peers[p]
    <2>2. /\ e \in EntryIds /\ p \in Known /\ size \in Nat \ {0}
          /\ entry[e] \in PeerSyncEntry
          /\ entry[e].buffered < MaxBufferedMessages
          /\ entry[e].bytes + size <= MaxBufferedBytes
          /\ entry[e].inflight # NoRound
      BY <1>1, <2>1, ConstantsAssumption
      DEF BufferMessage, Overflow, TypeOK, PeerSyncEntry, Known, ConstantsAssumption
    <2>3. /\ entry' \in [EntryIds -> PeerSyncEntry]
          /\ entry'[e].buffered = entry[e].buffered + 1
          /\ entry'[e].bytes = entry[e].bytes + size
          /\ \A f \in EntryIds :
                /\ entry'[f].generation = entry[f].generation
                /\ entry'[f].inflight = entry[f].inflight
                /\ f # e => entry'[f] = entry[f]
      <3>1. /\ Buffered(entry[e], size, malformed) \in PeerSyncEntry
            /\ Buffered(entry[e], size, malformed).buffered = entry[e].buffered + 1
            /\ Buffered(entry[e], size, malformed).bytes = entry[e].bytes + size
            /\ Buffered(entry[e], size, malformed).generation = entry[e].generation
            /\ Buffered(entry[e], size, malformed).inflight = entry[e].inflight
        BY <2>2, BufferedType
      <3>2. entry' = [entry EXCEPT ![e] = Buffered(entry[e], size, malformed)]
        BY <2>1 DEF BufferMessage
      <3> QED BY <1>1, <2>2, <3>1, <3>2 DEF TypeOK
    <2>4. UNCHANGED <<peers, round, kicks, overflows, tick, tickWaits, stop,
                      stopWaits, unhandled, removed, Running, Known>>
      BY <2>1 DEF BufferMessage, Running, Known
    <2>5. TypeOK'
      BY <1>1, <2>3, <2>4 DEF TypeOK
    <2>6. NoStrandedMessages'
      BY <1>1, <2>2, <2>3, <2>4 DEF Linked, NoStrandedMessages, Known, TypeOK, PeerSyncEntry
    <2>7. EntriesDistinct' /\ StoppedIsAborted' /\ (stop = "done" => Known = {})'
      BY <1>1, <2>4 DEF Linked, EntriesDistinct, StoppedIsAborted
    <2>8. LatchHasRound'
      BY <1>1, <2>3, <2>4 DEF Linked, LatchHasRound, TypeOK, Known
    <2>9. OldRoundsAreStale'
      BY <1>1, <2>3, <2>4 DEF Linked, OldRoundsAreStale, TypeOK, Running, Round
    <2> QED BY <2>5, <2>6, <2>7, <2>8, <2>9 DEF Linked
  <1>9. CASE \E size \in MessageSizes : OverflowHangUp(p, size)
    <2>1. PICK size \in MessageSizes : OverflowHangUp(p, size)
      BY <1>9
    <2>2. TypeOK'
      <3>1. Running' = Running /\ round' \in [RoundIds -> Round \cup {Idle}]
        BY <1>1, <2>1, AbortEffect DEF OverflowHangUp, Running
      <3>2. overflows' \in [Peers -> 0..MaxOverflows]
        <4>1. overflows[p] \in 0..MaxOverflows /\ overflows[p] < MaxOverflows
          BY <1>1, <2>1 DEF TypeOK, OverflowHangUp
        <4>2. overflows[p] + 1 \in 0..MaxOverflows
          BY <4>1, ConstantsAssumption DEF ConstantsAssumption
        <4> QED BY <1>1, <2>1, <4>2 DEF TypeOK, OverflowHangUp
      <3> QED BY <1>1, <2>1, <3>1, <3>2 DEF TypeOK, OverflowHangUp
    <2> QED BY <1>1, <2>1, <2>2, AbortEffect, QuietStep DEF OverflowHangUp, TypeOK
  <1>10. CASE ReceiveMalformed(p)
    <2>1. PICK e \in FreeEntries :
            /\ peers' = [peers EXCEPT ![p] = e]
            /\ entry' = [entry EXCEPT ![e] = CreatePeerEntry(0)]
      BY <1>10 DEF ReceiveMalformed
    <2>2. /\ peers[p] = NoEntry /\ ~stopped /\ e \in EntryIds /\ e # NoEntry
          /\ \A q \in Peers : peers[q] # e
          /\ UNCHANGED <<round, kicks, overflows, tick, tickWaits, stop, stopWaits,
                         unhandled, removed, Running>>
      BY <1>10, <2>1, ConstantsAssumption
      DEF ReceiveMalformed, FreeEntries, Running, ConstantsAssumption
    <2>3. /\ entry' \in [EntryIds -> PeerSyncEntry]
          /\ entry'[e].inflight = NoRound
          /\ entry'[e].buffered = 0 /\ entry'[e].bytes = 0
          /\ \A f \in EntryIds : f # e => entry'[f] = entry[f]
      BY <1>1, <2>1, <2>2, FirstEntryType DEF TypeOK
    <2>4. peers' \in [Peers -> EntryIds \cup {NoEntry}]
      BY <1>1, <2>1, <2>2 DEF TypeOK
    <2>5. TypeOK'
      BY <1>1, <2>2, <2>3, <2>4 DEF TypeOK
    <2>6. /\ peers'[p] = e
          /\ \A q \in Known' : q # p =>
                /\ q \in Known /\ peers'[q] = peers[q] /\ peers[q] \in EntryIds
                /\ peers[q] # e /\ entry'[peers[q]] = entry[peers[q]]
      BY <1>1, <2>1, <2>2, <2>3 DEF Known, TypeOK
    <2>7. EntriesDistinct' /\ StoppedIsAborted' /\ (stop = "done" => Known = {})'
      BY <1>1, <2>2, <2>6 DEF Linked, EntriesDistinct, StoppedIsAborted
    <2>8. LatchHasRound' /\ NoStrandedMessages'
      BY <1>1, <2>2, <2>3, <2>6 DEF Linked, LatchHasRound, NoStrandedMessages
    <2>9. OldRoundsAreStale'
      <3> SUFFICES ASSUME NEW s \in Running, round[s].peer \notin removed
                   PROVE  LET q == round[s].peer IN
                          /\ peers'[q] # NoEntry
                          /\ \/ entry'[peers'[q]].inflight = s
                             \/ /\ round[s].generation < entry'[peers'[q]].generation
                                /\ round[s].phase = "send" => round[s].aborted # "no"
        BY <2>2 DEF OldRoundsAreStale
      <3> DEFINE q == round[s].peer
      <3>1. /\ peers[q] # NoEntry
            /\ \/ entry[peers[q]].inflight = s
               \/ /\ round[s].generation < entry[peers[q]].generation
                  /\ round[s].phase = "send" => round[s].aborted # "no"
        BY <1>1, <2>2 DEF Linked, OldRoundsAreStale
      <3>2. q \in Peers /\ q # p
        BY <1>1, <2>2, <3>1 DEF TypeOK, Running, Round
      <3>3. peers'[q] = peers[q] /\ entry'[peers[q]] = entry[peers[q]]
        BY <1>1, <2>1, <2>2, <2>3, <3>1, <3>2 DEF TypeOK
      <3> QED BY <3>1, <3>3
    <2> QED BY <2>5, <2>7, <2>8, <2>9 DEF Linked
  <1> QED BY <1>3, <1>4, <1>5, <1>6, <1>7, <1>8, <1>9, <1>10

\* The record updates of a round's suspended parts touch one field each.
LEMMA UpdateTypes ==
    /\ \A en \in PeerSyncEntry, n \in Nat :
        /\ Struck(en, n) \in PeerSyncEntry
        /\ Struck(en, n).generation = en.generation
        /\ Struck(en, n).inflight = en.inflight
        /\ Struck(en, n).buffered = en.buffered
        /\ Struck(en, n).bytes = en.bytes
    /\ \A en \in PeerSyncEntry :
        /\ Drained(en) \in PeerSyncEntry
        /\ Drained(en).generation = en.generation
        /\ Drained(en).buffered = 0
        /\ Drained(en).bytes = 0
    /\ \A rd \in Round :
        /\ Resolved(rd) \in Round
        /\ Resolved(rd).peer = rd.peer
        /\ Resolved(rd).eid = rd.eid
        /\ Resolved(rd).generation = rd.generation
        /\ Resolved(rd).phase = "done"
    /\ \A rd \in Round :
        LET x == [rd EXCEPT !.phase = "hangup"]
        IN  /\ x \in Round
            /\ x.peer = rd.peer /\ x.eid = rd.eid
            /\ x.generation = rd.generation /\ x.phase = "hangup"
    /\ \A rd \in Round :
        LET x == [rd EXCEPT !.aborted = "timeout"]
        IN  /\ x \in Round
            /\ x.peer = rd.peer /\ x.eid = rd.eid
            /\ x.generation = rd.generation /\ x.phase = rd.phase
            /\ x.aborted # "no"
  <1>1. \A en \in PeerSyncEntry, n \in Nat :
        /\ Struck(en, n) \in PeerSyncEntry
        /\ Struck(en, n).generation = en.generation
        /\ Struck(en, n).inflight = en.inflight
        /\ Struck(en, n).buffered = en.buffered
        /\ Struck(en, n).bytes = en.bytes
    BY DEF PeerSyncEntry, Struck
  <1>2. \A en \in PeerSyncEntry :
        /\ Drained(en) \in PeerSyncEntry
        /\ Drained(en).generation = en.generation
        /\ Drained(en).buffered = 0
        /\ Drained(en).bytes = 0
    <2> TAKE en \in PeerSyncEntry
    <2>1. 0 \in 0..MaxBufferedMessages /\ 0 \in 0..MaxBufferedBytes
      BY ConstantsAssumption DEF ConstantsAssumption
    <2> DEFINE x == [en EXCEPT !.buffered = 0, !.bytes = 0, !.spoiled = FALSE]
    <2>2. /\ x \in PeerSyncEntry /\ x.generation = en.generation
          /\ x.buffered = 0 /\ x.bytes = 0
      BY <2>1 DEF PeerSyncEntry
    <2> QED BY <2>2 DEF Drained
  <1>3. \A rd \in Round :
        /\ Resolved(rd) \in Round
        /\ Resolved(rd).peer = rd.peer
        /\ Resolved(rd).eid = rd.eid
        /\ Resolved(rd).generation = rd.generation
        /\ Resolved(rd).phase = "done"
    BY DEF Round, Resolved, Causes
  <1>4. \A rd \in Round :
        LET x == [rd EXCEPT !.phase = "hangup"]
        IN  /\ x \in Round
            /\ x.peer = rd.peer /\ x.eid = rd.eid
            /\ x.generation = rd.generation /\ x.phase = "hangup"
    BY DEF Round
  <1>5. \A rd \in Round :
        LET x == [rd EXCEPT !.aborted = "timeout"]
        IN  /\ x \in Round
            /\ x.peer = rd.peer /\ x.eid = rd.eid
            /\ x.generation = rd.generation /\ x.phase = rd.phase
            /\ x.aborted # "no"
    BY DEF Round, Causes
  <1> QED BY <1>1, <1>2, <1>3, <1>4, <1>5

\* A step of one round that stays running: a quiet step if it keeps what the
\* round captured, never returns to "send" and never forgets an abort.
LEMMA OneRoundStep ==
    ASSUME IInv, NEW r \in RoundIds, round[r] # Idle, NEW rd \in Round,
           round' = [round EXCEPT ![r] = rd],
           rd.peer = round[r].peer, rd.eid = round[r].eid,
           rd.generation = round[r].generation,
           rd.phase = "send" => round[r].phase = "send" /\ rd.aborted # "no"
    PROVE  /\ round' \in [RoundIds -> Round \cup {Idle}]
           /\ Running' = Running
           /\ \A s \in RoundIds :
                /\ round'[s] = Idle <=> round[s] = Idle
                /\ round[s] # Idle =>
                    /\ round'[s].peer = round[s].peer
                    /\ round'[s].eid = round[s].eid
                    /\ round'[s].generation = round[s].generation
                    /\ round'[s].phase = "send" =>
                        /\ round[s].phase = "send"
                        /\ round[s].aborted # "no" => round'[s].aborted # "no"
  <1>1. Idle \notin Round
    BY DEF Idle, Round
  <1>2. round \in [RoundIds -> Round \cup {Idle}]
    BY DEF IInv, TypeOK
  <1>3. round'[r] = rd /\ \A s \in RoundIds : s # r => round'[s] = round[s]
    BY <1>2
  <1>4. round' \in [RoundIds -> Round \cup {Idle}]
    BY <1>2
  <1> QED BY <1>1, <1>3, <1>4 DEF Running

\* The suspended parts of a round preserve IInv.
LEMMA RoundsPreserveIInv ==
    ASSUME IInv, NEW r \in RoundIds,
           \/ RoundTimeout(r) \/ SendOk(r)
           \/ \E abortLike \in BOOLEAN : SendFail(r, abortLike)
           \/ HungUp(r) \/ Finally(r) \/ FinallyThrows(r)
    PROVE  IInv'
  <1>1. /\ TypeOK /\ Linked
        /\ round[r] # Idle /\ round[r] \in Round
        /\ round[r].peer \in Peers /\ round[r].eid \in EntryIds
        /\ entry[round[r].eid] \in PeerSyncEntry
    BY DEF IInv, Linked, TypeOK, Round, RoundTimeout, SendOk, SendFail, HungUp, Finally,
       FinallyThrows
  <1>2. SUFFICES TypeOK' /\ Linked'
    BY DEF IInv, Linked
  <1>3. CASE RoundTimeout(r)
    <2> DEFINE rd == [round[r] EXCEPT !.aborted = "timeout"]
    <2>1. /\ rd \in Round
          /\ rd.peer = round[r].peer /\ rd.eid = round[r].eid
          /\ rd.generation = round[r].generation /\ rd.phase = round[r].phase
          /\ rd.aborted # "no"
      BY <1>1, UpdateTypes
    <2>2. round' = [round EXCEPT ![r] = rd]
      BY <1>3 DEF RoundTimeout
    <2> HIDE DEF rd
    <2>3. TypeOK'
      BY <1>1, <1>3, <2>1, <2>2, OneRoundStep DEF TypeOK, RoundTimeout
    <2> QED BY <1>1, <1>3, <2>1, <2>2, <2>3, OneRoundStep, QuietStep DEF RoundTimeout
  <1>4. CASE SendOk(r)
    <2> DEFINE rd == Resolved(round[r])
    <2>1. /\ rd \in Round
          /\ rd.peer = round[r].peer /\ rd.eid = round[r].eid
          /\ rd.generation = round[r].generation /\ rd.phase = "done"
      BY <1>1, UpdateTypes
    <2>2. round' = [round EXCEPT ![r] = rd]
      BY <1>4 DEF SendOk
    <2>3. entry' \in [EntryIds -> PeerSyncEntry] /\ \A e \in EntryIds :
             /\ entry'[e].generation = entry[e].generation
             /\ entry'[e].inflight = entry[e].inflight
             /\ entry'[e].buffered = entry[e].buffered
             /\ entry'[e].bytes = entry[e].bytes
      <3>1. entry' = [entry EXCEPT ![round[r].eid] = Struck(entry[round[r].eid], 0)]
        BY <1>4 DEF SendOk
      <3> DEFINE zero == 0
      <3>2. zero \in Nat /\ entry' =
              [entry EXCEPT ![round[r].eid] = Struck(entry[round[r].eid], zero)]
        BY <3>1
      <3> HIDE DEF zero
      <3> QED BY <1>1, <3>2, UpdateTypes DEF TypeOK
    <2> HIDE DEF rd
    <2>4. UNCHANGED <<peers, kicks, overflows, tick, tickWaits, stop, stopWaits,
                      unhandled, removed>>
      BY <1>4 DEF SendOk
    <2>5. round' \in [RoundIds -> Round \cup {Idle}] /\ Running' = Running
      BY <1>1, <2>1, <2>2, OneRoundStep
    <2>6. TypeOK'
      BY <1>1, <2>3, <2>4, <2>5 DEF TypeOK
    <2> QED BY <1>1, <2>1, <2>2, <2>3, <2>4, <2>6, OneRoundStep, QuietStep
  <1>5. CASE \E abortLike \in BOOLEAN : SendFail(r, abortLike)
    <2>0. PICK abortLike \in BOOLEAN : SendFail(r, abortLike)
      BY <1>5
    <2> DEFINE e0 == round[r].eid
               strikes == entry[e0].timeouts + (IF abortLike THEN 1 ELSE 0)
    <2>1. PICK rd \in Round :
            /\ round' = [round EXCEPT ![r] = rd]
            /\ rd.peer = round[r].peer /\ rd.eid = round[r].eid
            /\ rd.generation = round[r].generation
            /\ rd.phase # "send"
      <3>1. CASE round' = [round EXCEPT ![r] = [round[r] EXCEPT !.phase = "hangup"]]
        BY <1>1, <3>1, UpdateTypes
      <3>2. CASE round' = [round EXCEPT ![r] = Resolved(round[r])]
        BY <1>1, <3>2, UpdateTypes
      <3> QED BY <2>0, <3>1, <3>2 DEF SendFail
    <2>2. strikes \in Nat
      BY <1>1 DEF PeerSyncEntry
    <2>3. entry' = [entry EXCEPT ![e0] = Struck(entry[e0], strikes)]
      BY <2>0 DEF SendFail
    <2> HIDE DEF strikes
    <2>4. entry' \in [EntryIds -> PeerSyncEntry] /\ \A e \in EntryIds :
             /\ entry'[e].generation = entry[e].generation
             /\ entry'[e].inflight = entry[e].inflight
             /\ entry'[e].buffered = entry[e].buffered
             /\ entry'[e].bytes = entry[e].bytes
      BY <1>1, <2>2, <2>3, UpdateTypes, SMTT(30) DEF TypeOK
    <2>5. UNCHANGED <<peers, kicks, overflows, tick, tickWaits, stop, stopWaits,
                      unhandled, removed>>
      BY <2>0 DEF SendFail
    <2>6. TypeOK'
      BY <1>1, <2>1, <2>4, <2>5, OneRoundStep DEF TypeOK
    <2> QED BY <1>1, <2>1, <2>4, <2>5, <2>6, OneRoundStep, QuietStep
  <1>6. CASE HungUp(r)
    <2> DEFINE rd == Resolved(round[r])
    <2>1. /\ rd \in Round
          /\ rd.peer = round[r].peer /\ rd.eid = round[r].eid
          /\ rd.generation = round[r].generation /\ rd.phase = "done"
      BY <1>1, UpdateTypes
    <2>2. round' = [round EXCEPT ![r] = rd]
      BY <1>6 DEF HungUp
    <2>3. /\ removed \subseteq removed' /\ removed' \subseteq Peers
          /\ peers' \in [Peers -> EntryIds \cup {NoEntry}]
          /\ \A p \in Peers : \/ peers'[p] = peers[p]
                              \/ peers'[p] = NoEntry /\ p \in removed'
      <3>1. CASE StillCurrent(r)
        BY <1>1, <1>6, <3>1 DEF HungUp, TypeOK
      <3>2. CASE ~StillCurrent(r)
        BY <1>1, <1>6, <3>2 DEF HungUp, TypeOK
      <3> QED BY <3>1, <3>2
    <2> HIDE DEF rd
    <2>4. TypeOK'
      BY <1>1, <1>6, <2>1, <2>2, <2>3, OneRoundStep DEF TypeOK, HungUp
    <2> QED BY <1>1, <1>6, <2>1, <2>2, <2>3, <2>4, OneRoundStep, QuietStep DEF HungUp
  <1>7. CASE Finally(r) \/ FinallyThrows(r)
    <2> DEFINE p0 == round[r].peer
               e0 == peers[p0]
    <2>1. /\ round' = [round EXCEPT ![r] = Idle]
          /\ tickWaits' \subseteq tickWaits \ {r} /\ stopWaits' = stopWaits \ {r}
          /\ tick' \in {tick, "rejected"} /\ unhandled' \in BOOLEAN
          /\ UNCHANGED <<peers, overflows, stop, removed>>
          /\ ~StillCurrent(r) => entry' = entry /\ kicks' = kicks
          /\ kicks' \subseteq kicks \cup {p0}
      <3>1. CASE Finally(r)
        BY <1>1, <3>1 DEF Finally, TypeOK
      <3>2. CASE FinallyThrows(r)
        BY <3>2 DEF FinallyThrows, Throws
      <3> QED BY <1>7, <3>1, <3>2
    <2>2. /\ round' \in [RoundIds -> Round \cup {Idle}]
          /\ Running' = Running \ {r} /\ Known' = Known
          /\ \A s \in Running' : s \in Running /\ s # r /\ round'[s] = round[s]
      BY <1>1, <2>1 DEF TypeOK, Running, Known
    <2>3. StillCurrent(r) =>
            /\ e0 \in EntryIds /\ p0 \in Known
            /\ entry' \in [EntryIds -> PeerSyncEntry]
            /\ \A f \in EntryIds : f # e0 => entry'[f] = entry[f]
            /\ entry'[e0].inflight = NoRound
            /\ entry'[e0].generation = entry[e0].generation
            /\ ~stopped => entry'[e0].buffered = 0 /\ entry'[e0].bytes = 0
      <3> SUFFICES ASSUME StillCurrent(r)
                   PROVE  /\ e0 \in EntryIds /\ p0 \in Known
                          /\ entry' \in [EntryIds -> PeerSyncEntry]
                          /\ \A f \in EntryIds : f # e0 => entry'[f] = entry[f]
                          /\ entry'[e0].inflight = NoRound
                          /\ entry'[e0].generation = entry[e0].generation
                          /\ ~stopped => entry'[e0].buffered = 0 /\ entry'[e0].bytes = 0
        OBVIOUS
      <3>1. e0 \in EntryIds /\ p0 \in Known /\ entry[e0] \in PeerSyncEntry
        BY <1>1 DEF StillCurrent, TypeOK, Known
      <3>2. PICK en \in PeerSyncEntry :
              /\ entry' = [entry EXCEPT ![e0] = Latched(en, NoRound)]
              /\ en.generation = entry[e0].generation
              /\ ~stopped => en.buffered = 0 /\ en.bytes = 0
        <4>0. CASE FinallyThrows(r)
          <5>1. entry' = [entry EXCEPT ![e0] = Latched(Drained(entry[e0]), NoRound)]
            BY <4>0 DEF FinallyThrows
          <5> QED BY <3>1, <5>1, UpdateTypes
        <4>1. CASE Finally(r) /\ entry[e0].buffered > 0 /\ ~stopped
          <5>1. entry' = [entry EXCEPT ![e0] = Latched(Drained(entry[e0]), NoRound)]
            BY <4>1 DEF Finally
          <5> QED BY <3>1, <5>1, UpdateTypes
        <4>2. CASE Finally(r) /\ ~(entry[e0].buffered > 0 /\ ~stopped)
          <5>1. entry' = [entry EXCEPT ![e0] = Latched(entry[e0], NoRound)]
            BY <4>2 DEF Finally
          <5>2. ~stopped => entry[e0].buffered = 0
            BY <3>1, <4>2 DEF PeerSyncEntry
          <5>3. ~stopped => entry[e0].bytes = 0
            BY <1>1, <3>1, <5>2 DEF Linked, NoStrandedMessages
          <5> QED BY <3>1, <5>1, <5>2, <5>3
        <4> QED BY <1>7, <4>0, <4>1, <4>2
      <3>3. /\ Latched(en, NoRound) \in PeerSyncEntry
            /\ Latched(en, NoRound).inflight = NoRound
            /\ Latched(en, NoRound).generation = en.generation
            /\ Latched(en, NoRound).buffered = en.buffered
            /\ Latched(en, NoRound).bytes = en.bytes
        BY LatchedType
      <3>4. /\ entry' \in [EntryIds -> PeerSyncEntry]
            /\ entry'[e0] = Latched(en, NoRound)
            /\ \A f \in EntryIds : f # e0 => entry'[f] = entry[f]
        BY <1>1, <3>1, <3>2, <3>3 DEF TypeOK
      <3> QED BY <3>1, <3>2, <3>3, <3>4
    <2>4. TypeOK'
      <3>1. entry' \in [EntryIds -> PeerSyncEntry]
        BY <1>1, <2>1, <2>3 DEF TypeOK
      <3> QED BY <1>1, <2>1, <2>2, <3>1 DEF TypeOK
    <2>5. \A p \in Known : p \in Peers /\ peers[p] \in EntryIds
      BY <1>1 DEF Known, TypeOK
    <2>6. \A p \in Known : p # p0 \/ ~StillCurrent(r) => entry'[peers[p]] = entry[peers[p]]
      BY <1>1, <2>1, <2>3, <2>5 DEF Linked, EntriesDistinct
    <2>7. EntriesDistinct' /\ StoppedIsAborted' /\ (stop = "done" => Known = {})'
      BY <1>1, <2>1, <2>2 DEF Linked, EntriesDistinct, StoppedIsAborted
    <2>8. LatchHasRound'
      <3> SUFFICES ASSUME NEW p \in Known, entry'[peers[p]].inflight # NoRound
                   PROVE  LET en == entry'[peers[p]] IN
                          /\ en.inflight \in Running'
                          /\ round'[en.inflight].peer = p
                          /\ round'[en.inflight].eid = peers[p]
                          /\ round'[en.inflight].generation = en.generation
        BY <2>1, <2>2 DEF LatchHasRound
      <3>1. entry'[peers[p]] = entry[peers[p]]
        BY <2>3, <2>6
      <3> DEFINE s == entry[peers[p]].inflight
      <3>2. /\ s \in Running /\ round[s].peer = p
            /\ round[s].eid = peers[p]
            /\ round[s].generation = entry[peers[p]].generation
        BY <1>1, <3>1 DEF Linked, LatchHasRound
      <3>3. s # r
        <4> SUFFICES ASSUME s = r PROVE FALSE
          OBVIOUS
        <4>1. StillCurrent(r) /\ p = p0
          BY <2>5, <3>2 DEF StillCurrent, Known
        <4> QED BY <2>3, <4>1
      <3> QED BY <2>2, <3>1, <3>2, <3>3
    <2>9. NoStrandedMessages'
      <3> SUFFICES ASSUME stop = "no", NEW p \in Known
                   PROVE  /\ entry'[peers[p]].inflight = NoRound
                                => entry'[peers[p]].buffered = 0
                          /\ entry'[peers[p]].buffered = 0
                                <=> entry'[peers[p]].bytes = 0
        BY <2>1, <2>2 DEF NoStrandedMessages
      <3>1. CASE p = p0 /\ StillCurrent(r)
        BY <2>3, <3>1
      <3>2. CASE p # p0 \/ ~StillCurrent(r)
        BY <1>1, <2>6, <3>2 DEF Linked, NoStrandedMessages
      <3> QED BY <3>1, <3>2
    <2>10. OldRoundsAreStale'
      <3> SUFFICES ASSUME stop # "done", NEW s \in Running',
                          round[s].peer \notin removed
                   PROVE  /\ peers[round[s].peer] # NoEntry
                          /\ \/ entry'[peers[round[s].peer]].inflight = s
                             \/ /\ round[s].generation
                                      < entry'[peers[round[s].peer]].generation
                                /\ round[s].phase = "send" => round[s].aborted # "no"
        BY <2>1, <2>2 DEF OldRoundsAreStale
      <3> DEFINE p == round[s].peer
      <3>1. s \in Running /\ s # r /\ p \in Peers
        BY <1>1, <2>2 DEF TypeOK, Running, Round
      <3>2. /\ peers[p] # NoEntry /\ p \in Known
            /\ \/ entry[peers[p]].inflight = s
               \/ /\ round[s].generation < entry[peers[p]].generation
                  /\ round[s].phase = "send" => round[s].aborted # "no"
        BY <1>1, <3>1 DEF Linked, OldRoundsAreStale, Known
      <3>3. CASE p # p0 \/ ~StillCurrent(r)
        BY <2>6, <3>2, <3>3
      <3>4. CASE p = p0 /\ StillCurrent(r)
        <4>1. entry[e0].inflight = r
          <5>1. r \in Running /\ p0 \notin removed
            BY <1>1, <3>4 DEF Running
          <5>2. round[r].generation = entry[e0].generation /\ entry[e0].generation \in Nat
            BY <1>1, <2>3, <3>4 DEF StillCurrent, TypeOK, PeerSyncEntry
          <5> QED BY <1>1, <5>1, <5>2 DEF Linked, OldRoundsAreStale
        <4> QED BY <2>3, <3>1, <3>2, <3>4, <4>1
      <3> QED BY <3>3, <3>4
    <2> QED BY <2>4, <2>7, <2>8, <2>9, <2>10 DEF Linked
  <1> QED BY <1>3, <1>4, <1>5, <1>6, <1>7

\* The loop, republish, start and stop preserve IInv.
LEMMA ControlPreservesIInv ==
    ASSUME IInv,
           Start \/ Tick \/ TickDone \/ Republish \/ Stop \/ StopDone
    PROVE  IInv'
  <1>1. TypeOK /\ Linked
    BY DEF IInv, Linked
  <1>2. SUFFICES TypeOK' /\ Linked'
    BY DEF IInv, Linked
  <1>3. CASE Start \/ TickDone
    <2>1. UNCHANGED <<peers, entry, round, kicks, overflows, tickWaits, stop,
                      stopWaits, unhandled, removed>>
      BY <1>3 DEF Start, TickDone
    <2>2. TypeOK'
      BY <1>1, <1>3, <2>1 DEF TypeOK, Start, TickDone, Running
    <2> QED BY <1>1, <2>1, <2>2, QuietStep
  <1>4. CASE Tick
    <2>1. /\ Linked'
          /\ entry' \in [EntryIds -> PeerSyncEntry]
          /\ round' \in [RoundIds -> Round \cup {Idle}]
          /\ Running \subseteq Running'
      BY <1>4, RunRoundsInPlace DEF Tick
    <2>2. tickWaits' \subseteq Running'
      BY <1>4 DEF Tick, Running
    <2> QED BY <1>1, <1>4, <2>1, <2>2 DEF TypeOK, Tick
  <1>5. CASE Republish
    BY <1>1, <1>5, RunRoundsInPlace DEF Republish, TypeOK
  <1>6. CASE Stop
    <2>1. /\ stop = "no" /\ stop' = "waiting" /\ round' = Abort(Peers)
          /\ UNCHANGED <<peers, entry, kicks, overflows, tickWaits, unhandled, removed,
                         Known>>
          /\ tick' \in {"off", "armed", "running", "rejected"}
          /\ stopWaits' = {entry[peers[p]].inflight : p \in Known} \ {NoRound}
      BY <1>1, <1>6 DEF Stop, Known, TypeOK
    <2>2. /\ round' \in [RoundIds -> Round \cup {Idle}]
          /\ Running' = Running
          /\ \A r \in Running :
                /\ round'[r].peer = round[r].peer
                /\ round'[r].eid = round[r].eid
                /\ round'[r].generation = round[r].generation
                /\ round'[r].phase = round[r].phase
                /\ round[r].aborted # "no" => round'[r].aborted # "no"
                /\ round'[r].phase = "send" /\ round'[r].aborted = "no"
                   => \A p \in Peers \cap Known : entry[peers[p]].inflight # r
      BY <1>1, <2>1, AbortEffect DEF Running
    <2>3. stopWaits' \subseteq Running'
      BY <1>1, <2>1, <2>2 DEF Linked, LatchHasRound
    <2>4. TypeOK'
      BY <1>1, <2>1, <2>2, <2>3 DEF TypeOK
    <2>5. \A p \in Known : p \in Peers /\ peers[p] \in EntryIds
      BY <1>1 DEF Known, TypeOK
    <2>6. EntriesDistinct' /\ NoStrandedMessages' /\ (stop = "done" => Known = {})'
      BY <1>1, <2>1 DEF Linked, EntriesDistinct, NoStrandedMessages
    <2>7. LatchHasRound'
      BY <1>1, <2>1, <2>2 DEF Linked, LatchHasRound
    <2>8. OldRoundsAreStale'
      BY <1>1, <2>1, <2>2 DEF Linked, OldRoundsAreStale
    <2>9. StoppedIsAborted'
      <3> SUFFICES ASSUME NEW r \in Running', round'[r].phase = "send",
                          round'[r].peer \notin removed, round'[r].aborted = "no"
                   PROVE  FALSE
        BY <2>1 DEF StoppedIsAborted
      <3>1. r \in Running /\ round[r].peer \notin removed
            /\ round[r].peer \in Peers
            /\ round[r].phase = "send" /\ round[r].aborted = "no"
        BY <1>1, <2>2 DEF TypeOK, Running, Round
      <3>2. /\ peers[round[r].peer] # NoEntry
            /\ entry[peers[round[r].peer]].inflight = r
        BY <1>1, <2>1, <3>1 DEF Linked, OldRoundsAreStale
      <3> QED BY <2>2, <3>1, <3>2 DEF Known
    <2> QED BY <2>4, <2>6, <2>7, <2>8, <2>9 DEF Linked
  <1>7. CASE StopDone
    <2>1. /\ stop = "waiting" /\ stop' = "done" /\ stopWaits' = {}
          /\ peers' = [p \in Peers |-> NoEntry]
          /\ UNCHANGED <<entry, round, kicks, overflows, tick, tickWaits, unhandled,
                         removed, Running>>
      BY <1>7 DEF StopDone, Running
    <2>2. Known' = {}
      BY <2>1 DEF Known
    <2>3. TypeOK'
      BY <1>1, <2>1 DEF TypeOK
    <2>4. StoppedIsAborted'
      BY <1>1, <2>1 DEF Linked, StoppedIsAborted
    <2> QED BY <2>1, <2>2, <2>3, <2>4 DEF Linked, EntriesDistinct,
            LatchHasRound, NoStrandedMessages, OldRoundsAreStale
  <1> QED BY <1>3, <1>4, <1>5, <1>6, <1>7

-----------------------------------------------------------------------------
\* A new process starts from the initial state.
LEMMA RestartPreservesIInv == IInv /\ ProcessEnds => IInv'
  <1> SUFFICES ASSUME ProcessEnds PROVE IInv'
    OBVIOUS
  <1>1. Known' = {} /\ Running' = {}
    BY DEF ProcessEnds, Known, Running
  <1>2. TypeOK'
    <2>1. entry' \in [EntryIds -> PeerSyncEntry]
      BY FirstEntryType DEF ProcessEnds
    <2>2. overflows' \in [Peers -> 0..MaxOverflows]
      BY ConstantsAssumption DEF ProcessEnds, ConstantsAssumption
    <2>3. round' \in [RoundIds -> Round \cup {Idle}]
      BY DEF ProcessEnds
    <2> QED BY <1>1, <2>1, <2>2, <2>3 DEF ProcessEnds, TypeOK
  <1> QED BY <1>1, <1>2 DEF IInv, EntriesDistinct, LatchHasRound,
        NoStrandedMessages, OldRoundsAreStale, StoppedIsAborted, ProcessEnds

\* IInv is an invariant of the coordinator.
THEOREM Invariance == Spec => []IInv
  <1>1. ASSUME IInv, [Next]_vars PROVE IInv'
    <2>1. CASE UNCHANGED vars
      BY <1>1, <2>1 DEF vars, IInv, TypeOK, EntriesDistinct, LatchHasRound,
         NoStrandedMessages, OldRoundsAreStale, StoppedIsAborted, Known, Running
    <2>2. CASE Next
      BY <1>1, <2>2, EventsPreserveIInv, RoundsPreserveIInv, ControlPreservesIInv,
         RestartPreservesIInv
      DEF Next
    <2> QED BY <1>1, <2>1, <2>2
  <1> QED BY <1>1, InitIInv, PTL DEF Spec

\* Type correctness, the limits of the inbound buffer included.
THEOREM TypeCorrect == Spec => []TypeOK
  <1>1. IInv => TypeOK
    BY DEF IInv
  <1> QED BY <1>1, Invariance, PTL

\* The single-flight latch of a current entry always belongs to a running
\* round whose cleanup will release it.
THEOREM LatchNeverStuck == Spec => []LatchHasRound
  <1>1. IInv => LatchHasRound
    BY DEF IInv
  <1> QED BY <1>1, Invariance, PTL

\* Inbound messages wait only behind a round in flight.
THEOREM NoMessageStranded == Spec => []NoStrandedMessages
  <1>1. IInv => NoStrandedMessages
    BY DEF IInv
  <1> QED BY <1>1, Invariance, PTL

\* The generation token does its work as long as entries are only replaced.
THEOREM TokenGuards == Spec => []SingleflightUntilRemoved
  <1>1. IInv => SingleflightUntilRemoved
    BY DEF IInv, OldRoundsAreStale, SingleflightUntilRemoved
  <1> QED BY <1>1, Invariance, PTL

\* When stop() has resolved, nothing it knew of is still sending unaborted.
THEOREM StopIsQuiet == Spec => []StopQuiesces
  <1>1. IInv => StopQuiesces
    BY DEF IInv, StoppedIsAborted, StopQuiesces
  <1> QED BY <1>1, Invariance, PTL

\* After stop() was called no late callback starts a round.
THEOREM SilenceAfterStop == Spec => NothingStartsAfterStop
  <1>1. ASSUME IInv, Next, stopped, NEW r \in RoundIds, round[r] = Idle
        PROVE  round'[r] = Idle
    <2>1. TypeOK
      BY <1>1 DEF IInv
    <2>2. ASSUME NEW p \in Peers,
                 \/ OnPeerConnect(p) \/ OnPeerDisconnect(p) \/ ReceiveMessage(p)
                 \/ ReceiveMalformed(p) \/ OverflowHungUp(p) \/ Kick(p)
                 \/ \E size \in MessageSizes, malformed \in BOOLEAN :
                       BufferMessage(p, size, malformed)
                 \/ \E size \in MessageSizes : OverflowHangUp(p, size)
          PROVE  round'[r] = Idle
      <3>1. CASE OnPeerDisconnect(p)
        BY <1>1, <2>1, <3>1, AbortEffect DEF OnPeerDisconnect
      <3>2. CASE Kick(p)
        BY <1>1, <3>2, RunRoundsInPlace DEF Kick
      <3>3. CASE OverflowHungUp(p)
        BY <1>1, <3>3 DEF OverflowHungUp
      <3> QED BY <1>1, <2>2, <3>1, <3>2, <3>3
              DEF OnPeerConnect, ReceiveMessage, ReceiveMalformed, BufferMessage,
                  OverflowHangUp
    <2>3. ASSUME NEW s \in RoundIds,
                 \/ RoundTimeout(s) \/ SendOk(s)
                 \/ \E abortLike \in BOOLEAN : SendFail(s, abortLike)
                 \/ HungUp(s) \/ Finally(s) \/ FinallyThrows(s)
          PROVE  round'[r] = Idle
      <3>1. s # r
        BY <1>1, <2>3 DEF RoundTimeout, SendOk, SendFail, HungUp, Finally, FinallyThrows
      <3>2. round'[r] = round[r]
        BY <2>1, <2>3, <3>1 DEF RoundTimeout, SendOk, SendFail, HungUp, Finally,
           FinallyThrows, TypeOK
      <3> QED BY <1>1, <3>2
    <2>4. CASE Start \/ Republish \/ Stop
      BY <1>1, <2>4 DEF Start, Republish, Stop
    <2>5. CASE TickDone \/ StopDone
      BY <1>1, <2>5 DEF TickDone, StopDone
    <2>6. CASE Tick
      BY <1>1, <2>6, RunRoundsInPlace DEF Tick
    <2>7. CASE ProcessEnds
      BY <2>7 DEF ProcessEnds
    <2> QED BY <1>1, <2>2, <2>3, <2>4, <2>5, <2>6, <2>7 DEF Next
  <1>2. ASSUME IInv, [Next]_vars
        PROVE  [stopped => \A r \in RoundIds : round[r] = Idle => round'[r] = Idle]_vars
    BY <1>1, <1>2
  <1> QED BY <1>2, Invariance, PTL DEF Spec, NothingStartsAfterStop
=============================================================================
