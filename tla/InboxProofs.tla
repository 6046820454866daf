---------------------------- MODULE InboxProofs ----------------------------
(***************************************************************************)
(* Proofs about Inbox, for any daemons, addresses, pollers and limits and  *)
(* without a bound on the messages.  What a session is handed is decided   *)
(* when the cycle fetches, several steps before it is delivered and marked *)
(* read, so the invariant follows a message from the call through the row  *)
(* and the queue of the cycle to the session: every row belongs to a call  *)
(* that addressed the daemon, every queue holds only what was addressed to *)
(* the poller, and a cycle that is about to mark a message read has handed *)
(* it over.                                                                *)
(***************************************************************************)
EXTENDS Inbox, FiniteSetTheorems, SequenceTheorems, TLAPS

Calls == [from : Daemons, to : Uri, report : Reports]

\* The call of message m is addressed to daemon d, as far as rows tell.
CallFor(d, m) ==
    /\ out[m] # None /\ out[m].report # "refused"
    /\ normalizeAgentId(out[m].to) = Own[d]

\* Every row belongs to a call that addressed the daemon, and keeps the
\* instance the call named.
RowHasCall ==
    \A d \in Daemons, m \in MsgIds :
        rows[d][m] # None => CallFor(d, m) /\ rows[d][m].inst = out[m].to.inst

\* An acknowledgement belongs to a call, and the positive one to a row.
ReplyHasCall ==
    \A m \in MsgIds :
        /\ replies[m] # None => out[m] # None
        /\ replies[m] = "delivered" =>
              \E e \in Target(out[m].to) : rows[e][m] # None

\* Message m is addressed to what poller q serves.
Addressed(q, m) ==
    /\ out[m] # None
    /\ normalizeAgentId(out[m].to) = Own[q.daemon]
    /\ q.forInstance # None => out[m].to.inst = q.forInstance

\* What a cycle still has to deliver, and what was delivered, is addressed to
\* the poller.
QueueAddressed ==
    \A q \in Pollers : \A i \in 1..Len(poller[q].queue) : Addressed(q, poller[q].queue[i])

HandedAddressed ==
    \A q \in Pollers, m \in MsgIds : <<q, m>> \in delivered => Addressed(q, m)

\* A cycle about to mark a message read has handed it over.
MarkDelivered ==
    \A q \in Pollers : poller[q].step = "mark" =>
        poller[q].queue # <<>> /\ <<q, Head(poller[q].queue)>> \in delivered

\* The timer a poller knows of is armed.
TimerIsArmed == \A q \in Pollers : poller[q].current => poller[q].armed > 0

\* Only finitely many messages have been sent.
FiniteCalls == IsFiniteSet({m \in MsgIds : out[m] # None})

IInv ==
    /\ TypeOK /\ RowHasCall /\ ReplyHasCall /\ ReportIsTrue /\ ReadMeansDelivered
    /\ QueueAddressed /\ HandedAddressed /\ MarkDelivered
    /\ TimerIsArmed /\ LoopAlive /\ FiniteCalls

-----------------------------------------------------------------------------
(* What the parts of a step do. *)

LEMMA UriType ==
    ASSUME NEW u \in Uri
    PROVE  /\ u.inst \in Instances \cup {None, Star}
           /\ Parses(u) => u.inst \in Instances \cup {None}
  BY DEF Uri, Parses

LEMMA RowNotNull ==
    /\ None \notin Row
    /\ None \notin Calls
    /\ None \notin {"delivered", "rejected"}
  BY NullAssumption DEF NullAssumption, Calls, Reports

\* store keeps every row that is there and adds at most one.
LEMMA StoreEffect ==
    ASSUME TypeOK, NEW d \in Daemons, NEW m \in MsgIds, NEW u \in Uri, Parses(u),
           NEW at \in Times
    PROVE  /\ Store(d, m, u, at) \in [Daemons -> [MsgIds -> Row \cup {None}]]
           /\ \A e \in Daemons, k \in MsgIds :
                 rows[e][k] # None => Store(d, m, u, at)[e][k] = rows[e][k]
           /\ \A e \in Daemons, k \in MsgIds : <<e, k>> # <<d, m>> =>
                 Store(d, m, u, at)[e][k] = rows[e][k]
           /\ Store(d, m, u, at)[d][m] # None
           /\ rows[d][m] = None => /\ Store(d, m, u, at)[d][m].inst = u.inst
                                   /\ Store(d, m, u, at)[d][m].read = "no"
  <1> DEFINE r == [inst |-> u.inst, at |-> at, read |-> "no", archived |-> FALSE]
  <1>1. r \in Row /\ r # None
    <2>1. r \in Row
      BY UriType DEF Row, Readers
    <2> QED BY <2>1, RowNotNull
  <1>2. r.inst = u.inst /\ r.read = "no"
    OBVIOUS
  <1>3. Store(d, m, u, at) = IF rows[d][m] # None THEN rows ELSE [rows EXCEPT ![d][m] = r]
    BY DEF Store, getAgentInstance
  <1> HIDE DEF r
  <1>4. rows \in [Daemons -> [MsgIds -> Row \cup {None}]]
    BY DEF TypeOK
  <1> QED BY <1>1, <1>2, <1>3, <1>4

\* A row may be marked read and archived, never more.
Advances(r, s) ==
    /\ s \in Row /\ s.inst = r.inst /\ s.at = r.at
    /\ r.read # "no" => s.read = r.read
    /\ r.archived => s.archived

LEMMA AdvancesRefl == ASSUME NEW r \in Row PROVE Advances(r, r)
  BY DEF Advances

LEMMA MarkReadEffect ==
    ASSUME TypeOK, NEW d \in Daemons, NEW m \in MsgIds, NEW reader \in Readers
    PROVE  /\ MarkRead(d, m, reader) \in [Daemons -> [MsgIds -> Row \cup {None}]]
           /\ \A e \in Daemons, k \in MsgIds :
                 /\ (rows[e][k] = None) <=> (MarkRead(d, m, reader)[e][k] = None)
                 /\ rows[e][k] # None => Advances(rows[e][k], MarkRead(d, m, reader)[e][k])
                 /\ <<e, k>> # <<d, m>> => MarkRead(d, m, reader)[e][k] = rows[e][k]
           /\ rows[d][m] # None => MarkRead(d, m, reader)[d][m].read \in {reader, rows[d][m].read}
  <1>1. rows \in [Daemons -> [MsgIds -> Row \cup {None}]]
    BY DEF TypeOK
  <1>2. CASE rows[d][m] = None \/ rows[d][m].read # "no"
    BY <1>1, <1>2, AdvancesRefl DEF MarkRead
  <1>3. CASE ~(rows[d][m] = None \/ rows[d][m].read # "no")
    <2> DEFINE r == [rows[d][m] EXCEPT !.read = reader]
    <2>1. rows[d][m] \in Row
      BY <1>1, <1>3
    <2>2. r \in Row /\ r.read = reader /\ Advances(rows[d][m], r)
      BY <2>1, <1>3 DEF Row, Advances
    <2>3. MarkRead(d, m, reader) = [rows EXCEPT ![d][m] = r]
      BY <1>1, <1>3 DEF MarkRead
    <2> HIDE DEF r
    <2> QED BY <1>1, <1>3, <2>1, <2>2, <2>3, AdvancesRefl, RowNotNull
  <1> QED BY <1>2, <1>3

LEMMA ArchiveEffect ==
    ASSUME TypeOK, NEW d \in Daemons, NEW m \in MsgIds
    PROVE  /\ Archive(d, m) \in [Daemons -> [MsgIds -> Row \cup {None}]]
           /\ \A e \in Daemons, k \in MsgIds :
                 /\ (rows[e][k] = None) <=> (Archive(d, m)[e][k] = None)
                 /\ rows[e][k] # None => /\ Advances(rows[e][k], Archive(d, m)[e][k])
                                         /\ Archive(d, m)[e][k].read = rows[e][k].read
  <1>1. rows \in [Daemons -> [MsgIds -> Row \cup {None}]]
    BY DEF TypeOK
  <1>2. CASE rows[d][m] = None
    BY <1>1, <1>2, AdvancesRefl DEF Archive
  <1>3. CASE rows[d][m] # None
    <2> DEFINE r == [rows[d][m] EXCEPT !.archived = TRUE]
    <2>1. rows[d][m] \in Row
      BY <1>1, <1>3
    <2>2. r \in Row /\ r.read = rows[d][m].read /\ Advances(rows[d][m], r)
      BY <2>1 DEF Row, Advances
    <2>3. Archive(d, m) = [rows EXCEPT ![d][m] = r]
      BY <1>1, <1>3 DEF Archive
    <2> HIDE DEF r
    <2> QED BY <1>1, <1>3, <2>1, <2>2, <2>3, AdvancesRefl, RowNotNull
  <1> QED BY <1>2, <1>3

-----------------------------------------------------------------------------
LEMMA InitIInv == Init => IInv
  <1> SUFFICES ASSUME Init PROVE IInv
    OBVIOUS
  <1>1. Stopped \in Poller /\ ~Stopped.active /\ ~Stopped.current
        /\ Stopped.queue = <<>> /\ Stopped.step = "idle"
    <2>1. 0 \in 0..MaxTimers
      BY ConstantsAssumption DEF ConstantsAssumption
    <2>2. <<>> \in Seq(MsgIds)
      OBVIOUS
    <2> QED BY <2>1, <2>2 DEF Stopped, Poller
  <1>2. TypeOK
    BY <1>1 DEF Init, TypeOK
  <1>3. RowHasCall /\ ReplyHasCall /\ ReportIsTrue /\ ReadMeansDelivered /\ HandedAddressed
    <2>1. None # "delivered"
      BY RowNotNull
    <2> QED BY <2>1 DEF Init, RowHasCall, ReplyHasCall, ReportIsTrue, ReadMeansDelivered, HandedAddressed
  <1>4. \A q \in Pollers : poller[q] = Stopped
    BY DEF Init
  <1>5. QueueAddressed
    BY <1>1, <1>4 DEF QueueAddressed
  <1>6. MarkDelivered /\ TimerIsArmed /\ LoopAlive
    BY <1>1, <1>4 DEF MarkDelivered, TimerIsArmed, LoopAlive
  <1>7. FiniteCalls
    <2>1. {m \in MsgIds : out[m] # None} = {}
      BY DEF Init
    <2> QED BY <2>1, FS_EmptySet DEF FiniteCalls
  <1> QED BY <1>2, <1>3, <1>5, <1>6, <1>7 DEF IInv

-----------------------------------------------------------------------------
(* Sending. *)

\* A call is addressed once and for all.
CallsStay ==
    \A m \in MsgIds : out[m] # None => out'[m] # None /\ out'[m].to = out[m].to

\* A step of the sending side leaves the pollers' parts alone.
LEMMA PollersKept ==
    ASSUME IInv, TypeOK', CallsStay, poller' = poller, delivered' = delivered
    PROVE  /\ QueueAddressed' /\ HandedAddressed' /\ MarkDelivered'
           /\ TimerIsArmed' /\ LoopAlive'
  <1>1. \A q \in Pollers, m \in MsgIds : Addressed(q, m) => Addressed(q, m)'
    BY DEF CallsStay, Addressed
  <1>2. QueueAddressed'
    <2> SUFFICES ASSUME NEW q \in Pollers, NEW i \in 1..Len(poller[q].queue)
                 PROVE  Addressed(q, poller[q].queue[i])'
      BY DEF QueueAddressed
    <2>1. poller[q].queue \in Seq(MsgIds)
      BY DEF IInv, TypeOK, Poller
    <2>2. poller[q].queue[i] \in MsgIds
      BY <2>1
    <2>3. Addressed(q, poller[q].queue[i])
      BY DEF IInv, QueueAddressed
    <2> QED BY <1>1, <2>2, <2>3
  <1>3. HandedAddressed'
    BY <1>1 DEF IInv, HandedAddressed
  <1> QED BY <1>2, <1>3 DEF IInv, MarkDelivered, TimerIsArmed, LoopAlive

\* A call record, and what replaces its report.
LEMMA CallEffect ==
    ASSUME TypeOK, NEW m \in MsgIds, NEW c \in Calls,
           out' = [out EXCEPT ![m] = c], out[m] # None => c.to = out[m].to
    PROVE  /\ out' \in [MsgIds -> Calls \cup {None}] /\ out'[m] = c /\ c # None
           /\ \A k \in MsgIds \ {m} : out'[k] = out[k]
           /\ CallsStay
           /\ FiniteCalls => FiniteCalls'
  <1>1. out \in [MsgIds -> Calls \cup {None}]
    BY DEF TypeOK, Calls
  <1>2. c # None
    BY RowNotNull
  <1>3. out' \in [MsgIds -> Calls \cup {None}] /\ out'[m] = c
        /\ \A k \in MsgIds \ {m} : out'[k] = out[k]
    BY <1>1
  <1>4. CallsStay
    BY <1>1, <1>2, <1>3 DEF CallsStay
  <1>5. FiniteCalls => FiniteCalls'
    <2> DEFINE S == {k \in MsgIds : out[k] # None}
    <2>1. {k \in MsgIds : out'[k] # None} = S \cup {m}
      BY <1>2, <1>3
    <2>2. IsFiniteSet(S) => IsFiniteSet(S \cup {m})
      BY FS_AddElement
    <2> QED BY <2>1, <2>2 DEF FiniteCalls
  <1> QED BY <1>2, <1>3, <1>4, <1>5

LEMMA TargetIsAddressed ==
    ASSUME NEW u, NEW e \in Target(u)
    PROVE  e \in Daemons /\ Own[e] = normalizeAgentId(u)
  BY DEF Target

LEMMA SendRefusedInv ==
    ASSUME IInv, NEW d \in Daemons, NEW u \in Targets, NEW m \in MsgIds, SendRefused(d, u, m)
    PROVE  IInv'
  <1>1. Call(d, u, "refused") \in Calls /\ Call(d, u, "refused").report = "refused"
    BY ConstantsAssumption DEF ConstantsAssumption, Call, Calls, Reports
  <1>2. TypeOK /\ out[m] = None /\ out' = [out EXCEPT ![m] = Call(d, u, "refused")]
    BY DEF IInv, SendRefused
  <1> DEFINE c == Call(d, u, "refused")
  <1> HIDE DEF c
  <1>3. /\ out' \in [MsgIds -> Calls \cup {None}] /\ out'[m] = c
        /\ \A k \in MsgIds \ {m} : out'[k] = out[k]
        /\ CallsStay /\ FiniteCalls'
    BY <1>1, <1>2, CallEffect DEF IInv, c
  <1>4. UNCHANGED <<rows, replies, poller, delivered>>
    BY DEF SendRefused
  <1>5. TypeOK'
    BY <1>2, <1>3, <1>4 DEF TypeOK, Calls
  <1>6. \A e \in Daemons : rows[e][m] = None
    BY <1>2 DEF IInv, RowHasCall, CallFor
  <1>7. RowHasCall'
    BY <1>3, <1>4, <1>6 DEF IInv, RowHasCall, CallFor
  <1>8. replies[m] = None
    BY <1>2 DEF IInv, ReplyHasCall
  <1>9. ReplyHasCall'
    BY <1>3, <1>4, <1>8, RowNotNull DEF IInv, ReplyHasCall
  <1>10. ReportIsTrue'
    BY <1>1, <1>3, <1>4, <1>6 DEF IInv, ReportIsTrue, c
  <1>11. ReadMeansDelivered'
    BY <1>4 DEF IInv, ReadMeansDelivered
  <1> QED BY <1>3, <1>4, <1>5, <1>7, <1>9, <1>10, <1>11, PollersKept DEF IInv

LEMMA SendRemoteInv ==
    ASSUME IInv, NEW d \in Daemons, NEW u \in Targets, NEW m \in MsgIds, SendRemote(d, u, m)
    PROVE  IInv'
  <1> DEFINE c == Call(d, u, "pending")
  <1>1. c \in Calls /\ c.report = "pending"
    BY ConstantsAssumption DEF ConstantsAssumption, Call, Calls, Reports
  <1>2. TypeOK /\ out[m] = None /\ out' = [out EXCEPT ![m] = c]
    BY DEF IInv, SendRemote
  <1> HIDE DEF c
  <1>3. /\ out' \in [MsgIds -> Calls \cup {None}] /\ out'[m] = c
        /\ \A k \in MsgIds \ {m} : out'[k] = out[k]
        /\ CallsStay /\ FiniteCalls'
    BY <1>1, <1>2, CallEffect DEF IInv
  <1>4. UNCHANGED <<rows, replies, poller, delivered>>
    BY DEF SendRemote
  <1>5. TypeOK'
    BY <1>2, <1>3, <1>4 DEF TypeOK, Calls
  <1>6. \A e \in Daemons : rows[e][m] = None
    BY <1>2 DEF IInv, RowHasCall, CallFor
  <1>7. RowHasCall'
    BY <1>3, <1>4, <1>6 DEF IInv, RowHasCall, CallFor
  <1>8. replies[m] = None
    BY <1>2 DEF IInv, ReplyHasCall
  <1>9. ReplyHasCall'
    BY <1>3, <1>4, <1>8, RowNotNull DEF IInv, ReplyHasCall
  <1>10. ReportIsTrue'
    BY <1>1, <1>3, <1>4, <1>6 DEF IInv, ReportIsTrue
  <1>11. ReadMeansDelivered'
    BY <1>4 DEF IInv, ReadMeansDelivered
  <1> QED BY <1>3, <1>4, <1>5, <1>7, <1>9, <1>10, <1>11, PollersKept DEF IInv

\* What storing a message for daemon d changes.
StoredAt(d, m) ==
    /\ rows' \in [Daemons -> [MsgIds -> Row \cup {None}]]
    /\ \A e \in Daemons, k \in MsgIds :
          /\ rows[e][k] # None => rows'[e][k] = rows[e][k]
          /\ <<e, k>> # <<d, m>> => rows'[e][k] = rows[e][k]
    /\ rows'[d][m] # None
    /\ rows[d][m] = None => rows'[d][m].inst = out'[m].to.inst /\ rows'[d][m].read = "no"

\* Storing serves the parts that speak of rows, when the call names daemon d.
LEMMA StoringKeeps ==
    ASSUME IInv, NEW d \in Daemons, NEW m \in MsgIds, StoredAt(d, m), CallsStay,
           CallFor(d, m)', delivered' = delivered,
           \A k \in MsgIds \ {m} : out'[k] = out[k],
           \A e \in Daemons : rows[e][m] # None => CallFor(e, m)'
    PROVE  RowHasCall' /\ ReadMeansDelivered'
  <1>1. RowHasCall'
    <2> SUFFICES ASSUME NEW e \in Daemons, NEW k \in MsgIds, rows'[e][k] # None
                 PROVE  CallFor(e, k)' /\ rows'[e][k].inst = out'[k].to.inst
      BY DEF RowHasCall
    <2>1. CASE rows[e][k] # None
      BY <2>1 DEF IInv, StoredAt, RowHasCall, CallFor, CallsStay
    <2>2. CASE rows[e][k] = None
      BY <2>2 DEF StoredAt
    <2> QED BY <2>1, <2>2
  <1>2. ReadMeansDelivered'
    <2> SUFFICES ASSUME NEW e \in Daemons, NEW k \in MsgIds,
                        rows'[e][k] # None, rows'[e][k].read = "poller"
                 PROVE  \E q \in Pollers : q.daemon = e /\ <<q, k>> \in delivered
      BY DEF ReadMeansDelivered
    <2>1. rows[e][k] # None
      <3> SUFFICES ASSUME rows[e][k] = None PROVE FALSE
        OBVIOUS
      <3>1. e = d /\ k = m
        BY DEF StoredAt
      <3> QED BY <3>1 DEF StoredAt
    <2>2. rows'[e][k] = rows[e][k]
      BY <2>1 DEF StoredAt
    <2> QED BY <2>1, <2>2 DEF IInv, ReadMeansDelivered
  <1> QED BY <1>1, <1>2

LEMMA SendLoopbackInv ==
    ASSUME IInv, NEW d \in Daemons, NEW u \in Targets, NEW m \in MsgIds, SendLoopback(d, u, m)
    PROVE  IInv'
  <1> DEFINE c == Call(d, u, "loopback")
  <1>0. u \in Uri
    BY ConstantsAssumption DEF ConstantsAssumption
  <1>1. c \in Calls /\ c.report = "loopback" /\ c.to = u
    BY <1>0 DEF Call, Calls, Reports
  <1>2. TypeOK /\ out[m] = None /\ out' = [out EXCEPT ![m] = c]
    BY DEF IInv, SendLoopback
  <1> HIDE DEF c
  <1>3. /\ out' \in [MsgIds -> Calls \cup {None}] /\ out'[m] = c /\ c # None
        /\ \A k \in MsgIds \ {m} : out'[k] = out[k]
        /\ CallsStay /\ FiniteCalls'
    BY <1>1, <1>2, CallEffect DEF IInv
  <1>4. UNCHANGED <<replies, poller, delivered>>
    BY DEF SendLoopback
  <1>5. PICK at \in Times : rows' = Store(d, m, u, at)
    BY DEF SendLoopback
  <1>6. Parses(u) /\ normalizeAgentId(u) = Own[d]
    BY DEF SendLoopback
  <1>7. StoredAt(d, m)
    BY <1>0, <1>1, <1>2, <1>3, <1>5, <1>6, StoreEffect DEF StoredAt
  <1>8. \A e \in Daemons : rows[e][m] = None
    BY <1>2 DEF IInv, RowHasCall, CallFor
  <1>9. CallFor(d, m)'
    BY <1>1, <1>3, <1>6 DEF CallFor
  <1>10. RowHasCall' /\ ReadMeansDelivered'
    BY <1>3, <1>4, <1>7, <1>8, <1>9, StoringKeeps
  <1>11. TypeOK'
    BY <1>2, <1>3, <1>4, <1>7 DEF TypeOK, Calls, StoredAt
  <1>12. replies[m] = None
    BY <1>2 DEF IInv, ReplyHasCall
  <1>13. ReplyHasCall'
    <2> SUFFICES ASSUME NEW k \in MsgIds
                 PROVE  /\ replies[k] # None => out'[k] # None
                        /\ replies[k] = "delivered" =>
                              \E e \in Target(out'[k].to) : rows'[e][k] # None
      BY <1>4 DEF ReplyHasCall
    <2>1. CASE k = m
      BY <2>1, <1>12, RowNotNull
    <2>2. CASE k # m
      <3>1. out'[k] = out[k]
        BY <2>2, <1>3
      <3>2. \A e \in Target(out[k].to) : rows[e][k] # None => rows'[e][k] # None
        BY <1>7 DEF StoredAt, Target
      <3> QED BY <3>1, <3>2 DEF IInv, ReplyHasCall
    <2> QED BY <2>1, <2>2
  <1>14. ReportIsTrue'
    <2> SUFFICES ASSUME NEW k \in MsgIds, out'[k] # None
                 PROVE  /\ out'[k].report \in {"delivered", "loopback"} =>
                              \E e \in Target(out'[k].to) : rows'[e][k] # None
                        /\ out'[k].report = "refused" => \A e \in Daemons : rows'[e][k] = None
      BY DEF ReportIsTrue
    <2>1. CASE k = m
      <3>1. d \in Target(u)
        BY <1>6 DEF Target
      <3> QED BY <2>1, <3>1, <1>1, <1>3, <1>7 DEF StoredAt
    <2>2. CASE k # m
      <3>1. out'[k] = out[k] /\ \A e \in Daemons : rows'[e][k] = rows[e][k]
        BY <2>2, <1>3, <1>7 DEF StoredAt
      <3> QED BY <3>1 DEF IInv, ReportIsTrue, Target
    <2> QED BY <2>1, <2>2
  <1> QED BY <1>3, <1>4, <1>10, <1>11, <1>13, <1>14, PollersKept DEF IInv

LEMMA ReceiveInv ==
    ASSUME IInv, NEW e \in Daemons, NEW m \in MsgIds, NEW paired \in BOOLEAN,
           Receive(e, m, paired)
    PROVE  IInv'
  <1>1. /\ out[m] # None /\ out[m].report \notin {"refused", "loopback"}
        /\ e \in Target(out[m].to) /\ UNCHANGED <<out, poller, delivered>>
    BY DEF Receive
  <1>2. CallsStay /\ FiniteCalls'
    BY <1>1 DEF CallsStay, IInv, FiniteCalls
  <1>3. \A k \in MsgIds : out[k] # None => out[k].to \in Uri
    BY DEF IInv, TypeOK
  <1>4. CASE Accepted(e, out[m].to) /\ paired
    <2>1. PICK at \in Times : rows' = Store(e, m, out[m].to, at)
      BY <1>4 DEF Receive
    <2>2. replies' = [replies EXCEPT ![m] = "delivered"]
      BY <1>4 DEF Receive
    <2>3. Parses(out[m].to)
      BY <1>4, ConstantsAssumption DEF Accepted, Parses, ConstantsAssumption
    <2>4. StoredAt(e, m)
      BY <1>1, <1>3, <2>1, <2>3, StoreEffect DEF StoredAt, IInv
    <2>5. CallFor(e, m)'
      BY <1>1, TargetIsAddressed DEF CallFor
    <2>6. \A f \in Daemons : rows[f][m] # None => CallFor(f, m)'
      BY <1>1 DEF IInv, RowHasCall, CallFor
    <2>7. RowHasCall' /\ ReadMeansDelivered'
      BY <1>1, <1>2, <2>4, <2>5, <2>6, StoringKeeps
    <2>8. TypeOK'
      BY <1>1, <2>2, <2>4 DEF IInv, TypeOK, StoredAt
    <2>9. \A k \in MsgIds : replies'[k] = IF k = m THEN "delivered" ELSE replies[k]
      BY <2>2 DEF IInv, TypeOK
    <2>10. \A f \in Daemons, k \in MsgIds : rows[f][k] # None => rows'[f][k] # None
      BY <2>4 DEF StoredAt
    <2>11. rows'[e][m] # None
      BY <2>4 DEF StoredAt
    <2>12. ReplyHasCall'
      <3> SUFFICES ASSUME NEW k \in MsgIds
                   PROVE  /\ replies'[k] # None => out[k] # None
                          /\ replies'[k] = "delivered" =>
                                \E f \in Target(out[k].to) : rows'[f][k] # None
        BY <1>1 DEF ReplyHasCall, Target
      <3>1. CASE k = m
        BY <3>1, <1>1, <2>11
      <3>2. CASE k # m
        <4>1. replies'[k] = replies[k]
          BY <2>9, <3>2
        <4> QED BY <4>1, <2>10 DEF IInv, ReplyHasCall, Target
      <3> QED BY <3>1, <3>2
    <2>13. ReportIsTrue'
      <3> SUFFICES ASSUME NEW k \in MsgIds, out[k] # None
                   PROVE  /\ out[k].report \in {"delivered", "loopback"} =>
                                \E f \in Target(out[k].to) : rows'[f][k] # None
                          /\ out[k].report = "refused" => \A f \in Daemons : rows'[f][k] = None
        BY <1>1 DEF ReportIsTrue, Target
      <3>1. ASSUME out[k].report = "refused" PROVE \A f \in Daemons : rows'[f][k] = None
        <4>1. k # m
          BY <3>1, <1>1
        <4>2. \A f \in Daemons : rows'[f][k] = rows[f][k]
          BY <4>1, <2>4 DEF StoredAt
        <4> QED BY <4>2, <3>1 DEF IInv, ReportIsTrue
      <3> QED BY <3>1, <2>10 DEF IInv, ReportIsTrue, Target
    <2> QED BY <1>1, <1>2, <2>7, <2>8, <2>12, <2>13, PollersKept DEF IInv
  <1>5. CASE ~(Accepted(e, out[m].to) /\ paired)
    <2>1. replies' = [replies EXCEPT ![m] = "rejected"] /\ UNCHANGED rows
      BY <1>5 DEF Receive
    <2>2. TypeOK'
      BY <1>1, <2>1 DEF IInv, TypeOK
    <2>3. \A k \in MsgIds : replies'[k] = IF k = m THEN "rejected" ELSE replies[k]
      BY <2>1 DEF IInv, TypeOK
    <2>4. ReplyHasCall'
      BY <1>1, <2>1, <2>3 DEF IInv, ReplyHasCall, Target
    <2>5. RowHasCall'
      BY <1>1, <2>1 DEF IInv, RowHasCall, CallFor
    <2>6. ReportIsTrue'
      BY <1>1, <2>1 DEF IInv, ReportIsTrue, Target
    <2>7. ReadMeansDelivered'
      BY <1>1, <2>1 DEF IInv, ReadMeansDelivered
    <2> QED BY <1>1, <1>2, <2>2, <2>4, <2>5, <2>6, <2>7, PollersKept DEF IInv
  <1> QED BY <1>4, <1>5

\* An answer or an error settles a pending call.
LEMMA SettledInv ==
    ASSUME IInv, NEW m \in MsgIds, out[m] # None, out[m].report = "pending",
           NEW r \in Reports \ {"refused", "loopback"},
           r = "delivered" => replies[m] = "delivered",
           out' = [out EXCEPT ![m].report = r],
           UNCHANGED <<rows, replies, poller, delivered>>
    PROVE  IInv'
  <1> DEFINE c == [out[m] EXCEPT !.report = r]
  <1>1. out[m] \in Calls /\ out \in [MsgIds -> Calls \cup {None}]
    BY DEF IInv, TypeOK, Calls
  <1>2. c \in Calls /\ c.report = r /\ c.to = out[m].to
    BY <1>1 DEF Calls
  <1>3. out' = [out EXCEPT ![m] = c]
    BY <1>1
  <1> HIDE DEF c
  <1>4. /\ out' \in [MsgIds -> Calls \cup {None}] /\ out'[m] = c /\ c # None
        /\ \A k \in MsgIds \ {m} : out'[k] = out[k]
        /\ CallsStay /\ FiniteCalls'
    BY <1>2, <1>3, CallEffect DEF IInv
  <1>5. TypeOK'
    BY <1>4 DEF IInv, TypeOK, Calls
  <1>6. RowHasCall'
    <2> SUFFICES ASSUME NEW d \in Daemons, NEW k \in MsgIds, rows[d][k] # None
                 PROVE  CallFor(d, k)' /\ rows[d][k].inst = out'[k].to.inst
      BY DEF RowHasCall
    <2>1. CallFor(d, k) /\ rows[d][k].inst = out[k].to.inst
      BY DEF IInv, RowHasCall
    <2> QED BY <2>1, <1>2, <1>4 DEF CallFor
  <1>7. ReplyHasCall'
    BY <1>2, <1>4 DEF IInv, ReplyHasCall, Target
  <1>8. ReportIsTrue'
    <2> SUFFICES ASSUME NEW k \in MsgIds, out'[k] # None
                 PROVE  /\ out'[k].report \in {"delivered", "loopback"} =>
                              \E e \in Target(out'[k].to) : rows[e][k] # None
                        /\ out'[k].report = "refused" => \A e \in Daemons : rows[e][k] = None
      BY DEF ReportIsTrue
    <2>1. CASE k = m
      BY <2>1, <1>2, <1>4 DEF IInv, ReplyHasCall
    <2>2. CASE k # m
      BY <2>2, <1>4 DEF IInv, ReportIsTrue
    <2> QED BY <2>1, <2>2
  <1>9. ReadMeansDelivered'
    BY DEF IInv, ReadMeansDelivered
  <1> QED BY <1>4, <1>5, <1>6, <1>7, <1>8, <1>9, PollersKept DEF IInv

LEMMA SendingInv == IInv /\ Sending => IInv'
  <1> SUFFICES ASSUME IInv, Sending PROVE IInv'
    OBVIOUS
  <1>1. ASSUME NEW m \in MsgIds, SendFailed(m) PROVE IInv'
    <2>1. "failed" \in Reports \ {"refused", "loopback"}
      BY DEF Reports
    <2> QED BY <1>1, <2>1, SettledInv DEF SendFailed
  <1>2. ASSUME NEW m \in MsgIds, NEW verified \in BOOLEAN, SendDone(m, verified) PROVE IInv'
    <2> DEFINE r == IF verified THEN replies[m] ELSE "unverified"
    <2>1. replies[m] \in {"delivered", "rejected"}
      BY <1>2 DEF SendDone, IInv, TypeOK
    <2>2. r \in Reports \ {"refused", "loopback"} /\ (r = "delivered" => replies[m] = "delivered")
      BY <2>1 DEF Reports
    <2>3. /\ out[m] # None /\ out[m].report = "pending" /\ out' = [out EXCEPT ![m].report = r]
          /\ UNCHANGED <<rows, replies, poller, delivered>>
      BY <1>2 DEF SendDone
    <2> HIDE DEF r
    <2> QED BY <2>2, <2>3, SettledInv
  <1> QED BY <1>1, <1>2, SendRefusedInv, SendLoopbackInv, SendRemoteInv, ReceiveInv DEF Sending

-----------------------------------------------------------------------------
(* Clients and pollers. *)

\* Rows that are only marked read or archived.
RowsAdvance ==
    /\ rows' \in [Daemons -> [MsgIds -> Row \cup {None}]]
    /\ \A d \in Daemons, m \in MsgIds :
          /\ (rows[d][m] = None) <=> (rows'[d][m] = None)
          /\ rows[d][m] # None => Advances(rows[d][m], rows'[d][m])

LEMMA SameRowsAdvance ==
    ASSUME TypeOK, rows' = rows PROVE RowsAdvance
  BY AdvancesRefl DEF TypeOK, RowsAdvance

LEMMA AdvancingKeeps ==
    ASSUME IInv, RowsAdvance, UNCHANGED <<out, replies>>
    PROVE  RowHasCall' /\ ReplyHasCall' /\ ReportIsTrue' /\ FiniteCalls'
  <1>1. RowHasCall'
    BY DEF IInv, RowsAdvance, RowHasCall, CallFor, Advances
  <1>2. ReplyHasCall'
    BY DEF IInv, RowsAdvance, ReplyHasCall, Target
  <1>3. ReportIsTrue'
    BY DEF IInv, RowsAdvance, ReportIsTrue, Target
  <1>4. FiniteCalls'
    BY DEF IInv, FiniteCalls
  <1> QED BY <1>1, <1>2, <1>3, <1>4

LEMMA ClientsInv == IInv /\ Clients => IInv'
  <1> SUFFICES ASSUME IInv, NEW d \in Daemons, NEW m \in MsgIds,
                      ClientMarkRead(d, m) \/ ClientArchive(d, m)
               PROVE  IInv'
    BY DEF Clients
  <1>1. UNCHANGED <<out, replies, poller, delivered>>
    BY DEF ClientMarkRead, ClientArchive
  <1>2. RowsAdvance /\ \A e \in Daemons, k \in MsgIds :
            rows'[e][k] # None /\ rows'[e][k].read = "poller" => rows[e][k].read = "poller"
    <2>1. CASE ClientMarkRead(d, m)
      <3>1. rows' = MarkRead(d, m, "client") /\ "client" \in Readers /\ rows[d][m] # None
        BY <2>1 DEF ClientMarkRead, Readers
      <3>2. RowsAdvance
        BY <3>1, MarkReadEffect DEF IInv, RowsAdvance
      <3>3. \A e \in Daemons, k \in MsgIds : <<e, k>> # <<d, m>> => rows'[e][k] = rows[e][k]
        BY <3>1, MarkReadEffect DEF IInv
      <3>4. rows'[d][m].read \in {"client", rows[d][m].read}
        BY <3>1, MarkReadEffect DEF IInv
      <3>5. ASSUME NEW e \in Daemons, NEW k \in MsgIds, rows'[e][k] # None, rows'[e][k].read = "poller"
            PROVE  rows[e][k].read = "poller"
        <4>1. CASE <<e, k>> # <<d, m>>
          BY <3>3, <3>5, <4>1
        <4>2. CASE e = d /\ k = m
          BY <3>4, <3>5, <4>2
        <4> QED BY <4>1, <4>2
      <3> QED BY <3>2, <3>5
    <2>2. CASE ClientArchive(d, m)
      <3>1. rows' = Archive(d, m)
        BY <2>2 DEF ClientArchive
      <3> QED BY <3>1, ArchiveEffect DEF IInv, RowsAdvance
    <2> QED BY <2>1, <2>2
  <1>3. TypeOK'
    BY <1>1, <1>2 DEF IInv, TypeOK, RowsAdvance
  <1>4. ReadMeansDelivered'
    BY <1>1, <1>2 DEF IInv, ReadMeansDelivered, RowsAdvance
  <1>5. CallsStay
    BY <1>1 DEF CallsStay
  <1> QED BY <1>1, <1>2, <1>3, <1>4, <1>5, AdvancingKeeps, PollersKept DEF IInv

\* What one poller must keep for itself.
PollerGood(q, p) ==
    /\ p \in Poller
    /\ \A i \in 1..Len(p.queue) : Addressed(q, p.queue[i])
    /\ p.current => p.armed > 0
    /\ p.active => p.step # "idle" \/ p.armed > 0

LEMMA PollerIsGood == ASSUME IInv, NEW q \in Pollers PROVE PollerGood(q, poller[q])
  BY DEF IInv, PollerGood, TypeOK, QueueAddressed, TimerIsArmed, LoopAlive

LEMMA PollerType ==
    ASSUME NEW q \in Pollers PROVE q.daemon \in Daemons /\ q.forInstance \in Instances \cup {None}
  BY ConstantsAssumption DEF ConstantsAssumption

\* A step of one poller.
LEMMA PollerStep ==
    ASSUME IInv, NEW q \in Pollers, NEW p, PollerGood(q, p), Set(q, p), RowsAdvance,
           delivered \subseteq delivered', delivered' \subseteq Pollers \X MsgIds,
           \A k \in Pollers, m \in MsgIds : <<k, m>> \in delivered' \ delivered => Addressed(k, m),
           p.step = "mark" => p.queue # <<>> /\ <<q, Head(p.queue)>> \in delivered',
           \A d \in Daemons, m \in MsgIds :
              rows'[d][m] # None /\ rows'[d][m].read = "poller" =>
                 rows[d][m].read = "poller" \/ (d = q.daemon /\ <<q, m>> \in delivered)
    PROVE  IInv'
  <1>1. UNCHANGED <<out, replies>> /\ poller' = [poller EXCEPT ![q] = p]
    BY DEF Set
  <1>2. poller' \in [Pollers -> Poller] /\ \A k \in Pollers : poller'[k] = IF k = q THEN p ELSE poller[k]
    BY <1>1 DEF IInv, TypeOK, PollerGood
  <1>3. TypeOK'
    BY <1>1, <1>2 DEF IInv, TypeOK, RowsAdvance
  <1>4. RowHasCall' /\ ReplyHasCall' /\ ReportIsTrue' /\ FiniteCalls'
    BY <1>1, AdvancingKeeps
  <1>5. \A k \in Pollers, m \in MsgIds : Addressed(k, m)' = Addressed(k, m)
    BY <1>1 DEF Addressed
  <1>6. HandedAddressed'
    BY <1>5 DEF IInv, HandedAddressed
  <1>7. QueueAddressed'
    <2> SUFFICES ASSUME NEW k \in Pollers, NEW i \in 1..Len(poller'[k].queue)
                 PROVE  Addressed(k, poller[k].queue[i])'
      BY DEF QueueAddressed
    <2>1. Addressed(k, poller'[k].queue[i])
      BY <1>2 DEF IInv, QueueAddressed, PollerGood
    <2> QED BY <2>1, <1>1 DEF Addressed
  <1>8. MarkDelivered'
    BY <1>2 DEF IInv, MarkDelivered
  <1>9. TimerIsArmed' /\ LoopAlive'
    BY <1>2 DEF IInv, TimerIsArmed, LoopAlive, PollerGood
  <1>10. ReadMeansDelivered'
    <2> SUFFICES ASSUME NEW d \in Daemons, NEW m \in MsgIds,
                        rows'[d][m] # None, rows'[d][m].read = "poller"
                 PROVE  \E k \in Pollers : k.daemon = d /\ <<k, m>> \in delivered'
      BY DEF ReadMeansDelivered
    <2>1. CASE rows[d][m].read = "poller"
      <3>1. rows[d][m] # None
        BY DEF RowsAdvance
      <3> QED BY <2>1, <3>1 DEF IInv, ReadMeansDelivered
    <2>2. CASE d = q.daemon /\ <<q, m>> \in delivered
      BY <2>2
    <2> QED BY <2>1, <2>2
  <1> QED BY <1>3, <1>4, <1>6, <1>7, <1>8, <1>9, <1>10 DEF IInv

\* A step of one poller that leaves the rows and the sessions alone.
LEMMA QuietPollerStep ==
    ASSUME IInv, NEW q \in Pollers, NEW p, PollerGood(q, p), Set(q, p),
           UNCHANGED <<rows, delivered>>, p.step # "mark" \/ (p.step = poller[q].step /\ p.queue = poller[q].queue)
    PROVE  IInv'
  <1>1. RowsAdvance
    BY SameRowsAdvance DEF IInv
  <1>2. p.step = "mark" => p.queue # <<>> /\ <<q, Head(p.queue)>> \in delivered'
    BY DEF IInv, MarkDelivered
  <1>3. delivered' \subseteq Pollers \X MsgIds
    BY DEF IInv, TypeOK
  <1> QED BY <1>1, <1>2, <1>3, PollerStep

LEMMA PollerFields ==
    ASSUME NEW p \in Poller
    PROVE  /\ p.active \in BOOLEAN /\ p.current \in BOOLEAN /\ p.armed \in 0..MaxTimers
           /\ p.step \in {"idle", "fetch", "deliver", "mark"}
           /\ MaxTimers \in Nat \ {0}
           /\ p.armed \in Nat
           /\ p.armed < MaxTimers => p.armed + 1 \in 0..MaxTimers
           /\ p.armed > 0 => p.armed - 1 \in 0..MaxTimers
  BY ConstantsAssumption DEF Poller, ConstantsAssumption

\* schedule arms one more timer, if there is room for it.
LEMMA ScheduleEffect ==
    ASSUME NEW p \in Poller, p.armed < MaxTimers
    PROVE  /\ Schedule(p) \in Poller /\ Schedule(p).armed = p.armed + 1 /\ Schedule(p).armed > 0
           /\ Schedule(p).step = p.step /\ Schedule(p).queue = p.queue
           /\ Schedule(p).active = p.active
  <1>1. PICK k \in 0..MaxTimers : k = p.armed + 1 /\ k > 0
    BY PollerFields
  <1>2. /\ Schedule(p) \in Poller /\ Schedule(p).armed = k
        /\ Schedule(p).step = p.step /\ Schedule(p).queue = p.queue
        /\ Schedule(p).active = p.active
    BY <1>1 DEF Schedule, Poller
  <1> QED BY <1>1, <1>2

LEMMA ActivateEffect ==
    ASSUME NEW p \in Poller
    PROVE  /\ [p EXCEPT !.active = TRUE] \in Poller
           /\ [p EXCEPT !.active = TRUE].armed = p.armed
           /\ [p EXCEPT !.active = TRUE].step = p.step
           /\ [p EXCEPT !.active = TRUE].queue = p.queue
  BY DEF Poller

\* What stop and a timer that fires leave behind.
LEMMA StoppedEffect ==
    ASSUME NEW p \in Poller, NEW k \in 0..MaxTimers, NEW r,
           r = [p EXCEPT !.active = FALSE, !.current = FALSE, !.armed = k]
    PROVE  /\ r \in Poller /\ ~r.active /\ ~r.current
           /\ r.step = p.step /\ r.queue = p.queue
  BY DEF Poller

Fired(p, isCurrent) == [p EXCEPT !.armed = @ - 1, !.current = @ /\ ~isCurrent]

LEMMA FiredEffect ==
    ASSUME NEW p \in Poller, p.armed > 0, NEW isCurrent \in BOOLEAN, NEW r,
           r = Fired(p, isCurrent)
    PROVE  /\ r \in Poller /\ r.active = p.active /\ r.armed = p.armed - 1
           /\ r.step = p.step /\ r.queue = p.queue
           /\ r.current = (p.current /\ ~isCurrent)
  <1>1. PICK k \in 0..MaxTimers : k = p.armed - 1
    BY PollerFields
  <1>2. PICK c \in BOOLEAN : c = (p.current /\ ~isCurrent)
    OBVIOUS
  <1>3. r = [p EXCEPT !.armed = k, !.current = c]
    BY <1>1, <1>2, Zenon DEF Fired
  <1>4. /\ r \in Poller /\ r.active = p.active /\ r.current = c /\ r.armed = k
        /\ r.step = p.step /\ r.queue = p.queue
    BY <1>3 DEF Poller
  <1> QED BY <1>1, <1>2, <1>4

LEMMA IdleEffect ==
    ASSUME NEW p \in Poller
    PROVE  /\ [p EXCEPT !.step = "idle"] \in Poller
           /\ [p EXCEPT !.step = "idle"].armed = p.armed
           /\ [p EXCEPT !.step = "idle"].current = p.current
           /\ [p EXCEPT !.step = "idle"].active = p.active
           /\ [p EXCEPT !.step = "idle"].queue = p.queue
           /\ [p EXCEPT !.step = "idle"].step = "idle"
  BY DEF Poller

LEMMA StartInv ==
    ASSUME IInv, NEW q \in Pollers, Start(q) \/ Stop(q) \/ Crash(q)
    PROVE  IInv'
  <1> DEFINE p == poller[q]
  <1>1. PollerGood(q, p) /\ p \in Poller /\ MaxTimers \in Nat \ {0}
    BY PollerIsGood, ConstantsAssumption DEF PollerGood, ConstantsAssumption
  <1>2. UNCHANGED <<rows, delivered>>
    BY DEF Start, Stop, Crash
  <1>3. CASE Start(q)
    <2> DEFINE r == [p EXCEPT !.active = TRUE]
    <2>1. Set(q, Schedule(r)) /\ p.armed < MaxTimers
      BY <1>3 DEF Start
    <2>2. r \in Poller /\ r.armed = p.armed /\ r.step = p.step /\ r.queue = p.queue
      BY <1>1, ActivateEffect
    <2> HIDE DEF p, r
    <2>3. /\ Schedule(r) \in Poller /\ Schedule(r).armed > 0 /\ Schedule(r).step = p.step
          /\ Schedule(r).queue = p.queue
      BY <2>1, <2>2, ScheduleEffect
    <2>4. PollerGood(q, Schedule(r))
      BY <1>1, <2>3 DEF PollerGood
    <2> QED BY <1>2, <2>1, <2>3, <2>4, QuietPollerStep DEF p
  <1>4. CASE Stop(q)
    <2> DEFINE k == IF p.current THEN p.armed - 1 ELSE p.armed
               r == [p EXCEPT !.active = FALSE, !.current = FALSE,
                              !.armed = IF p.current THEN @ - 1 ELSE @]
    <2>1. Set(q, r)
      BY <1>4 DEF Stop
    <2>2. k \in 0..MaxTimers
      BY <1>1, PollerFields DEF PollerGood
    <2>3. r = [p EXCEPT !.active = FALSE, !.current = FALSE, !.armed = k]
      BY Zenon
    <2> HIDE DEF p, k, r
    <2>4. r \in Poller /\ ~r.active /\ ~r.current /\ r.step = p.step /\ r.queue = p.queue
      BY <1>1, <2>2, <2>3, StoppedEffect
    <2>5. PollerGood(q, r)
      BY <1>1, <2>4 DEF PollerGood
    <2> QED BY <1>2, <2>1, <2>4, <2>5, QuietPollerStep DEF p
  <1>5. CASE Crash(q)
    <2>1. Set(q, Stopped)
      BY <1>5 DEF Crash
    <2>2. /\ Stopped \in Poller /\ ~Stopped.active /\ ~Stopped.current
          /\ Stopped.queue = <<>> /\ Stopped.step = "idle"
      <3>1. 0 \in 0..MaxTimers
        BY <1>1
      <3>2. <<>> \in Seq(MsgIds)
        OBVIOUS
      <3> QED BY <3>1, <3>2 DEF Stopped, Poller
    <2>3. PollerGood(q, Stopped)
      BY <2>2 DEF PollerGood
    <2> QED BY <1>2, <2>1, <2>2, <2>3, QuietPollerStep
  <1> QED BY <1>3, <1>4, <1>5

LEMMA TimerFiresInv ==
    ASSUME IInv, NEW q \in Pollers, NEW isCurrent \in BOOLEAN, TimerFires(q, isCurrent)
    PROVE  IInv'
  <1> DEFINE p == poller[q]
             r == Fired(p, isCurrent)
  <1>1. PollerGood(q, p) /\ p \in Poller /\ MaxTimers \in Nat \ {0}
    BY PollerIsGood, ConstantsAssumption DEF PollerGood, ConstantsAssumption
  <1>2. UNCHANGED <<rows, delivered>> /\ Set(q, Tick(r))
    BY DEF TimerFires, Fired
  <1>3. p.armed > 0 /\ (p.current /\ ~isCurrent => p.armed > 1)
    BY <1>1 DEF TimerFires, PollerGood, Poller
  <1>4. /\ r \in Poller /\ r.queue = p.queue /\ r.step = p.step /\ r.active = p.active
        /\ r.armed = p.armed - 1 /\ r.current = (p.current /\ ~isCurrent)
    <2> HIDE DEF p
    <2> QED BY <1>1, <1>3, FiredEffect
  <1> HIDE DEF r
  <1>5. /\ Tick(r) \in Poller /\ Tick(r).queue = p.queue /\ Tick(r).active = r.active
        /\ Tick(r).armed = r.armed /\ Tick(r).current = r.current
        /\ Tick(r).step = p.step \/ Tick(r).step = "fetch"
        /\ r.active => Tick(r).step # "idle"
    BY <1>4 DEF Tick, Poller
  <1>6. PollerGood(q, Tick(r))
    BY <1>1, <1>3, <1>4, <1>5 DEF PollerGood, Poller
  <1> QED BY <1>2, <1>5, <1>6, QuietPollerStep

\* The end of a cycle, with room for the next timer.
LEMMA CycleEndInv ==
    ASSUME IInv, NEW q \in Pollers, FetchFailed(q) \/ CycleDone(q)
    PROVE  IInv'
  <1> DEFINE p == poller[q]
  <1>1. PollerGood(q, p) /\ p \in Poller /\ MaxTimers \in Nat \ {0}
    BY PollerIsGood, ConstantsAssumption DEF PollerGood, ConstantsAssumption
  <1>2. UNCHANGED <<rows, delivered>> /\ Set(q, CycleEnd(p)) /\ p.armed < MaxTimers
    BY DEF FetchFailed, CycleDone
  <1>3. /\ CycleEnd(p) \in Poller /\ CycleEnd(p).queue = p.queue /\ CycleEnd(p).step = "idle"
        /\ CycleEnd(p).active = p.active
        /\ p.active => CycleEnd(p).armed = p.armed + 1
        /\ ~p.active => CycleEnd(p).armed = p.armed /\ CycleEnd(p).current = p.current
    <2> DEFINE r == [p EXCEPT !.step = "idle"]
    <2>1. /\ r \in Poller /\ r.armed = p.armed /\ r.current = p.current /\ r.active = p.active
          /\ r.queue = p.queue /\ r.step = "idle"
      BY <1>1, IdleEffect
    <2>2. CycleEnd(p) = IF p.active THEN Schedule(r) ELSE r
      BY DEF CycleEnd
    <2> HIDE DEF p, r
    <2>3. CASE p.active
      BY <1>2, <2>1, <2>2, <2>3, ScheduleEffect
    <2>4. CASE ~p.active
      BY <2>1, <2>2, <2>4
    <2> QED BY <2>3, <2>4
  <1>4. PollerGood(q, CycleEnd(p))
    BY <1>1, <1>3 DEF PollerGood, Poller
  <1> QED BY <1>2, <1>3, <1>4, QuietPollerStep

\* What list answers is a sequence of messages for the poller.
LEMMA ListEffect ==
    ASSUME IInv, NEW q \in Pollers, NEW s \in List(q.daemon, q.forInstance)
    PROVE  s \in Seq(MsgIds) /\ \A i \in 1..Len(s) : Addressed(q, s[i])
  <1> DEFINE found == Matches(q.daemon, q.forInstance)
             n == IF Cardinality(found) < Limit THEN Cardinality(found) ELSE Limit
  <1>1. \A m \in found : m \in MsgIds /\ Addressed(q, m) /\ out[m] # None
    BY PollerType DEF IInv, RowHasCall, CallFor, Matches, Addressed
  <1>2. IsFiniteSet(found)
    <2>1. found \subseteq {m \in MsgIds : out[m] # None}
      BY <1>1
    <2> QED BY <2>1, FS_Subset DEF IInv, FiniteCalls
  <1>3. n \in Nat
    BY <1>2, FS_CardinalityType, ConstantsAssumption DEF ConstantsAssumption
  <1>4. s \in [1..n -> found]
    BY DEF List
  <1> HIDE DEF n
  <1>5. s \in Seq(found) /\ Len(s) = n
    BY <1>3, <1>4
  <1> QED BY <1>1, <1>3, <1>4, <1>5

LEMMA FetchOkInv ==
    ASSUME IInv, NEW q \in Pollers, FetchOk(q)
    PROVE  IInv'
  <1> DEFINE p == poller[q]
  <1>1. PollerGood(q, p) /\ p \in Poller
    BY PollerIsGood DEF PollerGood
  <1>2. PICK s \in List(q.daemon, q.forInstance) :
            Set(q, [p EXCEPT !.step = "deliver", !.queue = s])
    BY DEF FetchOk
  <1> DEFINE r == [p EXCEPT !.step = "deliver", !.queue = s]
  <1>3. s \in Seq(MsgIds) /\ \A i \in 1..Len(s) : Addressed(q, s[i])
    BY ListEffect
  <1>4. /\ r \in Poller /\ r.queue = s /\ r.step = "deliver" /\ r.active = p.active
        /\ r.armed = p.armed /\ r.current = p.current
    BY <1>1, <1>3 DEF Poller
  <1>5. Set(q, r) /\ UNCHANGED <<rows, delivered>>
    BY <1>2 DEF FetchOk
  <1> HIDE DEF r
  <1>6. PollerGood(q, r)
    BY <1>1, <1>3, <1>4 DEF PollerGood
  <1> QED BY <1>4, <1>5, <1>6, QuietPollerStep

\* Going on with the next message.
LEMMA ContinueGood ==
    ASSUME NEW q \in Pollers, NEW p, PollerGood(q, p), p.queue # <<>>
    PROVE  /\ PollerGood(q, Continue(p)) /\ Continue(p).step = "deliver"
           /\ Head(p.queue) \in MsgIds /\ Addressed(q, Head(p.queue))
  <1>1. p \in Poller /\ p.queue \in Seq(MsgIds)
    BY DEF PollerGood, Poller
  <1>2. /\ Head(p.queue) = p.queue[1] /\ Tail(p.queue) \in Seq(MsgIds) /\ Len(p.queue) \in Nat \ {0}
        /\ Len(Tail(p.queue)) = Len(p.queue) - 1
        /\ \A i \in 1..Len(Tail(p.queue)) : Tail(p.queue)[i] = p.queue[i + 1]
    BY <1>1, HeadTailProperties
  <1>3. Head(p.queue) \in MsgIds /\ Addressed(q, Head(p.queue))
    <2>1. 1 \in 1..Len(p.queue)
      BY <1>2
    <2> QED BY <1>1, <1>2, <2>1 DEF PollerGood
  <1>4. /\ Continue(p) \in Poller /\ Continue(p).queue = Tail(p.queue)
        /\ Continue(p).step = "deliver" /\ Continue(p).active = p.active
        /\ Continue(p).armed = p.armed /\ Continue(p).current = p.current
    BY <1>1, <1>2 DEF Continue, Poller
  <1>5. \A i \in 1..Len(Tail(p.queue)) : Addressed(q, Tail(p.queue)[i])
    BY <1>2 DEF PollerGood
  <1> QED BY <1>3, <1>4, <1>5 DEF PollerGood

LEMMA DeliverInv ==
    ASSUME IInv, NEW q \in Pollers, DeliverOk(q) \/ DeliverFailed(q)
    PROVE  IInv'
  <1> DEFINE p == poller[q]
  <1>1. PollerGood(q, p) /\ p.queue # <<>> /\ p \in Poller
    BY PollerIsGood DEF PollerGood, DeliverOk, DeliverFailed
  <1>2. CASE DeliverFailed(q)
    BY <1>1, <1>2, ContinueGood, QuietPollerStep DEF DeliverFailed
  <1>3. CASE DeliverOk(q)
    <2> DEFINE r == [p EXCEPT !.step = "mark"]
    <2>1. /\ delivered' = delivered \cup {<<q, Head(p.queue)>>} /\ Set(q, r) /\ rows' = rows
      BY <1>3 DEF DeliverOk
    <2>2. /\ r \in Poller /\ r.queue = p.queue /\ r.step = "mark" /\ r.active = p.active
          /\ r.armed = p.armed /\ r.current = p.current
      BY <1>1 DEF Poller
    <2> HIDE DEF r
    <2>3. PollerGood(q, r)
      BY <1>1, <2>2 DEF PollerGood
    <2>4. Head(p.queue) \in MsgIds /\ Addressed(q, Head(p.queue))
      BY <1>1, ContinueGood
    <2>5. delivered' \subseteq Pollers \X MsgIds
      BY <2>1, <2>4 DEF IInv, TypeOK
    <2>6. \A k \in Pollers, m \in MsgIds : <<k, m>> \in delivered' \ delivered => Addressed(k, m)
      BY <2>1, <2>4
    <2>7. RowsAdvance
      BY <2>1, SameRowsAdvance DEF IInv
    <2> QED BY <1>1, <2>1, <2>2, <2>3, <2>5, <2>6, <2>7, PollerStep
  <1> QED BY <1>2, <1>3

LEMMA MarkReadInv ==
    ASSUME IInv, NEW q \in Pollers,
           MarkReadOk(q) \/ \E reached \in BOOLEAN : MarkReadFailed(q, reached)
    PROVE  IInv'
  <1> DEFINE p == poller[q]
             h == Head(poller[q].queue)
  <1>1. p.step = "mark" /\ Set(q, Continue(p)) /\ delivered' = delivered
    BY DEF MarkReadOk, MarkReadFailed
  <1>2. PollerGood(q, p) /\ p.queue # <<>> /\ <<q, h>> \in delivered
    BY <1>1, PollerIsGood DEF IInv, MarkDelivered
  <1>3. h \in MsgIds /\ PollerGood(q, Continue(p)) /\ Continue(p).step = "deliver"
    BY <1>2, ContinueGood
  <1>4. rows' = rows \/ rows' = MarkRead(q.daemon, h, "poller")
    BY DEF MarkReadOk, MarkReadFailed
  <1>5. RowsAdvance /\ \A d \in Daemons, m \in MsgIds :
              rows'[d][m] # None /\ rows'[d][m].read = "poller" =>
                 rows[d][m].read = "poller" \/ (d = q.daemon /\ <<q, m>> \in delivered)
    <2>1. CASE rows' = rows
      BY <2>1, SameRowsAdvance DEF IInv
    <2>2. CASE rows' = MarkRead(q.daemon, h, "poller")
      <3>1. "poller" \in Readers /\ q.daemon \in Daemons /\ TypeOK
        BY PollerType DEF Readers, IInv
      <3>2. RowsAdvance
        BY <1>3, <2>2, <3>1, MarkReadEffect DEF RowsAdvance
      <3>3. \A d \in Daemons, m \in MsgIds : <<d, m>> # <<q.daemon, h>> => rows'[d][m] = rows[d][m]
        BY <1>3, <2>2, <3>1, MarkReadEffect
      <3>4. ASSUME NEW d \in Daemons, NEW m \in MsgIds, rows'[d][m].read = "poller"
            PROVE  rows[d][m].read = "poller" \/ (d = q.daemon /\ <<q, m>> \in delivered)
        <4>1. CASE <<d, m>> # <<q.daemon, h>>
          BY <3>3, <3>4, <4>1
        <4>2. CASE d = q.daemon /\ m = h
          BY <1>2, <4>2
        <4> QED BY <4>1, <4>2
      <3> QED BY <3>2, <3>4
    <2> QED BY <1>4, <2>1, <2>2
  <1>6. delivered' \subseteq Pollers \X MsgIds
    BY <1>1 DEF IInv, TypeOK
  <1> HIDE DEF p, h
  <1> QED BY <1>1, <1>3, <1>5, <1>6, PollerStep

LEMMA PollingInv == IInv /\ Polling => IInv'
  BY StartInv, TimerFiresInv, CycleEndInv, FetchOkInv, DeliverInv, MarkReadInv DEF Polling

\* The inductive step.
LEMMA NextIInv == IInv /\ [Next]_vars => IInv'
  <1> SUFFICES ASSUME IInv, [Next]_vars PROVE IInv'
    OBVIOUS
  <1>1. CASE UNCHANGED vars
    <2> USE <1>1 DEF vars, IInv
    <2>1. TypeOK' /\ RowHasCall' /\ ReplyHasCall'
      BY DEF TypeOK, RowHasCall, CallFor, ReplyHasCall, Target
    <2>2. ReportIsTrue' /\ ReadMeansDelivered' /\ FiniteCalls'
      BY DEF ReportIsTrue, ReadMeansDelivered, FiniteCalls, Target
    <2>3. CallsStay
      BY DEF CallsStay
    <2> QED BY <2>1, <2>2, <2>3, PollersKept
  <1> QED BY <1>1, SendingInv, ClientsInv, PollingInv DEF Next

LEMMA Safety == Spec => []IInv
  BY InitIInv, NextIInv, PTL DEF Spec

-----------------------------------------------------------------------------
(* Theorems. *)

\* Rows, calls, answers and pollers keep their types; in particular no stop,
\* start or late timer makes a poller's count of armed timers negative.
THEOREM TypeCorrect == Spec => []TypeOK
  <1>1. IInv => TypeOK
    BY DEF IInv
  <1> QED BY <1>1, Safety, PTL

\* A row that a poller marked read was handed to a session before, whatever
\* failed, crashed or was repeated in between (pollInboxOnce).
THEOREM ReadMeansDeliveredHolds == Spec => []ReadMeansDelivered
  <1>1. IInv => ReadMeansDelivered
    BY DEF IInv
  <1> QED BY <1>1, Safety, PTL

\* A session only gets what was addressed to its daemon and its instance,
\* although what it gets was decided when the cycle fetched (list, for_instance).
THEOREM DeliveredIsAddressedHolds == Spec => []DeliveredIsAddressed
  <1>1. IInv => DeliveredIsAddressed
    BY DEF IInv, HandedAddressed, Addressed, DeliveredIsAddressed, getAgentInstance
  <1> QED BY <1>1, Safety, PTL

\* A caller told `delivered' or `loopback' has its message in the target's
\* inbox, and a refused one has it nowhere (POST /api/inbox/send).
THEOREM ReportIsTrueHolds == Spec => []ReportIsTrue
  <1>1. IInv => ReportIsTrue
    BY DEF IInv
  <1> QED BY <1>1, Safety, PTL

\* An active poller has a cycle in flight or a timer armed, however stop and
\* start fall into a running cycle (createAdaptiveInboxPoller).
THEOREM LoopAliveHolds == Spec => []LoopAlive
  <1>1. IInv => LoopAlive
    BY DEF IInv
  <1> QED BY <1>1, Safety, PTL

\* Every step keeps a row or advances it.
LEMMA NextRowsAdvance ==
    ASSUME IInv, [Next]_vars, NEW d \in Daemons, NEW m \in MsgIds, rows[d][m] # None
    PROVE  rows'[d][m] # None /\ Advances(rows[d][m], rows'[d][m])
  <1>1. TypeOK /\ rows[d][m] \in Row
    BY DEF IInv, TypeOK
  <1>2. CASE RowsAdvance
    BY <1>2 DEF RowsAdvance
  <1>3. CASE rows' = rows
    BY <1>1, <1>3, AdvancesRefl
  <1>4. ASSUME NEW e \in Daemons, NEW k \in MsgIds, NEW u \in Uri, Parses(u), NEW at \in Times,
               rows' = Store(e, k, u, at)
        PROVE  rows'[d][m] = rows[d][m]
    BY <1>1, <1>4, StoreEffect
  <1>5. CASE Sending
    <2>1. CASE \E e \in Daemons, u \in Targets, k \in MsgIds :
                  SendRefused(e, u, k) \/ SendRemote(e, u, k)
      BY <1>3, <2>1 DEF SendRefused, SendRemote
    <2>2. CASE \E e \in Daemons, u \in Targets, k \in MsgIds : SendLoopback(e, u, k)
      <3>1. PICK e \in Daemons, u \in Targets, k \in MsgIds, at \in Times :
                Parses(u) /\ rows' = Store(e, k, u, at)
        BY <2>2 DEF SendLoopback
      <3>2. u \in Uri
        BY ConstantsAssumption DEF ConstantsAssumption
      <3> QED BY <1>1, <1>4, <3>1, <3>2, AdvancesRefl
    <2>3. CASE \E e \in Daemons, k \in MsgIds, paired \in BOOLEAN : Receive(e, k, paired)
      <3>1. PICK e \in Daemons, k \in MsgIds, paired \in BOOLEAN : Receive(e, k, paired)
        BY <2>3
      <3>2. CASE Accepted(e, out[k].to) /\ paired
        <4>1. PICK at \in Times : rows' = Store(e, k, out[k].to, at)
          BY <3>1, <3>2 DEF Receive
        <4>2. out[k].to \in Uri /\ Parses(out[k].to)
          BY <3>2, ConstantsAssumption DEF Accepted, Parses, ConstantsAssumption
        <4> QED BY <1>1, <1>4, <4>1, <4>2, AdvancesRefl
      <3>3. CASE ~(Accepted(e, out[k].to) /\ paired)
        BY <1>3, <3>1, <3>3 DEF Receive
      <3> QED BY <3>2, <3>3
    <2>4. CASE \E k \in MsgIds : SendFailed(k) \/ \E verified \in BOOLEAN : SendDone(k, verified)
      BY <1>3, <2>4 DEF SendFailed, SendDone
    <2> QED BY <1>5, <2>1, <2>2, <2>3, <2>4 DEF Sending
  <1>6. CASE Clients
    <2>1. PICK e \in Daemons, k \in MsgIds : ClientMarkRead(e, k) \/ ClientArchive(e, k)
      BY <1>6 DEF Clients
    <2>2. "client" \in Readers
      BY DEF Readers
    <2>3. CASE ClientMarkRead(e, k)
      BY <1>1, <1>2, <2>2, <2>3, MarkReadEffect DEF ClientMarkRead, RowsAdvance
    <2>4. CASE ClientArchive(e, k)
      BY <1>1, <1>2, <2>4, ArchiveEffect DEF ClientArchive, RowsAdvance
    <2> QED BY <2>1, <2>3, <2>4
  <1>7. CASE Polling
    <2>1. PICK q \in Pollers :
              \/ rows' = rows
              \/ /\ poller[q].step = "mark"
                 /\ rows' = MarkRead(q.daemon, Head(poller[q].queue), "poller")
      BY <1>7 DEF Polling, Start, Stop, Crash, TimerFires, FetchOk, FetchFailed, DeliverOk,
                  DeliverFailed, MarkReadOk, MarkReadFailed, CycleDone
    <2>2. CASE poller[q].step = "mark" /\ rows' = MarkRead(q.daemon, Head(poller[q].queue), "poller")
      <3>1. "poller" \in Readers /\ q.daemon \in Daemons
        BY PollerType DEF Readers
      <3>2. Head(poller[q].queue) \in MsgIds
        BY <2>2, PollerIsGood, ContinueGood DEF IInv, MarkDelivered
      <3> QED BY <1>1, <1>2, <2>2, <3>1, <3>2, MarkReadEffect DEF RowsAdvance
    <2> QED BY <1>3, <2>1, <2>2
  <1>8. CASE UNCHANGED vars
    BY <1>3, <1>8 DEF vars
  <1> QED BY <1>5, <1>6, <1>7, <1>8 DEF Next

\* A request that comes twice changes nothing: rows stay, keep their instance
\* and time, and none becomes unread or unarchived again (store, dedupe).
THEOREM RowsOnlyAdvanceHolds == Spec => RowsOnlyAdvance
  <1>1. IInv /\ [Next]_vars =>
          [\A d \in Daemons, m \in MsgIds : rows[d][m] # None =>
            /\ rows'[d][m] # None
            /\ rows'[d][m].inst = rows[d][m].inst /\ rows'[d][m].at = rows[d][m].at
            /\ rows[d][m].read # "no" => rows'[d][m].read = rows[d][m].read
            /\ rows[d][m].archived => rows'[d][m].archived]_vars
    BY NextRowsAdvance DEF Advances
  <1> QED BY <1>1, Safety, PTL DEF Spec, RowsOnlyAdvance
=============================================================================
