------------------------------- MODULE Inbox -------------------------------
(***************************************************************************)
(* The agents' mail: the durable inbox of a daemon (agent-inbox.ts), the   *)
(* send, mark-read and archive calls of its API (inbox-api.ts), the        *)
(* AGENT_MESSAGE handler of the receiving daemon (index.ts) and the        *)
(* pollers that hand the messages to agent sessions (inbox-poller.ts).     *)
(*                                                                         *)
(* Several daemons send to each other.  Every stretch of code between two  *)
(* awaits is one action; a poll cycle suspends in the fetch, in every      *)
(* deliver and in every mark-read, and the poller can be stopped, started  *)
(* and killed at each of these points.                                     *)
(*                                                                         *)
(* Abstracted: bodies, subjects, sizes and rate limits (a request may be   *)
(* refused for them), signatures, whether two daemons are paired (a free   *)
(* choice at every check, since the pairing store changes on its own), the *)
(* columns of signed orders, and the length of the poll delay.             *)
(***************************************************************************)
EXTENDS Integers, Sequences, FiniteSets

CONSTANTS
    Daemons,      \* the daemons
    Own,          \* daemon -> ownAgentId / selfIdentityUri
    AgentTypes,   \* agent types of the instances
    Instances,    \* ids of agent instances
    MsgIds,       \* message_ids, fresh random UUIDs
    Targets,      \* the addresses callers send to
    Pollers,      \* [daemon, forInstance]: the configured pollers
    Limit,        \* the default LIMIT of list()
    Times,        \* values of received_at: the clock may stand still or step
    None,         \* null / undefined
    Star,         \* the "*" of a broadcast address
    MaxTimers     \* bound on the timers one poller has armed

Ids == {Own[d].id : d \in Daemons}

\* node/<id>, host/<id>/agent/<type> and host/<id>/agent/<type>/instance/<inst>
Uri ==
    [kind : {"node"}, id : Ids, type : {None}, inst : {None}]
    \cup [kind : {"host"}, id : Ids, type : AgentTypes,
          inst : Instances \cup {None, Star}]

ASSUME ConstantsAssumption ==
    /\ None \notin Daemons \cup Instances \cup MsgIds \cup Times \cup {Star}
    /\ Star \notin Instances
    /\ \A d \in Daemons : Own[d] \in Uri /\ Own[d].inst = None
    /\ \A d, e \in Daemons : Own[d] = Own[e] => d = e
    /\ Pollers \subseteq [daemon : Daemons, forInstance : Instances \cup {None}]
    /\ Targets \subseteq Uri
    /\ Limit \in Nat \ {0} /\ MaxTimers \in Nat \ {0} /\ Times \subseteq Nat

VARIABLES
    rows,       \* daemon -> message_id -> its row, or None
    out,        \* message_id -> the send call it belongs to, or None
    replies,    \* message_id -> the answer of the receiving daemon, or None
    poller,     \* the state of each poller
    delivered   \* history: <<poller, message>> handed to a session

vars == <<rows, out, replies, poller, delivered>>

-----------------------------------------------------------------------------
(* Addresses *)

\* parseSpiffeUri accepts the URI: "*" is no valid component.
Parses(u) == u.inst # Star

normalizeAgentId(u) == [u EXCEPT !.inst = None]

getAgentInstance(u) == u.inst

\* The address the agent API of daemon d hands out to an instance.
buildInstanceSpiffe(d, type, inst) ==
    [kind |-> "host", id |-> Own[d].id, type |-> type, inst |-> inst]

-----------------------------------------------------------------------------
(* AgentInbox *)

\* read is read_at, and (as history) whose request set it.
Readers == {"no", "poller", "client"}

Row == [inst : Instances \cup {None}, at : Times, read : Readers, archived : BOOLEAN]

\* Faulty variant: INSERT OR REPLACE, a duplicate starts over.
StoreReplace(d, m, u, at) ==
    [rows EXCEPT ![d][m] = [inst |-> getAgentInstance(u), at |-> at,
                            read |-> "no", archived |-> FALSE]]

\* store: nothing for a message_id the database has, else a new unread row.
Store(d, m, u, at) ==
    IF rows[d][m] # None THEN rows
    ELSE [rows EXCEPT ![d][m] = [inst |-> getAgentInstance(u), at |-> at,
                                 read |-> "no", archived |-> FALSE]]

\* Faulty variant: `unread' is not passed on.
MatchesAny(d, forInstance) ==
    {m \in MsgIds : /\ rows[d][m] # None
                    /\ ~rows[d][m].archived
                    /\ forInstance # None => rows[d][m].inst = forInstance}

\* Faulty variant: rows without an instance match every poller.
MatchesLegacy(d, forInstance) ==
    {m \in MsgIds : /\ rows[d][m] # None
                    /\ ~rows[d][m].archived /\ rows[d][m].read = "no"
                    /\ forInstance # None => rows[d][m].inst \in {forInstance, None}}

\* WHERE archived = 0 AND read_at IS NULL [AND to_agent_instance = ?]
Matches(d, forInstance) ==
    {m \in MsgIds : /\ rows[d][m] # None
                    /\ ~rows[d][m].archived /\ rows[d][m].read = "no"
                    /\ forInstance # None => rows[d][m].inst = forInstance}

\* The answers ORDER BY received_at DESC LIMIT allows; ties are in any order.
List(d, forInstance) ==
    LET found == Matches(d, forInstance)
        n == IF Cardinality(found) < Limit THEN Cardinality(found) ELSE Limit
    IN  {s \in [1..n -> found] :
            /\ \A i, j \in 1..n : i < j => /\ s[i] # s[j]
                                           /\ rows[d][s[i]].at >= rows[d][s[j]].at
            /\ \A m \in found : (\A i \in 1..n : s[i] # m) =>
                    \A i \in 1..n : rows[d][s[i]].at >= rows[d][m].at}

\* markRead: only a row that is unread changes.
MarkRead(d, m, reader) ==
    IF rows[d][m] = None \/ rows[d][m].read # "no" THEN rows
    ELSE [rows EXCEPT ![d][m].read = reader]

\* archive
Archive(d, m) ==
    IF rows[d][m] = None THEN rows ELSE [rows EXCEPT ![d][m].archived = TRUE]

-----------------------------------------------------------------------------
(* POST /api/inbox/send and the AGENT_MESSAGE handler *)

\* What a caller has been told: nothing yet, refused (4xx before anything was
\* sent), failed (502), or sent, with the acknowledgement that came back.
Reports == {"pending", "refused", "failed", "loopback",
            "delivered", "rejected", "unverified"}

\* null is no row, no call and no report.
ASSUME NullAssumption ==
    None \notin Row \cup [from : Daemons, to : Uri, report : Reports] \cup Reports

Call(d, u, report) == [from |-> d, to |-> u, report |-> report]

\* 400, 404, 403: the address does not parse (the broadcast branch comes after
\* this test), or it is not the daemon's own and the peer is unknown or unpaired.
SendRefused(d, u, m) ==
    /\ out[m] = None
    /\ ~Parses(u) \/ normalizeAgentId(u) # Own[d]
    /\ out' = [out EXCEPT ![m] = Call(d, u, "refused")]
    /\ UNCHANGED <<rows, replies, poller, delivered>>

\* The loopback path: a sibling agent of the same daemon.
SendLoopback(d, u, m) ==
    /\ out[m] = None
    /\ Parses(u) /\ normalizeAgentId(u) = Own[d]
    /\ \E at \in Times : rows' = Store(d, m, u, at)
    /\ out' = [out EXCEPT ![m] = Call(d, u, "loopback")]
    /\ UNCHANGED <<replies, poller, delivered>>

Target(u) == {e \in Daemons : Own[e] = normalizeAgentId(u)}

\* The remote path, up to the await of fetch: the mesh has the peer and the
\* pairing store too.
SendRemote(d, u, m) ==
    /\ out[m] = None
    /\ Parses(u) /\ Target(u) \ {d} # {}
    /\ out' = [out EXCEPT ![m] = Call(d, u, "pending")]
    /\ UNCHANGED <<rows, replies, poller, delivered>>

\* msg.to === selfIdentityUri
Accepted(e, u) == u = Own[e]

\* Faulty variant: the acknowledgement does not look at what became of the
\* message.
ReceiveAlwaysAcks(e, m, paired) ==
    /\ out[m] # None /\ out[m].report \notin {"refused", "loopback"}
    /\ e \in Target(out[m].to)
    /\ replies' = [replies EXCEPT ![m] = "delivered"]
    /\ IF Accepted(e, out[m].to) /\ paired
       THEN \E at \in Times : rows' = Store(e, m, out[m].to, at)
       ELSE UNCHANGED rows
    /\ UNCHANGED <<out, poller, delivered>>

\* Daemon e handles the request, perhaps long after the sender gave up and
\* perhaps a second time: the message is stored when it is addressed to e
\* itself and its sender is paired.
Receive(e, m, paired) ==
    /\ out[m] # None /\ out[m].report \notin {"refused", "loopback"}
    /\ e \in Target(out[m].to)
    /\ IF Accepted(e, out[m].to) /\ paired
       THEN /\ \E at \in Times : rows' = Store(e, m, out[m].to, at)
            /\ replies' = [replies EXCEPT ![m] = "delivered"]
       ELSE /\ replies' = [replies EXCEPT ![m] = "rejected"]
            /\ UNCHANGED rows
    /\ UNCHANGED <<out, poller, delivered>>

\* The answer arrives; without the peer's key or with a bad signature its
\* status is not believed.
SendDone(m, verified) ==
    /\ out[m] # None /\ out[m].report = "pending" /\ replies[m] # None
    /\ out' = [out EXCEPT ![m].report =
                  IF verified THEN replies[m] ELSE "unverified"]
    /\ UNCHANGED <<rows, replies, poller, delivered>>

\* The peer answers with an error status, or no answer comes in 10 s.
SendFailed(m) ==
    /\ out[m] # None /\ out[m].report = "pending"
    /\ out' = [out EXCEPT ![m].report = "failed"]
    /\ UNCHANGED <<rows, replies, poller, delivered>>

\* POST /api/inbox/mark-read by a client that is no poller.
ClientMarkRead(d, m) ==
    /\ rows[d][m] # None
    /\ rows' = MarkRead(d, m, "client")
    /\ UNCHANGED <<out, replies, poller, delivered>>

\* POST /api/inbox/archive
ClientArchive(d, m) ==
    /\ rows[d][m] # None
    /\ rows' = Archive(d, m)
    /\ UNCHANGED <<out, replies, poller, delivered>>

-----------------------------------------------------------------------------
(* createAdaptiveInboxPoller *)

\* armed counts the timers that have not fired, current says whether `timer'
\* refers to one of them.  step is where the cycle in flight is suspended, and
\* queue what it still has to deliver.
Poller ==
    [active : BOOLEAN, armed : 0..MaxTimers, current : BOOLEAN,
     step : {"idle", "fetch", "deliver", "mark"}, queue : Seq(MsgIds)]

Stopped ==
    [active |-> FALSE, armed |-> 0, current |-> FALSE,
     step |-> "idle", queue |-> <<>>]

\* schedule: `timer' now refers to the new timer.
Schedule(p) == [p EXCEPT !.armed = @ + 1, !.current = TRUE]

Set(q, p) ==
    /\ poller' = [poller EXCEPT ![q] = p]
    /\ UNCHANGED <<out, replies>>

Start(q) ==
    /\ ~poller[q].active
    /\ poller[q].armed < MaxTimers
    /\ Set(q, Schedule([poller[q] EXCEPT !.active = TRUE]))
    /\ UNCHANGED <<rows, delivered>>

\* Faulty variant: a timer is counted off although it has fired already.
StopAlwaysClears(q) ==
    /\ poller[q].active
    /\ Set(q, [poller[q] EXCEPT !.active = FALSE, !.current = FALSE,
                                !.armed = @ - 1])
    /\ UNCHANGED <<rows, delivered>>

\* stop clears the timer it knows of; a cycle in flight goes on.
Stop(q) ==
    /\ poller[q].active
    /\ Set(q, [poller[q] EXCEPT
                  !.active = FALSE, !.current = FALSE,
                  !.armed = IF poller[q].current THEN @ - 1 ELSE @])
    /\ UNCHANGED <<rows, delivered>>

\* tick up to the fetch; without effect when inactive or in flight.
Tick(p) == IF p.active /\ p.step = "idle" THEN [p EXCEPT !.step = "fetch"] ELSE p

\* A timer fires: the current one, or one that `timer' no longer refers to.
TimerFires(q, isCurrent) ==
    LET p == poller[q]
    IN  /\ IF isCurrent THEN p.current ELSE p.armed > (IF p.current THEN 1 ELSE 0)
        /\ Set(q, Tick([p EXCEPT !.armed = @ - 1,
                                 !.current = @ /\ ~isCurrent]))
        /\ UNCHANGED <<rows, delivered>>

\* Faulty variant: the cycle leaves the next timer to start().
CycleEndNoResume(p) == [p EXCEPT !.step = "idle"]

\* inFlight = false and, when active, the next timer.
CycleEnd(p) ==
    LET q == [p EXCEPT !.step = "idle"]
    IN  IF p.active THEN Schedule(q) ELSE q

\* fetchUnread
FetchOk(q) ==
    /\ poller[q].step = "fetch"
    /\ \E s \in List(q.daemon, q.forInstance) :
        Set(q, [poller[q] EXCEPT !.step = "deliver", !.queue = s])
    /\ UNCHANGED <<rows, delivered>>

\* ... it throws, and the cycle ends.
FetchFailed(q) ==
    /\ poller[q].step = "fetch"
    /\ poller[q].armed < MaxTimers
    /\ Set(q, CycleEnd(poller[q]))
    /\ UNCHANGED <<rows, delivered>>

\* Go on with the next message.
Continue(p) == [p EXCEPT !.step = "deliver", !.queue = Tail(@)]

DeliverOk(q) ==
    /\ poller[q].step = "deliver" /\ poller[q].queue # <<>>
    /\ delivered' = delivered \cup {<<q, Head(poller[q].queue)>>}
    /\ Set(q, [poller[q] EXCEPT !.step = "mark"])
    /\ UNCHANGED <<rows>>

\* Faulty variant: a failed delivery goes on to mark-read.
DeliverFailedMarks(q) ==
    /\ poller[q].step = "deliver" /\ poller[q].queue # <<>>
    /\ Set(q, [poller[q] EXCEPT !.step = "mark"])
    /\ UNCHANGED <<rows, delivered>>

\* deliver throws: the message stays unread.
DeliverFailed(q) ==
    /\ poller[q].step = "deliver" /\ poller[q].queue # <<>>
    /\ Set(q, Continue(poller[q]))
    /\ UNCHANGED <<rows, delivered>>

\* markRead returns.
MarkReadOk(q) ==
    /\ poller[q].step = "mark"
    /\ rows' = MarkRead(q.daemon, Head(poller[q].queue), "poller")
    /\ Set(q, Continue(poller[q]))
    /\ UNCHANGED <<delivered>>

\* markRead throws, before or after the daemon has marked the row.
MarkReadFailed(q, reached) ==
    /\ poller[q].step = "mark"
    /\ rows' = IF reached THEN MarkRead(q.daemon, Head(poller[q].queue), "poller")
              ELSE rows
    /\ Set(q, Continue(poller[q]))
    /\ UNCHANGED <<delivered>>

CycleDone(q) ==
    /\ poller[q].step = "deliver" /\ poller[q].queue = <<>>
    /\ poller[q].armed < MaxTimers
    /\ Set(q, CycleEnd(poller[q]))
    /\ UNCHANGED <<rows, delivered>>

\* The agent's process dies: only the daemon's database remembers.
Crash(q) ==
    /\ poller[q] # Stopped
    /\ Set(q, Stopped)
    /\ UNCHANGED <<rows, delivered>>

-----------------------------------------------------------------------------
Init ==
    /\ rows = [d \in Daemons |-> [m \in MsgIds |-> None]]
    /\ out = [m \in MsgIds |-> None]
    /\ replies = [m \in MsgIds |-> None]
    /\ poller = [q \in Pollers |-> Stopped]
    /\ delivered = {}

Sending ==
    \/ \E d \in Daemons, u \in Targets, m \in MsgIds :
        SendRefused(d, u, m) \/ SendLoopback(d, u, m) \/ SendRemote(d, u, m)
    \/ \E e \in Daemons, m \in MsgIds, paired \in BOOLEAN : Receive(e, m, paired)
    \/ \E m \in MsgIds :
        SendFailed(m) \/ \E verified \in BOOLEAN : SendDone(m, verified)

Clients ==
    \E d \in Daemons, m \in MsgIds : ClientMarkRead(d, m) \/ ClientArchive(d, m)

Polling ==
    \E q \in Pollers :
        \/ Start(q) \/ Stop(q) \/ Crash(q)
        \/ \E isCurrent \in BOOLEAN : TimerFires(q, isCurrent)
        \/ FetchOk(q) \/ FetchFailed(q)
        \/ DeliverOk(q) \/ DeliverFailed(q)
        \/ MarkReadOk(q) \/ \E reached \in BOOLEAN : MarkReadFailed(q, reached)
        \/ CycleDone(q)

Next == Sending \/ Clients \/ Polling

Spec == Init /\ [][Next]_vars

\* Timers fire and a suspended cycle resumes.  A daemon that is reached again
\* and again answers, and a session that is offered a message it can take
\* again and again takes it; each single call may fail.
Fairness ==
    \A q \in Pollers :
        /\ \A isCurrent \in BOOLEAN : WF_vars(TimerFires(q, isCurrent))
        /\ WF_vars(FetchOk(q) \/ FetchFailed(q))
        /\ WF_vars(DeliverOk(q) \/ DeliverFailed(q))
        /\ WF_vars(MarkReadOk(q) \/ MarkReadFailed(q, FALSE))
        /\ WF_vars(CycleDone(q))
        /\ SF_vars(FetchOk(q))
        /\ \A m \in MsgIds : LET Next_m == poller[q].queue # <<>> /\ Head(poller[q].queue) = m
                             IN  /\ SF_vars(Next_m /\ DeliverOk(q))
                                 /\ SF_vars(Next_m /\ MarkReadOk(q))

FairSpec == Spec /\ Fairness

-----------------------------------------------------------------------------
(* Properties *)

\* Types.
TypeOK ==
    /\ rows \in [Daemons -> [MsgIds -> Row \cup {None}]]
    /\ out \in [MsgIds -> [from : Daemons, to : Uri, report : Reports] \cup {None}]
    /\ replies \in [MsgIds -> {"delivered", "rejected", None}]
    /\ poller \in [Pollers -> Poller]
    /\ delivered \subseteq Pollers \X MsgIds

\* At least once: a row is marked read only after a session that polls for it
\* got the message (or on a client's own request), although deliveries and
\* mark-reads fail, answers get lost and agents die in between (pollInboxOnce).
ReadMeansDelivered ==
    \A d \in Daemons, m \in MsgIds :
        rows[d][m] # None /\ rows[d][m].read = "poller" =>
            \E q \in Pollers : q.daemon = d /\ <<q, m>> \in delivered

\* A session only ever gets what some caller addressed to its daemon and, if
\* it polls for an instance, to that instance (list, for_instance).
DeliveredIsAddressed ==
    \A q \in Pollers, m \in MsgIds :
        <<q, m>> \in delivered =>
            /\ normalizeAgentId(out[m].to) = Own[q.daemon]
            /\ q.forInstance # None => getAgentInstance(out[m].to) = q.forInstance

\* A caller that is told `delivered' (or loopback) has its message in the
\* target's inbox; one that is refused has it nowhere.
ReportIsTrue ==
    \A m \in MsgIds : out[m] # None =>
        /\ out[m].report \in {"delivered", "loopback"} =>
                \E e \in Target(out[m].to) : rows[e][m] # None
        /\ out[m].report = "refused" => \A e \in Daemons : rows[e][m] = None

\* A poller that is active never falls asleep: it has a cycle in flight or a
\* timer armed, however stop and start fall into a running cycle
\* (createAdaptiveInboxPoller).
LoopAlive ==
    \A q \in Pollers :
        poller[q].active => poller[q].step # "idle" \/ poller[q].armed > 0

\* A request that comes twice changes nothing: rows stay, and none becomes
\* unread or unarchived again or moves to another instance (store, dedupe).
RowsOnlyAdvance ==
    [][\A d \in Daemons, m \in MsgIds : rows[d][m] # None =>
            /\ rows'[d][m] # None
            /\ rows'[d][m].inst = rows[d][m].inst /\ rows'[d][m].at = rows[d][m].at
            /\ rows[d][m].read # "no" => rows'[d][m].read = rows[d][m].read
            /\ rows[d][m].archived => rows'[d][m].archived]_vars

\* The step puts a new unread message on top of m in the list poller q reads.
Overtakes(q, m) ==
    /\ rows[q.daemon][m] # None
    /\ \E n \in MsgIds \ {m} :
        /\ n \in Matches(q.daemon, q.forInstance)' \ Matches(q.daemon, q.forInstance)
        /\ rows'[q.daemon][n].at >= rows[q.daemon][m].at

\* Every message a session can take reaches it, although at most Limit are
\* fetched per cycle, newest first: once the poller stays active and no more
\* messages come in on top of it, a matching message is delivered, or read or
\* archived by someone else.  Under newer messages without end it may wait for
\* ever (list, ORDER BY received_at DESC LIMIT).
EventuallyDelivered ==
    \A q \in Pollers, m \in MsgIds :
        (<>[](poller[q].active) /\ <>[][~Overtakes(q, m)]_vars) =>
            (m \in Matches(q.daemon, q.forInstance) ~>
                \/ <<q, m>> \in delivered
                \/ m \notin Matches(q.daemon, q.forInstance))

\* "a 4-component target ... also resolves to loopback when alpha runs on this
\* daemon": a message to the address the daemon gave a local instance is not
\* refused.
InstanceIsAddressable ==
    \A m \in MsgIds : out[m] # None =>
        \A type \in AgentTypes, i \in Instances :
            out[m].to = buildInstanceSpiffe(out[m].from, type, i)
                => out[m].report # "refused"
=============================================================================
