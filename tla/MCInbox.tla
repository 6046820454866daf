------------------------------ MODULE MCInbox ------------------------------
(* Two daemons, a with a legacy and b with a canonical identity.            *)
EXTENDS Inbox, TLC

CONSTANTS a, b, claude, i1

Legacy(id, inst) == [kind |-> "host", id |-> id, type |-> claude, inst |-> inst]
Canonical(id) == [kind |-> "node", id |-> id, type |-> None, inst |-> None]

MCOwn == (a :> Legacy("a", None)) @@ (b :> Canonical("b"))

\* The daemons, an instance of each, and a broadcast.
MCTargets == {Legacy("a", None), Legacy("a", i1), Legacy("a", Star),
              Canonical("b"), Legacy("b", i1)}

\* Only an instance of a.
MCSibling == {Legacy("a", i1)}

\* The instance the agent API of b registered.
MCInstanceOfB == {Canonical("b"), buildInstanceSpiffe(b, claude, i1)}

MCPollers == {[daemon |-> a, forInstance |-> i1]}

\* Messages without end: the id of a message that is read or archived
\* everywhere, and that nobody handles, goes to a new message.
Recycle(m) ==
    /\ out[m] # None /\ out[m].report # "pending"
    /\ \A d \in Daemons : m \notin Matches(d, None)
    /\ \A q \in Pollers : \A k \in 1..Len(poller[q].queue) : poller[q].queue[k] # m
    /\ out' = [out EXCEPT ![m] = None]
    /\ replies' = [replies EXCEPT ![m] = None]
    /\ rows' = [d \in Daemons |-> [rows[d] EXCEPT ![m] = None]]
    /\ delivered' = {p \in delivered : p[2] # m}
    /\ UNCHANGED poller

EndlessNext == Next \/ \E m \in MsgIds : Recycle(m)

EndlessSpec == Init /\ [][EndlessNext]_vars /\ Fairness

\* A refused call is over, and an answer is read only by a pending one.
View ==
    <<rows, [m \in MsgIds |-> IF out[m] # None /\ out[m].report = "refused"
                              THEN "refused" ELSE out[m]],
      [m \in MsgIds |-> IF out[m] # None /\ out[m].report = "pending"
                        THEN replies[m] ELSE None],
      poller, delivered>>
=============================================================================
