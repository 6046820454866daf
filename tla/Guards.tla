------------------------------- MODULE Guards -------------------------------
(* The guards in front of the message endpoint and of skill execution: the   *)
(* envelope's lifetime and the replay cache (messages.ts, replay.ts,         *)
(* agent-card.ts), the token bucket per address (ratelimit.ts), the circuit  *)
(* breaker per skill (circuit-breaker.ts) and the token budget per agent     *)
(* (budget-guard.ts). They share nothing but the clock.                      *)
EXTENDS Integers, FiniteSets, Sequences, FiniteSetsExt, SequencesExt

CONSTANTS
    Envelopes,           \* signed envelopes on their way
    Ttls,                \* the lifetimes senders give their envelopes; 0 (and
                         \* a negative one) means none, and any may be long
    SeenFor,             \* how long the replay cache keeps a key
    BucketSize, RefillRate, BucketIdle,
    FailureThreshold, ResetTimeout,
    HourLimit, DayLimit, SoftLimit, UsageIds, Hour, Day, Week,
    MaxNow               \* bound of the clock

ASSUME GuardsAssumption ==
    /\ Ttls \subseteq Nat
    /\ {BucketSize, RefillRate, BucketIdle, FailureThreshold, ResetTimeout,
        HourLimit, DayLimit, SoftLimit, MaxNow} \subseteq Nat \ {0}
    /\ {SeenFor, Hour, Day, Week} \subseteq Nat
    /\ BucketIdle * RefillRate >= BucketSize
    /\ Hour <= Day /\ Day <= Week

VARIABLES
    now,
    envelope,    \* creation time by the sender's clock and lifetime, of those sent
    seen,        \* replay.ts: key to the time it was last let through
    handled,     \* history: the times each envelope reached the handler
    bucket,      \* ratelimit.ts: the bucket of one address, or none
    allowed,     \* history: the times a request of it was let through since
                 \* its peer was last removed
    circuit,     \* circuit-breaker.ts: the entry of one skill
    inflight,    \* calls let through whose outcome is not recorded yet
    streak,      \* history: failures recorded since the last success or reset
    usage        \* budget-guard.ts: rows of one agent

guardVars == <<now, envelope, seen, handled, bucket, allowed, circuit, inflight, streak, usage>>
replayVars == <<envelope, seen, handled>>
rateVars == <<bucket, allowed>>
breakerVars == <<circuit, inflight, streak>>

Never == -1
Envelope == [created : -1..(MaxNow + 1), ttl : Ttls]
Circuit == [state : {"closed", "open", "half_open"}, failures : Nat, openedAt : 0..MaxNow]
NoBucket == [tokens |-> Never, lastRefill |-> Never]

GuardInit ==
    /\ now = 0
    /\ envelope = [m \in {} |-> 0] /\ seen = [m \in Envelopes |-> Never]
    /\ handled = [m \in Envelopes |-> <<>>]
    /\ bucket = NoBucket /\ allowed = <<>>
    /\ circuit = [state |-> "closed", failures |-> 0, openedAt |-> 0]
    /\ inflight = 0 /\ streak = 0
    /\ usage = {}

Clock ==
    /\ now < MaxNow
    /\ now' = now + 1
    /\ UNCHANGED <<replayVars, rateVars, breakerVars, usage>>

-----------------------------------------------------------------------------
(* Envelopes. The network may deliver one any number of times.               *)

\* createEnvelope and encodeAndSign at a sender whose clock differs by skew.
Send(m, ttl, skew) ==
    /\ m \notin DOMAIN envelope
    /\ envelope' = [x \in DOMAIN envelope \cup {m} |->
                      IF x = m THEN [created |-> now + skew, ttl |-> ttl] ELSE envelope[x]]
    /\ UNCHANGED <<now, seen, handled, rateVars, breakerVars, usage>>

\* decodeAndVerify: the lifetime, if there is one, has not passed by the
\* receiver's clock.
Fresh(m) == envelope[m].ttl > 0 => now - envelope[m].created <= envelope[m].ttl

\* Faulty variant of IsReplay: a key counts for half the lifetime only.
IsReplayHalf(m) == seen[m] # Never /\ 2 * (now - seen[m]) < envelope[m].ttl

\* isReplay, with the lifetime the envelope itself names: without one, or after
\* it, nothing is a replay.
IsReplay(m) == seen[m] # Never /\ now - seen[m] < envelope[m].ttl

\* POST /message up to the dispatch.
Deliver(m) ==
    /\ m \in DOMAIN envelope /\ Len(handled[m]) < 2
    /\ Fresh(m) /\ ~IsReplay(m)
    /\ seen' = [seen EXCEPT ![m] = now]
    /\ handled' = [handled EXCEPT ![m] = Append(@, now)]
    /\ UNCHANGED <<now, envelope, rateVars, breakerVars, usage>>

\* replay.ts cleanup, every minute.
CleanupSeen ==
    /\ \E m \in Envelopes : seen[m] # Never /\ seen[m] < now - SeenFor
    /\ seen' = [m \in Envelopes |-> IF seen[m] < now - SeenFor THEN Never ELSE seen[m]]
    /\ UNCHANGED <<now, envelope, handled, rateVars, breakerVars, usage>>

ReplayNext ==
    \/ \E m \in Envelopes : \/ \E t \in Ttls, k \in {-1, 0, 1} : Send(m, t, k)
                            \/ Deliver(m)
    \/ CleanupSeen
    \/ Clock

-----------------------------------------------------------------------------
(* The token bucket, in ticks in which RefillRate whole tokens are added.    *)

\* Faulty variant of Refilled: the time of the last refill is not moved.
RefilledAgain(b) ==
    [tokens |-> Min({BucketSize, b.tokens + (now - b.lastRefill) * RefillRate}),
     lastRefill |-> b.lastRefill]

Refilled(b) ==
    [tokens |-> Min({BucketSize, b.tokens + (now - b.lastRefill) * RefillRate}),
     lastRefill |-> now]

Current == IF bucket = NoBucket THEN [tokens |-> BucketSize, lastRefill |-> now]
           ELSE Refilled(bucket)

Allow ==
    /\ IF Current.tokens >= 1
       THEN /\ bucket' = [Current EXCEPT !.tokens = @ - 1]
            /\ allowed' = Append(allowed, now)
       ELSE bucket' = Current /\ UNCHANGED allowed
    /\ UNCHANGED <<now, replayVars, breakerVars, usage>>

CleanupBucket ==
    /\ bucket # NoBucket /\ bucket.lastRefill < now - BucketIdle
    /\ bucket' = NoBucket
    /\ UNCHANGED <<now, allowed, replayVars, breakerVars, usage>>

\* removePeer, when a peer goes offline: its bucket is gone whatever it held, and
\* what the peer sends next finds a full one.
RemovePeer ==
    /\ bucket # NoBucket
    /\ bucket' = NoBucket /\ allowed' = <<>>
    /\ UNCHANGED <<now, replayVars, breakerVars, usage>>

RateNext == Allow \/ CleanupBucket \/ RemovePeer \/ Clock

-----------------------------------------------------------------------------
(* The circuit breaker. Callers ask, run the skill, and record the outcome;  *)
(* several calls may be under way when the circuit opens.                    *)

\* canExecute, which also moves an open circuit to half open.
CanExecute ==
    /\ \/ circuit.state # "open"
       \/ now - circuit.openedAt >= ResetTimeout
    /\ inflight < 2
    /\ circuit' = [circuit EXCEPT !.state = IF @ = "open" THEN "half_open" ELSE @]
    /\ inflight' = inflight + 1
    /\ UNCHANGED <<now, streak, replayVars, rateVars, usage>>

\* Faulty variant of RecordSuccess: only a probe's success resets the count.
RecordSuccessOfProbe ==
    /\ inflight > 0
    /\ inflight' = inflight - 1
    /\ circuit' = IF circuit.state = "half_open"
                  THEN [circuit EXCEPT !.state = "closed", !.failures = 0] ELSE circuit
    /\ streak' = 0
    /\ UNCHANGED <<now, replayVars, rateVars, usage>>

RecordSuccess ==
    /\ inflight > 0
    /\ inflight' = inflight - 1
    /\ circuit' = [circuit EXCEPT !.state = IF @ = "half_open" THEN "closed" ELSE @,
                                  !.failures = 0]
    /\ streak' = 0
    /\ UNCHANGED <<now, replayVars, rateVars, usage>>

RecordFailure ==
    /\ inflight > 0 /\ circuit.failures < FailureThreshold + 1
    /\ inflight' = inflight - 1
    /\ streak' = streak + 1
    /\ LET n == circuit.failures + 1
       IN  circuit' = IF circuit.state = "half_open" \/ n >= FailureThreshold
                      THEN [state |-> "open", failures |-> n, openedAt |-> now]
                      ELSE [circuit EXCEPT !.failures = n]
    /\ UNCHANGED <<now, replayVars, rateVars, usage>>

ResetCircuit ==
    /\ circuit.state # "closed"
    /\ circuit' = [circuit EXCEPT !.state = "closed", !.failures = 0]
    /\ streak' = 0
    /\ UNCHANGED <<now, inflight, replayVars, rateVars, usage>>

BreakerNext == CanExecute \/ RecordSuccess \/ RecordFailure \/ ResetCircuit \/ Clock

-----------------------------------------------------------------------------
(* The budget: rows with a time and a number of tokens.                      *)

Within(rows, span) == {r \in rows : r.at > now - span}
Tokens(rows) == FoldSet(LAMBDA r, sum : r.tokens + sum, 0, rows)

BudgetStatus(rows) ==
    LET hour == Tokens(Within(rows, Hour))
        day == Tokens(Within(rows, Day))
    IN  IF hour >= HourLimit \/ day >= DayLimit THEN "hard_limit"
        ELSE IF hour >= SoftLimit \/ day >= SoftLimit THEN "soft_limit"
        ELSE "ok"

\* A report carries its own time, which may lie in the past.
Report(id, tokens, at) ==
    /\ id \notin {r.id : r \in usage}
    /\ usage' = usage \cup {[id |-> id, tokens |-> tokens, at |-> at]}
    /\ UNCHANGED <<now, replayVars, rateVars, breakerVars>>

\* Faulty variant of Pruned: with the cutoff of the hourly window.
PrunedHour(rows) == {r \in rows : r.at >= now - Hour}

Pruned(rows) == {r \in rows : r.at >= now - Week}

Prune ==
    /\ usage # Pruned(usage)
    /\ usage' = Pruned(usage)
    /\ UNCHANGED <<now, replayVars, rateVars, breakerVars>>

BudgetNext ==
    \/ \E id \in UsageIds, n \in 1..2 : \E at \in 0..now : Report(id, n, at)
    \/ Prune
    \/ Clock

-----------------------------------------------------------------------------
GuardTypeOK ==
    /\ now \in 0..MaxNow
    /\ seen \in [Envelopes -> Int]
    /\ bucket.tokens \in -1..BucketSize
    /\ \A m \in DOMAIN envelope : m \in Envelopes /\ envelope[m] \in Envelope
    /\ circuit \in Circuit
    /\ inflight \in Nat

\* A second copy of an envelope is handled at the earliest when its lifetime,
\* counted from the first handling, or the cache's retention has passed. If it
\* has a lifetime within the retention, it is handled twice only if its sender's
\* clock says it was made after the first handling, that is, runs ahead: the
\* cache holds a key at least until the lifetime check takes over. An envelope
\* that does not expire, or lives longer than the cache remembers, has no more
\* than the first guarantee.
HandledOnce ==
    \A m \in DOMAIN envelope :
        Len(handled[m]) > 1 =>
            /\ \/ handled[m][2] - handled[m][1] >= envelope[m].ttl
               \/ handled[m][2] - handled[m][1] > SeenFor
            /\ envelope[m].ttl \in 1..SeenFor => envelope[m].created >= handled[m][1]

\* In every window of time in which its peer was not removed, an address gets at
\* most a full bucket plus what the refill adds, buckets dropped by the cleanup
\* and recreated included. A removal ends the account: the peer starts afresh.
RateBounded ==
    \A i, j \in DOMAIN allowed : i <= j =>
        j - i + 1 <= BucketSize + RefillRate * (allowed[j] - allowed[i])

\* A closed circuit counts fewer failures than the threshold, and once as many
\* were recorded in a row it is not closed, late results of calls from before it
\* opened included. A recorded success leaves no failure behind that could open
\* a circuit which is not open; an open one stays open until its time is over.
BreakerIsFair ==
    /\ circuit.state = "closed" => circuit.failures < FailureThreshold
    /\ streak = 0 /\ circuit.state # "open" => circuit.failures = 0
    /\ streak >= FailureThreshold => circuit.state # "closed"

\* What pruning deletes no longer counts: the status of an agent is the same
\* whether the old rows are still there or not.
PruneKeepsStatus == BudgetStatus(usage) = BudgetStatus(Pruned(usage))
=============================================================================
