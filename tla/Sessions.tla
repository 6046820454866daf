------------------------------ MODULE Sessions ------------------------------
(***************************************************************************)
(* The agents on one host and their sessions: the agent registry and its   *)
(* API with the sweep that wakes an agent which registers with unread mail *)
(* (agent-registry.ts, agent-api.ts, sweep-wiring.ts, sweep-targets.ts),   *)
(* the agent's own beat (heartbeat/interval.ts), branch locks              *)
(* (session-checkout.ts), and the watcher that copies the lines of a       *)
(* session file into the event store (session-watcher.ts,                  *)
(* session-events.ts, session-state.ts).                                   *)
(***************************************************************************)
EXTENDS Integers, Sequences, FiniteSets

CONSTANTS
    Agents, AgentTypes,     \* instance ids and agent types
    MaxAgents,              \* maxEntries
    AgentStaleAfter,            \* heartbeatIntervalMs * staleFactor
    SweepWindow,            \* coalescing window of the registration sweep
    LockTime,               \* maxLockDurationMs
    MaxAgentTime,           \* bound: how long the clock runs
    MaxLines,               \* bound: lines of the session file
    Ticks,                  \* overlapping calls of tick()
    BeatStart, BeatMax,     \* initialMs, maxMs
    MaxEmpty                \* bound: empty polls counted

ASSUME SessionsAssumption ==
    /\ {MaxAgents, AgentStaleAfter, SweepWindow, LockTime, MaxAgentTime, MaxLines, BeatMax, MaxEmpty} \subseteq Nat
    /\ LockTime > 0 /\ BeatStart \in 1..BeatMax
    /\ "none" \notin Agents \cup AgentTypes

VARIABLES
    agentTable,     \* AgentRegistry.entries
    agentClock,
    mail,           \* mail[a]: unread messages wait for a
    lastWoken,      \* the sweep's coalescer
    told,           \* told[a]: when the API last confirmed a's registration (history)
    branch,         \* the row of branch_locks for one branch
    believed,       \* until when each agent was told it holds the branch
    ousted,         \* agents whose lock an administrator took since (history)
    sessionFile,    \* complete lines, and whether a partial one follows
    offset,         \* tailOffset in state.json, in lines
    eventStore,          \* session_events: the lines in seq order
    ticks,          \* the calls of tick()
    beat            \* HeartbeatState of the agent

agentVars == <<agentTable, agentClock, mail, lastWoken, told>>
lockVars == <<branch, believed, ousted, agentClock>>
watchVars == <<sessionFile, offset, eventStore, ticks>>
sessionVars == <<agentTable, agentClock, mail, lastWoken, told, branch, believed, ousted, sessionFile,
                offset, eventStore, ticks, beat>>

(* A time longer ago than any of the limits reaches back: it never was. *)
NeverAgo == -(1 + AgentStaleAfter + SweepWindow)
Absent == [type |-> "none", last |-> NeverAgo]
Free == [holder |-> "none", until |-> NeverAgo]

SessionsInit ==
    /\ agentTable = [a \in Agents |-> Absent] /\ agentClock = 0
    /\ mail = [a \in Agents |-> FALSE]
    /\ lastWoken = [a \in Agents |-> NeverAgo] /\ told = [a \in Agents |-> NeverAgo]
    /\ branch = Free /\ believed = [a \in Agents |-> NeverAgo] /\ ousted = {}
    /\ sessionFile = [lines |-> 0, partial |-> FALSE] /\ offset = 0 /\ eventStore = <<>>
    /\ ticks = [t \in Ticks |-> [pc |-> "idle", from |-> 0, upto |-> 0, waitsFor |-> {}]]
    /\ beat = [empty |-> 0, last |-> BeatStart]

Registered == {a \in Agents : agentTable[a] # Absent}

(***************************************************************************)
(* The registry and its API.                                               *)
(***************************************************************************)

(* computeSweepTargets: a live instance with unread mail.                  *)
sweepTarget(a) == mail[a]

(* sweepInstance on a new registration: a live instance with unread mail   *)
(* is woken, at most once per window (WakeCoalescer).                      *)
SweepOnRegister(a) ==
    lastWoken' = IF sweepTarget(a) /\ agentClock - lastWoken[a] >= SweepWindow
                 THEN [lastWoken EXCEPT ![a] = agentClock] ELSE lastWoken

(* AgentRegistry.register: a known instance of the same type has its beat  *)
(* refreshed, a new one takes a free place.                                *)
registered(a, type) == [agentTable EXCEPT ![a] = [type |-> type, last |-> agentClock]]

(* POST /api/agent/register: 409 for another type, a refreshed beat for a  *)
(* known instance, 503 when the table is full, otherwise a new entry.      *)
RegisterAgent(a, type) ==
    /\ \/ /\ agentTable[a].type = type
          /\ agentTable' = registered(a, type)
          /\ UNCHANGED lastWoken
       \/ /\ agentTable[a] = Absent /\ Cardinality(Registered) < MaxAgents
          /\ agentTable' = registered(a, type)
          /\ SweepOnRegister(a)
    /\ told' = [told EXCEPT ![a] = agentClock]
    /\ UNCHANGED <<agentClock, mail>>

(* POST /api/agent/heartbeat; 404 for an unknown instance.                 *)
HeartbeatAgent(a) ==
    /\ agentTable[a] # Absent
    /\ agentTable' = [agentTable EXCEPT ![a].last = agentClock]
    /\ told' = [told EXCEPT ![a] = agentClock]
    /\ UNCHANGED <<agentClock, mail, lastWoken>>

UnregisterAgent(a) ==
    /\ agentTable[a] # Absent /\ agentTable' = [agentTable EXCEPT ![a] = Absent]
    /\ told' = [told EXCEPT ![a] = NeverAgo]
    /\ UNCHANGED <<agentClock, mail, lastWoken>>

(* Faulty: a beat on the edge of the threshold is already stale.           *)
staleAt(e) == e # Absent /\ agentClock - e.last >= AgentStaleAfter

staleAgent(e) == e # Absent /\ agentClock - e.last > AgentStaleAfter

(* sweep, on the registry's own timer.                                     *)
SweepAgents ==
    /\ \E a \in Agents : staleAgent(agentTable[a])
    /\ agentTable' = [a \in Agents |-> IF staleAgent(agentTable[a]) THEN Absent ELSE agentTable[a]]
    /\ UNCHANGED <<agentClock, mail, lastWoken, told>>

(* Mail arrives, or the agent reads it.                                    *)
MailChanges(a) ==
    /\ mail' = [mail EXCEPT ![a] = ~@]
    /\ UNCHANGED <<agentTable, agentClock, lastWoken, told>>
AgentTime ==
    /\ agentClock < MaxAgentTime /\ agentClock' = agentClock + 1
    /\ UNCHANGED <<agentTable, mail, lastWoken, told>>

AgentNext ==
    \/ \E a \in Agents, type \in AgentTypes : RegisterAgent(a, type)
    \/ \E a \in Agents : HeartbeatAgent(a) \/ UnregisterAgent(a) \/ MailChanges(a)
    \/ SweepAgents \/ AgentTime

(***************************************************************************)
(* session-checkout.ts, called from one process.                           *)
(***************************************************************************)

(* Faulty: a lock counts as expired before its time is over.               *)
expiredEarly(lock) == lock.until <= agentClock + 1

expired(lock) == lock.until < agentClock

(* evictExpired, then a new lock, a renewal, or a refusal.                 *)
Checkout(a) ==
    /\ LET row == IF expired(branch) THEN Free ELSE branch
       IN  IF row.holder \in {"none", a}
           THEN /\ branch' = [holder |-> a, until |-> agentClock + LockTime]
                /\ believed' = [believed EXCEPT ![a] = agentClock + LockTime]
                /\ ousted' = ousted \ {a}
           ELSE branch' = row /\ UNCHANGED <<believed, ousted>>
    /\ UNCHANGED agentClock
ReleaseBranch(a) ==
    /\ branch.holder = a /\ branch' = Free /\ believed' = [believed EXCEPT ![a] = NeverAgo]
    /\ UNCHANGED <<ousted, agentClock>>

(* forceRelease: the lock goes whoever holds it, and nobody tells the holder. *)
ForceRelease ==
    /\ branch.holder \in Agents /\ branch' = Free
    /\ ousted' = ousted \cup {branch.holder}
    /\ UNCHANGED <<believed, agentClock>>
LockTimePasses ==
    /\ agentClock < MaxAgentTime /\ agentClock' = agentClock + 1
    /\ UNCHANGED <<branch, believed, ousted>>

LockNext == LockTimePasses \/ ForceRelease \/ \E a \in Agents : Checkout(a) \/ ReleaseBranch(a)

(***************************************************************************)
(* session-watcher.ts.  A call waits for the call in the inflight slot     *)
(* when it began (Array of at most one), then reads state.json and the     *)
(* file, appends the complete lines, and writes state.json.                *)
(***************************************************************************)
Running == {t \in Ticks : ticks[t].pc \in {"wait", "read", "append", "write"}}

(* The calls that may be in the slot: the last one to have started its run.*)
CallTick(t) ==
    /\ ticks[t].pc = "idle"
    /\ LET running == {u \in Ticks : ticks[u].pc \in {"read", "append", "write"}}
       IN  IF running = {} THEN ticks' = [ticks EXCEPT ![t].pc = "read", ![t].waitsFor = {}]
           ELSE \E u \in running : ticks' = [ticks EXCEPT ![t].pc = "wait", ![t].waitsFor = {u}]
    /\ UNCHANGED <<sessionFile, offset, eventStore>>
PriorSettles(t) ==
    /\ ticks[t].pc = "wait" /\ \A u \in ticks[t].waitsFor : ticks[u].pc \notin {"read", "append", "write"}
    /\ ticks' = [ticks EXCEPT ![t].pc = "read", ![t].waitsFor = {}]
    /\ UNCHANGED <<sessionFile, offset, eventStore>>

(* Faulty: the last line is taken although it is not complete.             *)
completeAndPartial(file) == file.lines + IF file.partial THEN 1 ELSE 0

(* Only lines that end in a newline are consumed.                          *)
completeLines(file) == file.lines

(* state.json and the size of the file; nothing new ends the call.         *)
ReadTail(t) ==
    /\ ticks[t].pc = "read"
    /\ ticks' = IF completeLines(sessionFile) <= offset THEN [ticks EXCEPT ![t].pc = "idle"]
                ELSE [ticks EXCEPT ![t].pc = "append", ![t].from = offset, ![t].upto = completeLines(sessionFile)]
    /\ UNCHANGED <<sessionFile, offset, eventStore>>

(* parseClaudeCodeBuffer: a line that is not complete JSON yields no event.*)
parsedLines(t) == {l \in (ticks[t].from + 1)..ticks[t].upto : l <= sessionFile.lines}

(* append of every parsed line, numbered from latestSeq + 1.               *)
AppendEvents(t) ==
    /\ ticks[t].pc = "append" /\ Len(eventStore) <= 2 * MaxLines
    /\ eventStore' = eventStore \o [k \in 1..Cardinality(parsedLines(t)) |-> ticks[t].from + k]
    /\ ticks' = [ticks EXCEPT ![t].pc = "write"]
    /\ UNCHANGED <<sessionFile, offset>>
WriteState(t) ==
    /\ ticks[t].pc = "write" /\ offset' = ticks[t].upto
    /\ ticks' = [ticks EXCEPT ![t].pc = "idle"]
    /\ UNCHANGED <<sessionFile, eventStore>>

(* The agent writes to its session file; the daemon dies.                  *)
LineGrows ==
    /\ sessionFile' \in {[sessionFile EXCEPT !.partial = TRUE]} \cup
           {f \in {[lines |-> sessionFile.lines + 1, partial |-> FALSE]} : f.lines <= MaxLines}
    /\ sessionFile' # sessionFile
    /\ UNCHANGED <<offset, eventStore, ticks>>
WatcherDies ==
    /\ Running # {}
    /\ ticks' = [t \in Ticks |-> [pc |-> "idle", from |-> 0, upto |-> 0, waitsFor |-> {}]]
    /\ UNCHANGED <<sessionFile, offset, eventStore>>

WatchNext ==
    \/ \E t \in Ticks : CallTick(t) \/ PriorSettles(t) \/ ReadTail(t) \/ AppendEvents(t) \/ WriteState(t)
    \/ LineGrows \/ WatcherDies

(***************************************************************************)
(* nextInterval of the agent's beat.                                       *)
(***************************************************************************)
pow2[n \in 0..MaxEmpty] == IF n = 0 THEN 1 ELSE 2 * pow2[n - 1]
NextInterval(had) ==
    LET raw == BeatStart * pow2[beat.empty]
    IN  beat' = IF had THEN [empty |-> 0, last |-> BeatStart]
                ELSE [empty |-> beat.empty + 1, last |-> IF raw < BeatMax THEN raw ELSE BeatMax]
BeatNext == beat.empty < MaxEmpty /\ \E had \in BOOLEAN : NextInterval(had)

SessionsTypeOK ==
    /\ \A a \in Agents : agentTable[a].type \in AgentTypes \cup {"none"}
    /\ Cardinality(Registered) <= MaxAgents
    /\ branch.holder \in Agents \cup {"none"}
    /\ offset \in 0..(MaxLines + 1) /\ \A k \in 1..Len(eventStore) : eventStore[k] \in 1..MaxLines
    /\ beat.last \in BeatStart..BeatMax

(***************************************************************************)
(* Properties.                                                             *)
(***************************************************************************)

(* An agent that beats at least every AgentStaleAfter is never dropped:        *)
(* whatever sweeps and other agents' registrations do, the instance whose  *)
(* beat was confirmed no longer ago than that is in the table (sweep).     *)
BeatingAgentStays == \A a \in Agents :
    agentClock - told[a] <= AgentStaleAfter => agentTable[a] # Absent

(* Agents that were told they hold the branch, and until when, do not      *)
(* overlap (checkout), unless an administrator has taken the lock of one   *)
(* of them since; and whoever holds it undisturbed is in the table.        *)
CheckoutExcludes ==
    LET believers == {a \in Agents : believed[a] >= agentClock} \ ousted
    IN  /\ \A a, b \in believers : a = b
        /\ believers # {} => branch.holder \in believers /\ ~expired(branch)

(* No line is lost: whatever ticks overlap and wherever the daemon dies,   *)
(* every line below the persisted offset is in the store.                  *)
NoLineLost == \A l \in 1..offset : \E k \in 1..Len(eventStore) : eventStore[k] = l
=============================================================================
