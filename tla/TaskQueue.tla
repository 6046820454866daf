----------------------------- MODULE TaskQueue -----------------------------
(* The priority queue with bounded parallelism of task-queue.ts. processNext *)
(* runs without interruption up to the executor's await, and again in the    *)
(* finally block after it.                                                   *)
EXTENDS Naturals, FiniteSets, SequencesExt

CONSTANTS
    QueueIds,        \* ids of the tasks a caller enqueues, each once
    Priorities,      \* PRIORITY_VALUES
    MaxConcurrent, MaxQueueSize,
    KeepCompleted    \* how many finished tasks are remembered

ASSUME TaskQueueAssumption ==
    /\ Priorities \subseteq Nat
    /\ MaxConcurrent \in Nat \ {0} /\ MaxQueueSize \in Nat \ {0} /\ KeepCompleted \in Nat \ {0}

VARIABLES
    queue,      \* waiting tasks, the next one first
    running,    \* ids handed to the executor
    completed,  \* the last finished ids, oldest first
    executor,   \* whether setExecutor was called
    backlog,    \* history: tasks were already waiting when it was
    fresh       \* ids not enqueued yet; how many are gone is the time of enqueueing

queueVars == <<queue, running, completed, executor, backlog, fresh>>

QueuedTask == [id : QueueIds, priority : Priorities, enqueuedAt : Nat]

QueueTypeOK ==
    /\ queue \in Seq(QueuedTask) /\ Len(queue) <= MaxQueueSize
    /\ running \subseteq QueueIds /\ fresh \subseteq QueueIds
    /\ completed \in Seq(QueueIds) /\ Len(completed) <= KeepCompleted
    /\ executor \in BOOLEAN /\ backlog \in BOOLEAN

QueueInit ==
    /\ queue = <<>> /\ running = {} /\ completed = <<>>
    /\ executor = FALSE /\ backlog = FALSE /\ fresh = QueueIds

\* setExecutor does not look at the queue: what waits goes on waiting.
SetExecutor ==
    /\ ~executor
    /\ executor' = TRUE
    /\ backlog' = (queue # <<>>)
    /\ UNCHANGED <<queue, running, completed, fresh>>

\* Faulty variant of Inserted: before the tasks of the same priority.
InsertedBefore(q, t) ==
    LET i == SelectInSeq(q, LAMBDA x : x.priority <= t.priority)
    IN  IF i = 0 THEN Append(q, t) ELSE InsertAt(q, i, t)

\* Behind every task of at least its priority.
Inserted(q, t) ==
    LET i == SelectInSeq(q, LAMBDA x : x.priority < t.priority)
    IN  IF i = 0 THEN Append(q, t) ELSE InsertAt(q, i, t)

\* processNext on a queue q with the set r running: at most one task starts.
Startable(q, r) == executor /\ Cardinality(r) < MaxConcurrent /\ q # <<>>
ProcessNext(q, r) ==
    IF Startable(q, r)
    THEN queue' = Tail(q) /\ running' = r \cup {Head(q).id}
    ELSE queue' = q /\ running' = r

\* Faulty variant of Enqueue: a full queue takes one task more.
EnqueueOneMore(id, p) ==
    /\ id \in fresh
    /\ Len(queue) <= MaxQueueSize
    /\ fresh' = fresh \ {id}
    /\ ProcessNext(Inserted(queue, [id |-> id, priority |-> p,
                                    enqueuedAt |-> Cardinality(QueueIds \ fresh)]), running)
    /\ UNCHANGED <<completed, executor, backlog>>

\* enqueue refuses when the queue is full.
Enqueue(id, p) ==
    /\ id \in fresh
    /\ Len(queue) < MaxQueueSize
    /\ fresh' = fresh \ {id}
    /\ ProcessNext(Inserted(queue, [id |-> id, priority |-> p,
                                    enqueuedAt |-> Cardinality(QueueIds \ fresh)]), running)
    /\ UNCHANGED <<completed, executor, backlog>>

\* The executor's promise settles, either way, and the finally block runs.
Finish(id) ==
    /\ id \in running
    /\ completed' = LET c == Append(completed, id)
                    IN  IF Len(c) > KeepCompleted THEN Tail(c) ELSE c
    /\ ProcessNext(queue, running \ {id})
    /\ UNCHANGED <<executor, backlog, fresh>>

\* cancel: only a task that has not started.
Cancel(id) ==
    /\ \E i \in DOMAIN queue : queue[i].id = id /\ queue' = RemoveAt(queue, i)
    /\ UNCHANGED <<running, completed, executor, backlog, fresh>>

QueueNext ==
    \/ SetExecutor
    \/ \E id \in QueueIds : \/ \E p \in Priorities : Enqueue(id, p)
                            \/ Finish(id)
                            \/ Cancel(id)

QueueSpec == QueueInit /\ [][QueueNext]_queueVars

-----------------------------------------------------------------------------
\* The queue serves the highest priority first and, within a priority, in the
\* order of arrival, through every mix of insertions, starts and cancellations.
QueueOrdered ==
    \A i, j \in DOMAIN queue : i < j =>
        \/ queue[i].priority > queue[j].priority
        \/ queue[i].priority = queue[j].priority /\ queue[i].enqueuedAt < queue[j].enqueuedAt

\* A task is in one place only: waiting, running or finished.
OnePlace ==
    LET waiting == {queue[i].id : i \in DOMAIN queue}
        done == {completed[i] : i \in DOMAIN completed}
    IN  /\ Cardinality(waiting) = Len(queue) /\ Cardinality(done) = Len(completed)
        /\ waiting \cap running = {} /\ running \cap done = {} /\ waiting \cap done = {}
        /\ (waiting \cup running \cup done) \cap fresh = {}

\* No more than the allowed number run at once, and no task waits while there
\* is room: one start per enqueue and per completion is enough. (A backlog from
\* before setExecutor is the exception, it is drained one task per call.)
WorkConserving ==
    /\ Cardinality(running) <= MaxConcurrent
    /\ executor /\ ~backlog /\ queue # <<>> => Cardinality(running) = MaxConcurrent
=============================================================================
