--------------------------- MODULE RequestProofs ---------------------------
(***************************************************************************)
(* Proofs about what is asked of a daemon and answered once: tasks,        *)
(* executions, gated calls and their approvals, and signed orders.         *)
(*                                                                         *)
(* Four stores implement the one-shot request of OneShot.  For each, the   *)
(* initial state maps to the initial state and every step of the component *)
(* maps to a step of OneShot or to a stutter; what a writer read earlier,  *)
(* or what a leg of a call has been through, is the invariant this needs.  *)
(***************************************************************************)
EXTENDS Tasks, TaskQueue, TaskRouting, Ingress, Policy, Orders, FiniteSetTheorems,
        FunctionTheorems, SequenceTheorems, WellFoundedInduction, TLAPS

(* Tasks. *)

\* An execute request's task has no deadline, so nothing ends it under its
\* handler.
ExecutesHaveNoDeadline ==
    \A t \in TaskIds : call[t] # "none" => task[t].deadline = "none"

\* A request still measured has its task as it was created, and a task without
\* a request was never accepted.
MeasuredIsRequested ==
    \A t \in TaskIds :
        /\ call[t] = "measuring" => task[t].state = "requested"
        /\ task[t].state = "absent" => call[t] = "none"

TaskIInv ==
    /\ TaskTypeOK /\ ExecutesHaveNoDeadline /\ MeasuredIsRequested
    /\ CallerTold /\ OnlyExecutedComplete

\* One task of a step: its record and its request.
TaskGood(k, c) ==
    /\ c # "none" => k.deadline = "none"
    /\ c = "measuring" => k.state = "requested"
    /\ k.state = "absent" => c = "none"
    /\ c = "running" => k.state = "accepted"
    /\ c = "result" => k.state = "completed"
    /\ c \in {"503", "404"} => k.state = "requested"
    /\ c \in {"error", "empty"} => k.state \in {"completed", "failed"}
    /\ k.state \in {"completed", "failed"} => c \in {"result", "error", "empty", "thrown"}
    /\ k.state = "accepted" => c \in {"running", "thrown"}

LEMMA TaskPointwise ==
    /\ TaskIInv <=> TaskTypeOK /\ \A t \in TaskIds : TaskGood(task[t], call[t])
    /\ TaskIInv' <=> TaskTypeOK' /\ \A t \in TaskIds : TaskGood(task'[t], call'[t])
  BY DEF TaskIInv, TaskGood, ExecutesHaveNoDeadline, MeasuredIsRequested, CallerTold,
         OnlyExecutedComplete

\* How a task may move, as OneShot sees it.
TaskMoves(k, l) ==
    \/ l.state = k.state
    \/ k.state = "absent" /\ l.state = "requested"
    \/ k.state = "requested" /\ l.state = "accepted"
    \/ k.state \in Active /\ l.state \in Ended

LEMMA TaskInitIInv == TaskInit => TaskIInv
  <1> SUFFICES ASSUME TaskInit PROVE TaskIInv
    OBVIOUS
  <1> DEFINE s0 == CHOOSE s \in SkillIds : TRUE
             k0 == [state |-> "absent", deadline |-> "none", skill |-> s0]
  <1>1. task = [t \in TaskIds |-> k0] /\ call = [t \in TaskIds |-> "none"]
    BY DEF TaskInit
  <1>2. k0 \in Task
    <2>1. s0 \in SkillIds
      BY TasksAssumption DEF TasksAssumption
    <2> HIDE DEF s0
    <2> QED BY <2>1 DEF Task, Active, Ended
  <1>3. k0.state = "absent"
    OBVIOUS
  <1> HIDE DEF k0
  <1>4. task \in [TaskIds -> Task] /\ call \in [TaskIds -> Answers]
    BY <1>1, <1>2 DEF Answers
  <1>5. TaskTypeOK
    BY <1>4, TasksAssumption DEF TaskInit, TaskTypeOK, TasksAssumption, Answers
  <1>6. \A t \in TaskIds : TaskGood(task[t], call[t])
    BY <1>1, <1>3 DEF TaskGood
  <1> QED BY <1>5, <1>6, TaskPointwise

\* A step that changes the tasks and requests it may change.
LEMMA TaskStep ==
    ASSUME TaskIInv, [TaskNext]_taskVars
    PROVE  TaskIInv' /\ \A t \in TaskIds : TaskMoves(task[t], task'[t])
  <1> USE DEF Active, Ended
  <1>1. /\ task \in [TaskIds -> Task] /\ call \in [TaskIds -> Answers]
        /\ handlers \in SUBSET SkillIds /\ sweeper \in BOOLEAN
        /\ \A t \in TaskIds : task[t] \in Task /\ TaskGood(task[t], call[t])
    BY TaskPointwise DEF TaskTypeOK, Answers
  <1>2. SUFFICES /\ task' \in [TaskIds -> Task] /\ call' \in [TaskIds -> Answers]
                 /\ handlers' \in SUBSET SkillIds /\ sweeper' \in BOOLEAN
                 /\ \A t \in TaskIds : TaskGood(task'[t], call'[t])
                                       /\ TaskMoves(task[t], task'[t])
    BY TaskPointwise DEF TaskTypeOK, Answers
  <1> DEFINE Kept(k) == task'[k] = task[k] /\ call'[k] = call[k]
  <1>3. \A k \in TaskIds : Kept(k) => TaskGood(task'[k], call'[k]) /\ TaskMoves(task[k], task'[k])
    BY <1>1 DEF TaskMoves
  \* One task t is given the record r, its request the answer c.
  <1>4. ASSUME NEW t \in TaskIds, NEW r \in Task, NEW c \in Answers,
               task' = [task EXCEPT ![t] = r], call' = [call EXCEPT ![t] = c],
               TaskGood(r, c), TaskMoves(task[t], r), UNCHANGED <<handlers, sweeper>>
        PROVE  /\ task' \in [TaskIds -> Task] /\ call' \in [TaskIds -> Answers]
               /\ handlers' \in SUBSET SkillIds /\ sweeper' \in BOOLEAN
               /\ \A k \in TaskIds : TaskGood(task'[k], call'[k])
                                     /\ TaskMoves(task[k], task'[k])
    BY <1>1, <1>3, <1>4
  <1>5. ASSUME NEW t \in TaskIds, NEW s \in SkillIds, DelegateTask(t, s) \/ ExecuteTask(t, s)
        PROVE  <1>2!1
    <2>1. task[t].state = "absent" /\ call[t] = "none"
      BY <1>1, <1>5 DEF DelegateTask, ExecuteTask, CreateRequest, TaskGood
    <2>2. PICK d \in {"none", "ahead"}, c \in {"none", "measuring"} :
            /\ task' = [task EXCEPT ![t] = [state |-> "requested", deadline |-> d, skill |-> s]]
            /\ call' = [call EXCEPT ![t] = c] /\ (c # "none" => d = "none")
            /\ UNCHANGED <<handlers, sweeper>>
      <3>1. CASE DelegateTask(t, s)
        <4>1. call' = [call EXCEPT ![t] = "none"]
          BY <1>1, <2>1, <3>1 DEF DelegateTask
        <4> QED BY <3>1, <4>1 DEF DelegateTask, CreateRequest
      <3>2. CASE ExecuteTask(t, s)
        BY <3>2 DEF ExecuteTask, CreateRequest
      <3> QED BY <1>5, <3>1, <3>2
    <2> DEFINE r == [state |-> "requested", deadline |-> d, skill |-> s]
    <2>3. r \in Task /\ r.state = "requested" /\ r.deadline = d
      BY DEF Task
    <2>4. task' = [task EXCEPT ![t] = r]
      BY <2>2
    <2> HIDE DEF r
    <2>5. TaskGood(r, c) /\ TaskMoves(task[t], r) /\ c \in Answers
      BY <2>1, <2>2, <2>3 DEF TaskGood, TaskMoves, Answers
    <2> QED BY <1>4, <2>2, <2>3, <2>4, <2>5
  \* The executor moves a task from one state to the next.
  <1>6. ASSUME NEW t \in TaskIds, NEW to \in {"accepted", "completed", "failed"},
               NEW c \in Answers, task' = [task EXCEPT ![t].state = to],
               call' = [call EXCEPT ![t] = c], UNCHANGED <<handlers, sweeper>>,
               \/ /\ to = "accepted" /\ task[t].state = "requested"
                  /\ c \in {"running", "thrown"}
               \/ /\ to = "completed" /\ task[t].state = "accepted"
                  /\ c \in {"result", "error", "empty", "thrown"}
               \/ /\ to = "failed" /\ task[t].state = "accepted"
                  /\ c \in {"error", "empty", "thrown"},
               call[t] # "none"
        PROVE  <1>2!1
    <2> DEFINE r == [task[t] EXCEPT !.state = to]
    <2>1. r \in Task /\ r.state = to /\ r.deadline = task[t].deadline
      BY <1>1 DEF Task
    <2>2. task' = [task EXCEPT ![t] = r]
      BY <1>1, <1>6
    <2>3. task[t].deadline = "none"
      BY <1>1, <1>6 DEF TaskGood
    <2> HIDE DEF r
    <2>4. TaskGood(r, c) /\ TaskMoves(task[t], r) /\ c \in Answers
      BY <1>6, <2>1, <2>3 DEF TaskGood, TaskMoves, Answers
    <2> QED BY <1>4, <1>6, <2>1, <2>2, <2>4
  <1>7. ASSUME NEW t \in TaskIds, NEW m \in Metrics, Measured(t, m)
        PROVE  <1>2!1
    <2>1. call[t] = "measuring" /\ UNCHANGED <<handlers, sweeper>>
      BY <1>7 DEF Measured
    <2>2. task[t].state = "requested" /\ task[t].deadline = "none" /\ call[t] # "none"
      BY <1>1, <2>1 DEF TaskGood
    <2>3. CASE task' = task /\ \E c \in {"503", "404", "thrown"} : call' = [call EXCEPT ![t] = c]
      <3>1. PICK c \in {"503", "404", "thrown"} : call' = [call EXCEPT ![t] = c]
        BY <2>3
      <3>2. task' = [task EXCEPT ![t] = task[t]]
        BY <1>1, <2>3
      <3>3. TaskGood(task[t], c) /\ TaskMoves(task[t], task[t]) /\ c \in Answers
        BY <2>2, <3>1 DEF TaskGood, TaskMoves, Answers
      <3> QED BY <1>1, <1>4, <2>1, <3>1, <3>2, <3>3
    <2>4. CASE /\ \E c \in {"running", "thrown"} : call' = [call EXCEPT ![t] = c]
               /\ task' = [task EXCEPT ![t].state = "accepted"]
      <3>1. PICK c \in {"running", "thrown"} : call' = [call EXCEPT ![t] = c]
        BY <2>4
      <3>2. c \in Answers
        BY DEF Answers
      <3> QED BY <1>6, <2>1, <2>2, <2>4, <3>1, <3>2
    <2>5. CASE /\ Tell(t, "503") \/ Tell(t, "thrown") \/ Tell(t, "404")
               /\ task' = task
      BY <2>3, <2>5 DEF Tell
    <2>6. CASE /\ Tell(t, "running") \/ Tell(t, "thrown")
               /\ task' = [task EXCEPT ![t].state = "accepted"]
      BY <2>4, <2>6 DEF Tell
    <2> QED BY <1>7, <2>5, <2>6 DEF Measured
  <1>8. ASSUME NEW t \in TaskIds, HandlerReturns(t) \/ HandlerThrows(t)
        PROVE  <1>2!1
    <2>1. call[t] = "running" /\ task[t].state = "accepted"
      BY <1>1, <1>8 DEF HandlerReturns, HandlerThrows, TaskGood
    <2>2. CASE HandlerReturns(t)
      <3>1. PICK c \in {"result", "error", "empty", "thrown"} : call' = [call EXCEPT ![t] = c]
        <4>1. Tell(t, "result") \/ Caught(t)
          BY <2>2 DEF HandlerReturns
        <4>2. CASE Tell(t, "result")
          BY <4>2 DEF Tell
        <4>3. CASE Caught(t)
          <5>1. PICK c \in {"error", "empty", "thrown"} : Tell(t, c)
            BY <4>3 DEF Caught
          <5> QED BY <5>1 DEF Tell
        <4> QED BY <4>1, <4>2, <4>3
      <3>2. c \in Answers
        BY DEF Answers
      <3> QED BY <1>6, <2>1, <2>2, <3>1, <3>2 DEF HandlerReturns, Moved
    <2>3. CASE HandlerThrows(t)
      <3>1. PICK c \in {"error", "empty", "thrown"} : call' = [call EXCEPT ![t] = c]
        <4>1. PICK c \in {"error", "empty", "thrown"} : Tell(t, c)
          BY <2>3 DEF HandlerThrows, Caught
        <4> QED BY <4>1 DEF Tell
      <3>2. c \in Answers
        BY DEF Answers
      <3> QED BY <1>6, <2>1, <2>3, <3>1, <3>2 DEF HandlerThrows, Moved
    <2> QED BY <1>8, <2>2, <2>3
  <1>9. ASSUME NEW t \in TaskIds, DeadlinePasses(t)
        PROVE  <1>2!1
    <2> DEFINE r == [task[t] EXCEPT !.deadline = "passed"]
    <2>1. r \in Task /\ r.state = task[t].state /\ task[t].deadline = "ahead"
      BY <1>1, <1>9 DEF DeadlinePasses, Task
    <2>2. task' = [task EXCEPT ![t] = r] /\ call' = [call EXCEPT ![t] = call[t]]
          /\ UNCHANGED <<handlers, sweeper>>
      BY <1>1, <1>9 DEF DeadlinePasses
    <2> HIDE DEF r
    <2>3. TaskGood(r, call[t]) /\ TaskMoves(task[t], r) /\ call[t] \in Answers
      BY <1>1, <2>1 DEF TaskGood, TaskMoves
    <2> QED BY <1>4, <2>1, <2>2, <2>3
  <1>10. CASE CheckTimeouts
    <2>1. /\ task' = [t \in TaskIds |->
                  IF t \in Overdue THEN [task[t] EXCEPT !.state = "timeout"] ELSE task[t]]
          /\ UNCHANGED <<call, handlers, sweeper>>
      BY <1>10 DEF CheckTimeouts
    <2>2. ASSUME NEW t \in TaskIds
          PROVE  task'[t] \in Task /\ TaskGood(task'[t], call[t]) /\ TaskMoves(task[t], task'[t])
      <3>1. CASE t \notin Overdue
        BY <1>1, <2>1, <3>1 DEF TaskMoves
      <3>2. CASE t \in Overdue
        <4>1. task[t].state \in Active /\ task[t].deadline = "passed"
          BY <3>2 DEF Overdue
        <4>2. /\ task'[t] = [task[t] EXCEPT !.state = "timeout"]
              /\ task'[t] \in Task /\ task'[t].state = "timeout"
          BY <1>1, <2>1, <3>2 DEF Task
        <4>3. call[t] = "none"
          BY <1>1, <4>1 DEF TaskGood
        <4> QED BY <4>1, <4>2, <4>3 DEF TaskGood, TaskMoves
      <3> QED BY <3>1, <3>2
    <2>3. task' \in [TaskIds -> Task]
      BY <2>1, <2>2
    <2> QED BY <1>1, <2>1, <2>2, <2>3
  <1>11. CASE RegisterLateSkills \/ StopTasks \/ UNCHANGED taskVars
    <2>1. task' = task /\ call' = call /\ handlers' \in SUBSET SkillIds /\ sweeper' \in BOOLEAN
      BY <1>1, <1>11, TasksAssumption
         DEF RegisterLateSkills, StopTasks, taskVars, TasksAssumption
    <2> QED BY <1>1, <1>3, <2>1
  <1> QED BY <1>5, <1>7, <1>8, <1>9, <1>10, <1>11 DEF TaskNext

\* What OneShot sees of a task.
LEMMA TaskRefines ==
    /\ TaskInit => TaskOneShot!Init
    /\ TaskIInv /\ [TaskNext]_taskVars => [TaskOneShot!Next]_TaskVerdict
  <1>1. TaskInit => TaskOneShot!Init
    <2> SUFFICES ASSUME TaskInit
                 PROVE  TaskVerdict = [t \in TaskIds |-> "none"]
      BY DEF TaskOneShot!Init
    <2>1. \A t \in TaskIds : task[t].state = "absent"
      BY DEF TaskInit
    <2>2. \A t \in TaskIds : (CASE task[t].state = "absent" -> "none"
                                [] task[t].state \in Active -> "open"
                                [] OTHER -> task[t].state) = "none"
      BY <2>1 DEF Active
    <2> QED BY <2>2, Zenon DEF TaskVerdict
  <1>2. ASSUME TaskIInv, [TaskNext]_taskVars
        PROVE  TaskOneShot!Next
    <2>1. \A t \in TaskIds : TaskMoves(task[t], task'[t])
      BY <1>2, TaskStep
    <2>2. \A t \in TaskIds : task[t].state \in Active \cup Ended \cup {"absent"}
      BY <1>2 DEF TaskIInv, TaskTypeOK, Task
    <2>3. DOMAIN TaskVerdict' = TaskIds
      BY DEF TaskVerdict
    <2>4. ASSUME NEW t \in TaskIds
          PROVE  \/ TaskVerdict'[t] = TaskVerdict[t]
                 \/ TaskVerdict[t] = "none" /\ TaskVerdict'[t] = "open"
                 \/ TaskVerdict[t] = "open" /\ TaskVerdict'[t] \in Ended
      <3>1. TaskVerdict[t] = CASE task[t].state = "absent" -> "none"
                               [] task[t].state \in Active -> "open"
                               [] OTHER -> task[t].state
        BY DEF TaskVerdict
      <3>2. TaskVerdict'[t] = CASE task'[t].state = "absent" -> "none"
                               [] task'[t].state \in Active -> "open"
                               [] OTHER -> task'[t].state
        BY DEF TaskVerdict
      <3> QED BY <2>1, <2>2, <3>1, <3>2 DEF TaskMoves, Active, Ended
    <2> QED BY <2>3, <2>4 DEF TaskOneShot!Next, TaskOneShot!Moves
  <1> QED BY <1>1, <1>2

\* Every task is a one-shot request of OneShot: opened once, ended once, and
\* ended for good, whatever its deadline, its handler and the sweeper do
\* (tasks.ts: accept, complete, fail and checkTimeouts).
THEOREM TasksAreOneShot == TaskSpec => TaskOneShot!Spec
  <1>1. TaskIInv /\ [TaskNext]_taskVars => TaskIInv'
    BY TaskStep
  <1> QED BY <1>1, TaskInitIInv, TaskRefines, PTL DEF TaskSpec, TaskOneShot!Spec

\* The caller of an execute request was told what its task came to, and only
\* executed tasks are completed or failed (task-executor.ts).
THEOREM TaskOutcomesAreTrue == TaskSpec => [](TaskTypeOK /\ CallerTold /\ OnlyExecutedComplete)
  <1>1. TaskIInv /\ [TaskNext]_taskVars => TaskIInv'
    BY TaskStep
  <1>2. TaskIInv => TaskTypeOK /\ CallerTold /\ OnlyExecutedComplete
    BY DEF TaskIInv
  <1> QED BY <1>1, <1>2, TaskInitIInv, PTL DEF TaskSpec

-----------------------------------------------------------------------------
(* Executions. *)

ExecutionStates == {"absent", "accepted", "running", "completed", "failed", "aborted"}

\* What a writer is about to write is a transition from what it read.
ViewIsValid ==
    \A w \in Writers : view[w].id # "none" => /\ view[w].id \in ExecutionIds
                                              /\ view[w].wants \in Valid(view[w].read)

ExecutionIInv ==
    /\ execution \in [ExecutionIds -> ExecutionStates]
    /\ DOMAIN view = Writers
    /\ ViewIsValid

executionVars == <<execution, view>>

\* How an execution may move.
ExecutionMoves(a, b) == b = a \/ (a = "absent" /\ b = "accepted") \/ b \in Valid(a)

LEMMA ExecutionInitIInv == RoutingInit => ExecutionIInv
  BY DEF RoutingInit, ExecutionIInv, ExecutionStates, ViewIsValid

LEMMA ExecutionStep ==
    ASSUME ExecutionIInv, [ExecutionNext]_executionVars
    PROVE  /\ ExecutionIInv'
           /\ \A e \in ExecutionIds : ExecutionMoves(execution[e], execution'[e])
  <1> USE DEF ExecutionIInv, ViewIsValid, ExecutionMoves
  <1>1. ASSUME NEW e \in ExecutionIds, Create(e)
        PROVE  ExecutionIInv' /\ \A k \in ExecutionIds : ExecutionMoves(execution[k], execution'[k])
    BY <1>1 DEF Create, ExecutionStates
  <1>2. ASSUME NEW w \in Writers, NEW e \in ExecutionIds,
               NEW s \in {"running", "completed", "failed", "aborted"}, Transition(w, e, s)
        PROVE  ExecutionIInv' /\ \A k \in ExecutionIds : ExecutionMoves(execution[k], execution'[k])
    BY <1>2 DEF Transition
  <1>3. ASSUME NEW w \in Writers, Update(w)
        PROVE  ExecutionIInv' /\ \A k \in ExecutionIds : ExecutionMoves(execution[k], execution'[k])
    <2>1. view[w].id \in ExecutionIds /\ view[w].wants \in Valid(view[w].read)
      BY <1>3 DEF Update
    <2>2. \A a : Valid(a) \subseteq ExecutionStates
      BY DEF Valid, ExecutionStates
    <2>3. ViewIsValid' /\ DOMAIN view' = Writers
      BY <1>3 DEF Update
    <2>4. execution' = execution \/ (execution' = [execution EXCEPT ![view[w].id] = view[w].wants]
                                     /\ execution[view[w].id] = view[w].read)
      BY <1>3 DEF Update
    <2>5. CASE execution' = execution
      BY <2>3, <2>5
    <2>6. CASE execution' = [execution EXCEPT ![view[w].id] = view[w].wants]
               /\ execution[view[w].id] = view[w].read
      BY <2>1, <2>2, <2>3, <2>6
    <2> QED BY <2>4, <2>5, <2>6
  <1>4. CASE UNCHANGED executionVars
    BY <1>4 DEF executionVars
  <1> QED BY <1>1, <1>2, <1>3, <1>4 DEF ExecutionNext

LEMMA ExecutionRefines ==
    /\ RoutingInit => ExecutionOneShot!Init
    /\ ExecutionIInv /\ [ExecutionNext]_executionVars => ExecutionOneShot!Next
  <1> DEFINE V(e) == CASE e = "absent" -> "none" [] e \in {"accepted", "running"} -> "open"
                       [] OTHER -> e
  <1>1. RoutingInit => ExecutionOneShot!Init
    BY DEF RoutingInit, ExecutionOneShot!Init
  <1>2. ASSUME ExecutionIInv, [ExecutionNext]_executionVars
        PROVE  ExecutionOneShot!Next
    <2>1. \A e \in ExecutionIds : ExecutionMoves(execution[e], execution'[e])
      BY <1>2, ExecutionStep
    <2>2. \A e \in ExecutionIds : execution[e] \in ExecutionStates
      BY <1>2 DEF ExecutionIInv
    <2>3. ASSUME NEW a \in ExecutionStates, NEW b, ExecutionMoves(a, b)
          PROVE  \/ V(b) = V(a)
                 \/ V(a) = "none" /\ V(b) = "open"
                 \/ V(a) = "open" /\ V(b) \in {"completed", "failed", "aborted"}
      BY <2>3 DEF ExecutionMoves, Valid, ExecutionStates
    <2> QED BY <2>1, <2>2, <2>3 DEF ExecutionOneShot!Next, ExecutionOneShot!Moves
  <1> QED BY <1>1, <1>2

\* An execution that ended stays as it ended, whichever processes have its row
\* open and in whatever order they read and update it (execution-state.ts: the
\* UPDATE is guarded by the state that was read).
THEOREM ExecutionsAreOneShot ==
    RoutingInit /\ [][ExecutionNext]_executionVars => ExecutionOneShot!Spec
  <1>1. ExecutionIInv /\ [ExecutionNext]_executionVars => ExecutionIInv'
    BY ExecutionStep
  <1> QED BY <1>1, ExecutionInitIInv, ExecutionRefines, PTL DEF ExecutionOneShot!Spec

-----------------------------------------------------------------------------
(* Orders. *)

Holder == [order : OrderIds \union {"none"}, ran : BOOLEAN]

\* A consumer at work holds the claim on its order, alone, and the order was
\* run if the consumer ran it and not otherwise.
HeldIsReserved ==
    \A c \in Consumers : consumer[c] # Idle =>
        /\ consumer[c].order \in OrderIds
        /\ ledger[consumer[c].order] = "reserved"
        /\ runs[consumer[c].order] = (IF consumer[c].ran THEN 1 ELSE 0)

HeldByOne ==
    \A c, d \in Consumers :
        consumer[c] # Idle /\ consumer[d] # Idle /\ consumer[c].order = consumer[d].order => c = d

\* Nothing runs before it is claimed.
UnclaimedIsUnrun == \A o \in OrderIds : ledger[o] = "null" => runs[o] = 0

OrderIInv ==
    /\ ledger \in [OrderIds -> LedgerState]
    /\ consumer \in [Consumers -> Holder]
    /\ runs \in [OrderIds -> {0, 1}]
    /\ HeldIsReserved /\ HeldByOne /\ UnclaimedIsUnrun /\ OrderRunsAtMostOnce

\* How a claim may move.
LedgerMoves(a, b) ==
    \/ b = a
    \/ a = "null" /\ b = "reserved"
    \/ a = "reserved" /\ b \in {"committed", "failed"}

LEMMA OrderInitIInv == OrderInit => OrderIInv
  <1> SUFFICES ASSUME OrderInit PROVE OrderIInv
    OBVIOUS
  <1>1. Idle \in Holder
    BY DEF Idle, Holder
  <1>2. /\ ledger \in [OrderIds -> LedgerState] /\ consumer \in [Consumers -> Holder]
        /\ runs \in [OrderIds -> {0, 1}]
    BY <1>1 DEF OrderInit, LedgerState
  <1>3. HeldIsReserved /\ HeldByOne /\ UnclaimedIsUnrun /\ OrderRunsAtMostOnce
    BY DEF OrderInit, HeldIsReserved, HeldByOne, UnclaimedIsUnrun, OrderRunsAtMostOnce
  <1> QED BY <1>2, <1>3 DEF OrderIInv

LEMMA OrderStep ==
    ASSUME OrderIInv, [OrderNext]_orderVars
    PROVE  OrderIInv' /\ \A o \in OrderIds : LedgerMoves(ledger[o], ledger'[o])
  <1> DEFINE Goal == OrderIInv' /\ \A o \in OrderIds : LedgerMoves(ledger[o], ledger'[o])
  <1> USE DEF OrderIInv, HeldIsReserved, HeldByOne, UnclaimedIsUnrun, OrderRunsAtMostOnce,
              LedgerState, LedgerMoves
  <1>1. Idle \in Holder /\ Idle.ran = FALSE /\ Idle.order = "none"
    BY DEF Idle, Holder
  <1>2. ASSUME NEW c \in Consumers, Reserve(c)
        PROVE  Goal
    <2>1. PICK o \in OrderIds :
            /\ ledger[o] = "null" /\ ledger' = [ledger EXCEPT ![o] = "reserved"]
            /\ consumer' = [consumer EXCEPT ![c] = [order |-> o, ran |-> FALSE]]
            /\ UNCHANGED runs /\ consumer[c] = Idle
      BY <1>2 DEF Reserve, mayDispatch, nextLedgerState
    <2> DEFINE h == [order |-> o, ran |-> FALSE]
    <2>2. h \in Holder /\ h.order = o /\ h.ran = FALSE /\ consumer' = [consumer EXCEPT ![c] = h]
      BY <2>1 DEF Holder
    <2> HIDE DEF h
    <2>3. \A d \in Consumers : consumer[d] # Idle => consumer[d].order # o
      BY <2>1
    <2>4. \A d \in Consumers : consumer'[d] = IF d = c THEN h ELSE consumer[d]
      BY <2>2
    <2>5. runs[o] = 0
      BY <2>1
    <2>6. /\ ledger' \in [OrderIds -> LedgerState] /\ consumer' \in [Consumers -> Holder]
          /\ runs' \in [OrderIds -> {0, 1}]
      BY <2>1, <2>2
    <2>7. HeldIsReserved' /\ HeldByOne'
      BY <2>1, <2>2, <2>3, <2>4, <2>5
    <2>8. UnclaimedIsUnrun' /\ OrderRunsAtMostOnce' /\ \A k \in OrderIds : LedgerMoves(ledger[k], ledger'[k])
      BY <2>1, <2>5
    <2> QED BY <2>6, <2>7, <2>8
  <1>3. ASSUME NEW c \in Consumers, Dispatch(c)
        PROVE  Goal
    <2> DEFINE o == consumer[c].order
               h == [consumer[c] EXCEPT !.ran = TRUE]
    <2>1. /\ consumer[c] # Idle /\ ~consumer[c].ran /\ o \in OrderIds
          /\ ledger[o] = "reserved" /\ runs[o] = 0
          /\ runs' = [runs EXCEPT ![o] = 1] /\ consumer' = [consumer EXCEPT ![c] = h]
          /\ UNCHANGED ledger
      <3>1. consumer[c] # Idle /\ ~consumer[c].ran
        BY <1>3 DEF Dispatch
      <3>2. o \in OrderIds /\ ledger[o] = "reserved" /\ runs[o] = 0
        BY <3>1
      <3>3. runs' = [runs EXCEPT ![o] = 1]
        BY <1>3, <3>2 DEF Dispatch
      <3>4. consumer' = [consumer EXCEPT ![c] = h] /\ UNCHANGED ledger
        BY <1>3 DEF Dispatch
      <3> HIDE DEF o, h
      <3> QED BY <3>1, <3>2, <3>3, <3>4
    <2>2. h \in Holder /\ h.order = o /\ h.ran = TRUE
      BY DEF Holder
    <2>3. \A d \in Consumers : consumer[d] # Idle /\ d # c => consumer[d].order # o
      BY <2>1
    <2> HIDE DEF h, o
    <2>4. \A d \in Consumers : consumer'[d] = IF d = c THEN h ELSE consumer[d]
      BY <2>1
    <2>5. /\ ledger' \in [OrderIds -> LedgerState] /\ consumer' \in [Consumers -> Holder]
          /\ runs' \in [OrderIds -> {0, 1}]
      BY <2>1, <2>2
    <2>6. HeldIsReserved'
      BY <2>1, <2>2, <2>3, <2>4
    <2>7. HeldByOne'
      BY <2>1, <2>2, <2>3, <2>4
    <2>8. UnclaimedIsUnrun' /\ OrderRunsAtMostOnce' /\ \A k \in OrderIds : LedgerMoves(ledger[k], ledger'[k])
      BY <2>1
    <2> QED BY <2>5, <2>6, <2>7, <2>8
  <1>4. ASSUME NEW c \in Consumers, CloseClaim(c, "commit") \/ CloseClaim(c, "fail")
        PROVE  Goal
    <2> DEFINE o == consumer[c].order
    <2>1. consumer[c] # Idle /\ o \in OrderIds /\ ledger[o] = "reserved"
      BY <1>4 DEF CloseClaim
    <2>2. PICK end \in {"committed", "failed"} :
            /\ ledger' = [ledger EXCEPT ![o] = end] /\ (end = "committed" => runs[o] = 1)
            /\ consumer' = [consumer EXCEPT ![c] = Idle] /\ UNCHANGED runs
      <3>1. CASE CloseClaim(c, "commit")
        BY <2>1, <3>1 DEF CloseClaim, nextLedgerState
      <3>2. CASE CloseClaim(c, "fail")
        BY <2>1, <3>2 DEF CloseClaim, nextLedgerState
      <3> QED BY <1>4, <3>1, <3>2
    <2>3. \A d \in Consumers : consumer[d] # Idle /\ d # c => consumer[d].order # o
      BY <2>1
    <2> HIDE DEF o
    <2>4. \A d \in Consumers : consumer'[d] = IF d = c THEN Idle ELSE consumer[d]
      BY <2>2
    <2>5. /\ ledger' \in [OrderIds -> LedgerState] /\ consumer' \in [Consumers -> Holder]
          /\ runs' \in [OrderIds -> {0, 1}]
      BY <1>1, <2>1, <2>2
    <2>6. HeldIsReserved'
      BY <2>1, <2>2, <2>3, <2>4
    <2>7. HeldByOne'
      BY <2>1, <2>2, <2>3, <2>4
    <2>8. UnclaimedIsUnrun' /\ OrderRunsAtMostOnce' /\ \A k \in OrderIds : LedgerMoves(ledger[k], ledger'[k])
      BY <2>1, <2>2
    <2> QED BY <2>5, <2>6, <2>7, <2>8
  <1>5. ASSUME NEW c \in Consumers, ConsumerCrash(c)
        PROVE  Goal
    <2>1. consumer' = [consumer EXCEPT ![c] = Idle] /\ UNCHANGED <<ledger, runs>>
      BY <1>5 DEF ConsumerCrash
    <2>2. \A d \in Consumers : consumer'[d] = IF d = c THEN Idle ELSE consumer[d]
      BY <2>1
    <2>3. consumer' \in [Consumers -> Holder]
      BY <1>1, <2>1
    <2> QED BY <2>1, <2>2, <2>3
  <1>6. CASE UNCHANGED orderVars
    BY <1>6 DEF orderVars
  <1> QED BY <1>2, <1>3, <1>4, <1>5, <1>6 DEF OrderNext

LEMMA LedgerRefines ==
    /\ OrderInit => LedgerOneShot!Init
    /\ OrderIInv /\ [OrderNext]_orderVars => LedgerOneShot!Next
  <1> DEFINE V(e) == CASE e = "null" -> "none" [] e = "reserved" -> "open" [] OTHER -> e
  <1>1. OrderInit => LedgerOneShot!Init
    BY DEF OrderInit, LedgerOneShot!Init
  <1>2. ASSUME OrderIInv, [OrderNext]_orderVars
        PROVE  LedgerOneShot!Next
    <2>1. \A o \in OrderIds : LedgerMoves(ledger[o], ledger'[o])
      BY <1>2, OrderStep
    <2>2. ASSUME NEW a, NEW b, LedgerMoves(a, b)
          PROVE  \/ V(b) = V(a)
                 \/ V(a) = "none" /\ V(b) = "open"
                 \/ V(a) = "open" /\ V(b) \in {"committed", "failed"}
      BY <2>2 DEF LedgerMoves
    <2> QED BY <2>1, <2>2 DEF LedgerOneShot!Next, LedgerOneShot!Moves
  <1> QED BY <1>1, <1>2

\* An order is run at most once and what is committed was run, whatever copies
\* arrive, whichever consumers read them and wherever they crash; and the claim
\* on it is a one-shot request (order-ledger-protocol.ts: claim, dispatch,
\* close).
THEOREM OrdersRunAtMostOnce ==
    OrderInit /\ [][OrderNext]_orderVars => []OrderRunsAtMostOnce /\ LedgerOneShot!Spec
  <1>1. OrderIInv /\ [OrderNext]_orderVars => OrderIInv'
    BY OrderStep
  <1>2. OrderIInv => OrderRunsAtMostOnce
    BY DEF OrderIInv
  <1> QED BY <1>1, <1>2, OrderInitIInv, LedgerRefines, PTL DEF LedgerOneShot!Spec

-----------------------------------------------------------------------------
(* Wakes. *)

\* An instance the coalescer remembers was not woken since the time it notes,
\* and one it has forgotten was last woken a whole window ago.
WakesAreNoted ==
    \A i \in WakeInstances : \A s \in wokenAt[i] :
        /\ s \in Nat /\ s <= wakeClock
        /\ lastWake[i] # NotWoken => s <= lastWake[i]
        /\ lastWake[i] = NotWoken => wakeClock - s >= WakeWindow

WakeIInv ==
    /\ lastWake \in [WakeInstances -> {NotWoken} \union 0..MaxWakeTime]
    /\ wakeClock \in 0..MaxWakeTime
    /\ DOMAIN wokenAt = WakeInstances
    /\ \A i \in WakeInstances : lastWake[i] <= wakeClock
    /\ WakesAreNoted /\ WakesAreCoalesced

LEMMA WakeInitIInv == WakeInit => WakeIInv
  BY OrdersAssumption
     DEF WakeInit, WakeIInv, WakesAreNoted, WakesAreCoalesced, OrdersAssumption, NotWoken

LEMMA WakeStep == WakeIInv /\ [WakeNext]_wakeVars => WakeIInv'
  <1> SUFFICES ASSUME WakeIInv, [WakeNext]_wakeVars PROVE WakeIInv'
    OBVIOUS
  <1> USE OrdersAssumption DEF OrdersAssumption, NotWoken
  <1>1. CASE WakeTick
    <2>1. /\ wakeClock' = wakeClock + 1 /\ wakeClock' \in 0..MaxWakeTime
          /\ UNCHANGED <<lastWake, awake, wokenAt>>
      BY <1>1 DEF WakeTick, WakeIInv
    <2> QED BY <2>1 DEF WakeIInv, WakesAreNoted, WakesAreCoalesced
  <1>2. ASSUME NEW i \in WakeInstances, InstanceComesOrGoes(i)
        PROVE  WakeIInv'
    BY <1>2 DEF InstanceComesOrGoes, WakeIInv, WakesAreNoted, WakesAreCoalesced
  <1>3. ASSUME NEW i \in WakeInstances, InboxNew(i)
        PROVE  WakeIInv'
    <2>1. /\ lastWake[i] = NotWoken \/ wakeClock - lastWake[i] >= WakeWindow
          /\ UNCHANGED wakeClock
          /\ wokenAt' = [wokenAt EXCEPT ![i] = @ \union {wakeClock}] \/ UNCHANGED wokenAt
      BY <1>3 DEF InboxNew, shouldWake
    <2>2. \A s \in wokenAt[i] : wakeClock - s >= WakeWindow
      BY <2>1 DEF WakeIInv, WakesAreNoted
    <2>3. \A j \in WakeInstances :
            lastWake'[j] = IF j = i THEN (IF wakeClock - wakeClock >= WakeWindow
                                          THEN NotWoken ELSE wakeClock)
                           ELSE (IF lastWake[j] # NotWoken /\ wakeClock - lastWake[j] >= WakeWindow
                                 THEN NotWoken ELSE lastWake[j])
      BY <1>3 DEF InboxNew, shouldWake, WakeIInv
    <2>4. /\ lastWake' \in [WakeInstances -> {NotWoken} \union 0..MaxWakeTime]
          /\ \A j \in WakeInstances : lastWake'[j] <= wakeClock
      <3>1. \A j \in WakeInstances : lastWake'[j] \in {NotWoken} \union 0..MaxWakeTime
                                     /\ lastWake'[j] <= wakeClock
        BY <2>3 DEF WakeIInv
      <3>2. lastWake' = [j \in WakeInstances |-> lastWake'[j]]
        BY <1>3 DEF InboxNew, shouldWake
      <3> QED BY <3>1, <3>2
    <2>5. \A j \in WakeInstances : \A s \in wokenAt'[j] :
             s \in wokenAt[j] \/ (j = i /\ s = wakeClock)
      BY <2>1 DEF WakeIInv
    <2>6. DOMAIN wokenAt' = WakeInstances
      BY <2>1 DEF WakeIInv
    <2>7. ASSUME NEW j \in WakeInstances, NEW s \in wokenAt'[j]
          PROVE  /\ s \in Nat /\ s <= wakeClock
                 /\ lastWake'[j] # NotWoken => s <= lastWake'[j]
                 /\ lastWake'[j] = NotWoken => wakeClock - s >= WakeWindow
      BY <2>2, <2>3, <2>5 DEF WakeIInv, WakesAreNoted
    <2>8. ASSUME NEW j \in WakeInstances, NEW s \in wokenAt'[j], NEW t \in wokenAt'[j], s < t
          PROVE  t - s >= WakeWindow
      BY <2>2, <2>5, <2>8 DEF WakeIInv, WakesAreNoted, WakesAreCoalesced
    <2> QED BY <2>1, <2>4, <2>6, <2>7, <2>8 DEF WakeIInv, WakesAreNoted, WakesAreCoalesced
  <1>4. CASE UNCHANGED wakeVars
    BY <1>4 DEF wakeVars, WakeIInv, WakesAreNoted, WakesAreCoalesced
  <1> QED BY <1>1, <1>2, <1>3, <1>4 DEF WakeNext

\* Two wakes of an instance are at least a window apart, although the
\* coalescer forgets the entries that have run out (wake-contract.ts).
THEOREM WakesAreAWindowApart == WakeInit /\ [][WakeNext]_wakeVars => []WakesAreCoalesced
  <1>1. WakeIInv => WakesAreCoalesced
    BY DEF WakeIInv
  <1> QED BY <1>1, WakeInitIInv, WakeStep, PTL

-----------------------------------------------------------------------------
(* Gated calls. *)

Stages == {"none", "received", "asking", "approving", "running", "forwarding", "answered"}
LegRecord == [stage : Stages, node : IngressNodes \union {"none"}, hop : 0..MAX_MCP_FORWARD_HOPS,
              target : IngressNodes \union {"none"}, tier : Tiers,
              outcome : Outcomes \union {"none"}, channel : Nat, status : Nat]
ApprovalRows == ApprovalStatus \union {"none"}
Waiters == {"none", "prompting", "open", "closed"}

Ran(k) == Happened("MCP_EXEC_LOCAL", k)
Forwarded(k) == Happened("MCP_FORWARD_TX", k)
Gated(k) == Happened("MCP_FORWARD_GATE", k)

\* What leg k has been through, from its record l, its row r, its waiter w and
\* whether it ran (x), forwarded (t) and passed its gate (g).  Up to the
\* decision nothing is decided, run or sent; a wait is open only while the leg
\* is approving, and a prompt that outlives its leg finds it timed out.
LegGood(k, l, r, w, x, t, g) ==
    /\ l.stage # "none" => l.hop = k - 1 /\ l.node \in IngressNodes
    /\ l.stage \in {"none", "received", "asking", "approving"} => l.outcome = "none" /\ ~x /\ ~t
    /\ l.stage \in {"none", "received", "asking"} => r = "none" /\ w = "none"
    /\ l.stage \in {"asking", "approving"} =>
          l.tier = "gate" /\ l.target \in IngressNodes
    /\ l.stage = "approving" => r = "pending"
    /\ w = "open" => l.stage = "approving"
    /\ w = "prompting" => l.stage = "approving" \/ l.outcome = "timeout"
    /\ l.stage = "running" => x
    /\ l.stage = "forwarding" => t
    /\ x => l.node \in SharingNodes /\ ~t
    /\ t => k = 1
    /\ x \/ t => /\ l.tier # "consensus"
                 /\ l.tier = "gate" => l.outcome = "approved" /\ r = "approved" /\ g
    /\ r = "approved" <=> l.outcome = "approved"
    /\ r = "rejected" => l.outcome = "rejected"

LegsAreGood ==
    \A k \in Legs : LegGood(k, leg[k], approvalRow[k], waiter[k], Ran(k), Forwarded(k), Gated(k))

\* A leg after the first is there because the one before forwarded the call.
LegsFollow == \A k \in Legs : k + 1 \in Legs /\ leg[k + 1].stage # "none" => Forwarded(k)

SuccessRan == \A k \in Legs : leg[k].status = 200 => \E j \in Legs : Ran(j)

IngressIInv ==
    /\ payload \in Payloads
    /\ leg \in [Legs -> LegRecord]
    /\ approvalRow \in [Legs -> ApprovalRows]
    /\ waiter \in [Legs -> Waiters]
    /\ LegsAreGood /\ LegsFollow /\ SuccessRan

\* How an approval row may move.
RowMoves(a, b) ==
    \/ b = a
    \/ a = "none" /\ b = "pending"
    \/ a = "pending" /\ b \in {"approved", "rejected"}

RowsMove == \A k \in Legs : RowMoves(approvalRow[k], approvalRow'[k])

LEMMA NoLegIsRecord ==
    /\ NoLeg \in LegRecord /\ NoLeg.stage = "none" /\ NoLeg.outcome = "none" /\ NoLeg.status = 0
    /\ \A n \in IngressNodes, h \in 0..MAX_MCP_FORWARD_HOPS :
          /\ Arrives(n, h) \in LegRecord /\ Arrives(n, h).stage = "received"
          /\ Arrives(n, h).node = n /\ Arrives(n, h).hop = h
          /\ Arrives(n, h).outcome = "none" /\ Arrives(n, h).status = 0
  <1> USE DEF MAX_MCP_FORWARD_HOPS
  <1>1. NoLeg \in LegRecord /\ NoLeg.stage = "none" /\ NoLeg.outcome = "none" /\ NoLeg.status = 0
    BY DEF NoLeg, LegRecord, Stages, Tiers, Outcomes
  <1>2. ASSUME NEW n \in IngressNodes, NEW h \in 0..MAX_MCP_FORWARD_HOPS
        PROVE  /\ Arrives(n, h) \in LegRecord /\ Arrives(n, h).stage = "received"
               /\ Arrives(n, h).node = n /\ Arrives(n, h).hop = h
               /\ Arrives(n, h).outcome = "none" /\ Arrives(n, h).status = 0
    <2>1. Arrives(n, h) = [NoLeg EXCEPT !.stage = "received", !.node = n, !.hop = h]
      BY DEF Arrives
    <2> QED BY <1>1, <2>1 DEF LegRecord, Stages
  <1> QED BY <1>1, <1>2

LEMMA IngressInitIInv == IngressInit => IngressIInv
  <1> SUFFICES ASSUME IngressInit PROVE IngressIInv
    OBVIOUS
  <1>1. payload \in Payloads
    BY DEF IngressInit, NoPayload, Payloads
  <1>2. /\ leg \in [Legs -> LegRecord] /\ approvalRow \in [Legs -> ApprovalRows]
        /\ waiter \in [Legs -> Waiters]
    BY NoLegIsRecord DEF IngressInit, ApprovalRows, Waiters
  <1>3. \A k \in Legs : ~Ran(k) /\ ~Forwarded(k)
    BY DEF IngressInit, Ran, Forwarded, Happened
  <1>4. \A k \in Legs : /\ leg[k].stage = "none" /\ leg[k].outcome = "none" /\ leg[k].status = 0
                        /\ approvalRow[k] = "none" /\ waiter[k] = "none"
    BY NoLegIsRecord DEF IngressInit
  <1>5. LegsAreGood
    BY <1>3, <1>4 DEF LegsAreGood, LegGood
  <1>6. LegsFollow /\ SuccessRan
    BY <1>4 DEF LegsFollow, SuccessRan
  <1> QED BY <1>1, <1>2, <1>5, <1>6 DEF IngressIInv

\* The audit events of leg k of the kinds E.
Events(E, k) == {Audit(e, k) : e \in E}

\* Leg j is opened by the one before it.
Opened(j) ==
    /\ leg[j].stage = "none"
    /\ j - 1 \in 0..MAX_MCP_FORWARD_HOPS
    /\ \E n \in IngressNodes : leg'[j] = Arrives(n, j - 1)

\* A leg moves: its record becomes l, its row r, its waiter w, and audit events
\* of the kinds E are written.  If it forwards the call, the next leg opens.
LEMMA LegMoves ==
    ASSUME IngressIInv, NEW k \in Legs, NEW l \in LegRecord, NEW r \in ApprovalRows, NEW w \in Waiters,
           NEW E,
           leg' \in [Legs -> LegRecord], leg'[k] = l,
           \A j \in Legs \ {k} :
               leg'[j] = leg[j] \/ (j = k + 1 /\ Opened(j) /\ "MCP_FORWARD_TX" \in E),
           approvalRow' = [approvalRow EXCEPT ![k] = r],
           waiter' = [waiter EXCEPT ![k] = w], UNCHANGED payload,
           ingressAudit' = ingressAudit \union Events(E, k),
           leg[k].stage # "none", RowMoves(approvalRow[k], r),
           l.status = 200 => \E j \in Legs : Ran(j)',
           LegGood(k, l, r, w, Ran(k) \/ "MCP_EXEC_LOCAL" \in E,
                   Forwarded(k) \/ "MCP_FORWARD_TX" \in E, Gated(k) \/ "MCP_FORWARD_GATE" \in E)
    PROVE  IngressIInv' /\ RowsMove
  <1>1. /\ \A j \in Legs : Ran(j)' <=> Ran(j) \/ (j = k /\ "MCP_EXEC_LOCAL" \in E)
        /\ \A j \in Legs : Forwarded(j)' <=> Forwarded(j) \/ (j = k /\ "MCP_FORWARD_TX" \in E)
        /\ \A j \in Legs : Gated(j)' <=> Gated(j) \/ (j = k /\ "MCP_FORWARD_GATE" \in E)
    <2>1. \A e, f : \A i, j \in Legs : Audit(e, i) = Audit(f, j) => e = f /\ i = j
      BY DEF Audit
    <2> QED BY <2>1 DEF Ran, Forwarded, Gated, Happened, Events
  <1>2. /\ approvalRow' \in [Legs -> ApprovalRows] /\ waiter' \in [Legs -> Waiters]
        /\ payload' \in Payloads
    BY DEF IngressIInv
  <1>3. \A j \in Legs \ {k} : approvalRow'[j] = approvalRow[j] /\ waiter'[j] = waiter[j]
    BY DEF IngressIInv
  <1>4. \A j \in Legs :
           LegGood(j, leg[j], approvalRow[j], waiter[j], Ran(j), Forwarded(j), Gated(j))
    BY DEF IngressIInv, LegsAreGood
  <1>5. ASSUME NEW j \in Legs
        PROVE  /\ LegGood(j, leg[j], approvalRow[j], waiter[j], Ran(j), Forwarded(j), Gated(j))'
               /\ RowMoves(approvalRow[j], approvalRow'[j])
    <2>1. CASE j = k
      <3>1. approvalRow'[k] = r /\ waiter'[k] = w
        BY DEF IngressIInv
      <3> QED BY <1>1, <2>1, <3>1 DEF LegGood
    <2>2. CASE j # k /\ leg'[j] = leg[j]
      BY <1>1, <1>3, <1>4, <2>2 DEF LegGood, RowMoves
    <2>3. CASE j # k /\ Opened(j)
      <3>1. /\ leg'[j].stage = "received" /\ leg'[j].hop = j - 1 /\ leg'[j].node \in IngressNodes
            /\ leg'[j].outcome = "none"
        BY <2>3, NoLegIsRecord DEF Opened
      <3>2. approvalRow[j] = "none" /\ waiter[j] = "none" /\ ~Ran(j) /\ ~Forwarded(j)
        BY <1>4, <2>3 DEF LegGood, Opened
      <3> QED BY <1>1, <1>3, <2>3, <3>1, <3>2 DEF LegGood, RowMoves
    <2> QED BY <2>1, <2>2, <2>3
  <1>6. LegsFollow'
    <2> SUFFICES ASSUME NEW j \in Legs, j + 1 \in Legs, leg'[j + 1].stage # "none"
                 PROVE  Forwarded(j)'
      BY DEF LegsFollow
    <2>1. j \in Int /\ k \in Int
      BY IngressAssumption DEF Legs, IngressAssumption
    <2>2. leg[j + 1].stage # "none" \/ (j = k /\ "MCP_FORWARD_TX" \in E)
      BY <2>1
    <2> QED BY <1>1, <2>2 DEF IngressIInv, LegsFollow
  <1>7. SuccessRan'
    <2> SUFFICES ASSUME NEW j \in Legs, leg'[j].status = 200
                 PROVE  \E i \in Legs : Ran(i)'
      BY DEF SuccessRan
    <2>1. CASE j = k
      BY <2>1
    <2>2. CASE leg'[j] = leg[j]
      BY <1>1, <2>2 DEF IngressIInv, SuccessRan
    <2>3. CASE Opened(j)
      BY <2>3, NoLegIsRecord DEF Opened
    <2> QED BY <2>1, <2>2, <2>3
  <1> QED BY <1>2, <1>5, <1>6, <1>7 DEF IngressIInv, LegsAreGood, RowsMove

\* The fields of a leg that is answered or sent on.
LEMMA AnsweredFields ==
    ASSUME NEW l \in LegRecord, NEW n \in Nat
    PROVE  /\ Answered(l, n) \in LegRecord
           /\ Answered(l, n).stage = "answered" /\ Answered(l, n).status = n
           /\ Answered(l, n).node = l.node /\ Answered(l, n).hop = l.hop
           /\ Answered(l, n).tier = l.tier /\ Answered(l, n).outcome = l.outcome
  BY DEF LegRecord, Answered, Stages

LEMMA StageFields ==
    ASSUME NEW l \in LegRecord, NEW s \in Stages
    PROVE  /\ [l EXCEPT !.stage = s] \in LegRecord /\ [l EXCEPT !.stage = s].stage = s
           /\ [l EXCEPT !.stage = s].node = l.node /\ [l EXCEPT !.stage = s].hop = l.hop
           /\ [l EXCEPT !.stage = s].tier = l.tier /\ [l EXCEPT !.stage = s].outcome = l.outcome
           /\ [l EXCEPT !.stage = s].status = l.status
  BY DEF LegRecord

LEMMA EventsGrow ==
    \A k, E, e, A : A \union Events(E, k) \union {Audit(e, k)} = A \union Events(E \union {e}, k)
  BY Zenon DEF Events

ReplyKinds == {"MCP_FORWARD_REJECT", "MCP_PROXY_RX"}

LEMMA ReplyEvent == \A k, status : \E e \in ReplyKinds : ReplyAudit(k, status) = Audit(e, k)
  BY DEF ReplyAudit, ReplyKinds

\* A leg is answered, after its gate or without one.
LEMMA AnswerStep ==
    ASSUME IngressIInv, NEW k \in Legs, NEW l \in LegRecord, NEW r \in ApprovalRows, NEW w \in Waiters,
           NEW gate \in SUBSET {"MCP_FORWARD_GATE"}, NEW status \in Nat,
           leg[k].stage # "none", RowMoves(approvalRow[k], r),
           LegGood(k, Answered(l, status), r, w, Ran(k), Forwarded(k), Gated(k)),
           status = 200 => \E j \in Legs : Ran(j),
           leg' = [leg EXCEPT ![k] = Answered(l, status)],
           ingressAudit' = ingressAudit \union Events(gate, k) \union {ReplyAudit(k, status)},
           approvalRow' = [approvalRow EXCEPT ![k] = r],
           waiter' = [waiter EXCEPT ![k] = w], UNCHANGED payload
    PROVE  IngressIInv' /\ RowsMove
  <1>1. PICK ev \in ReplyKinds : ReplyAudit(k, status) = Audit(ev, k)
    BY ReplyEvent
  <1> DEFINE E == gate \union {ev}
             m == Answered(l, status)
  <1>2. ingressAudit' = ingressAudit \union Events(E, k)
    <2>1. ingressAudit \union Events(gate, k) \union {Audit(ev, k)} = ingressAudit \union Events(E, k)
      BY EventsGrow, Zenon
    <2> QED BY <1>1, <2>1, Zenon
  <1>3. m \in LegRecord /\ m.status = status
    BY AnsweredFields
  <1>4. leg' \in [Legs -> LegRecord] /\ leg'[k] = m /\ \A j \in Legs \ {k} : leg'[j] = leg[j]
    BY <1>3 DEF IngressIInv
  <1>5. "MCP_EXEC_LOCAL" \notin E /\ "MCP_FORWARD_TX" \notin E
    BY DEF ReplyKinds
  <1> HIDE DEF m, E
  <1>6. LegGood(k, m, r, w, Ran(k) \/ "MCP_EXEC_LOCAL" \in E,
                Forwarded(k) \/ "MCP_FORWARD_TX" \in E, Gated(k) \/ "MCP_FORWARD_GATE" \in E)
    BY <1>5 DEF LegGood, m
  <1>7. m.status = 200 => \E j \in Legs : Ran(j)'
    <2>1. \A j \in Legs : Ran(j) => Ran(j)'
      BY DEF Ran, Happened
    <2> QED BY <1>3, <2>1
  <1> QED BY <1>2, <1>3, <1>4, <1>6, <1>7, LegMoves

\* The executor, entered by a leg that needs no approval or has it.
LEMMA ExecuteStep ==
    ASSUME IngressIInv, NEW k \in Legs, NEW l \in LegRecord, NEW r \in ApprovalRows, NEW w \in Waiters,
           NEW gate \in SUBSET {"MCP_FORWARD_GATE"},
           leg[k].stage \in {"received", "asking", "approving"},
           l.node = leg[k].node, l.hop = leg[k].hop, l.target \in IngressNodes, l.status = leg[k].status,
           l.tier # "consensus",
           l.tier = "gate" => l.outcome = "approved" /\ r = "approved" /\ "MCP_FORWARD_GATE" \in gate,
           r = "approved" <=> l.outcome = "approved", r = "rejected" => l.outcome = "rejected",
           w \notin {"open", "prompting"}, RowMoves(approvalRow[k], r),
           Execute(k, l, Events(gate, k)),
           approvalRow' = [approvalRow EXCEPT ![k] = r],
           waiter' = [waiter EXCEPT ![k] = w], UNCHANGED payload
    PROVE  IngressIInv' /\ RowsMove
  <1>1. /\ LegGood(k, leg[k], approvalRow[k], waiter[k], Ran(k), Forwarded(k), Gated(k))
        /\ leg \in [Legs -> LegRecord] /\ leg[k] \in LegRecord
    BY DEF IngressIInv, LegsAreGood
  <1>2. l.hop = k - 1 /\ l.node \in IngressNodes /\ ~Ran(k) /\ ~Forwarded(k) /\ leg[k].stage # "none"
    BY <1>1 DEF LegGood
  <1>3. l.hop \in 0..1 /\ k \in Int
    BY IngressAssumption DEF LegRecord, MAX_MCP_FORWARD_HOPS, Legs, IngressAssumption
  <1>4. ASSUME NEW status \in Nat, status # 200, leg' = [leg EXCEPT ![k] = Answered(l, status)],
               ingressAudit' = ingressAudit \union Events(gate, k)
                                            \union {ReplyAudit(k, status)}
        PROVE  IngressIInv' /\ RowsMove
    <2> DEFINE m == Answered(l, status)
    <2>1. /\ m.stage = "answered" /\ m.node = l.node /\ m.hop = l.hop /\ m.tier = l.tier
          /\ m.outcome = l.outcome
      BY AnsweredFields
    <2> HIDE DEF m
    <2>2. LegGood(k, m, r, w, Ran(k), Forwarded(k), Gated(k))
      BY <1>2, <2>1 DEF LegGood
    <2> QED BY <1>2, <1>4, <2>2, AnswerStep DEF m
  <1>5. ASSUME l.node \in SharingNodes, leg' = [leg EXCEPT ![k] = [l EXCEPT !.stage = "running"]],
               ingressAudit' = ingressAudit \union Events(gate, k)
                                            \union {Audit("MCP_EXEC_LOCAL", k)}
        PROVE  IngressIInv' /\ RowsMove
    <2> DEFINE E == gate \union {"MCP_EXEC_LOCAL"}
               m == [l EXCEPT !.stage = "running"]
    <2>1. ingressAudit' = ingressAudit \union Events(E, k)
      <3>1. ingressAudit \union Events(gate, k) \union {Audit("MCP_EXEC_LOCAL", k)} = ingressAudit \union Events(E, k)
        BY EventsGrow, Zenon
      <3> QED BY <1>5, <3>1, Zenon
    <2>2. /\ m \in LegRecord /\ m.stage = "running" /\ m.status = l.status /\ m.node = l.node
          /\ m.hop = l.hop /\ m.tier = l.tier /\ m.outcome = l.outcome
      BY StageFields DEF Stages
    <2>3. leg' \in [Legs -> LegRecord] /\ leg'[k] = m /\ \A j \in Legs \ {k} : leg'[j] = leg[j]
      BY <1>1, <1>5, <2>2
    <2>4. /\ "MCP_EXEC_LOCAL" \in E /\ "MCP_FORWARD_TX" \notin E
          /\ "MCP_FORWARD_GATE" \in gate => "MCP_FORWARD_GATE" \in E
      OBVIOUS
    <2>5. Ran(k)'
      BY <1>5 DEF Ran, Happened
    <2> HIDE DEF m, E
    <2>6. LegGood(k, m, r, w, Ran(k) \/ "MCP_EXEC_LOCAL" \in E,
                  Forwarded(k) \/ "MCP_FORWARD_TX" \in E, Gated(k) \/ "MCP_FORWARD_GATE" \in E)
      BY <1>2, <1>5, <2>2, <2>4 DEF LegGood
    <2> QED BY <1>2, <2>1, <2>2, <2>3, <2>5, <2>6, LegMoves
  <1>6. ASSUME l.hop < MAX_MCP_FORWARD_HOPS,
               leg' = [leg EXCEPT ![k] = [l EXCEPT !.stage = "forwarding"],
                                  ![k + 1] = Arrives(l.target, l.hop + 1)],
               ingressAudit' = ingressAudit \union Events(gate, k)
                                            \union {Audit("MCP_FORWARD_TX", k)}
        PROVE  IngressIInv' /\ RowsMove
    <2> DEFINE E == gate \union {"MCP_FORWARD_TX"}
               m == [l EXCEPT !.stage = "forwarding"]
    <2>1. ingressAudit' = ingressAudit \union Events(E, k)
      <3>1. ingressAudit \union Events(gate, k) \union {Audit("MCP_FORWARD_TX", k)} = ingressAudit \union Events(E, k)
        BY EventsGrow, Zenon
      <3> QED BY <1>6, <3>1, Zenon
    <2>2. /\ m \in LegRecord /\ m.stage = "forwarding" /\ m.status = l.status /\ m.node = l.node
          /\ m.hop = l.hop /\ m.tier = l.tier /\ m.outcome = l.outcome
      BY StageFields DEF Stages
    <2>3. /\ "MCP_EXEC_LOCAL" \notin E /\ "MCP_FORWARD_TX" \in E
          /\ "MCP_FORWARD_GATE" \in gate => "MCP_FORWARD_GATE" \in E
      OBVIOUS
    <2>4. k = 1 /\ k + 1 \in Legs /\ k + 1 # k /\ l.hop + 1 = 1 /\ (k + 1) - 1 = 1
      BY <1>2, <1>3, <1>6, IngressAssumption DEF MAX_MCP_FORWARD_HOPS, Legs, IngressAssumption
    <2>5. leg[k + 1].stage = "none"
      BY <1>2, <2>4 DEF IngressIInv, LegsFollow
    <2> HIDE DEF m, E
    <2> DEFINE a == Arrives(l.target, 1)
    <2>6. a \in LegRecord
      BY NoLegIsRecord DEF MAX_MCP_FORWARD_HOPS
    <2>7. leg' = [leg EXCEPT ![k] = m, ![k + 1] = a]
      BY <1>6, <2>4 DEF m
    <2> HIDE DEF a
    <2>8. leg' \in [Legs -> LegRecord] /\ leg'[k] = m /\ leg'[k + 1] = a
          /\ \A j \in Legs \ {k} : j # k + 1 => leg'[j] = leg[j]
      BY <1>1, <2>2, <2>4, <2>6, <2>7
    <2>9. Opened(k + 1)
      BY <2>4, <2>5, <2>8 DEF Opened, a, MAX_MCP_FORWARD_HOPS
    <2>10. LegGood(k, m, r, w, Ran(k) \/ "MCP_EXEC_LOCAL" \in E,
                  Forwarded(k) \/ "MCP_FORWARD_TX" \in E, Gated(k) \/ "MCP_FORWARD_GATE" \in E)
      BY <1>2, <2>2, <2>3, <2>4 DEF LegGood
    <2>11. m.status = 200 => \E j \in Legs : Ran(j)'
      <3>1. m.status = 200 => \E j \in Legs : Ran(j)
        <4>1. leg[k].status = 200 => \E j \in Legs : Ran(j)
          BY DEF IngressIInv, SuccessRan
        <4> QED BY <2>2, <4>1, Zenon
      <3>2. \A j \in Legs : Ran(j) => Ran(j)'
        BY <1>6 DEF Ran, Happened
      <3> QED BY <3>1, <3>2
    <2> QED BY <1>2, <2>1, <2>2, <2>3, <2>8, <2>9, <2>10, <2>11, LegMoves
  <1> QED BY <1>3, <1>4, <1>5, <1>6 DEF Execute, MAX_MCP_FORWARD_HOPS

LEMMA ReplyStep ==
    ASSUME IngressIInv, NEW k \in Legs, NEW status \in Nat,
           leg[k].stage \in {"received", "running", "forwarding"},
           status = 200 => \E j \in Legs : Ran(j),
           Reply(k, status), UNCHANGED <<payload, approvalRow, waiter>>
    PROVE  IngressIInv' /\ RowsMove
  <1> DEFINE l == leg[k]
             r == approvalRow[k]
             w == waiter[k]
  <1>1. /\ LegGood(k, l, r, w, Ran(k), Forwarded(k), Gated(k))
        /\ l \in LegRecord /\ r \in ApprovalRows /\ w \in Waiters
    BY DEF IngressIInv, LegsAreGood
  <1>2. /\ leg' = [leg EXCEPT ![k] = Answered(l, status)]
        /\ ingressAudit' = ingressAudit \union Events({}, k) \union {ReplyAudit(k, status)}
    BY DEF Reply, Events
  <1>3. approvalRow' = [approvalRow EXCEPT ![k] = r] /\ waiter' = [waiter EXCEPT ![k] = w]
    BY DEF IngressIInv
  <1> DEFINE m == Answered(l, status)
  <1>4. /\ m.stage = "answered" /\ m.node = l.node /\ m.hop = l.hop /\ m.tier = l.tier
        /\ m.outcome = l.outcome
    BY <1>1, AnsweredFields
  <1>5. l.stage \in {"received", "running", "forwarding"}
    OBVIOUS
  <1>6. RowMoves(approvalRow[k], r)
    BY DEF RowMoves
  <1> HIDE DEF l, r, w, m
  <1>7. LegGood(k, m, r, w, Ran(k), Forwarded(k), Gated(k))
    BY <1>1, <1>4, <1>5 DEF LegGood
  <1>8. leg[k].stage # "none"
    BY <1>5 DEF l
  <1> QED BY <1>1, <1>2, <1>3, <1>6, <1>7, <1>8, AnswerStep DEF m

\* The continuation of a leg with the resolver's answer.
LEMMA DecidedStep ==
    ASSUME IngressIInv, NEW k \in Legs, NEW raw, NEW r \in ApprovalRows, NEW w \in Waiters,
           leg[k].stage \in {"asking", "approving"},
           r = "approved" <=> raw = "approved", r = "rejected" => raw = "rejected",
           w # "open", w = "prompting" => raw = "timeout", RowMoves(approvalRow[k], r),
           Decided(k, raw), approvalRow' = [approvalRow EXCEPT ![k] = r],
           waiter' = [waiter EXCEPT ![k] = w], UNCHANGED payload
    PROVE  IngressIInv' /\ RowsMove
  <1> DEFINE outcome == normalizeDecision(raw)
             l == [leg[k] EXCEPT !.outcome = outcome]
             gate == {"MCP_FORWARD_GATE"}
  <1>1. /\ LegGood(k, leg[k], approvalRow[k], waiter[k], Ran(k), Forwarded(k), Gated(k))
        /\ leg[k] \in LegRecord
    BY DEF IngressIInv, LegsAreGood
  <1>2. /\ outcome \in Outcomes /\ (outcome = "approved" <=> raw = "approved")
        /\ raw \in {"rejected", "timeout"} => outcome = raw
    BY DEF normalizeDecision, Outcomes
  <1>3. {Audit("MCP_FORWARD_GATE", k)} = Events(gate, k)
    BY Zenon DEF Events
  <1>4. /\ isApproved(outcome) => Execute(k, l, Events(gate, k))
        /\ ~isApproved(outcome) =>
              /\ leg' = [leg EXCEPT ![k] = Answered(l, 403)]
              /\ ingressAudit' = ingressAudit \union Events(gate, k) \union {ReplyAudit(k, 403)}
    BY <1>3, Zenon DEF Decided
  <1> HIDE DEF outcome
  <1>5. /\ l \in LegRecord /\ l.stage = leg[k].stage /\ l.node = leg[k].node /\ l.hop = leg[k].hop
        /\ l.target = leg[k].target /\ l.tier = leg[k].tier /\ l.outcome = outcome
        /\ l.status = leg[k].status
    BY <1>1, <1>2 DEF LegRecord
  <1> HIDE DEF l
  <1>6. l.tier = "gate" /\ leg[k].stage # "none"
    BY <1>1, <1>5 DEF LegGood
  <1>7. CASE outcome = "approved"
    <2>1. r = "approved" /\ w \notin {"open", "prompting"} /\ Execute(k, l, Events(gate, k))
      BY <1>2, <1>4, <1>7 DEF isApproved
    <2>2. gate \in SUBSET {"MCP_FORWARD_GATE"} /\ "MCP_FORWARD_GATE" \in gate
      OBVIOUS
    <2> HIDE DEF gate
    <2>3. l.target \in IngressNodes
      BY <1>1, <1>5 DEF LegGood
    <2>4. leg[k].stage \in {"received", "asking", "approving"} /\ l.tier # "consensus"
      BY <1>6
    <2> QED BY <1>5, <1>7, <2>1, <2>2, <2>3, <2>4, ExecuteStep
  <1>8. CASE outcome # "approved"
    <2> DEFINE n == 403
               m == Answered(l, n)
    <2>0. n \in Nat /\ n # 200
      OBVIOUS
    <2>1. /\ m.stage = "answered" /\ m.node = l.node /\ m.hop = l.hop /\ m.tier = l.tier
          /\ m.outcome = l.outcome
      BY <1>5, AnsweredFields
    <2>2. /\ leg' = [leg EXCEPT ![k] = m]
          /\ ingressAudit' = ingressAudit \union Events(gate, k) \union {ReplyAudit(k, n)}
      BY <1>4, <1>8 DEF isApproved
    <2>3. gate \in SUBSET {"MCP_FORWARD_GATE"}
      OBVIOUS
    <2> HIDE DEF n, m, gate
    <2>4. l.hop = k - 1 /\ l.node \in IngressNodes /\ ~Ran(k) /\ ~Forwarded(k)
      BY <1>1, <1>5 DEF LegGood
    <2>5. LegGood(k, m, r, w, Ran(k), Forwarded(k), Gated(k))
      BY <1>2, <1>5, <1>8, <2>1, <2>4 DEF LegGood
    <2> QED BY <1>5, <1>6, <2>0, <2>2, <2>3, <2>5, AnswerStep DEF m
  <1> QED BY <1>7, <1>8

\* A leg moves without a word to the audit log.
LEMMA QuietStep ==
    ASSUME IngressIInv, NEW k \in Legs, NEW l \in LegRecord, NEW r \in ApprovalRows, NEW w \in Waiters,
           leg[k].stage # "none", RowMoves(approvalRow[k], r), l.status = leg[k].status,
           LegGood(k, l, r, w, Ran(k), Forwarded(k), Gated(k)),
           leg' = [leg EXCEPT ![k] = l], approvalRow' = [approvalRow EXCEPT ![k] = r],
           waiter' = [waiter EXCEPT ![k] = w], UNCHANGED <<payload, ingressAudit>>
    PROVE  IngressIInv' /\ RowsMove
  <1> DEFINE E == {}
  <1>1. ingressAudit' = ingressAudit \union Events(E, k)
    BY DEF Events
  <1>2. leg' \in [Legs -> LegRecord] /\ leg'[k] = l /\ \A j \in Legs \ {k} : leg'[j] = leg[j]
    BY DEF IngressIInv
  <1>3. LegGood(k, l, r, w, Ran(k) \/ "MCP_EXEC_LOCAL" \in E,
                Forwarded(k) \/ "MCP_FORWARD_TX" \in E, Gated(k) \/ "MCP_FORWARD_GATE" \in E)
    BY DEF LegGood
  <1> HIDE DEF E
  <1>4. l.status = 200 => \E j \in Legs : Ran(j)'
    <2>1. leg[k].status = 200 => \E j \in Legs : Ran(j)
      BY DEF IngressIInv, SuccessRan
    <2>2. \A j \in Legs : Ran(j) => Ran(j)'
      BY DEF Ran, Happened
    <2> QED BY <2>1, <2>2
  <1> QED BY <1>1, <1>2, <1>3, <1>4, LegMoves

LEMMA TierTypes ==
    /\ \A permissions \in SUBSET Permissions, trust \in 1..3 :
          deriveExecutionTier(permissions, trust) \in Tiers
    /\ \A p : deriveToolTierForServer(p) \in Tiers
    /\ \A a, b \in Tiers : maxTier(a, b) \in Tiers
  <1>1. ASSUME NEW permissions \in SUBSET Permissions, NEW trust \in 1..3
        PROVE  deriveExecutionTier(permissions, trust) \in Tiers
    <2> DEFINE named == {IF p = "unknown" THEN "gate" ELSE p : p \in permissions}
               top(t) == \A u \in named : Rank[t] >= Rank[u]
               highest == CHOOSE t \in named \union {"self"} : top(t)
    <2>1. named \subseteq Tiers
      BY DEF Permissions, Tiers
    <2>2. Rank["self"] = 0 /\ Rank["gate"] = 1 /\ Rank["consensus"] = 2
      BY DEF Rank, Tiers
    <2> HIDE DEF named
    <2>3. \E t \in named \union {"self"} : top(t)
      <3>1. CASE "consensus" \in named
        BY <2>1, <2>2, <3>1 DEF Tiers
      <3>2. CASE "consensus" \notin named /\ "gate" \in named
        BY <2>1, <2>2, <3>2 DEF Tiers
      <3>3. CASE "consensus" \notin named /\ "gate" \notin named
        BY <2>1, <2>2, <3>3 DEF Tiers
      <3> QED BY <3>1, <3>2, <3>3
    <2> HIDE DEF top
    <2>4. highest \in named \union {"self"}
      BY <2>3
    <2>5. highest \in Tiers
      BY <2>1, <2>4 DEF Tiers
    <2> HIDE DEF highest
    <2>6. deriveExecutionTier(permissions, trust) \in {highest, "gate"}
      BY DEF deriveExecutionTier, highest, top, named
    <2> QED BY <2>5, <2>6 DEF Tiers
  <1>2. \A a, b \in Tiers : maxTier(a, b) \in Tiers
    BY DEF maxTier
  <1>3. ASSUME NEW p
        PROVE  deriveToolTierForServer(p) \in Tiers
    <2>1. deriveToolTier(p) \in Tiers
      BY DEF deriveToolTier, Tiers
    <2> QED BY <1>2, <2>1 DEF deriveToolTierForServer, Tiers
  <1> QED BY <1>1, <1>2, <1>3

LEMMA RouteType ==
    \A caps \in [IngressNodes -> CapabilityHealth], self \in IngressNodes :
        planMcpRoute(caps, self) \subseteq IngressNodes
  BY DEF planMcpRoute, resolveMcp

\* A client's request opens the first leg.
LEMMA CallStep ==
    ASSUME IngressIInv, NEW n \in IngressNodes, CallMcpProxy(n)
    PROVE  IngressIInv' /\ RowsMove
  <1>0. 1 \in Legs /\ 0 \in 0..MAX_MCP_FORWARD_HOPS
    BY IngressAssumption DEF Legs, IngressAssumption, MAX_MCP_FORWARD_HOPS
  <1> DEFINE a == Arrives(n, 0)
  <1>1. /\ a \in LegRecord /\ a.stage = "received" /\ a.node = n /\ a.hop = 0
        /\ a.outcome = "none" /\ a.status = 0
    BY <1>0, NoLegIsRecord
  <1>2. /\ leg[1].stage = "none" /\ leg' = [leg EXCEPT ![1] = a] /\ payload' \in Payloads
        /\ UNCHANGED <<approvalRow, waiter, ingressAudit>>
    BY DEF CallMcpProxy
  <1> HIDE DEF a
  <1>3. /\ leg' \in [Legs -> LegRecord] /\ leg'[1] = a
        /\ \A j \in Legs \ {1} : leg'[j] = leg[j]
    BY <1>0, <1>1, <1>2 DEF IngressIInv
  <1>4. \A j \in Legs : (Ran(j)' <=> Ran(j)) /\ (Forwarded(j)' <=> Forwarded(j))
                        /\ (Gated(j)' <=> Gated(j))
    BY <1>2 DEF Ran, Forwarded, Gated, Happened
  <1>5. ASSUME NEW j \in Legs
        PROVE  LegGood(j, leg[j], approvalRow[j], waiter[j], Ran(j), Forwarded(j), Gated(j))'
    <2>1. LegGood(j, leg[j], approvalRow[j], waiter[j], Ran(j), Forwarded(j), Gated(j))
      BY DEF IngressIInv, LegsAreGood
    <2>2. CASE j = 1
      BY <1>1, <1>2, <1>3, <1>4, <2>1, <2>2 DEF LegGood
    <2>3. CASE j # 1
      BY <1>2, <1>3, <1>4, <2>1, <2>3 DEF LegGood
    <2> QED BY <2>2, <2>3
  <1>6. LegsFollow'
    <2> SUFFICES ASSUME NEW j \in Legs, j + 1 \in Legs, leg'[j + 1].stage # "none"
                 PROVE  Forwarded(j)'
      BY DEF LegsFollow
    <2>1. j + 1 # 1
      BY IngressAssumption DEF Legs, IngressAssumption
    <2> QED BY <1>3, <1>4, <2>1 DEF IngressIInv, LegsFollow
  <1>7. SuccessRan'
    <2>1. \A j \in Legs : leg'[j].status = 200 => leg[j].status = 200
      BY <1>1, <1>3
    <2> QED BY <1>4, <2>1 DEF IngressIInv, SuccessRan
  <1>8. /\ payload' \in Payloads /\ approvalRow' \in [Legs -> ApprovalRows] /\ waiter' \in [Legs -> Waiters]
        /\ RowsMove
    BY <1>2 DEF IngressIInv, RowsMove, RowMoves
  <1> QED BY <1>3, <1>5, <1>6, <1>7, <1>8 DEF IngressIInv, LegsAreGood

\* The first part of the handler, up to the question whether to ask.
LEMMA HandleStep ==
    ASSUME IngressIInv, NEW k \in Legs, HandleMcpIngress(k)
    PROVE  IngressIInv' /\ RowsMove
  <1>1. leg[k].stage = "received" /\ UNCHANGED <<payload, approvalRow, waiter>>
    BY DEF HandleMcpIngress
  <1>2. /\ LegGood(k, leg[k], approvalRow[k], waiter[k], Ran(k), Forwarded(k), Gated(k))
        /\ leg[k] \in LegRecord
    BY DEF IngressIInv, LegsAreGood
  <1>3. /\ leg[k].outcome = "none" /\ approvalRow[k] = "none" /\ waiter[k] = "none"
        /\ leg[k].node \in IngressNodes /\ leg[k].hop = k - 1 /\ ~Ran(k) /\ ~Forwarded(k)
        /\ leg[k].stage # "none"
    BY <1>1, <1>2 DEF LegGood
  <1>4. ASSUME NEW status \in {403, 503}, Reply(k, status)
        PROVE  IngressIInv' /\ RowsMove
    BY <1>1, <1>4, ReplyStep
  <1>5. ASSUME NEW target \in UNION {planMcpRoute(caps, leg[k].node) :
                                     caps \in [IngressNodes -> CapabilityHealth]},
               NEW permissions \in SUBSET Permissions, NEW trust \in 1..3
        PROVE  /\ target \in IngressNodes
               /\ maxTier(deriveExecutionTier(permissions, trust), deriveToolTierForServer(payload))
                     \in Tiers
    BY <1>3, RouteType, TierTypes
  <1> DEFINE toTier(tier, target) == [leg[k] EXCEPT !.target = target, !.tier = tier]
  <1>6. ASSUME NEW tier \in Tiers, NEW target \in IngressNodes,
               \/ tier = "self" /\ Execute(k, toTier(tier, target), {})
               \/ tier = "gate"
                  /\ leg' = [leg EXCEPT ![k] = [toTier(tier, target) EXCEPT !.stage = "asking",
                                                                            !.channel = 1]]
                  /\ UNCHANGED ingressAudit
               \/ Reply(k, 403)
        PROVE  IngressIInv' /\ RowsMove
    <2> DEFINE l == toTier(tier, target)
               a == [l EXCEPT !.stage = "asking", !.channel = 1]
    <2>1. /\ l \in LegRecord /\ l.node = leg[k].node /\ l.hop = leg[k].hop /\ l.target = target
          /\ l.tier = tier /\ l.outcome = leg[k].outcome /\ l.status = leg[k].status
      BY <1>2 DEF LegRecord
    <2>2. /\ a \in LegRecord /\ a.stage = "asking" /\ a.node = l.node /\ a.hop = l.hop
          /\ a.target = l.target /\ a.tier = l.tier /\ a.outcome = l.outcome /\ a.status = l.status
      <3> HIDE DEF l
      <3> QED BY <2>1 DEF LegRecord, Stages
    <2>3. CASE tier = "self" /\ Execute(k, l, {})
      <3> DEFINE r == "none"
                 w == "none"
                 gate == {}
      <3>1. /\ approvalRow' = [approvalRow EXCEPT ![k] = r] /\ waiter' = [waiter EXCEPT ![k] = w]
            /\ RowMoves(approvalRow[k], r) /\ r \in ApprovalRows /\ w \in Waiters
        BY <1>1, <1>3 DEF IngressIInv, RowMoves, ApprovalRows, Waiters
      <3>2. Execute(k, l, Events(gate, k)) /\ gate \in SUBSET {"MCP_FORWARD_GATE"}
        <4>1. Events(gate, k) = {}
          BY DEF Events
        <4> HIDE DEF l
        <4> QED BY <2>3, <4>1
      <3>3. /\ w \notin {"open", "prompting"} /\ r # "approved" /\ r # "rejected"
            /\ l.outcome # "approved" /\ l.tier \notin {"gate", "consensus"}
        BY <1>3, <2>1, <2>3
      <3> HIDE DEF l, gate, r, w
      <3>4. leg[k].stage \in {"received", "asking", "approving"} /\ UNCHANGED payload
        BY <1>1
      <3> QED BY <2>1, <3>1, <3>2, <3>3, <3>4, ExecuteStep
    <2>4. CASE tier = "gate" /\ leg' = [leg EXCEPT ![k] = a] /\ UNCHANGED ingressAudit
      <3> HIDE DEF l, a
      <3> DEFINE r == "none"
                 w == "none"
      <3>1. /\ approvalRow' = [approvalRow EXCEPT ![k] = r] /\ waiter' = [waiter EXCEPT ![k] = w]
            /\ RowMoves(approvalRow[k], r) /\ r \in ApprovalRows /\ w \in Waiters
        BY <1>1, <1>3 DEF IngressIInv, RowMoves, ApprovalRows, Waiters
      <3>2. LegGood(k, a, r, w, Ran(k), Forwarded(k), Gated(k))
        BY <1>3, <2>1, <2>2, <2>4 DEF LegGood
      <3>3. a.status = leg[k].status
        BY <2>1, <2>2
      <3> HIDE DEF r, w
      <3> QED BY <1>1, <1>3, <2>2, <2>4, <3>1, <3>2, <3>3, QuietStep
    <2> QED BY <1>4, <1>6, <2>3, <2>4
  <1> HIDE DEF toTier
  <1>7. ASSUME NEW target \in UNION {planMcpRoute(caps, leg[k].node) :
                                     caps \in [IngressNodes -> CapabilityHealth]},
               NEW permissions \in SUBSET Permissions, NEW trust \in 1..3, NEW endpoint \in Endpoints,
               LET tier == maxTier(deriveExecutionTier(permissions, trust),
                                   deriveToolTierForServer(payload))
                   routed0 == [leg[k] EXCEPT !.target = target, !.tier = tier]
                   spec == buildMcpForwardSpec(target, leg[k].node, endpoint)
               IN  IF buildMcpForwardDispatch(spec) = "none"
                   THEN Reply(k, 503)
                   ELSE \/ enforceExecutionTier(tier) /\ Execute(k, routed0, {})
                        \/ tier = "gate" /\ leg[k].node \in ApprovalNodes
                           /\ leg' = [leg EXCEPT ![k] = [routed0 EXCEPT !.stage = "asking",
                                                                        !.channel = 1]]
                           /\ UNCHANGED ingressAudit
                        \/ tier = "gate" /\ leg[k].node \notin ApprovalNodes /\ Reply(k, 403)
                        \/ tier = "consensus" /\ Reply(k, 403)
        PROVE  IngressIInv' /\ RowsMove
    <2> DEFINE tier == maxTier(deriveExecutionTier(permissions, trust),
                               deriveToolTierForServer(payload))
    <2>2. target \in IngressNodes /\ tier \in Tiers
      BY <1>5
    <2>3. \/ Reply(k, 503) \/ Reply(k, 403)
          \/ enforceExecutionTier(tier) /\ Execute(k, toTier(tier, target), {})
          \/ tier = "gate"
             /\ leg' = [leg EXCEPT ![k] = [toTier(tier, target) EXCEPT !.stage = "asking",
                                                                       !.channel = 1]]
             /\ UNCHANGED ingressAudit
      BY <1>7, Zenon DEF toTier
    <2> HIDE DEF tier
    <2>4. enforceExecutionTier(tier) => tier = "self"
      BY DEF enforceExecutionTier
    <2> QED BY <1>4, <1>6, <2>2, <2>3, <2>4
  <1> QED BY <1>4, <1>7, ZenonT(120) DEF HandleMcpIngress

\* The approval: asking, prompting, deciding.
LEMMA ApprovalStep ==
    ASSUME IngressIInv, NEW k \in Legs,
           \/ NoChannelLeft(k) \/ ChannelUnhealthy(k) \/ RequestApproval(k) \/ PromptSent(k)
           \/ PromptFails(k) \/ Click(k) \/ ApprovalTimeout(k) \/ ChannelMisbehaves(k)
           \/ StopChannel(k)
    PROVE  IngressIInv' /\ RowsMove
  <1>1. /\ LegGood(k, leg[k], approvalRow[k], waiter[k], Ran(k), Forwarded(k), Gated(k))
        /\ leg[k] \in LegRecord /\ approvalRow[k] \in ApprovalRows /\ waiter[k] \in Waiters
        /\ leg \in [Legs -> LegRecord] /\ approvalRow \in [Legs -> ApprovalRows]
        /\ waiter \in [Legs -> Waiters]
    BY DEF IngressIInv, LegsAreGood
  <1>2. /\ leg[k].stage \in {"asking", "approving"} => leg[k].outcome = "none" /\ leg[k].stage # "none"
        /\ leg[k].stage = "asking" => approvalRow[k] = "none" /\ waiter[k] = "none"
        /\ leg[k].stage = "approving" => approvalRow[k] = "pending"
        /\ waiter[k] = "open" => leg[k].stage = "approving"
        /\ waiter[k] = "prompting" => /\ leg[k].stage # "none"
                                      /\ leg[k].stage = "approving" \/ leg[k].outcome = "timeout"
        /\ waiter[k] = "prompting" /\ leg[k].outcome = "none" => leg[k].stage = "approving"
    BY <1>1 DEF LegGood
  <1>3. ASSUME NEW raw, NEW r \in ApprovalRows, NEW w \in Waiters,
               leg[k].stage \in {"asking", "approving"}, Decided(k, raw), UNCHANGED payload,
               approvalRow' = [approvalRow EXCEPT ![k] = r], waiter' = [waiter EXCEPT ![k] = w],
               RowMoves(approvalRow[k], r), r = "approved" <=> raw = "approved",
               r = "rejected" => raw = "rejected", w # "open", w = "prompting" => raw = "timeout"
        PROVE  IngressIInv' /\ RowsMove
    BY <1>3, DecidedStep
  \* The leg is decided, its row left as it was.
  <1>4. ASSUME NEW raw, NEW w \in Waiters, leg[k].stage \in {"asking", "approving"}, Decided(k, raw),
               UNCHANGED <<payload, approvalRow>>, waiter' = [waiter EXCEPT ![k] = w],
               raw # "approved", w # "open", w = "prompting" => raw = "timeout"
        PROVE  IngressIInv' /\ RowsMove
    <2>1. approvalRow[k] \notin {"approved", "rejected"}
      BY <1>2, <1>4
    <2>2. approvalRow' = [approvalRow EXCEPT ![k] = approvalRow[k]] /\ RowMoves(approvalRow[k], approvalRow[k])
      BY <1>1, <1>4 DEF RowMoves
    <2> QED BY <1>1, <1>3, <1>4, <2>1, <2>2
  \* Only the waiter moves.
  <1>5. ASSUME NEW w \in Waiters, UNCHANGED <<payload, leg, approvalRow, ingressAudit>>,
               waiter' = [waiter EXCEPT ![k] = w], waiter[k] \in {"prompting", "open"},
               w = "open" => leg[k].stage = "approving", w # "prompting", w # "none"
        PROVE  IngressIInv' /\ RowsMove
    <2> DEFINE l == leg[k]
               r == approvalRow[k]
    <2>1. /\ leg' = [leg EXCEPT ![k] = l] /\ approvalRow' = [approvalRow EXCEPT ![k] = r]
          /\ RowMoves(approvalRow[k], r) /\ leg[k].stage # "none"
      BY <1>1, <1>2, <1>5 DEF RowMoves
    <2>2. LegGood(k, l, r, w, Ran(k), Forwarded(k), Gated(k))
      BY <1>1, <1>5 DEF LegGood
    <2>3. l \in LegRecord /\ r \in ApprovalRows /\ l.status = leg[k].status
      BY <1>1
    <2> HIDE DEF l, r
    <2> QED BY <1>5, <2>1, <2>2, <2>3, QuietStep
  <1>6. CASE NoChannelLeft(k)
    <2>1. /\ leg[k].stage = "asking" /\ Decided(k, "denied-no-channel")
          /\ UNCHANGED <<payload, approvalRow, waiter>>
      BY <1>6 DEF NoChannelLeft
    <2>2. waiter' = [waiter EXCEPT ![k] = "none"] /\ "none" \in Waiters
      BY <1>1, <1>2, <2>1 DEF Waiters
    <2> QED BY <1>4, <2>1, <2>2
  <1>7. CASE ChannelUnhealthy(k)
    <2> DEFINE l == [leg[k] EXCEPT !.channel = @ + 1]
               r == approvalRow[k]
               w == waiter[k]
    <2>1. /\ leg[k].stage = "asking" /\ leg' = [leg EXCEPT ![k] = l]
          /\ UNCHANGED <<payload, approvalRow, waiter, ingressAudit>>
      BY <1>7 DEF ChannelUnhealthy
    <2>2. /\ l \in LegRecord /\ l.stage = leg[k].stage /\ l.node = leg[k].node /\ l.hop = leg[k].hop
          /\ l.target = leg[k].target /\ l.tier = leg[k].tier /\ l.outcome = leg[k].outcome
          /\ l.status = leg[k].status
      BY <1>1 DEF LegRecord
    <2> HIDE DEF l
    <2>3. LegGood(k, l, r, w, Ran(k), Forwarded(k), Gated(k))
      BY <1>1, <2>2 DEF LegGood
    <2>4. /\ approvalRow' = [approvalRow EXCEPT ![k] = r] /\ waiter' = [waiter EXCEPT ![k] = w]
          /\ RowMoves(approvalRow[k], r) /\ leg[k].stage # "none" /\ r \in ApprovalRows /\ w \in Waiters
      BY <1>1, <2>1 DEF RowMoves
    <2> HIDE DEF r, w
    <2> QED BY <2>1, <2>2, <2>3, <2>4, QuietStep
  <1>8. CASE RequestApproval(k)
    <2>1. leg[k].stage = "asking" /\ UNCHANGED payload
      BY <1>8 DEF RequestApproval
    <2>2. CASE Decided(k, "error") /\ UNCHANGED <<approvalRow, waiter>>
      <3>1. waiter' = [waiter EXCEPT ![k] = "none"] /\ "none" \in Waiters
        BY <1>1, <1>2, <2>1, <2>2 DEF Waiters
      <3> QED BY <1>4, <2>1, <2>2, <3>1
    <2>3. CASE /\ leg' = [leg EXCEPT ![k].stage = "approving"]
               /\ approvalRow' = [approvalRow EXCEPT ![k] = "pending"]
               /\ waiter' = [waiter EXCEPT ![k] = "prompting"]
               /\ UNCHANGED ingressAudit
      <3> DEFINE l == [leg[k] EXCEPT !.stage = "approving"]
                 r == "pending"
                 w == "prompting"
      <3>1. /\ l \in LegRecord /\ l.stage = "approving" /\ l.node = leg[k].node /\ l.hop = leg[k].hop
            /\ l.target = leg[k].target /\ l.tier = leg[k].tier /\ l.outcome = leg[k].outcome
            /\ l.status = leg[k].status
        BY <1>1 DEF LegRecord, Stages
      <3>2. leg' = [leg EXCEPT ![k] = l]
        BY <2>3
      <3> HIDE DEF l
      <3>3. LegGood(k, l, r, w, Ran(k), Forwarded(k), Gated(k))
        BY <1>1, <2>1, <3>1 DEF LegGood
      <3>4. /\ r \in ApprovalRows /\ w \in Waiters /\ RowMoves(approvalRow[k], r) /\ leg[k].stage # "none"
            /\ approvalRow' = [approvalRow EXCEPT ![k] = r] /\ waiter' = [waiter EXCEPT ![k] = w]
        BY <1>2, <2>1, <2>3 DEF ApprovalRows, Waiters, RowMoves, ApprovalStatus
      <3> HIDE DEF r, w
      <3> QED BY <2>1, <2>3, <3>1, <3>2, <3>3, <3>4, QuietStep
    <2> QED BY <1>8, <2>2, <2>3 DEF RequestApproval
  <1>9. CASE PromptSent(k)
    <2> DEFINE w == IF leg[k].outcome = "timeout" THEN "closed" ELSE "open"
    <2>1. /\ waiter[k] = "prompting" /\ waiter' = [waiter EXCEPT ![k] = w]
          /\ UNCHANGED <<payload, leg, approvalRow, ingressAudit>>
      BY <1>9 DEF PromptSent
    <2>2. /\ w \in Waiters /\ w # "prompting" /\ w # "none"
          /\ w = "open" => leg[k].stage = "approving"
      BY <1>2, <2>1 DEF Waiters
    <2> HIDE DEF w
    <2> QED BY <1>5, <2>1, <2>2
  <1>10. CASE PromptFails(k) \/ ChannelMisbehaves(k) \/ StopChannel(k)
    <2>1. /\ waiter[k] \in {"prompting", "open"} /\ waiter' = [waiter EXCEPT ![k] = "closed"]
          /\ "closed" \in Waiters /\ UNCHANGED <<payload, approvalRow>>
      BY <1>10 DEF PromptFails, ChannelMisbehaves, StopChannel, Waiters
    <2>2. \/ UNCHANGED <<leg, ingressAudit>>
          \/ leg[k].stage = "approving" /\ (Decided(k, "error") \/ Decided(k, "undefined"))
      BY <1>2, <1>10 DEF PromptFails, ChannelMisbehaves, StopChannel
    <2> QED BY <1>4, <1>5, <2>1, <2>2
  <1>11. CASE Click(k)
    <2>1. /\ waiter[k] = "open" /\ waiter' = [waiter EXCEPT ![k] = "closed"]
          /\ "closed" \in Waiters /\ UNCHANGED payload
      BY <1>11 DEF Click, Waiters
    <2>2. leg[k].stage = "approving" /\ leg[k].outcome = "none" /\ approvalRow[k] = "pending"
      BY <1>2, <2>1
    <2>3. PICK status \in {"approved", "rejected"} :
            \/ approvalRow' = [approvalRow EXCEPT ![k] = status] /\ Decided(k, status)
            \/ UNCHANGED approvalRow /\ Decided(k, "error")
      BY <1>11, <2>2 DEF Click, decide
    <2>4. CASE UNCHANGED approvalRow /\ Decided(k, "error")
      BY <1>4, <2>1, <2>2, <2>4
    <2>5. CASE approvalRow' = [approvalRow EXCEPT ![k] = status] /\ Decided(k, status)
      <3>1. status \in ApprovalRows /\ RowMoves(approvalRow[k], status)
        BY <2>2 DEF ApprovalRows, ApprovalStatus, RowMoves
      <3> QED BY <1>3, <2>1, <2>2, <2>5, <3>1
    <2> QED BY <2>3, <2>4, <2>5
  <1>12. CASE ApprovalTimeout(k)
    <2> DEFINE w == IF waiter[k] = "open" THEN "closed" ELSE waiter[k]
    <2>1. /\ leg[k].stage = "approving" /\ waiter' = [waiter EXCEPT ![k] = w]
          /\ Decided(k, "timeout") /\ UNCHANGED <<payload, approvalRow>>
      BY <1>12 DEF ApprovalTimeout
    <2>2. w \in Waiters /\ w # "open"
      BY <1>1 DEF Waiters
    <2> HIDE DEF w
    <2> QED BY <1>4, <2>1, <2>2
  <1> QED BY <1>6, <1>7, <1>8, <1>9, <1>10, <1>11, <1>12

LEMMA IngressStep ==
    ASSUME IngressIInv, [IngressNext]_ingressVars
    PROVE  IngressIInv' /\ RowsMove
  <1>1. ASSUME NEW k \in Legs, LocalResult(k) \/ ForwardResult(k)
        PROVE  IngressIInv' /\ RowsMove
    <2>1. LegGood(k, leg[k], approvalRow[k], waiter[k], Ran(k), Forwarded(k), Gated(k))
      BY DEF IngressIInv, LegsAreGood
    <2>2. CASE LocalResult(k)
      <3>1. PICK status \in {200, 400, 502, 504} : Reply(k, status)
        BY <2>2 DEF LocalResult
      <3>2. leg[k].stage = "running" /\ UNCHANGED <<payload, approvalRow, waiter>>
        BY <2>2 DEF LocalResult
      <3>3. Ran(k)
        BY <2>1, <3>2 DEF LegGood
      <3>4. status \in Nat
        OBVIOUS
      <3> QED BY <3>1, <3>2, <3>3, <3>4, ReplyStep
    <2>3. CASE ForwardResult(k)
      <3>1. leg[k].stage = "forwarding" /\ UNCHANGED <<payload, approvalRow, waiter>>
        BY <2>3 DEF ForwardResult
      <3>2. k + 1 \in Legs
        BY <2>1, <3>1, IngressAssumption
           DEF LegGood, Legs, IngressAssumption, MAX_MCP_FORWARD_HOPS
      <3>3. /\ leg[k + 1].status \in Nat
            /\ leg[k + 1].status = 200 => \E j \in Legs : Ran(j)
        BY <3>2 DEF IngressIInv, LegRecord, SuccessRan
      <3>4. PICK status \in {502, 503, leg[k + 1].status} : Reply(k, status)
        BY <2>3 DEF ForwardResult
      <3>5. status \in Nat /\ (status = 200 => \E j \in Legs : Ran(j))
        BY <3>3
      <3> QED BY <3>1, <3>4, <3>5, ReplyStep
    <2> QED BY <1>1, <2>2, <2>3
  <1>2. CASE UNCHANGED ingressVars
    <2>1. \A j \in Legs : (Ran(j)' <=> Ran(j)) /\ (Forwarded(j)' <=> Forwarded(j))
                          /\ (Gated(j)' <=> Gated(j))
      BY <1>2 DEF ingressVars, Ran, Forwarded, Gated, Happened
    <2>2. UNCHANGED <<payload, leg, approvalRow, waiter>>
      BY <1>2 DEF ingressVars
    <2>3. LegsAreGood'
      BY <2>1, <2>2 DEF IngressIInv, LegsAreGood, LegGood
    <2> QED BY <2>1, <2>2, <2>3 DEF IngressIInv, LegsFollow, SuccessRan, RowsMove, RowMoves
  <1> QED BY <1>1, <1>2, CallStep, HandleStep, ApprovalStep DEF IngressNext

\* What the invariant says of the calls.
LEMMA IngressGuarantees ==
    IngressIInv => IngressTypeOK /\ WritesAreApproved /\ LateClickIsVoid /\ RunsAtMostOnce
  <1> SUFFICES ASSUME IngressIInv
               PROVE  IngressTypeOK /\ WritesAreApproved /\ LateClickIsVoid /\ RunsAtMostOnce
    OBVIOUS
  <1>1. \A k \in Legs :
           /\ LegGood(k, leg[k], approvalRow[k], waiter[k], Ran(k), Forwarded(k), Gated(k))
           /\ leg[k] \in LegRecord /\ approvalRow[k] \in ApprovalRows /\ waiter[k] \in Waiters
    BY DEF IngressIInv, LegsAreGood
  <1>2. IngressTypeOK
    BY <1>1 DEF IngressIInv, IngressTypeOK, LegRecord, ApprovalRows, Waiters, Stages
  <1>3. WritesAreApproved
    BY <1>1 DEF LegGood, WritesAreApproved, PassedOn, Ran, Forwarded, Gated
  <1>4. LateClickIsVoid
    BY <1>1 DEF LegGood, LateClickIsVoid
  <1>5. RunsAtMostOnce
    <2> DEFINE ran == {k \in Legs : Happened("MCP_EXEC_LOCAL", k)}
    <2>1. \A k \in ran : k \in Legs /\ Ran(k)
      BY DEF Ran
    <2>2. \A k \in ran : /\ leg[k].stage # "none" /\ leg[k].node \in SharingNodes
                         /\ leg[k].hop = k - 1 /\ leg[k].hop \in 0..1 /\ ~Forwarded(k)
      BY <1>1, <2>1 DEF LegGood, LegRecord, MAX_MCP_FORWARD_HOPS
    <2>3. \A k \in ran : k \in {1, 2}
      BY <2>1, <2>2, IngressAssumption DEF Legs, IngressAssumption
    <2>4. 2 \in ran => 1 \notin ran
      <3> SUFFICES ASSUME 2 \in ran, 1 \in ran PROVE FALSE
        OBVIOUS
      <3>1. 1 \in Legs /\ 1 + 1 \in Legs /\ leg[1 + 1].stage # "none"
        BY <2>1, <2>2
      <3>2. Forwarded(1)
        BY <3>1 DEF IngressIInv, LegsFollow
      <3> QED BY <2>2, <3>2
    <2>5. Cardinality(ran) <= 1
      <3>1. ran = {} \/ ran = {1} \/ ran = {2}
        BY <2>3, <2>4, Zenon
      <3>2. Cardinality({}) = 0 /\ Cardinality({1}) = 1 /\ Cardinality({2}) = 1
        BY FS_EmptySet, FS_Singleton
      <3> HIDE DEF ran
      <3> QED BY <3>1, <3>2
    <2>6. \A k \in ran : k <= MAX_MCP_FORWARD_HOPS + 1 /\ leg[k].node \in SharingNodes
      BY <2>2, <2>3 DEF MAX_MCP_FORWARD_HOPS
    <2>7. leg[1].status = 200 => ran # {}
      <3>1. 1 \in Legs
        BY IngressAssumption DEF Legs, IngressAssumption, MAX_MCP_FORWARD_HOPS
      <3> QED BY <3>1 DEF IngressIInv, SuccessRan, Ran
    <2> QED BY <2>5, <2>6, <2>7 DEF RunsAtMostOnce
  <1> QED BY <1>2, <1>3, <1>4, <1>5

LEMMA ApprovalRefines ==
    /\ IngressInit => ApprovalOneShot!Init
    /\ IngressIInv /\ [IngressNext]_ingressVars => ApprovalOneShot!Next
  <1>1. IngressInit => ApprovalOneShot!Init
    BY DEF IngressInit, ApprovalOneShot!Init
  <1>2. ASSUME IngressIInv, [IngressNext]_ingressVars
        PROVE  ApprovalOneShot!Next
    <2>1. \A k \in Legs : RowMoves(approvalRow[k], approvalRow'[k])
      BY <1>2, IngressStep DEF RowsMove
    <2> QED BY <2>1 DEF RowMoves, ApprovalOneShot!Next, ApprovalOneShot!Moves
  <1> QED BY <1>1, <1>2

\* No call gets past its gate: a write passes a node only on an approval that
\* is recorded and was given in time, a late click is void, a call runs at most
\* once and at most one forward away, and an approval is decided once and for
\* good (mcp-ingress.ts, telegram-meldekanal.ts, approvals.ts, mcp-forward.ts).
THEOREM GatedCallsAreGoverned ==
    IngressSpec => /\ [](IngressTypeOK /\ WritesAreApproved /\ LateClickIsVoid /\ RunsAtMostOnce)
                   /\ ApprovalOneShot!Spec
  <1>1. IngressIInv /\ [IngressNext]_ingressVars => IngressIInv'
    BY IngressStep
  <1> QED BY <1>1, IngressInitIInv, IngressGuarantees, ApprovalRefines, PTL
          DEF IngressSpec, ApprovalOneShot!Spec

-----------------------------------------------------------------------------
(* Who is asked. *)

\* A set of naturals has a least element.
LEMMA LeastNatural == \A S \in SUBSET Nat : S # {} => \E n \in S : \A m \in S : n <= m
  <1> SUFFICES ASSUME NEW S \in SUBSET Nat, S # {} PROVE \E n \in S : \A m \in S : n <= m
    OBVIOUS
  <1> DEFINE R == OpToRel(<, Nat)
  <1>1. IsWellFoundedOn(R, Nat)
    BY NatLessThanWellFounded
  <1>2. \A x, y \in Nat : <<x, y>> \in R <=> x < y
    BY DEF OpToRel
  <1> HIDE DEF R
  <1>3. PICK x \in S : \A y \in S : ~(<<y, x>> \in R)
    BY <1>1, WFMin
  <1>4. ASSUME NEW y \in S PROVE x <= y
    <2>1. x \in Nat /\ y \in Nat /\ ~(y < x)
      BY <1>2, <1>3
    <2> QED BY <2>1
  <1> QED BY <1>4

\* Entries keyed by one tier, server and tool: at most one, so the channel of
\* that one is what resolveEntry finds.
LEMMA ResolvesToEntry ==
    ASSUME NEW n \in Nat, NEW entries, DOMAIN entries = 1..n,
           \A i, j \in 1..n : Key(entries[i]) = Key(entries[j]) => i = j, NEW req
    PROVE  /\ \A i \in 1..n : Key(entries[i]) = <<req.tier, req.server, req.tool>>
                                => resolveEntry(entries, req) = entries[i].channel
           /\ \A i \in 1..n :
                (\A j \in 1..n : Key(entries[j]) # <<req.tier, req.server, req.tool>>)
                /\ Key(entries[i]) = <<req.tier, req.server, WILDCARD>>
                   => resolveEntry(entries, req) = entries[i].channel
           /\ (\A j \in 1..n : /\ Key(entries[j]) # <<req.tier, req.server, req.tool>>
                               /\ Key(entries[j]) # <<req.tier, req.server, WILDCARD>>)
                 => resolveEntry(entries, req) = "nobody"
  <1> DEFINE of(tool) == {i \in DOMAIN entries : Key(entries[i]) = <<req.tier, req.server, tool>>}
             last(S) == entries[CHOOSE i \in S : \A j \in S : j <= i].channel
  <1>1. resolveEntry(entries, req) = IF of(req.tool) # {} THEN last(of(req.tool))
                                     ELSE IF of(WILDCARD) # {} THEN last(of(WILDCARD)) ELSE "nobody"
    BY DEF resolveEntry
  <1>2. ASSUME NEW tool, NEW i \in 1..n, Key(entries[i]) = <<req.tier, req.server, tool>>
        PROVE  of(tool) # {} /\ last(of(tool)) = entries[i].channel
    <2>1. of(tool) = {i}
      BY <1>2
    <2> HIDE DEF of
    <2>2. (CHOOSE x \in of(tool) : \A j \in of(tool) : j <= x) = i
      BY <2>1
    <2> QED BY <2>1, <2>2
  <1>3. \A tool : (\A j \in 1..n : Key(entries[j]) # <<req.tier, req.server, tool>>) => of(tool) = {}
    OBVIOUS
  <1> HIDE DEF of, last
  <1> QED BY <1>1, <1>2, <1>3

\* The channel found stands in an entry for the request's tier and server.
LEMMA ResolvedStands ==
    ASSUME NEW n \in Nat, NEW entries, DOMAIN entries = 1..n,
           \A i, j \in 1..n : Key(entries[i]) = Key(entries[j]) => i = j, NEW req
    PROVE  \/ resolveEntry(entries, req) = "nobody"
           \/ \E i \in 1..n : /\ entries[i].channel = resolveEntry(entries, req)
                              /\ entries[i].tier = req.tier /\ entries[i].server = req.server
  <1>1. \A i \in 1..n, tool \in {req.tool, WILDCARD} :
           Key(entries[i]) = <<req.tier, req.server, tool>>
             => entries[i].tier = req.tier /\ entries[i].server = req.server
    BY DEF Key
  <1>2. CASE \E i \in 1..n : Key(entries[i]) = <<req.tier, req.server, req.tool>>
    BY <1>1, <1>2, ResolvesToEntry
  <1>3. CASE \A j \in 1..n : Key(entries[j]) # <<req.tier, req.server, req.tool>>
    BY <1>1, <1>3, ResolvesToEntry
  <1> QED BY <1>2, <1>3

\* The order of the entries does not matter.
LEMMA ResolvedAnyOrder ==
    ASSUME NEW s \in Seq(FreigabeEntry), parseFreigabeMatrix(s), NEW req
    PROVE  resolveEntry(s, req) = resolveEntry(Reverse(s), req)
  <1> DEFINE n == Len(s)
             t == Reverse(s)
             mirror(i) == (n - i) + 1
  <1>1. n \in Nat /\ DOMAIN s = 1..n
    OBVIOUS
  <1>2. \A i, j \in 1..n : Key(s[i]) = Key(s[j]) => i = j
    BY <1>1 DEF parseFreigabeMatrix
  <1>3. DOMAIN t = 1..n /\ \A i \in 1..n : t[i] = s[mirror(i)]
    BY <1>1 DEF Reverse
  <1>4. /\ \A i \in 1..n : mirror(i) \in 1..n /\ mirror(mirror(i)) = i
        /\ \A i, j \in 1..n : mirror(i) = mirror(j) => i = j
    BY <1>1
  <1> HIDE DEF n, t, mirror
  <1>5. \A i, j \in 1..n : Key(t[i]) = Key(t[j]) => i = j
    BY <1>2, <1>3, <1>4
  <1>6. \A i \in 1..n : s[i] = t[mirror(i)]
    BY <1>3, <1>4
  <1>7. CASE \E i \in 1..n : Key(s[i]) = <<req.tier, req.server, req.tool>>
    <2>1. PICK i \in 1..n : Key(s[i]) = <<req.tier, req.server, req.tool>>
      BY <1>7
    <2>2. mirror(i) \in 1..n /\ Key(t[mirror(i)]) = <<req.tier, req.server, req.tool>>
          /\ t[mirror(i)] = s[i]
      BY <1>4, <1>6, <2>1
    <2>3. resolveEntry(s, req) = s[i].channel
      BY <1>1, <1>2, <2>1, ResolvesToEntry
    <2>4. resolveEntry(t, req) = t[mirror(i)].channel
      BY <1>1, <1>3, <1>5, <2>2, ResolvesToEntry
    <2> QED BY <2>2, <2>3, <2>4 DEF t
  <1>8. CASE \A i \in 1..n : Key(s[i]) # <<req.tier, req.server, req.tool>>
    <2>1. \A i \in 1..n : Key(t[i]) # <<req.tier, req.server, req.tool>>
      BY <1>3, <1>4, <1>8
    <2>2. CASE \E i \in 1..n : Key(s[i]) = <<req.tier, req.server, WILDCARD>>
      <3>1. PICK i \in 1..n : Key(s[i]) = <<req.tier, req.server, WILDCARD>>
        BY <2>2
      <3>2. mirror(i) \in 1..n /\ Key(t[mirror(i)]) = <<req.tier, req.server, WILDCARD>>
            /\ t[mirror(i)] = s[i]
        BY <1>4, <1>6, <3>1
      <3>3. resolveEntry(s, req) = s[i].channel
        BY <1>1, <1>2, <1>8, <3>1, ResolvesToEntry
      <3>4. resolveEntry(t, req) = t[mirror(i)].channel
        BY <1>1, <1>3, <1>5, <2>1, <3>2, ResolvesToEntry
      <3> QED BY <3>2, <3>3, <3>4 DEF t
    <2>3. CASE \A i \in 1..n : Key(s[i]) # <<req.tier, req.server, WILDCARD>>
      <3>1. \A i \in 1..n : Key(t[i]) # <<req.tier, req.server, WILDCARD>>
        BY <1>3, <1>4, <2>3
      <3>2. resolveEntry(s, req) = "nobody"
        BY <1>1, <1>2, <1>8, <2>3, ResolvesToEntry
      <3>3. resolveEntry(t, req) = "nobody"
        BY <1>1, <1>3, <1>5, <2>1, <3>1, ResolvesToEntry
      <3> QED BY <3>2, <3>3 DEF t
    <2> QED BY <2>2, <2>3
  <1> QED BY <1>7, <1>8

\* The matrix has one entry per key, whoever was asked stands in it, and the
\* rule list is an operator's own rules followed by the three defaults.
RulesEndInDefaults ==
    /\ rules \in Seq(GateRule)
    /\ Len(rules) >= 3
    /\ \A j \in 1..3 : rules[(Len(rules) - 3) + j] = DefaultRules[j]

AskedStands ==
    routed.asked # "nobody" =>
        \E i \in DOMAIN matrix : /\ matrix[i].channel = routed.asked
                                 /\ matrix[i].tier = routed.request.tier
                                 /\ matrix[i].server = routed.request.server

PolicyIInv ==
    /\ matrix \in Seq(FreigabeEntry) /\ parseFreigabeMatrix(matrix)
    /\ routed.asked \in Channels \union {"nobody"} /\ AskedStands
    /\ RulesEndInDefaults

PolicyNext == MatrixNext \/ GatesNext

LEMMA DefaultRulesFacts ==
    /\ DefaultRules \in Seq(GateRule) /\ Len(DefaultRules) = 3
    /\ DefaultRules[1].skill = "system.*" /\ DefaultRules[2].skill = "credential.*"
    /\ DefaultRules[2].requester = "*" /\ DefaultRules[2].action = "approve"
    /\ DefaultRules[3].skill = "*"
  BY DEF DefaultRules, GateRule, GatePatterns

LEMMA PolicyInitIInv == PolicyInit => PolicyIInv
  <1> SUFFICES ASSUME PolicyInit PROVE PolicyIInv
    OBVIOUS
  <1>1. matrix = <<>> /\ routed.asked = "nobody" /\ rules = DefaultRules
    BY DEF PolicyInit, NoRequest
  <1>2. RulesEndInDefaults
    BY <1>1, DefaultRulesFacts DEF RulesEndInDefaults
  <1>3. matrix \in Seq(FreigabeEntry) /\ parseFreigabeMatrix(matrix)
    BY <1>1 DEF parseFreigabeMatrix
  <1> QED BY <1>1, <1>2, <1>3 DEF PolicyIInv, AskedStands

\* Rules go in front.
LEMMA RulesInFront ==
    ASSUME RulesEndInDefaults, NEW custom \in Seq(GateRule), rules' = custom \o rules
    PROVE  RulesEndInDefaults'
  <1> DEFINE n == Len(custom)
             m == Len(rules)
  <1>1. /\ rules' \in Seq(GateRule) /\ Len(rules') = n + m
        /\ \A i \in 1..(n + m) : rules'[i] = IF i <= n THEN custom[i] ELSE rules[i - n]
    BY ConcatProperties DEF RulesEndInDefaults
  <1>2. n \in Nat /\ m \in Nat /\ m >= 3
    BY DEF RulesEndInDefaults
  <1>3. \A j \in 1..3 : rules[(m - 3) + j] = DefaultRules[j]
    BY DEF RulesEndInDefaults
  <1> HIDE DEF n, m
  <1>4. ASSUME NEW j \in 1..3
        PROVE  rules'[((n + m) - 3) + j] = DefaultRules[j]
    <2> DEFINE i == ((n + m) - 3) + j
    <2>1. i \in 1..(n + m) /\ ~(i <= n) /\ i - n = (m - 3) + j
      BY <1>2
    <2> QED BY <1>1, <1>3, <2>1
  <1> QED BY <1>1, <1>2, <1>4 DEF RulesEndInDefaults

LEMMA PolicyStep == PolicyIInv /\ [PolicyNext]_policyVars => PolicyIInv'
  <1> SUFFICES ASSUME PolicyIInv, [PolicyNext]_policyVars PROVE PolicyIInv'
    OBVIOUS
  <1>1. CASE loadCustomRules
    <2>1. PICK custom \in SeqOf(GateRule, MaxRules - 1) : rules' = custom \o rules
      BY <1>1 DEF loadCustomRules
    <2>2. custom \in Seq(GateRule)
      BY PolicyAssumption DEF SeqOf, PolicyAssumption
    <2>3. RulesEndInDefaults'
      BY <2>1, <2>2, RulesInFront DEF PolicyIInv
    <2> QED BY <1>1, <2>3 DEF loadCustomRules, PolicyIInv, AskedStands
  <1>2. CASE addRule
    <2>1. PICK r \in GateRule : rules' = <<r>> \o rules
      BY <1>2 DEF addRule
    <2>2. RulesEndInDefaults'
      <3>1. <<r>> \in Seq(GateRule)
        OBVIOUS
      <3> QED BY <2>1, <3>1, RulesInFront DEF PolicyIInv
    <2> QED BY <1>2, <2>2 DEF addRule, PolicyIInv, AskedStands
  <1>3. CASE LoadMatrix
    <2>1. PICK raw \in SeqOf(FreigabeEntry \union {Malformed}, MaxEntries) :
             matrix' = IF parseFreigabeMatrix(raw) THEN raw ELSE <<>>
      BY <1>3 DEF LoadMatrix
    <2>2. routed.asked = "nobody" /\ UNCHANGED <<routed, rules>>
      BY <1>3 DEF LoadMatrix, NoRequest
    <2>3. PICK m \in Nat : raw \in [1..m -> FreigabeEntry \union {Malformed}]
      BY PolicyAssumption DEF SeqOf, PolicyAssumption
    <2>4. parseFreigabeMatrix(raw) => raw \in Seq(FreigabeEntry)
      <3> SUFFICES ASSUME parseFreigabeMatrix(raw) PROVE raw \in Seq(FreigabeEntry)
        OBVIOUS
      <3>1. \A i \in 1..m : raw[i] \in FreigabeEntry
        BY <2>3 DEF parseFreigabeMatrix
      <3>2. raw \in [1..m -> FreigabeEntry]
        BY <2>3, <3>1
      <3> QED BY <2>3, <3>2
    <2>5. <<>> \in Seq(FreigabeEntry) /\ parseFreigabeMatrix(<<>>)
      BY DEF parseFreigabeMatrix
    <2>6. matrix' \in Seq(FreigabeEntry) /\ parseFreigabeMatrix(matrix')
      BY <2>1, <2>4, <2>5
    <2>7. RulesEndInDefaults'
      BY <2>2 DEF PolicyIInv, RulesEndInDefaults
    <2>8. AskedStands' /\ routed'.asked \in Channels \union {"nobody"}
      BY <2>2 DEF AskedStands
    <2> QED BY <2>6, <2>7, <2>8 DEF PolicyIInv, parseFreigabeMatrix
  <1>4. CASE RequestViaMatrix
    <2>1. PICK ctx \in PolicyRequest, req \in PolicyRequest :
            routed' = [asked |-> IF ctx # req THEN "nobody" ELSE resolveEntry(matrix, ctx),
                       request |-> req]
      BY <1>4 DEF RequestViaMatrix
    <2>2. UNCHANGED <<matrix, rules>>
      BY <1>4 DEF RequestViaMatrix
    <2>3. routed'.request = req /\ (routed'.asked = "nobody" \/ (routed'.asked = resolveEntry(matrix, ctx) /\ ctx = req))
      BY <2>1
    <2> DEFINE n == Len(matrix)
    <2>4. /\ n \in Nat /\ DOMAIN matrix = 1..n /\ \A i \in 1..n : matrix[i] \in FreigabeEntry
          /\ \A i, j \in 1..n : Key(matrix[i]) = Key(matrix[j]) => i = j
      BY DEF PolicyIInv, parseFreigabeMatrix
    <2> HIDE DEF n
    <2>5. \/ routed'.asked = "nobody"
          \/ \E i \in 1..n : /\ matrix[i].channel = routed'.asked
                             /\ matrix[i].tier = routed'.request.tier
                             /\ matrix[i].server = routed'.request.server
      BY <2>3, <2>4, ResolvedStands
    <2>6. AskedStands' /\ routed'.asked \in Channels \union {"nobody"}
      BY <2>2, <2>4, <2>5 DEF AskedStands, FreigabeEntry
    <2> QED BY <2>2, <2>6 DEF PolicyIInv, RulesEndInDefaults
  <1>5. CASE UNCHANGED policyVars
    BY <1>5 DEF policyVars, PolicyIInv, AskedStands, RulesEndInDefaults
  <1> QED BY <1>1, <1>2, <1>3, <1>4, <1>5 DEF PolicyNext, MatrixNext, GatesNext

LEMMA PolicyGuarantees ==
    PolicyIInv => PolicyTypeOK /\ MatrixIsOrderFree /\ CredentialsAreGated
  <1> SUFFICES ASSUME PolicyIInv PROVE PolicyTypeOK /\ MatrixIsOrderFree /\ CredentialsAreGated
    OBVIOUS
  <1>1. PolicyTypeOK
    BY DefaultRulesFacts DEF PolicyIInv, PolicyTypeOK, RulesEndInDefaults
  <1>2. MatrixIsOrderFree
    BY ResolvedAnyOrder DEF PolicyIInv, AskedStands, MatrixIsOrderFree
  <1>3. CredentialsAreGated
    <2> SUFFICES ASSUME NEW q \in GateRequesters, evaluate(rules, "credential.read", q) = "auto"
                 PROVE  \E i \in 1..(Len(rules) - Len(DefaultRules)) :
                            Applies(rules[i], "credential.read", q) /\ rules[i].action = "auto"
      BY DEF CredentialsAreGated
    <2> DEFINE n == Len(rules) - 3
               hits == {i \in DOMAIN rules : Applies(rules[i], "credential.read", q)}
               first == CHOOSE i \in hits : \A j \in hits : i <= j
    <2>1. /\ n \in Nat /\ DOMAIN rules = 1..(n + 3) /\ Len(rules) - Len(DefaultRules) = n
          /\ \A j \in 1..3 : rules[n + j] = DefaultRules[j]
      BY DefaultRulesFacts DEF PolicyIInv, RulesEndInDefaults
    <2> HIDE DEF n
    <2>2. /\ rules[n + 1].skill = "system.*" /\ rules[n + 2].skill = "credential.*"
          /\ rules[n + 2].requester = "*" /\ rules[n + 2].action = "approve"
      BY <2>1, DefaultRulesFacts
    <2>3. n + 2 \in hits /\ n + 1 \notin hits /\ hits \in SUBSET Nat
      BY <2>1, <2>2 DEF Applies, matchPattern
    <2>4. first \in hits /\ \A j \in hits : first <= j
      <3> HIDE DEF hits
      <3>1. \E i \in hits : \A j \in hits : i <= j
        BY <2>3, LeastNatural
      <3> QED BY <3>1
    <2>5. evaluate(rules, "credential.read", q) = rules[first].action
      BY <2>3 DEF evaluate
    <2> HIDE DEF first
    <2>6. first \in 1..(n + 3) /\ first <= n + 2 /\ first # n + 1
      <3>1. first \in DOMAIN rules
        BY <2>4
      <3> HIDE DEF hits
      <3> QED BY <2>1, <2>3, <2>4, <3>1
    <2>7. Applies(rules[first], "credential.read", q)
      BY <2>4
    <2>8. rules[first].action = "auto" => first \in 1..n
      BY <2>1, <2>2, <2>6
    <2> QED BY <2>1, <2>5, <2>7, <2>8
  <1> QED BY <1>1, <1>2, <1>3

\* The channel that decides does not depend on the order of the matrix and
\* stands in it for the tier and server asked about; and only an operator's own
\* rule lets access to a credential pass without approval (freigabe-matrix.ts,
\* approval-router.ts, approval-gates.ts).
THEOREM PolicyIsOrderFree ==
    PolicyInit /\ [][PolicyNext]_policyVars
        => [](PolicyTypeOK /\ MatrixIsOrderFree /\ CredentialsAreGated)
  BY PolicyInitIInv, PolicyStep, PolicyGuarantees, PTL

-----------------------------------------------------------------------------
(* The queue and the chain of tasks. *)

\* What the two operators on positions return, element by element.
LEMMA RemoveAtElements ==
    ASSUME NEW S, NEW q \in Seq(S), NEW k \in 1..Len(q)
    PROVE  /\ RemoveAt(q, k) \in Seq(S) /\ Len(RemoveAt(q, k)) = Len(q) - 1
           /\ \A i \in 1..(Len(q) - 1) : RemoveAt(q, k)[i] = IF i < k THEN q[i] ELSE q[i + 1]
  <1> DEFINE a == SubSeq(q, 1, k - 1)
             b == SubSeq(q, k + 1, Len(q))
  <1>1. /\ a \in Seq(S) /\ Len(a) = k - 1
        /\ \A i \in 1..(k - 1) : a[i] = q[i]
    OBVIOUS
  <1>2. /\ b \in Seq(S) /\ Len(b) = Len(q) - k
        /\ \A i \in 1..(Len(q) - k) : b[i] = q[k + i]
    OBVIOUS
  <1> HIDE DEF a, b
  <1>3. /\ a \o b \in Seq(S) /\ Len(a \o b) = Len(q) - 1
        /\ \A i \in 1..(Len(q) - 1) : (a \o b)[i] = IF i < k THEN a[i] ELSE b[i - k + 1]
    <2>1. PICK m \in Nat, n \in Nat : m = Len(a) /\ n = Len(b) /\ m + n = Len(q) - 1 /\ m = k - 1
      <3>1. Len(q) \in Nat /\ k \in Nat /\ 1 <= k /\ k <= Len(q)
        OBVIOUS
      <3>2. Len(a) \in Nat /\ Len(b) \in Nat /\ Len(a) + Len(b) = Len(q) - 1
        BY <1>1, <1>2, <3>1
      <3> QED BY <1>1, <3>2
    <2>2. /\ a \o b \in Seq(S) /\ Len(a \o b) = m + n
          /\ \A i \in 1..(m + n) : (a \o b)[i] = IF i <= m THEN a[i] ELSE b[i - m]
      <3>1. a \in Seq(S) /\ b \in Seq(S) /\ m = Len(a) /\ n = Len(b)
        BY <1>1, <1>2, <2>1
      <3>2. a \o b \in Seq(S) /\ Len(a \o b) = m + n
        BY <3>1
      <3>3. \A i \in 1..(m + n) : (a \o b)[i] = IF i <= m THEN a[i] ELSE b[i - m]
        BY <3>1
      <3> QED BY <3>2, <3>3
    <2>3. \A i \in 1..(m + n) : (i <= m <=> i < k) /\ i - m = i - k + 1
      BY <2>1
    <2> QED BY <2>1, <2>2, <2>3
  <1>4. ASSUME NEW i \in 1..(Len(q) - 1)
        PROVE  (a \o b)[i] = IF i < k THEN q[i] ELSE q[i + 1]
    <2>1. CASE i < k
      BY <1>1, <1>3, <2>1
    <2>2. CASE ~(i < k)
      <3>1. i - k + 1 \in 1..(Len(q) - k) /\ k + (i - k + 1) = i + 1
        BY <2>2
      <3> QED BY <1>2, <1>3, <2>2, <3>1
    <2> QED BY <2>1, <2>2
  <1> QED BY <1>3, <1>4 DEF RemoveAt, a, b

LEMMA InsertAtElements ==
    ASSUME NEW S, NEW q \in Seq(S), NEW k \in 1..(Len(q) + 1), NEW t \in S
    PROVE  /\ InsertAt(q, k, t) \in Seq(S) /\ Len(InsertAt(q, k, t)) = Len(q) + 1
           /\ \A i \in 1..(Len(q) + 1) :
                 InsertAt(q, k, t)[i] = IF i < k THEN q[i] ELSE IF i = k THEN t ELSE q[i - 1]
  <1> DEFINE a == SubSeq(q, 1, k - 1)
             b == SubSeq(q, k, Len(q))
  <1>1. /\ a \in Seq(S) /\ Len(a) = k - 1
        /\ \A i \in 1..(k - 1) : a[i] = q[i]
    OBVIOUS
  <1>2. /\ b \in Seq(S) /\ Len(b) = Len(q) - k + 1
        /\ \A i \in 1..(Len(q) - k + 1) : b[i] = q[k + i - 1]
    OBVIOUS
  <1> HIDE DEF a, b
  <1>3. /\ a \o <<t>> \in Seq(S) /\ Len(a \o <<t>>) = k
        /\ \A i \in 1..k : (a \o <<t>>)[i] = IF i < k THEN a[i] ELSE t
    BY <1>1
  <1> DEFINE c == a \o <<t>>
  <1> HIDE DEF c
  <1>4. /\ c \o b \in Seq(S) /\ Len(c \o b) = Len(q) + 1
        /\ \A i \in 1..(Len(q) + 1) : (c \o b)[i] = IF i <= k THEN c[i] ELSE b[i - k]
    BY <1>2, <1>3 DEF c
  <1>5. ASSUME NEW i \in 1..(Len(q) + 1)
        PROVE  (c \o b)[i] = IF i < k THEN q[i] ELSE IF i = k THEN t ELSE q[i - 1]
    <2>1. CASE i <= k
      BY <1>1, <1>3, <1>4, <2>1 DEF c
    <2>2. CASE ~(i <= k)
      <3>1. i - k \in 1..(Len(q) - k + 1) /\ k + (i - k) - 1 = i - 1
        BY <2>2
      <3> QED BY <1>2, <1>4, <2>2, <3>1
    <2> QED BY <2>1, <2>2
  <1> QED BY <1>4, <1>5 DEF InsertAt, a, b, c

Before(s, t) ==
    s.priority > t.priority \/ (s.priority = t.priority /\ s.enqueuedAt < t.enqueuedAt)
Ordered(q) == \A i, j \in 1..Len(q) : i < j => Before(q[i], q[j])
Distinct(q) == \A i, j \in 1..Len(q) : q[i].id = q[j].id => i = j

\* Taking a task out of the queue, wherever it stands, keeps the order.
LEMMA RemovedInOrder ==
    ASSUME NEW q \in Seq(QueuedTask), NEW k \in 1..Len(q), Ordered(q), Distinct(q),
           NEW p \in Seq(QueuedTask), Len(p) = Len(q) - 1,
           \A i \in 1..(Len(q) - 1) : p[i] = IF i < k THEN q[i] ELSE q[i + 1]
    PROVE  /\ Ordered(p) /\ Distinct(p)
           /\ \A i \in 1..Len(p) : \E j \in 1..Len(q) : j # k /\ p[i] = q[j]
  <1> DEFINE m(i) == IF i < k THEN i ELSE i + 1
  <1>1. \A i \in 1..Len(p) : m(i) \in 1..Len(q) /\ m(i) # k /\ p[i] = q[m(i)]
    OBVIOUS
  <1>2. \A i, j \in 1..Len(p) : (i < j => m(i) < m(j)) /\ (m(i) = m(j) => i = j)
    OBVIOUS
  <1> HIDE DEF m
  <1>3. Ordered(p)
    BY <1>1, <1>2 DEF Ordered
  <1>4. Distinct(p)
    BY <1>1, <1>2 DEF Distinct
  <1> QED BY <1>1, <1>3, <1>4

Cancelled(q, k) ==
    /\ Ordered(RemoveAt(q, k)) /\ Distinct(RemoveAt(q, k))
    /\ \A i \in 1..Len(RemoveAt(q, k)) : \E j \in 1..Len(q) : RemoveAt(q, k)[i] = q[j]

LEMMA CancelledInOrder ==
    ASSUME NEW q \in Seq(QueuedTask), NEW k \in 1..Len(q), Ordered(q), Distinct(q)
    PROVE  Cancelled(q, k)
  <1> DEFINE p == RemoveAt(q, k)
  <1>1. /\ p \in Seq(QueuedTask) /\ Len(p) = Len(q) - 1
        /\ \A i \in 1..(Len(q) - 1) : p[i] = IF i < k THEN q[i] ELSE q[i + 1]
    BY RemoveAtElements
  <1> HIDE DEF p
  <1>2. /\ Ordered(p) /\ Distinct(p)
        /\ \A i \in 1..Len(p) : \E j \in 1..Len(q) : j # k /\ p[i] = q[j]
    BY <1>1, RemovedInOrder
  <1> QED BY <1>2 DEF Cancelled, p

\* A new task goes behind all of its priority, and it is the youngest.
LEMMA InsertedInOrder ==
    ASSUME NEW q \in Seq(QueuedTask), Ordered(q), Distinct(q), NEW t \in QueuedTask,
           \A i \in 1..Len(q) : q[i].id # t.id /\ q[i].enqueuedAt < t.enqueuedAt
    PROVE  /\ Inserted(q, t) \in Seq(QueuedTask) /\ Len(Inserted(q, t)) = Len(q) + 1
           /\ Ordered(Inserted(q, t)) /\ Distinct(Inserted(q, t))
           /\ \A i \in 1..(Len(q) + 1) :
                 Inserted(q, t)[i] = t \/ \E j \in 1..Len(q) : Inserted(q, t)[i] = q[j]
  <1> DEFINE I == {i \in 1..Len(q) : q[i].priority < t.priority}
             p == Inserted(q, t)
  <1>t. t.priority \in Nat /\ \A i \in 1..Len(q) : q[i] \in QueuedTask /\ q[i].priority \in Nat
                                                  /\ q[i].enqueuedAt \in Nat
    <2>1. t.priority \in Priorities /\ Priorities \subseteq Nat
      BY TaskQueueAssumption DEF QueuedTask
    <2>2. ASSUME NEW i \in 1..Len(q)
          PROVE  q[i] \in QueuedTask /\ q[i].priority \in Priorities /\ q[i].enqueuedAt \in Nat
      <3>1. q[i] \in QueuedTask
        OBVIOUS
      <3> QED BY <3>1 DEF QueuedTask
    <2> QED BY <2>1, <2>2
  <1>1. PICK k \in 1..(Len(q) + 1) :
            /\ p \in Seq(QueuedTask) /\ Len(p) = Len(q) + 1
            /\ \A i \in 1..(Len(q) + 1) :
                  p[i] = IF i < k THEN q[i] ELSE IF i = k THEN t ELSE q[i - 1]
            /\ \A i \in 1..(k - 1) : q[i].priority >= t.priority
            /\ k <= Len(q) => q[k].priority < t.priority
    <2>1. CASE I = {}
      <3>1. SelectInSeq(q, LAMBDA x : x.priority < t.priority) = 0
        BY <2>1 DEF SelectInSeq
      <3>2. p = Append(q, t)
        BY <3>1 DEF Inserted
      <3>3. /\ Append(q, t) \in Seq(QueuedTask) /\ Len(Append(q, t)) = Len(q) + 1
            /\ \A i \in 1..(Len(q) + 1) : Append(q, t)[i] = IF i < Len(q) + 1 THEN q[i] ELSE t
        OBVIOUS
      <3>4. \A i \in 1..Len(q) : q[i].priority >= t.priority
        BY <1>t, <2>1
      <3> HIDE DEF p
      <3>5. Len(q) + 1 \in 1..(Len(q) + 1) /\ (Len(q) + 1) - 1 = Len(q) /\ ~(Len(q) + 1 <= Len(q))
        OBVIOUS
      <3>6. \A i \in 1..(Len(q) + 1) :
                p[i] = IF i < Len(q) + 1 THEN q[i] ELSE IF i = Len(q) + 1 THEN t ELSE q[i - 1]
        BY <3>2, <3>3
      <3> QED BY <3>2, <3>3, <3>4, <3>5, <3>6
    <2>2. CASE I # {}
      <3>1. PICK k \in I : \A i \in I : k <= i
        <4>1. I \subseteq Nat
          OBVIOUS
        <4> QED BY <2>2, <4>1, LeastNatural
      <3>2. Min(I) = k
        <4>1. \A x, y \in I : x <= y /\ y <= x => x = y
          OBVIOUS
        <4>2. Min(I) \in I /\ \A i \in I : Min(I) <= i
          <5> HIDE DEF I
          <5> QED BY <3>1 DEF Min
        <4> HIDE DEF I
        <4> QED BY <3>1, <4>1, <4>2
      <3>3. SelectInSeq(q, LAMBDA x : x.priority < t.priority) = k
        BY <2>2, <3>2 DEF SelectInSeq
      <3>4. k \in 1..Len(q) /\ q[k].priority < t.priority
        OBVIOUS
      <3>5. p = InsertAt(q, k, t)
        BY <3>3, <3>4 DEF Inserted
      <3>6. \A i \in 1..(k - 1) : q[i].priority >= t.priority
        BY <1>t, <3>1, <3>4
      <3> HIDE DEF p, I
      <3>7. k \in 1..(Len(q) + 1)
        BY <3>4
      <3>8. /\ p \in Seq(QueuedTask) /\ Len(p) = Len(q) + 1
            /\ \A i \in 1..(Len(q) + 1) :
                  p[i] = IF i < k THEN q[i] ELSE IF i = k THEN t ELSE q[i - 1]
        BY <3>5, <3>7, InsertAtElements
      <3> QED BY <3>4, <3>6, <3>7, <3>8
    <2> QED BY <2>1, <2>2
  <1> HIDE DEF p, I
  <1>2. \A i \in 1..Len(q) : i >= k => q[i].priority < t.priority
    <2> SUFFICES ASSUME NEW i \in 1..Len(q), i >= k PROVE q[i].priority < t.priority
      OBVIOUS
    <2>1. q[k].priority < t.priority
      BY <1>1
    <2>2. CASE i = k
      BY <2>1, <2>2
    <2>3. CASE i > k
      <3>1. Before(q[k], q[i])
        BY <1>1, <2>3 DEF Ordered
      <3> QED BY <1>1, <1>t, <2>1, <2>3, <3>1 DEF Before
    <2> QED BY <2>2, <2>3
  <1>3. Ordered(p)
    <2> SUFFICES ASSUME NEW i \in 1..(Len(q) + 1), NEW j \in 1..(Len(q) + 1), i < j
                 PROVE  Before(p[i], p[j])
      BY <1>1 DEF Ordered
    <2>1. CASE j < k
      BY <1>1, <2>1 DEF Ordered
    <2>2. CASE j = k
      <3>1. p[i] = q[i] /\ p[j] = t /\ i \in 1..Len(q) /\ q[i].priority >= t.priority
        BY <1>1, <2>2
      <3> QED BY <1>t, <3>1 DEF Before
    <2>3. CASE i = k
      <3>1. p[i] = t /\ p[j] = q[j - 1] /\ j - 1 \in 1..Len(q) /\ j - 1 >= k
        BY <1>1, <2>3
      <3> QED BY <1>2, <3>1 DEF Before
    <2>4. CASE i < k /\ j > k
      <3>1. p[i] = q[i] /\ p[j] = q[j - 1] /\ i < j - 1 /\ i \in 1..Len(q) /\ j - 1 \in 1..Len(q)
        BY <1>1, <2>4
      <3> QED BY <3>1 DEF Ordered
    <2>5. CASE i > k
      <3>1. p[i] = q[i - 1] /\ p[j] = q[j - 1] /\ i - 1 \in 1..Len(q) /\ j - 1 \in 1..Len(q)
            /\ i - 1 < j - 1
        BY <1>1, <2>5
      <3> QED BY <3>1 DEF Ordered
    <2> QED BY <2>1, <2>2, <2>3, <2>4, <2>5
  <1>4. \A i \in 1..(Len(q) + 1) :
            /\ i < k => i \in 1..Len(q) /\ p[i] = q[i]
            /\ i = k => p[i] = t
            /\ i > k => i - 1 \in 1..Len(q) /\ p[i] = q[i - 1]
    BY <1>1
  <1>5. Distinct(p)
    <2> SUFFICES ASSUME NEW i \in 1..(Len(q) + 1), NEW j \in 1..(Len(q) + 1), i < j,
                        p[i].id = p[j].id
                 PROVE  FALSE
      BY <1>1 DEF Distinct
    <2>1. CASE i = k
      BY <1>4, <2>1
    <2>2. CASE j = k
      BY <1>4, <2>2
    <2>3. CASE i # k /\ j # k
      <3>1. PICK a \in 1..Len(q) : p[i] = q[a] /\ a = IF i < k THEN i ELSE i - 1
        BY <1>4, <2>3
      <3>2. PICK b \in 1..Len(q) : p[j] = q[b] /\ b = IF j < k THEN j ELSE j - 1
        BY <1>4, <2>3
      <3>3. a # b
        BY <2>3, <3>1, <3>2
      <3> QED BY <3>1, <3>2, <3>3 DEF Distinct
    <2> QED BY <2>1, <2>2, <2>3
  <1>6. \A i \in 1..(Len(q) + 1) : p[i] = t \/ \E j \in 1..Len(q) : p[i] = q[j]
    BY <1>4
  <1> QED BY <1>1, <1>3, <1>5, <1>6 DEF p

\* How many ids have been given out is the time of enqueueing.
Given == QueueIds \ fresh

QueueIInv ==
    /\ queue \in Seq(QueuedTask) /\ Len(queue) <= MaxQueueSize
    /\ running \subseteq QueueIds /\ IsFiniteSet(running)
    /\ fresh \subseteq QueueIds /\ IsFiniteSet(Given)
    /\ completed \in Seq(QueueIds) /\ Len(completed) <= KeepCompleted
    /\ executor \in BOOLEAN /\ backlog \in BOOLEAN
    /\ Ordered(queue) /\ Distinct(queue)
    /\ \A i, j \in 1..Len(completed) : completed[i] = completed[j] => i = j
    /\ \A i \in 1..Len(queue) :
          /\ queue[i].id \notin running \cup fresh /\ queue[i].enqueuedAt < Cardinality(Given)
          /\ \A j \in 1..Len(completed) : queue[i].id # completed[j]
    /\ \A j \in 1..Len(completed) : completed[j] \notin running \cup fresh
    /\ running \cap fresh = {}
    /\ Cardinality(running) <= MaxConcurrent
    /\ executor /\ ~backlog /\ queue # <<>> => Cardinality(running) = MaxConcurrent

LEMMA QueueInitIInv == QueueInit => QueueIInv
  <1> SUFFICES ASSUME QueueInit PROVE QueueIInv
    OBVIOUS
  <1>1. Given = {} /\ running = {}
    BY DEF QueueInit, Given
  <1>2. IsFiniteSet({}) /\ Cardinality({}) = 0
    BY FS_EmptySet
  <1>3. queue = <<>> /\ completed = <<>> /\ fresh = QueueIds /\ executor = FALSE /\ backlog = FALSE
    BY DEF QueueInit
  <1>4. Ordered(queue) /\ Distinct(queue)
    BY <1>3 DEF Ordered, Distinct
  <1>5. queue \in Seq(QueuedTask) /\ Len(queue) = 0 /\ completed \in Seq(QueueIds) /\ Len(completed) = 0
    BY <1>3
  <1>6. MaxConcurrent \in Nat /\ MaxQueueSize \in Nat /\ KeepCompleted \in Nat
    BY TaskQueueAssumption
  <1>7. IsFiniteSet(running) /\ IsFiniteSet(Given) /\ Cardinality(running) = 0
    BY <1>1, <1>2, Zenon
  <1>8. \A i \in 1..0 : FALSE
    OBVIOUS
  <1>9. running \subseteq QueueIds /\ fresh \subseteq QueueIds /\ running \cap fresh = {}
    BY <1>1, <1>3
  <1>10. ~(executor /\ ~backlog /\ queue # <<>>) /\ executor \in BOOLEAN /\ backlog \in BOOLEAN
    BY <1>3
  <1>11. Len(queue) <= MaxQueueSize /\ Len(completed) <= KeepCompleted
         /\ Cardinality(running) <= MaxConcurrent
    BY <1>5, <1>6, <1>7
  <1>12. 1..Len(queue) = 1..0 /\ 1..Len(completed) = 1..0
    BY <1>5
  <1> QED BY <1>4, <1>5, <1>7, <1>8, <1>9, <1>10, <1>11, <1>12 DEF QueueIInv

\* processNext on a queue q and a set r that are in order: what it leaves is in
\* order, and if it starts nothing there is nothing to start.
LEMMA ProcessNextGood ==
    ASSUME NEW q \in Seq(QueuedTask), Ordered(q), Distinct(q), NEW r \in SUBSET QueueIds,
           IsFiniteSet(r), Cardinality(r) <= MaxConcurrent, executor \in BOOLEAN,
           \A i \in 1..Len(q) : q[i].id \notin r, ProcessNext(q, r)
    PROVE  /\ queue' \in Seq(QueuedTask) /\ Ordered(queue') /\ Distinct(queue')
           /\ running' \in SUBSET QueueIds /\ IsFiniteSet(running')
           /\ Cardinality(running') <= MaxConcurrent
           /\ \A i \in 1..Len(queue') : \E j \in 1..Len(q) :
                 queue'[i] = q[j] /\ queue'[i].id \notin running'
           /\ \A x \in running' : x \in r \/ \E j \in 1..Len(q) : x = q[j].id
           /\ \/ queue' = q /\ running' = r /\ (executor /\ q # <<>> => Cardinality(r) = MaxConcurrent)
              \/ /\ Len(queue') = Len(q) - 1 /\ Cardinality(running') = Cardinality(r) + 1
                 /\ q # <<>> /\ Cardinality(r) < MaxConcurrent
  <1>c. Cardinality(r) \in Nat /\ MaxConcurrent \in Nat
    BY TaskQueueAssumption, FS_CardinalityType
  <1>1. CASE ~Startable(q, r)
    <2>1. queue' = q /\ running' = r
      BY <1>1 DEF ProcessNext
    <2>2. executor /\ q # <<>> => Cardinality(r) = MaxConcurrent
      BY <1>1, <1>c DEF Startable
    <2> QED BY <2>1, <2>2
  <1>2. CASE Startable(q, r)
    <2>1. queue' = Tail(q) /\ running' = r \cup {Head(q).id} /\ q # <<>> /\ Cardinality(r) < MaxConcurrent
      BY <1>2 DEF ProcessNext, Startable
    <2>2. /\ 1 \in 1..Len(q) /\ Head(q) = q[1]
          /\ Tail(q) \in Seq(QueuedTask) /\ Len(Tail(q)) = Len(q) - 1
          /\ \A i \in 1..(Len(q) - 1) : Tail(q)[i] = q[i + 1]
      BY <2>1
    <2>3. \A i \in 1..(Len(q) - 1) : Tail(q)[i] = IF i < 1 THEN q[i] ELSE q[i + 1]
      BY <2>2
    <2> DEFINE p == Tail(q)
    <2> HIDE DEF p
    <2>4. /\ Ordered(p) /\ Distinct(p)
          /\ \A i \in 1..Len(p) : \E j \in 1..Len(q) : j # 1 /\ p[i] = q[j]
      BY <2>2, <2>3, RemovedInOrder DEF p
    <2>5. q[1] \in QueuedTask /\ q[1].id \in QueueIds /\ q[1].id \notin r
      <3>1. q[1] \in QueuedTask
        BY <2>2
      <3> QED BY <2>2, <3>1 DEF QueuedTask
    <2>6. IsFiniteSet(r \cup {q[1].id}) /\ Cardinality(r \cup {q[1].id}) = Cardinality(r) + 1
      BY <2>5, FS_AddElement
    <2>7. \A i \in 1..Len(p) : \E j \in 1..Len(q) : p[i] = q[j] /\ p[i].id \notin r \cup {q[1].id}
      <3> SUFFICES ASSUME NEW i \in 1..Len(p)
                   PROVE  \E j \in 1..Len(q) : p[i] = q[j] /\ p[i].id \notin r \cup {q[1].id}
        OBVIOUS
      <3>1. PICK j \in 1..Len(q) : j # 1 /\ p[i] = q[j]
        BY <2>4
      <3>2. q[j].id # q[1].id
        BY <2>2, <3>1 DEF Distinct
      <3> QED BY <3>1, <3>2
    <2>8. running' = r \cup {q[1].id} /\ queue' = p
      BY <2>1, <2>2 DEF p
    <2>9. p \in Seq(QueuedTask) /\ Len(p) = Len(q) - 1
      BY <2>2 DEF p
    <2>10. \A x \in running' : x \in r \/ \E j \in 1..Len(q) : x = q[j].id
      BY <2>2, <2>8
    <2>11. /\ running' \in SUBSET QueueIds /\ IsFiniteSet(running')
           /\ Cardinality(running') = Cardinality(r) + 1 /\ Cardinality(running') <= MaxConcurrent
      <3>1. running' \in SUBSET QueueIds
        BY <2>5, <2>8
      <3>2. IsFiniteSet(running') /\ Cardinality(running') = Cardinality(r) + 1
        BY <2>6, <2>8, Zenon
      <3> QED BY <1>c, <2>1, <3>1, <3>2
    <2>12. /\ queue' \in Seq(QueuedTask) /\ Ordered(queue') /\ Distinct(queue')
           /\ Len(queue') = Len(q) - 1
      BY <2>4, <2>8, <2>9
    <2>13. \A i \in 1..Len(queue') : \E j \in 1..Len(q) :
               queue'[i] = q[j] /\ queue'[i].id \notin running'
      BY <2>7, <2>8, Zenon
    <2> QED BY <2>1, <2>10, <2>11, <2>12, <2>13
  <1> QED BY <1>1, <1>2

LEMMA EnqueueStep == ASSUME QueueIInv, NEW id \in QueueIds, NEW p \in Priorities, Enqueue(id, p)
                     PROVE  QueueIInv'
  <1> USE DEF QueueIInv
  <1> DEFINE n == Cardinality(Given)
             t == [id |-> id, priority |-> p, enqueuedAt |-> n]
             q == Inserted(queue, t)
  <1>1. /\ id \in fresh /\ Len(queue) < MaxQueueSize /\ fresh' = fresh \ {id}
        /\ ProcessNext(q, running) /\ UNCHANGED <<completed, executor, backlog>>
    BY DEF Enqueue, Given
  <1>2. n \in Nat /\ Len(queue) \in Nat /\ MaxQueueSize \in Nat /\ MaxConcurrent \in Nat
        /\ Cardinality(running) \in Nat
    BY FS_CardinalityType, TaskQueueAssumption
  <1>3. Given' = Given \cup {id} /\ id \notin Given
    BY <1>1 DEF Given
  <1>4. IsFiniteSet(Given') /\ Cardinality(Given') = n + 1
    BY <1>3, FS_AddElement
  <1>5. t \in QueuedTask /\ t.id = id /\ t.enqueuedAt = n
    BY <1>2 DEF QueuedTask
  <1> HIDE DEF n, t
  <1>6. \A i \in 1..Len(queue) : queue[i].id # t.id /\ queue[i].enqueuedAt < t.enqueuedAt
    BY <1>1, <1>5 DEF n
  <1>7. /\ q \in Seq(QueuedTask) /\ Len(q) = Len(queue) + 1 /\ Ordered(q) /\ Distinct(q)
        /\ \A i \in 1..(Len(queue) + 1) : q[i] = t \/ \E j \in 1..Len(queue) : q[i] = queue[j]
    BY <1>5, <1>6, InsertedInOrder
  <1> HIDE DEF q
  <1>8. \A i \in 1..Len(q) : /\ q[i].id \notin running \cup fresh'
                             /\ q[i].enqueuedAt < n + 1
                             /\ \A j \in 1..Len(completed) : q[i].id # completed[j]
    <2> SUFFICES ASSUME NEW i \in 1..Len(q)
                 PROVE  /\ q[i].id \notin running \cup fresh' /\ q[i].enqueuedAt < n + 1
                        /\ \A j \in 1..Len(completed) : q[i].id # completed[j]
      OBVIOUS
    <2>1. CASE q[i] = t
      BY <1>1, <1>2, <1>5, <2>1
    <2>2. ASSUME NEW j \in 1..Len(queue), q[i] = queue[j]
          PROVE  /\ q[i].id \notin running \cup fresh' /\ q[i].enqueuedAt < n + 1
                 /\ \A l \in 1..Len(completed) : q[i].id # completed[l]
      <3>1. queue[j] \in QueuedTask /\ queue[j].enqueuedAt < n
        BY DEF n
      <3>2. queue[j].enqueuedAt \in Nat
        BY <3>1 DEF QueuedTask
      <3> QED BY <1>1, <1>2, <2>2, <3>1, <3>2
    <2> QED BY <1>7, <2>1, <2>2
  <1>9. /\ queue' \in Seq(QueuedTask) /\ Ordered(queue') /\ Distinct(queue')
        /\ running' \in SUBSET QueueIds /\ IsFiniteSet(running')
        /\ Cardinality(running') <= MaxConcurrent
        /\ \A i \in 1..Len(queue') : \E j \in 1..Len(q) :
              queue'[i] = q[j] /\ queue'[i].id \notin running'
        /\ \A x \in running' : x \in running \/ \E j \in 1..Len(q) : x = q[j].id
        /\ \/ queue' = q /\ running' = running
                 /\ (executor /\ q # <<>> => Cardinality(running) = MaxConcurrent)
           \/ /\ Len(queue') = Len(q) - 1 /\ Cardinality(running') = Cardinality(running) + 1
              /\ q # <<>> /\ Cardinality(running) < MaxConcurrent
    BY <1>1, <1>7, <1>8, ProcessNextGood
  <1>10. \A i \in 1..Len(queue') :
            /\ queue'[i].id \notin running' \cup fresh' /\ queue'[i].enqueuedAt < Cardinality(Given')
            /\ \A j \in 1..Len(completed') : queue'[i].id # completed'[j]
    BY <1>1, <1>4, <1>8, <1>9
  <1>11. /\ \A j \in 1..Len(completed') : completed'[j] \notin running' \cup fresh'
         /\ running' \cap fresh' = {}
    <2>1. ASSUME NEW x \in running'
          PROVE  x \notin fresh' /\ \A j \in 1..Len(completed) : completed[j] # x
      <3>1. CASE x \in running
        BY <1>1, <3>1
      <3>2. ASSUME NEW i \in 1..Len(q), x = q[i].id
            PROVE  x \notin fresh' /\ \A j \in 1..Len(completed) : completed[j] # x
        BY <1>8, <3>2
      <3> QED BY <1>9, <3>1, <3>2
    <2>2. \A j \in 1..Len(completed) : completed[j] \notin fresh'
      BY <1>1
    <2>3. completed' = completed
      BY <1>1
    <2> HIDE DEF QueueIInv
    <2> QED BY <2>1, <2>2, <2>3
  <1>12. Len(queue') <= MaxQueueSize
    BY <1>1, <1>2, <1>7, <1>9
  <1>13. executor' /\ ~backlog' /\ queue' # <<>> => Cardinality(running') = MaxConcurrent
    <2> SUFFICES ASSUME executor, ~backlog, queue' # <<>>, Len(queue') = Len(q) - 1,
                        Cardinality(running) < MaxConcurrent
                 PROVE  FALSE
      BY <1>1, <1>9
    <2>1. queue = <<>>
      BY <1>2
    <2> QED BY <1>7, <1>9, <2>1
  <1>14. fresh' \subseteq QueueIds /\ UNCHANGED <<completed, executor, backlog>>
    BY <1>1
  <1>15. running' \subseteq QueueIds
    BY <1>9
  <1> QED BY <1>4, <1>9, <1>10, <1>11, <1>12, <1>13, <1>14, <1>15

LEMMA FinishStep == ASSUME QueueIInv, NEW id \in QueueIds, Finish(id) PROVE QueueIInv'
  <1> USE DEF QueueIInv
  <1> DEFINE r == running \ {id}
             c == Append(completed, id)
  <1>1. /\ id \in running /\ completed' = (IF Len(c) > KeepCompleted THEN Tail(c) ELSE c)
        /\ ProcessNext(queue, r) /\ UNCHANGED <<executor, backlog, fresh>>
    BY DEF Finish
  <1>2. /\ IsFiniteSet(r) /\ Cardinality(r) = Cardinality(running) - 1
        /\ Cardinality(running) \in Nat /\ MaxConcurrent \in Nat /\ KeepCompleted \in Nat \ {0}
    BY <1>1, FS_RemoveElement, FS_CardinalityType, TaskQueueAssumption
  <1>3. /\ c \in Seq(QueueIds) /\ Len(c) = Len(completed) + 1 /\ Len(completed) \in Nat
        /\ \A i \in 1..Len(completed) : c[i] = completed[i]
        /\ c[Len(completed) + 1] = id
    OBVIOUS
  <1>4. \A i, j \in 1..Len(c) : c[i] = c[j] => i = j
    <2>1. \A i \in 1..Len(completed) : completed[i] # id
      BY <1>1
    <2> HIDE DEF c
    <2> QED BY <1>3, <2>1
  <1>5. \A i \in 1..Len(c) : /\ c[i] \notin r \cup fresh
                             /\ \A j \in 1..Len(queue) : queue[j].id # c[i]
    <2> HIDE DEF c
    <2>1. id \notin r \cup fresh /\ \A j \in 1..Len(queue) : queue[j].id # id
      BY <1>1
    <2>2. ASSUME NEW i \in 1..Len(c)
          PROVE  c[i] \notin r \cup fresh /\ \A j \in 1..Len(queue) : queue[j].id # c[i]
      <3>1. CASE i \in 1..Len(completed)
        BY <1>3, <3>1
      <3>2. CASE i = Len(completed) + 1
        BY <1>3, <2>1, <3>2
      <3> QED BY <1>3, <3>1, <3>2
    <2> QED BY <2>2
  <1> HIDE DEF c, r
  <1>6. /\ completed' \in Seq(QueueIds) /\ Len(completed') <= KeepCompleted
        /\ \A i, j \in 1..Len(completed') : completed'[i] = completed'[j] => i = j
        /\ \A i \in 1..Len(completed') : \E j \in 1..Len(c) : completed'[i] = c[j]
    <2>1. CASE Len(c) > KeepCompleted
      <3>1. c # <<>>
        BY <1>3
      <3>2. /\ completed' = Tail(c) /\ Tail(c) \in Seq(QueueIds) /\ Len(Tail(c)) = Len(c) - 1
            /\ \A i \in 1..(Len(c) - 1) : Tail(c)[i] = c[i + 1]
        BY <1>1, <1>3, <2>1, <3>1
      <3> DEFINE d == Tail(c)
      <3> HIDE DEF d
      <3>3. \A i \in 1..Len(d) : i + 1 \in 1..Len(c) /\ d[i] = c[i + 1]
        BY <1>3, <3>2 DEF d
      <3>4. \A i, j \in 1..Len(d) : d[i] = d[j] => i = j
        BY <1>4, <3>3
      <3> QED BY <1>2, <1>3, <3>2, <3>3, <3>4 DEF d
    <2>2. CASE ~(Len(c) > KeepCompleted)
      <3>1. completed' = c
        BY <1>1, <2>2
      <3> QED BY <1>2, <1>3, <1>4, <2>2, <3>1
    <2> QED BY <2>1, <2>2
  <1>7. r \in SUBSET QueueIds /\ Cardinality(r) <= MaxConcurrent
        /\ \A i \in 1..Len(queue) : queue[i].id \notin r
    BY <1>2 DEF r
  <1>8. /\ queue' \in Seq(QueuedTask) /\ Ordered(queue') /\ Distinct(queue')
        /\ running' \in SUBSET QueueIds /\ IsFiniteSet(running')
        /\ Cardinality(running') <= MaxConcurrent
        /\ \A i \in 1..Len(queue') : \E j \in 1..Len(queue) :
              queue'[i] = queue[j] /\ queue'[i].id \notin running'
        /\ \A x \in running' : x \in r \/ \E j \in 1..Len(queue) : x = queue[j].id
        /\ \/ queue' = queue /\ running' = r
                 /\ (executor /\ queue # <<>> => Cardinality(r) = MaxConcurrent)
           \/ /\ Len(queue') = Len(queue) - 1 /\ Cardinality(running') = Cardinality(r) + 1
              /\ queue # <<>> /\ Cardinality(r) < MaxConcurrent
    BY <1>1, <1>2, <1>7, ProcessNextGood
  <1>9. Given' = Given
    BY <1>1 DEF Given
  <1>10. \A i \in 1..Len(queue') :
            /\ queue'[i].id \notin running' \cup fresh' /\ queue'[i].enqueuedAt < Cardinality(Given')
            /\ \A j \in 1..Len(completed') : queue'[i].id # completed'[j]
    BY <1>1, <1>5, <1>6, <1>8, <1>9
  <1>11. /\ \A j \in 1..Len(completed') : completed'[j] \notin running' \cup fresh'
         /\ running' \cap fresh' = {}
    <2>1. ASSUME NEW x \in running'
          PROVE  x \notin fresh' /\ \A j \in 1..Len(completed') : completed'[j] # x
      <3>1. CASE x \in r
        <4>1. x \in running
          BY <3>1 DEF r
        <4> QED BY <1>1, <1>5, <1>6, <3>1, <4>1
      <3>2. ASSUME NEW i \in 1..Len(queue), x = queue[i].id
            PROVE  x \notin fresh' /\ \A j \in 1..Len(completed') : completed'[j] # x
        BY <1>1, <1>5, <1>6, <3>2
      <3> QED BY <1>8, <3>1, <3>2
    <2>2. \A j \in 1..Len(completed') : completed'[j] \notin fresh'
      BY <1>1, <1>5, <1>6
    <2> HIDE DEF QueueIInv
    <2> QED BY <2>1, <2>2
  <1>12. Len(queue') <= MaxQueueSize
    <2>1. Len(queue) \in Nat /\ MaxQueueSize \in Nat
      BY TaskQueueAssumption
    <2> QED BY <1>8, <2>1
  <1>13. executor' /\ ~backlog' /\ queue' # <<>> => Cardinality(running') = MaxConcurrent
    BY <1>1, <1>2, <1>8
  <1>14. running' \subseteq QueueIds
    BY <1>8
  <1> QED BY <1>1, <1>6, <1>8, <1>9, <1>10, <1>11, <1>12, <1>13, <1>14

LEMMA QueueStep == QueueIInv /\ [QueueNext]_queueVars => QueueIInv'
  <1> SUFFICES ASSUME QueueIInv, [QueueNext]_queueVars PROVE QueueIInv'
    OBVIOUS
  <1>1. CASE SetExecutor
    BY <1>1 DEF SetExecutor, QueueIInv, Given, Ordered, Distinct
  <1>2. ASSUME NEW id \in QueueIds, Cancel(id) PROVE QueueIInv'
    <2> USE DEF QueueIInv
    <2>1. PICK k \in 1..Len(queue) : queue' = RemoveAt(queue, k)
      BY <1>2 DEF Cancel
    <2>2. UNCHANGED <<running, completed, executor, backlog, fresh>> /\ Given' = Given
      BY <1>2 DEF Cancel, Given
    <2>3. /\ queue' \in Seq(QueuedTask) /\ Len(queue') = Len(queue) - 1
          /\ \A i \in 1..(Len(queue) - 1) : queue'[i] = IF i < k THEN queue[i] ELSE queue[i + 1]
      BY <2>1, RemoveAtElements
    <2>4. /\ Ordered(queue') /\ Distinct(queue')
          /\ \A i \in 1..Len(queue') : \E j \in 1..Len(queue) : queue'[i] = queue[j]
      <3>1. Ordered(queue) /\ Distinct(queue) /\ queue \in Seq(QueuedTask)
        OBVIOUS
      <3> HIDE DEF QueueIInv
      <3>2. Cancelled(queue, k)
        BY <2>1, <3>1, CancelledInOrder
      <3> QED BY <2>1, <3>2 DEF Cancelled
    <2>5. queue # <<>> /\ Len(queue) \in Nat /\ MaxQueueSize \in Nat
      BY <2>1, TaskQueueAssumption
    <2>6. Len(queue') <= MaxQueueSize
      BY <2>3, <2>5
    <2>7. \A i \in 1..Len(queue') :
             /\ queue'[i].id \notin running \cup fresh /\ queue'[i].enqueuedAt < Cardinality(Given)
             /\ \A j \in 1..Len(completed) : queue'[i].id # completed[j]
      BY <2>4
    <2> QED BY <2>2, <2>3, <2>4, <2>5, <2>6, <2>7
  <1>3. CASE UNCHANGED queueVars
    BY <1>3 DEF queueVars, QueueIInv, Given, Ordered, Distinct
  <1> QED BY <1>1, <1>2, <1>3, EnqueueStep, FinishStep DEF QueueNext

LEMMA QueueGuarantees ==
    QueueIInv => QueueTypeOK /\ QueueOrdered /\ OnePlace /\ WorkConserving
  <1> SUFFICES ASSUME QueueIInv PROVE QueueTypeOK /\ QueueOrdered /\ OnePlace /\ WorkConserving
    OBVIOUS
  <1> USE DEF QueueIInv
  <1>1. DOMAIN queue = 1..Len(queue) /\ DOMAIN completed = 1..Len(completed)
    OBVIOUS
  <1>2. QueueTypeOK
    BY DEF QueueTypeOK
  <1>3. QueueOrdered
    BY <1>1 DEF QueueOrdered, Ordered, Before
  <1>4. WorkConserving
    BY DEF WorkConserving
  <1> DEFINE waiting == {queue[i].id : i \in DOMAIN queue}
             done == {completed[i] : i \in DOMAIN completed}
  <1>5. Cardinality(waiting) = Len(queue)
    <2> DEFINE f == [i \in 1..Len(queue) |-> queue[i].id]
    <2>1. f \in Bijection(1..Len(queue), waiting)
      <3>1. f \in [1..Len(queue) -> waiting]
        BY <1>1
      <3>2. \A i, j \in 1..Len(queue) : f[i] = f[j] => i = j
        BY DEF Distinct
      <3>3. \A x \in waiting : \E i \in 1..Len(queue) : f[i] = x
        BY <1>1
      <3> HIDE DEF f
      <3> QED BY <3>1, <3>2, <3>3, Fun_IsBij
    <2> HIDE DEF f, waiting
    <2>2. PICK n \in Nat : n = Len(queue)
      OBVIOUS
    <2>3. IsFiniteSet(1..n) /\ Cardinality(1..n) = n
      BY FS_Interval
    <2> QED BY <2>1, <2>2, <2>3, FS_Bijection DEF ExistsBijection
  <1>6. Cardinality(done) = Len(completed)
    <2> DEFINE f == [i \in 1..Len(completed) |-> completed[i]]
    <2>1. f \in Bijection(1..Len(completed), done)
      <3>1. f \in [1..Len(completed) -> done]
        BY <1>1
      <3>2. \A i, j \in 1..Len(completed) : f[i] = f[j] => i = j
        OBVIOUS
      <3>3. \A x \in done : \E i \in 1..Len(completed) : f[i] = x
        BY <1>1
      <3> HIDE DEF f
      <3> QED BY <3>1, <3>2, <3>3, Fun_IsBij
    <2> HIDE DEF f, done
    <2>2. PICK n \in Nat : n = Len(completed)
      OBVIOUS
    <2>3. IsFiniteSet(1..n) /\ Cardinality(1..n) = n
      BY FS_Interval
    <2> QED BY <2>1, <2>2, <2>3, FS_Bijection DEF ExistsBijection
  <1>7. /\ waiting \cap running = {} /\ running \cap done = {} /\ waiting \cap done = {}
        /\ (waiting \cup running \cup done) \cap fresh = {}
    <2>1. waiting \cap (running \cup fresh) = {}
      BY <1>1
    <2>2. done \cap (running \cup fresh) = {}
      BY <1>1
    <2>3. waiting \cap done = {}
      BY <1>1
    <2>4. running \cap fresh = {}
      OBVIOUS
    <2> HIDE DEF QueueIInv, waiting, done
    <2> QED BY <2>1, <2>2, <2>3, <2>4
  <1> QED BY <1>2, <1>3, <1>4, <1>5, <1>6, <1>7 DEF OnePlace

\* The queue serves the highest priority first and within a priority in the
\* order of arrival, a task is in one place only, and no task waits while there
\* is room, whatever the limits and however tasks are inserted, started and
\* cancelled (task-queue.ts).
THEOREM QueueIsFair == QueueSpec => [](QueueTypeOK /\ QueueOrdered /\ OnePlace /\ WorkConserving)
  BY QueueInitIInv, QueueStep, QueueGuarantees, PTL DEF QueueSpec

-----------------------------------------------------------------------------
(* The chain and the router. *)

\* Of a chain that still goes on every step so far was completed; of one that
\* ended in a failure, the last that was called failed.
ChainIInv ==
    /\ chain \in [onlyOnSuccess : [1..ChainLength -> BOOLEAN], steps : Seq(StepResults),
                  status : {"idle", "routing", "running", "completed", "partial", "failed"},
                  calls : 0..ChainLength]
    /\ \A p \in DOMAIN offers : offers[p] \in Offer
    /\ chain.calls <= Len(chain.steps)
    /\ \A i \in 1..(chain.calls - 1) : chain.steps[i] = "completed"
    /\ \A i \in 1..Len(chain.steps) : chain.steps[i] = "skipped" <=> i > chain.calls
    /\ chain.status \in {"idle", "routing", "running"} =>
          /\ Len(chain.steps) = chain.calls /\ chain.calls < ChainLength
          /\ chain.calls > 0 => chain.steps[chain.calls] = "completed"
    /\ chain.status = "completed" =>
          /\ Len(chain.steps) = ChainLength /\ chain.calls = ChainLength
          /\ chain.steps[ChainLength] = "completed"
    /\ chain.status \in {"partial", "failed"} => chain.calls > 0 /\ chain.steps[chain.calls] = "failed"

LEMMA ChainInitIInv == RoutingInit => ChainIInv
  <1> SUFFICES ASSUME RoutingInit PROVE ChainIInv
    OBVIOUS
  <1>1. ChainLength \in Nat /\ ChainLength > 0
    BY TaskRoutingAssumption
  <1>2. /\ chain.onlyOnSuccess \in [1..ChainLength -> BOOLEAN] /\ chain.steps = <<>>
        /\ chain.status = "idle" /\ chain.calls = 0
        /\ chain \in [onlyOnSuccess : [1..ChainLength -> BOOLEAN], steps : Seq(StepResults),
                  status : {"idle", "routing", "running", "completed", "partial", "failed"},
                  calls : 0..ChainLength]
    BY <1>1 DEF RoutingInit
  <1>3. \A p \in DOMAIN offers : offers[p] \in Offer
    BY DEF RoutingInit, NoOffer
  <1> QED BY <1>1, <1>2, <1>3 DEF ChainIInv

\* A step that adds one result to a chain that still goes on.
LEMMA StepDoneGood ==
    ASSUME ChainIInv, chain.status = "running", NEW result \in {"completed", "failed"},
           NEW status \in {"routing", "completed", "failed"}, StepDone(result, status),
           result = "failed" => status = "failed",
           result = "completed" =>
               status = (IF Len(chain.steps) + 1 = ChainLength THEN "completed" ELSE "routing"),
           offers' = NoOffer
    PROVE  ChainIInv'
  <1>1. PICK n \in Nat, m \in Nat : n = chain.calls /\ m = ChainLength /\ n < m
    BY TaskRoutingAssumption DEF ChainIInv
  <1>2. /\ chain.steps \in Seq(StepResults) /\ Len(chain.steps) = n
        /\ n > 0 => chain.steps[n] = "completed"
        /\ \A i \in 1..(n - 1) : chain.steps[i] = "completed"
    BY <1>1 DEF ChainIInv
  <1> DEFINE s == chain.steps
             t == Append(s, result)
  <1>3. chain' = [chain EXCEPT !.steps = t, !.status = status, !.calls = n + 1]
    BY <1>1 DEF StepDone
  <1>4. /\ t \in Seq(StepResults) /\ Len(t) = n + 1 /\ t[n + 1] = result
        /\ \A i \in 1..n : t[i] = s[i]
    BY <1>2 DEF StepResults
  <1>5. \A i \in 1..n : t[i] = "completed"
    <2>1. \A i \in 1..n : i = n \/ i \in 1..(n - 1)
      OBVIOUS
    <2> HIDE DEF t
    <2> QED BY <1>2, <1>4, <2>1
  <1>6. n + 1 \in 0..ChainLength /\ ChainLength \in Nat
    BY <1>1
  <1> HIDE DEF s, t
  <1>7. /\ chain' \in [onlyOnSuccess : [1..ChainLength -> BOOLEAN], steps : Seq(StepResults),
                  status : {"idle", "routing", "running", "completed", "partial", "failed"},
                  calls : 0..ChainLength]
        /\ chain'.steps = t /\ chain'.status = status /\ chain'.calls = n + 1
    BY <1>3, <1>4, <1>6 DEF ChainIInv
  <1>8. \A p \in DOMAIN offers' : offers'[p] \in Offer
    BY DEF NoOffer
  <1>9. \A i \in 1..Len(t) : t[i] = "skipped" <=> i > n + 1
    <2> SUFFICES ASSUME NEW i \in 1..(n + 1) PROVE t[i] # "skipped"
      BY <1>4
    <2>1. i = n + 1 \/ i \in 1..n
      OBVIOUS
    <2> QED BY <1>4, <1>5, <2>1
  <1>10. /\ status = "routing" => t[n + 1] = "completed" /\ n + 1 < m
         /\ status = "completed" => t[n + 1] = "completed" /\ n + 1 = m
         /\ status = "failed" => t[n + 1] = "failed"
    BY <1>1, <1>2, <1>4
  <1> QED BY <1>1, <1>4, <1>5, <1>7, <1>8, <1>9, <1>10 DEF ChainIInv

\* What a sequence with one more element at its end is.
LEMMA ConcatenatedElements ==
    ASSUME NEW S, NEW a \in Seq(S), NEW b \in Seq(S), Len(b) = 1
    PROVE  /\ a \o b \in Seq(S) /\ Len(a \o b) = Len(a) + 1
           /\ (a \o b)[Len(a) + 1] = b[1]
           /\ \A i \in 1..Len(a) : (a \o b)[i] = a[i]
  <1>1. a \o b \in Seq(S) /\ Len(a \o b) = Len(a) + Len(b)
    BY ConcatProperties
  <1>2. \A i \in 1..(Len(a) + Len(b)) :
            (a \o b)[i] = IF i <= Len(a) THEN a[i] ELSE b[i - Len(a)]
    BY ConcatProperties
  <1>3. PICK n \in Nat : n = Len(a)
    OBVIOUS
  <1>4. (a \o b)[n + 1] = b[1]
    <2>1. (n + 1) - n = 1 /\ n + 1 \in 1..(n + 1) /\ ~(n + 1 <= n)
      OBVIOUS
    <2> QED BY <1>2, <1>3, <2>1
  <1>5. ASSUME NEW i \in 1..n PROVE (a \o b)[i] = a[i]
    BY <1>2, <1>3
  <1> QED BY <1>1, <1>3, <1>4, <1>5

LEMMA ChainStep == ChainIInv /\ [ChainNext]_<<chain, offers>> => ChainIInv'
  <1> SUFFICES ASSUME ChainIInv, [ChainNext]_<<chain, offers>> PROVE ChainIInv'
    OBVIOUS
  <1> DEFINE Type == [onlyOnSuccess : [1..ChainLength -> BOOLEAN], steps : Seq(StepResults),
                      status : {"idle", "routing", "running", "completed", "partial", "failed"},
                      calls : 0..ChainLength]
  <1>t. chain \in Type
    BY DEF ChainIInv
  <1>1. ASSUME NEW only \in [1..ChainLength -> BOOLEAN], StartChain(only) PROVE ChainIInv'
    <2>1. /\ chain.status = "idle" /\ offers' = offers
          /\ chain' = [chain EXCEPT !.onlyOnSuccess = only, !.status = "routing"]
      BY <1>1 DEF StartChain
    <2>2. /\ chain' \in Type /\ chain'.status = "routing" /\ chain'.steps = chain.steps
          /\ chain'.calls = chain.calls
      BY <1>t, <2>1
    <2> QED BY <2>1, <2>2 DEF ChainIInv
  <1>2. ASSUME NEW P \in SUBSET RoutePeers, NEW o \in [P -> Offer], Discover(o) PROVE ChainIInv'
    <2>1. /\ chain.status = "routing" /\ offers' = o
          /\ chain' = [chain EXCEPT !.status = "running"]
      BY <1>2 DEF Discover
    <2>2. /\ chain' \in Type /\ chain'.status = "running" /\ chain'.steps = chain.steps
          /\ chain'.calls = chain.calls
      BY <1>t, <2>1
    <2>3. \A p \in DOMAIN offers' : offers'[p] \in Offer
      BY <2>1
    <2> QED BY <2>1, <2>2, <2>3 DEF ChainIInv
  <1>3. CASE StepSucceeds \/ StepThrows
    BY <1>3, StepDoneGood DEF StepSucceeds, StepThrows
  <1>4. CASE StepFails
    <2>1. PICK n \in Nat, m \in Nat : n = chain.calls /\ m = ChainLength /\ n < m
      BY <1>4, TaskRoutingAssumption DEF ChainIInv, StepFails
    <2>2. /\ chain.steps \in Seq(StepResults) /\ Len(chain.steps) = n
          /\ n > 0 => chain.steps[n] = "completed"
          /\ \A i \in 1..(n - 1) : chain.steps[i] = "completed"
      BY <1>4, <2>1 DEF ChainIInv, StepFails
    <2> DEFINE s == chain.steps
               t == s \o <<"failed">>
               u == Skipped(n + 2)
    <2>3. PICK l \in Nat : u = [i \in 1..l |-> "skipped"]
      <3> DEFINE J == {j \in (n + 2)..ChainLength : chain.onlyOnSuccess[j]}
      <3>1. IsFiniteSet(J)
        <4>1. PICK a \in Int, b \in Int : a = n + 2 /\ b = ChainLength
          BY <2>1
        <4>2. IsFiniteSet(a..b) /\ J \subseteq a..b
          BY <4>1, FS_Interval
        <4> QED BY <4>2, FS_Subset
      <3>2. Cardinality(J) \in Nat
        BY <3>1, FS_CardinalityType
      <3> QED BY <3>2 DEF Skipped
    <2>4. chain' = [chain EXCEPT !.steps = t \o u, !.status = "partial", !.calls = n + 1]
          /\ offers' = NoOffer
      <3>1. (n + 1) + 1 = n + 2
        OBVIOUS
      <3> QED BY <1>4, <2>1, <2>2, <3>1 DEF StepFails
    <2>5. /\ t \in Seq(StepResults) /\ Len(t) = n + 1 /\ t[n + 1] = "failed"
          /\ \A i \in 1..n : t[i] = s[i]
      <3>1. s \in Seq(StepResults) /\ Len(s) = n
        BY <2>2
      <3> HIDE DEF s
      <3>2. /\ <<"failed">> \in Seq(StepResults) /\ Len(<<"failed">>) = 1
            /\ <<"failed">>[1] = "failed"
        BY DEF StepResults
      <3> DEFINE f == <<"failed">>
      <3> HIDE DEF f
      <3>3. f \in Seq(StepResults) /\ Len(f) = 1 /\ f[1] = "failed"
        BY <3>2 DEF f
      <3>4. /\ s \o f \in Seq(StepResults) /\ Len(s \o f) = n + 1
            /\ (s \o f)[n + 1] = f[1] /\ \A i \in 1..n : (s \o f)[i] = s[i]
        BY <3>1, <3>3, ConcatenatedElements
      <3> QED BY <3>3, <3>4 DEF f
    <2>6. u \in Seq(StepResults) /\ Len(u) = l /\ \A i \in 1..l : u[i] = "skipped"
      BY <2>3 DEF StepResults
    <2>7. \A i \in 1..n : s[i] = "completed"
      <3>1. \A i \in 1..n : i = n \/ i \in 1..(n - 1)
        OBVIOUS
      <3> QED BY <2>2, <3>1
    <2> DEFINE v == t \o u
    <2> HIDE DEF s, t, u
    <2>8. /\ v \in Seq(StepResults) /\ Len(v) = n + 1 + l
          /\ \A i \in 1..(n + 1) : v[i] = t[i]
          /\ \A i \in 1..(n + 1 + l) : i > n + 1 => v[i] = u[i - (n + 1)] /\ i - (n + 1) \in 1..l
      BY <2>5, <2>6
    <2> HIDE DEF v
    <2>9. \A i \in 1..n : v[i] = "completed"
      BY <2>5, <2>7, <2>8
    <2>10. v[n + 1] = "failed"
      BY <2>5, <2>8
    <2>11. \A i \in 1..(n + 1 + l) : i > n + 1 => v[i] = "skipped"
      BY <2>6, <2>8
    <2>12. \A i \in 1..Len(v) : v[i] = "skipped" <=> i > n + 1
      <3>1. \A i \in 1..(n + 1 + l) : i \in 1..n \/ i = n + 1 \/ i > n + 1
        OBVIOUS
      <3> QED BY <2>8, <2>9, <2>10, <2>11, <3>1
    <2>13. n + 1 \in 0..ChainLength
      BY <2>1
    <2>14. chain' \in Type /\ chain'.steps = v /\ chain'.status = "partial" /\ chain'.calls = n + 1
      BY <1>t, <2>4, <2>8, <2>13 DEF v
    <2>15. \A p \in DOMAIN offers' : offers'[p] \in Offer
      BY <2>4 DEF NoOffer
    <2> QED BY <2>8, <2>9, <2>10, <2>12, <2>14, <2>15 DEF ChainIInv
  <1>5. CASE UNCHANGED <<chain, offers>>
    BY <1>5 DEF ChainIInv
  <1> QED BY <1>1, <1>2, <1>3, <1>4, <1>5 DEF ChainNext

LEMMA ChainStops == ChainIInv => ChainStopsAtFailure
  <1> SUFFICES ASSUME ChainIInv PROVE ChainStopsAtFailure
    OBVIOUS
  <1>1. PICK n \in Nat, m \in Nat : n = chain.calls /\ m = ChainLength /\ n <= m /\ m > 0
    BY TaskRoutingAssumption DEF ChainIInv
  <1>2. /\ chain.steps \in Seq(StepResults) /\ DOMAIN chain.steps = 1..Len(chain.steps)
        /\ \A i \in 1..(n - 1) : chain.steps[i] = "completed"
        /\ \A i \in 1..Len(chain.steps) : chain.steps[i] = "skipped" <=> i > n
        /\ n <= Len(chain.steps) /\ Len(chain.steps) \in Nat
    BY <1>1 DEF ChainIInv
  <1>3. ASSUME chain.status = "completed"
        PROVE  Len(chain.steps) = m /\ \A i \in 1..m : chain.steps[i] = "completed"
    <2>1. Len(chain.steps) = m /\ n = m /\ chain.steps[m] = "completed"
      BY <1>1, <1>3 DEF ChainIInv
    <2>2. \A i \in 1..m : i = m \/ i \in 1..(m - 1)
      OBVIOUS
    <2> QED BY <1>2, <2>1, <2>2
  <1>4. ASSUME Len(chain.steps) = m, \A i \in 1..m : chain.steps[i] = "completed"
        PROVE  chain.status = "completed"
    <2>1. n = m
      <3>1. m \in 1..Len(chain.steps) /\ chain.steps[m] # "skipped"
        BY <1>1, <1>4
      <3> QED BY <1>1, <1>2, <3>1
    <2>2. chain.status \notin {"partial", "failed"}
      BY <1>1, <1>4, <2>1 DEF ChainIInv
    <2>3. chain.status \notin {"idle", "routing", "running"}
      BY <1>1, <2>1 DEF ChainIInv
    <2>4. chain.status \in {"idle", "routing", "running", "completed", "partial", "failed"}
      BY DEF ChainIInv
    <2> QED BY <2>2, <2>3, <2>4
  <1> QED BY <1>1, <1>2, <1>3, <1>4 DEF ChainStopsAtFailure

-----------------------------------------------------------------------------
(* The router: what CpuScore is, and that it and the three weights never     *)
(* rank a clearly better offer behind another (task-router.ts).              *)

LEMMA CpuScoreIs ==
    ASSUME NEW c \in Int
    PROVE  /\ CpuScore(c) \in 0..10
           /\ c < 0 => CpuScore(c) = 0
           /\ c >= 0 /\ 10 - c \div 10 >= 0 => CpuScore(c) = 10 - c \div 10
           /\ c >= 0 /\ 10 - c \div 10 < 0 => CpuScore(c) = 0
  <1>1. CASE c < 0
    BY <1>1 DEF CpuScore
  <1>2. CASE c >= 0
    <2>1. PICK d \in Int : d = c \div 10 /\ d >= 0
      BY <1>2
    <2>2. CpuScore(c) = Max({0, 10 - d})
      BY <1>2, <2>1 DEF CpuScore
    <2>3. Max({0, 10 - d}) \in {0, 10 - d} /\ \A y \in {0, 10 - d} : Max({0, 10 - d}) >= y
      <3>1. \E x \in {0, 10 - d} : \A y \in {0, 10 - d} : x >= y
        BY <2>1
      <3> QED BY <3>1 DEF Max
    <2> QED BY <1>2, <2>1, <2>2, <2>3
  <1> QED BY <1>1, <1>2

LEMMA CpuScoreFalls ==
    ASSUME NEW c \in Int, NEW d \in Int, c >= 0, d < 0 \/ c <= d
    PROVE  CpuScore(c) >= CpuScore(d)
  <1>1. CASE d < 0
    BY <1>1, CpuScoreIs
  <1>2. CASE d >= 0
    <2>1. c \div 10 \in Int /\ d \div 10 \in Int /\ c \div 10 <= d \div 10
      BY <1>2
    <2> QED BY <1>2, <2>1, CpuScoreIs
  <1> QED BY <1>1, <1>2

LEMMA ClearlyScoresMore ==
    ASSUME NEW o \in Offer, NEW q \in Offer, Clearly(o, q)
    PROVE  Score(o) > Score(q) /\ Score(o) \in Int /\ Score(q) \in Int
  <1>1. /\ o.exact \in BOOLEAN /\ o.local \in BOOLEAN /\ o.cpuPercent \in Int
        /\ o.health \in {"healthy", "degraded", "offline"}
        /\ q.exact \in BOOLEAN /\ q.local \in BOOLEAN /\ q.cpuPercent \in Int
        /\ q.health \in {"healthy", "degraded", "offline"}
    BY TaskRoutingAssumption DEF Offer
  <1>2. /\ q.exact => o.exact
        /\ HealthScore(o.health) >= HealthScore(q.health)
        /\ q.local => o.local
        /\ o.exact # q.exact \/ o.health # q.health \/ o.local # q.local
    BY DEF Clearly, AtLeast
  <1>3. /\ CpuScore(o.cpuPercent) \in 0..10 /\ CpuScore(q.cpuPercent) \in 0..10
        /\ CpuScore(o.cpuPercent) >= CpuScore(q.cpuPercent)
    BY <1>1, CpuScoreIs, CpuScoreFalls DEF Clearly, AtLeast
  <1>4. /\ HealthScore("healthy") = 30 /\ HealthScore("degraded") = 10
        /\ HealthScore("offline") = 0
    BY DEF HealthScore
  <1>5. /\ HealthScore(o.health) \in Int /\ HealthScore(q.health) \in Int
        /\ o.health # q.health => HealthScore(o.health) # HealthScore(q.health)
    BY <1>1, <1>4
  <1> DEFINE co == CpuScore(o.cpuPercent)
             cq == CpuScore(q.cpuPercent)
             ho == HealthScore(o.health)
             hq == HealthScore(q.health)
             eo == IF o.exact THEN 100 ELSE 50
             eq == IF q.exact THEN 100 ELSE 50
             lo == IF o.local THEN 20 ELSE 0
             lq == IF q.local THEN 20 ELSE 0
  <1>6. /\ eo \in Int /\ eq \in Int /\ eo >= eq /\ (o.exact # q.exact => eo > eq)
        /\ lo \in Int /\ lq \in Int /\ lo >= lq /\ (o.local # q.local => lo > lq)
    BY <1>1, <1>2
  <1>7. Score(o) = eo + ho + lo + co /\ Score(q) = eq + hq + lq + cq
    BY DEF Score
  <1> HIDE DEF co, cq, ho, hq, eo, eq, lo, lq
  <1>8. ho \in Int /\ hq \in Int /\ ho >= hq /\ (o.health # q.health => ho > hq)
    BY <1>2, <1>5 DEF ho, hq
  <1>9. co \in Int /\ cq \in Int /\ co >= cq
    BY <1>3 DEF co, cq
  <1> QED BY <1>2, <1>6, <1>7, <1>8, <1>9

LEMMA RouterPrefers == ChainIInv => BestIsUndominated
  <1> SUFFICES ASSUME ChainIInv, NEW p \in Best, NEW q \in Candidates,
                      Clearly(offers[q], offers[p])
               PROVE  FALSE
    BY DEF BestIsUndominated
  <1>1. offers[p] \in Offer /\ offers[q] \in Offer
    BY DEF ChainIInv, Best, Candidates
  <1>2. Score(offers[q]) <= Score(offers[p])
    BY DEF Best
  <1> QED BY <1>1, <1>2, ClearlyScoresMore

\* A chain stops at its first failure and accounts for its steps, and a step is
\* never routed to a peer while one that is clearly better offers the skill
\* (task-chain.ts, task-router.ts).
THEOREM ChainIsSound ==
    RoutingInit /\ [][ChainNext]_<<chain, offers>> => [](ChainStopsAtFailure /\ BestIsUndominated)
  <1>1. RoutingInit => ChainIInv
    BY ChainInitIInv
  <1>2. ChainIInv /\ [ChainNext]_<<chain, offers>> => ChainIInv'
    BY ChainStep
  <1>3. ChainIInv => ChainStopsAtFailure /\ BestIsUndominated
    BY ChainStops, RouterPrefers
  <1> QED BY <1>1, <1>2, <1>3, PTL
=============================================================================
