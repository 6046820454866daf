------------------------------- MODULE Tasks -------------------------------
(* The task manager (tasks.ts), the executor behind POST /api/tasks/execute *)
(* (task-executor.ts, dashboard-api.ts), the placement gate in front of it  *)
(* (resource-metrics.ts) and delegate_task (mcp-server.ts). A request       *)
(* awaits twice, the memory measurement and the skill's handler; timeouts,  *)
(* other requests and shutdown fall in between.                             *)
EXTENDS Integers

CONSTANTS
    TaskIds,        \* the UUIDs createRequest draws
    SkillIds,         \* the skills a caller may name
    BuiltinSkills,  \* those with a handler from the start
    LateSkills      \* those registered when the database answers its probe

ASSUME TasksAssumption ==
    SkillIds # {} /\ BuiltinSkills \subseteq SkillIds /\ LateSkills \subseteq SkillIds

VARIABLES
    task,       \* tasks.ts: the map from id to task
    call,       \* the execute request that created the task, by its answer
    handlers,   \* task-executor.ts: the skills that have a handler
    sweeper     \* whether the timeout interval is still armed

taskVars == <<task, call, handlers, sweeper>>

Active == {"requested", "accepted"}
Ended == {"rejected", "completed", "failed", "timeout"}

Task == [state : Active \cup Ended \cup {"absent"},
         deadline : {"none", "ahead", "passed"},
         skill : SkillIds]

\* Where an execute request is, or how it was answered: 200 with a result,
\* refused 503 or 404, 500 with the task's id and the error, 200 without a
\* result (an error without a message), or the server's own 500, since the bus
\* or the audit log threw.
Answers == {"none", "measuring", "running",
            "result", "503", "404", "error", "empty", "thrown"}

TaskTypeOK ==
    /\ task \in [TaskIds -> Task]
    /\ call \in [TaskIds -> Answers]
    /\ handlers \in SUBSET SkillIds
    /\ sweeper \in BOOLEAN

TaskInit ==
    /\ task = [t \in TaskIds |->
                 [state |-> "absent", deadline |-> "none",
                  skill |-> CHOOSE s \in SkillIds : TRUE]]
    /\ call = [t \in TaskIds |-> "none"]
    /\ handlers = BuiltinSkills
    /\ sweeper = TRUE

\* createRequest: a deadline only if the caller gave one.
CreateRequest(t, s, deadline) ==
    /\ task[t].state = "absent"
    /\ task' = [task EXCEPT ![t] = [state |-> "requested", deadline |-> deadline, skill |-> s]]

\* accept, complete, fail: each returns null, changing nothing, in any other state.
Accepted(t) == task[t].state = "requested"
Moved(t, from, to) ==
    task' = IF task[t].state = from THEN [task EXCEPT ![t].state = to] ELSE task

\* The MCP tool delegate_task only creates the task.
DelegateTask(t, s) ==
    /\ \E d \in {"none", "ahead"} : CreateRequest(t, s, d)
    /\ UNCHANGED <<call, handlers, sweeper>>

\* Faulty variant of ExecuteTask: the task gets a default deadline.
ExecuteWithDeadline(t, s) ==
    /\ CreateRequest(t, s, "ahead")
    /\ call' = [call EXCEPT ![t] = "measuring"]
    /\ UNCHANGED <<handlers, sweeper>>

\* POST /api/tasks/execute creates a task without a deadline and hands it on.
ExecuteTask(t, s) ==
    /\ CreateRequest(t, s, "none")
    /\ call' = [call EXCEPT ![t] = "measuring"]
    /\ UNCHANGED <<handlers, sweeper>>

\* A dimension that was not measured (-1) or has no limit (0) does not count.
exceeds(value, limit) == limit > 0 /\ value >= 0 /\ value > limit

Refuses(metrics, limits) == \E d \in DOMAIN limits : exceeds(metrics[d], limits[d])

\* What the three readers may report, on a scale where the limits are 1: not
\* measured, at the limit, above it. The agent limit is off by default.
Dimensions == {"ram", "cpu", "agents"}
Metrics == [Dimensions -> {-1, 1, 2}]
Limits == [ram |-> 1, cpu |-> 1, agents |-> 0]

Tell(t, answer) == call' = [call EXCEPT ![t] = answer]

\* The continuation of handleTaskRequest after the memory measurement, up to
\* the await of the handler. A refusal and an acceptance are announced and
\* audited outside the try: if that throws, the caller gets the 500 and an
\* accepted task stays accepted.
Measured(t, metrics) ==
    /\ call[t] = "measuring"
    /\ \/ /\ Refuses(metrics, Limits)
          /\ Tell(t, "503") \/ Tell(t, "thrown")
          /\ task' = task
       \/ /\ ~Refuses(metrics, Limits)
          /\ task[t].skill \notin handlers \/ ~Accepted(t)
          /\ Tell(t, "404")
          /\ task' = task
       \/ /\ ~Refuses(metrics, Limits)
          /\ task[t].skill \in handlers /\ Accepted(t)
          /\ Tell(t, "running") \/ Tell(t, "thrown")
          /\ task' = [task EXCEPT ![t].state = "accepted"]
    /\ UNCHANGED <<handlers, sweeper>>

\* The catch: fail, which does nothing for a completed task, and the event,
\* whose listeners may throw in their turn.
Caught(t) == \E answer \in {"error", "empty", "thrown"} : Tell(t, answer)

\* The continuation after the handler: the executor reports its own view,
\* whatever complete returns. The event is emitted inside the try: a listener
\* that throws makes the executor report an error for the completed task.
HandlerReturns(t) ==
    /\ call[t] = "running"
    /\ Moved(t, "accepted", "completed")
    /\ Tell(t, "result") \/ Caught(t)
    /\ UNCHANGED <<handlers, sweeper>>

HandlerThrows(t) ==
    /\ call[t] = "running"
    /\ Moved(t, "accepted", "failed")
    /\ Caught(t)
    /\ UNCHANGED <<handlers, sweeper>>

\* influxdbHealthCheck answered.
RegisterLateSkills ==
    /\ handlers # handlers \cup LateSkills
    /\ handlers' = handlers \cup LateSkills
    /\ UNCHANGED <<task, call, sweeper>>

DeadlinePasses(t) ==
    /\ task[t].deadline = "ahead"
    /\ task' = [task EXCEPT ![t].deadline = "passed"]
    /\ UNCHANGED <<call, handlers, sweeper>>

Overdue == {t \in TaskIds : task[t].state \in Active /\ task[t].deadline = "passed"}

\* checkTimeouts, every ten seconds.
CheckTimeouts ==
    /\ sweeper
    /\ Overdue # {}
    /\ task' = [t \in TaskIds |->
                  IF t \in Overdue THEN [task[t] EXCEPT !.state = "timeout"] ELSE task[t]]
    /\ UNCHANGED <<call, handlers, sweeper>>

StopTasks ==
    /\ sweeper
    /\ sweeper' = FALSE
    /\ UNCHANGED <<task, call, handlers>>

TaskNext ==
    \/ \E t \in TaskIds : \/ \E s \in SkillIds : DelegateTask(t, s) \/ ExecuteTask(t, s)
                          \/ \E m \in Metrics : Measured(t, m)
                          \/ HandlerReturns(t)
                          \/ HandlerThrows(t)
                          \/ DeadlinePasses(t)
    \/ RegisterLateSkills
    \/ CheckTimeouts
    \/ StopTasks

TaskSpec == TaskInit /\ [][TaskNext]_taskVars

-----------------------------------------------------------------------------
\* What the caller of POST /api/tasks/execute was told agrees with the task
\* list: a result means the task completed, a refusal that it was never taken,
\* and an error that names the task that it has ended (though perhaps it
\* completed, and only a listener failed). The executor ignores what complete
\* and fail return (task-executor.ts:181), so this rests on no timeout ending
\* the task under a running handler.
CallerTold ==
    \A t \in TaskIds :
        /\ call[t] = "running" => task[t].state = "accepted"
        /\ call[t] = "result" => task[t].state = "completed"
        /\ call[t] \in {"503", "404"} => task[t].state = "requested"
        /\ call[t] \in {"error", "empty"} => task[t].state \in {"completed", "failed"}

\* Only the executor accepts, completes or fails a task: what a request did not
\* produce is requested or timed out. An accepted task has its handler running,
\* unless the bus or the audit log threw before that.
OnlyExecutedComplete ==
    \A t \in TaskIds :
        /\ task[t].state \in {"completed", "failed"}
               => call[t] \in {"result", "error", "empty", "thrown"}
        /\ task[t].state = "accepted" => call[t] \in {"running", "thrown"}

\* Tasks implement the one-shot request: the refinement mapping forgets which
\* of the two active states a task is in.
TaskVerdict ==
    [t \in TaskIds |-> CASE task[t].state = "absent" -> "none"
                         [] task[t].state \in Active -> "open"
                         [] OTHER -> task[t].state]

TaskOneShot == INSTANCE OneShot
    WITH Items <- TaskIds, Verdicts <- Ended, verdict <- TaskVerdict
=============================================================================
