---------------------------- MODULE TaskRouting ----------------------------
(* Chains of tasks (task-chain.ts), the choice of the peer for a step        *)
(* (task-router.ts) and the executions an agent instance records             *)
(* (execution-state.ts).                                                     *)
EXTENDS Integers, FiniteSets, Sequences, FiniteSetsExt

CONSTANTS
    ChainLength,     \* steps of the chain
    RoutePeers,      \* peers a step may go to
    CpuLoads,        \* their processor load in percent, -1 if unknown
    ExecutionIds,
    Writers          \* processes with the execution database open

ASSUME TaskRoutingAssumption == ChainLength \in Nat \ {0} /\ CpuLoads \subseteq Int

VARIABLES
    chain,       \* executeChain: which steps may be skipped, results so far, status
    offers,      \* the capabilities the router sees for the step's skill
    execution,   \* execution_state rows by id
    view         \* per writer, the row a transition read and the state it wants

routingVars == <<chain, offers, execution, view>>

-----------------------------------------------------------------------------
(* The router. A match is exact or by prefix; the capabilities of a peer the *)
(* mesh does not know are dropped, so offers has candidates only.            *)

Offer == [exact : BOOLEAN, health : {"healthy", "degraded", "offline"},
          local : BOOLEAN, cpuPercent : CpuLoads]

HealthScore(h) == CASE h = "healthy" -> 30 [] h = "degraded" -> 10 [] OTHER -> 0
CpuScore(c) == IF c < 0 THEN 0 ELSE Max({0, 10 - c \div 10})

\* Faulty variant of Score: a degraded peer is taken for an offline one.
ScoreDegradedIsOffline(o) ==
    (IF o.exact THEN 100 ELSE 50) + (IF o.health = "healthy" THEN 30 ELSE 0)
    + (IF o.local THEN 20 ELSE 0) + CpuScore(o.cpuPercent)

Score(o) ==
    (IF o.exact THEN 100 ELSE 50) + HealthScore(o.health)
    + (IF o.local THEN 20 ELSE 0) + CpuScore(o.cpuPercent)

Candidates == DOMAIN offers
\* Equal scores are drawn by lot.
Best == {p \in Candidates : \A q \in Candidates : Score(offers[q]) <= Score(offers[p])}

-----------------------------------------------------------------------------
(* The chain. A step goes to a peer of the router's choice and succeeds,     *)
(* answers an error, or throws; the last two end the chain.                  *)

StepResults == {"completed", "failed", "skipped"}

NoOffer == [p \in {} |-> {}]

RoutingInit ==
    /\ chain = [onlyOnSuccess |-> [i \in 1..ChainLength |-> TRUE],
                steps |-> <<>>, status |-> "idle", calls |-> 0]
    /\ offers = NoOffer
    /\ execution = [e \in ExecutionIds |-> "absent"]
    /\ view = [w \in Writers |-> [id |-> "none", read |-> "absent", wants |-> "absent"]]

StartChain(only) ==
    /\ chain.status = "idle"
    /\ chain' = [chain EXCEPT !.onlyOnSuccess = only, !.status = "routing"]
    /\ UNCHANGED <<offers, execution, view>>

\* The capabilities known for the next step.
Discover(o) ==
    /\ chain.status = "routing"
    /\ offers' = o
    /\ chain' = [chain EXCEPT !.status = "running"]
    /\ UNCHANGED <<execution, view>>

StepDone(result, status) ==
    chain' = [chain EXCEPT !.steps = Append(@, result), !.status = status, !.calls = @ + 1]

StepSucceeds ==
    /\ chain.status = "running" /\ Best # {}
    /\ StepDone("completed", IF Len(chain.steps) + 1 = ChainLength THEN "completed" ELSE "routing")
    /\ offers' = NoOffer
    /\ UNCHANGED <<execution, view>>

\* The steps that remain and wait for success are listed as skipped; the
\* others are not listed at all, and none is run.
Skipped(from) ==
    [i \in 1..Cardinality({j \in from..ChainLength : chain.onlyOnSuccess[j]}) |-> "skipped"]

\* Faulty variant of StepFails: the chain goes on after a failed step.
StepFailsAndGoesOn ==
    /\ chain.status = "running"
    /\ StepDone("failed", IF Len(chain.steps) + 1 = ChainLength THEN "completed" ELSE "routing")
    /\ offers' = NoOffer
    /\ UNCHANGED <<execution, view>>

StepFails ==
    /\ chain.status = "running"
    /\ LET n == Len(chain.steps) + 1
       IN  chain' = [chain EXCEPT !.steps = (@ \o <<"failed">>) \o Skipped(n + 1),
                                  !.status = "partial", !.calls = @ + 1]
    /\ offers' = NoOffer
    /\ UNCHANGED <<execution, view>>

StepThrows ==
    /\ chain.status = "running"
    /\ StepDone("failed", "failed")
    /\ offers' = NoOffer
    /\ UNCHANGED <<execution, view>>

-----------------------------------------------------------------------------
(* The execution rows. A transition reads the row and then updates it where  *)
(* the state is still the one it read.                                       *)

Valid(s) == CASE s = "accepted" -> {"running", "aborted"}
              [] s = "running" -> {"completed", "failed", "aborted"}
              [] OTHER -> {}

Create(e) ==
    /\ execution[e] = "absent"
    /\ execution' = [execution EXCEPT ![e] = "accepted"]
    /\ UNCHANGED <<chain, offers, view>>

\* The validity check on what was read.
Transition(w, e, s) ==
    /\ view[w].id = "none"
    /\ s \in Valid(execution[e])
    /\ view' = [view EXCEPT ![w] = [id |-> e, read |-> execution[e], wants |-> s]]
    /\ UNCHANGED <<chain, offers, execution>>

\* Faulty variant of Update: the UPDATE has no guard on the state.
UpdateUnguarded(w) ==
    /\ view[w].id # "none"
    /\ execution' = [execution EXCEPT ![view[w].id] = view[w].wants]
    /\ view' = [view EXCEPT ![w] = [id |-> "none", read |-> "absent", wants |-> "absent"]]
    /\ UNCHANGED <<chain, offers>>

\* The guarded UPDATE.
Update(w) ==
    /\ view[w].id # "none"
    /\ execution' = IF execution[view[w].id] = view[w].read
                    THEN [execution EXCEPT ![view[w].id] = view[w].wants] ELSE execution
    /\ view' = [view EXCEPT ![w] = [id |-> "none", read |-> "absent", wants |-> "absent"]]
    /\ UNCHANGED <<chain, offers>>

ChainNext ==
    \/ \E only \in [1..ChainLength -> BOOLEAN] : StartChain(only)
    \/ \E P \in SUBSET RoutePeers : \E o \in [P -> Offer] : Discover(o)
    \/ StepSucceeds \/ StepFails \/ StepThrows

ExecutionNext ==
    \/ \E e \in ExecutionIds : Create(e)
    \/ \E w \in Writers, e \in ExecutionIds,
          s \in {"running", "completed", "failed", "aborted"} : Transition(w, e, s)
    \/ \E w \in Writers : Update(w)

-----------------------------------------------------------------------------
RoutingTypeOK ==
    /\ chain.status \in {"idle", "routing", "running", "completed", "partial", "failed"}
    /\ chain.onlyOnSuccess \in [1..ChainLength -> BOOLEAN]
    /\ chain.steps \in Seq(StepResults) /\ chain.calls \in 0..ChainLength
    /\ \A p \in DOMAIN offers : offers[p] \in Offer
    /\ execution \in [ExecutionIds -> {"absent", "accepted", "running", "completed",
                                       "failed", "aborted"}]

\* A chain runs its steps in order and stops at the first that does not
\* succeed: every executed step but the last completed, the chain is completed
\* exactly if all its steps are, and what was not run is at most listed as
\* skipped.
ChainStopsAtFailure ==
    /\ \A i \in 1..(chain.calls - 1) : chain.steps[i] = "completed"
    /\ \A i \in DOMAIN chain.steps : (chain.steps[i] = "skipped") <=> i > chain.calls
    /\ (chain.status = "completed") <=>
           (Len(chain.steps) = ChainLength /\ \A i \in 1..ChainLength : chain.steps[i] = "completed")

\* No peer that is at least as good in every respect, and better in one, is
\* passed over: the weights of task-router.ts never let one respect be counted
\* the wrong way round.
AtLeast(o, q) ==
    /\ q.exact => o.exact
    /\ HealthScore(o.health) >= HealthScore(q.health)
    /\ q.local => o.local
    /\ o.cpuPercent >= 0 /\ (q.cpuPercent < 0 \/ o.cpuPercent <= q.cpuPercent)
Clearly(o, q) ==
    AtLeast(o, q) /\ (o.exact # q.exact \/ o.health # q.health \/ o.local # q.local)
BestIsUndominated ==
    \A p \in Best : ~\E q \in Candidates : Clearly(offers[q], offers[p])

\* An execution that ended stays as it ended, whoever else has the row open.
ExecutionOneShot == INSTANCE OneShot
    WITH Items <- ExecutionIds, Verdicts <- {"completed", "failed", "aborted"},
         verdict <- [e \in ExecutionIds |->
                       CASE execution[e] = "absent" -> "none"
                         [] execution[e] \in {"accepted", "running"} -> "open"
                         [] OTHER -> execution[e]]
=============================================================================
