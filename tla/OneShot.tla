------------------------------ MODULE OneShot ------------------------------
(* What a request to be answered once promises: it is opened, it is settled *)
(* with one verdict, and the verdict stays. Tasks, approvals and the        *)
(* executions of an agent instance each implement it.                       *)
CONSTANTS Items, Verdicts

VARIABLE verdict

OneShotTypeOK == verdict \in [Items -> {"none", "open"} \cup Verdicts]

Init == verdict = [i \in Items |-> "none"]

\* Several requests may move in one step: a sweep settles all that are late.
Moves(i) ==
    \/ verdict'[i] = verdict[i]
    \/ verdict[i] = "none" /\ verdict'[i] = "open"
    \/ verdict[i] = "open" /\ verdict'[i] \in Verdicts

Next ==
    /\ DOMAIN verdict' = Items
    /\ \A i \in Items : Moves(i)

Spec == Init /\ [][Next]_verdict
=============================================================================
