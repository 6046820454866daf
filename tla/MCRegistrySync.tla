--------------------------- MODULE MCRegistrySync ---------------------------
(* RegistrySync on small instances: symmetry, and a view that hides the      *)
(* contents of heap cells nothing refers to any more (they are reset before  *)
(* they are used again).                                                     *)
EXTENDS RegistrySync, TLC

Symmetry == Permutations(Peers) \cup Permutations(EntryIds)
            \cup Permutations(RoundIds)

View ==
    <<peers, [e \in EntryIds |-> IF e \in FreeEntries THEN NoEntry ELSE entry[e]],
      round, kicks, overflows, tick, tickWaits, stop, stopWaits,
      unhandled, removed>>

\* What can still happen, and no more, with HangUpThreshold = 1: every strike
\* hangs up, however many came before and whoever aborted the round.  No action
\* reads the history variable, and a process about to end has one step left.
LivenessView ==
    IF unhandled THEN <<>>
    ELSE <<peers,
           [e \in EntryIds |-> IF e \in FreeEntries THEN NoEntry
                              ELSE [entry[e] EXCEPT !.timeouts = 0]],
           [r \in RoundIds |-> IF r \in Running /\ round[r].aborted # "no"
                              THEN [round[r] EXCEPT !.aborted = "timeout"] ELSE round[r]],
           kicks, overflows, tick, tickWaits, stop, stopWaits>>
=============================================================================
