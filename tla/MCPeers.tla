------------------------------ MODULE MCPeers ------------------------------
(* The inbound peer learner and the cache file of the peers it learned.     *)
EXTENDS Peers

Spec == PeersInit /\ [][LearnNext /\ UNCHANGED <<reconciler, request>>]_peersVars
=============================================================================
