---------------------------- MODULE MCOnboarding ----------------------------
(* Two nodes, each with its own CA.                                         *)
EXTENDS Onboarding, TLC

CONSTANTS n1, n2, t1, t2, ip1, ip2

\* Tokens and addresses are interchangeable.
Symmetry == Permutations({t1, t2}) \cup Permutations({ip1, ip2})

MCCaOf == (n1 :> "ca1") @@ (n2 :> "ca2")
=============================================================================
