------------------------------- MODULE MCMesh -------------------------------
(* Bounds for model-checking Mesh. *)
EXTENDS Mesh

\* The content of a heap cell nothing refers to is never read again.
View ==
    <<peers, [o \in Objects |-> IF InUse(o) THEN obj[o] ELSE None],
      probes, fetches, {b \in bound : InUse(b[1])}>>
=============================================================================
