--------------------------- MODULE MCDispatchPool ---------------------------
(* DispatchPool on small pools. *)
EXTENDS DispatchPool

CONSTANT t1
Symm == {f \in Permutations(Tasks) : f[t1] = t1} \cup Permutations(Pids)
=============================================================================
