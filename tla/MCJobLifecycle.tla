--------------------------- MODULE MCJobLifecycle ---------------------------
(* JobLifecycle on one or two jobs. *)
EXTENDS JobLifecycle, TLC

Symm == Permutations(Managers)
=============================================================================
