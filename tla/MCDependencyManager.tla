------------------------- MODULE MCDependencyManager -------------------------
(* Two templates with projects of their own; the first one's inventory has a source. *)
EXTENDS DependencyManager, TLC

CONSTANTS a, b, p, q, s

MCProjectOf == a :> p @@ b :> q @@ s :> p
MCSourcesOf == a :> {s} @@ b :> {}
=============================================================================
