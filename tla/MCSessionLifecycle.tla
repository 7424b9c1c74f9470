------------------------- MODULE MCSessionLifecycle -------------------------
(* Budgets of rare events, and the symmetry of tabs, for checking SessionLifecycle *)
EXTENDS SessionLifecycle, TLC

Quiet == [e \in Event |-> 0]
Orderly == [Quiet EXCEPT !["reset"] = 1, !["reevaluate"] = 1]
Rough == [Quiet EXCEPT !["crash"] = 1, !["edit"] = 1]

Tabs == Permutations(Conn)
=============================================================================
