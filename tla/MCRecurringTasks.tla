-------------------------- MODULE MCRecurringTasks --------------------------
(* Values of the constants of RecurringTasks for TLC. *)
EXTENDS RecurringTasks, TLC

CONSTANTS t1, t2

Templates == {t1, t2}
Symmetric == Permutations(Templates)

Dates == [q \in {"weekly", "monthly"} |-> IF q = "weekly" THEN {2, 4} ELSE {3}]
=============================================================================
