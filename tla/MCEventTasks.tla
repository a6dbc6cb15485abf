---------------------------- MODULE MCEventTasks ----------------------------
(* EventTasks on small instances *)
EXTENDS EventTasks, TLC

Symmetry == Permutations(Workers)
=============================================================================
