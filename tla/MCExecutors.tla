---------------------------- MODULE MCExecutors ----------------------------
(* Executors for TLC: names are model values, interchangeable for safety.  *)
EXTENDS Executors

Symmetry == Permutations(Clients) \cup Permutations(Executors) \cup Permutations(Tasks)
=============================================================================
