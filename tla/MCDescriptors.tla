--------------------------- MODULE MCDescriptors ---------------------------
EXTENDS Descriptors, TLC

Symmetry == Permutations(Fds) \cup Permutations(Remotes)
=============================================================================
