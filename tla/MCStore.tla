------------------------------- MODULE MCStore -------------------------------
(* TLC instance of the store suite: two processes of each kind, three servers.  *)
EXTENDS StoreSuite, TLC

Symmetry == Permutations(Process) \cup Permutations(Key) \cup Permutations(Project)
=============================================================================
