------------------------------ MODULE MCOptimize -------------------------------
(* TLC instances of Optimize: two rows and two runs, each for any caller. *)
EXTENDS Optimize, TLC

CONSTANTS r1, r2

Symmetry == Permutations({r1, r2})
================================================================================
