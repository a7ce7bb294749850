----------------------------- MODULE MCConsolidate -----------------------------
(* TLC instances of Consolidate: two processes on the global session and       *)
(* one other, with two lessons.                                                *)
EXTENDS Consolidate, TLC

CONSTANTS p1, p2, lessonA, lessonB

Symmetry == Permutations({p1, p2}) \cup Permutations({lessonA, lessonB})
================================================================================
