----------------------------- MODULE ExclusiveRun -----------------------------
(***************************************************************************)
(* What an advisory lock promises to those who run under it: one run at a   *)
(* time, until the protocol is broken once.  A run may end (or die) at any  *)
(* moment.  This is the abstract specification that CadenceLock implements. *)
(***************************************************************************)
CONSTANT Proc

VARIABLES
  running,   \* the processes that believe they hold the lock
  broken     \* the lock of a live holder has been taken away

vars == <<running, broken>>

Init == running = {} /\ broken = FALSE

Begin(p) ==
  /\ p \notin running
  /\ broken \/ running = {}
  /\ running' = running \cup {p}
  /\ UNCHANGED broken

End(p) ==
  /\ p \in running
  /\ running' = running \ {p}
  /\ UNCHANGED broken

Break == broken' = TRUE /\ UNCHANGED running

Next == Break \/ \E p \in Proc : Begin(p) \/ End(p)

Spec == Init /\ [][Next]_vars
================================================================================
