------------------------------ MODULE MCHarness ------------------------------
(* TLC instance of the suite around the harnesses. *)
EXTENDS HarnessSuite, TLC

Deep == <<1, 40>>   \* the ranks of the two candidates, the deeper one behind 38 others
=============================================================================
