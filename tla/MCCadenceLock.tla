----------------------------- MODULE MCCadenceLock -----------------------------
(* TLC instances of CadenceLock: two or three cadence processes over one     *)
(* lockfile.  Tokens of dead processes are one value, so the state space is  *)
(* finite without any bound on attempts, crashes or steals.                  *)
EXTENDS CadenceLock
================================================================================
