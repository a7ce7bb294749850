------------------------------ MODULE MCCapture ------------------------------
(* TLC instance of Capture, two ingesters and a transcript of two entries.     *)
EXTENDS Capture, TLC

(* An edit is stored as a turn is, and then anchored: turns beside edits are     *)
(* left to one kind, and noise to the others.                                  *)
Seen == [append |-> {"edit", "noise"}, copilot |-> {"prose", "edit"},
         gemini |-> {"edit", "noise"}, opencode |-> {"prose", "noise"}]

Symmetry == Permutations(Ingester) \cup Permutations(Text)
=============================================================================
