--------------------------- MODULE MCAutoResume ---------------------------
(* Instances of AutoResume for TLC: two providers, told apart by a hand-over. *)
EXTENDS AutoResume

CONSTANTS claude, codex, message

MCAgents == {claude, codex}

===========================================================================
