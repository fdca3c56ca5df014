---------------------------- MODULE MCQuestions ----------------------------
(***************************************************************************)
(* Small instances of Questions for TLC.  Cards are alike, and so are the  *)
(* questions on a card and the processes.                                  *)
(***************************************************************************)
EXTENDS Questions, TLC

CONSTANTS card, other, part, second, l1, l2

Same == Permutations(Questions) \cup Permutations(Parts) \cup Permutations(Launches)

=============================================================================
