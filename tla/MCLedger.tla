------------------------------ MODULE MCLedger ------------------------------
(***************************************************************************)
(* Small instances of Ledger for TLC.                                      *)
(***************************************************************************)
EXTENDS Ledger

\* A check and the work that waits for it.
MCDeps == [t \in Tasks |-> IF t = 2 THEN {1} ELSE {}]
NoDeps == [t \in Tasks |-> {}]

=============================================================================
