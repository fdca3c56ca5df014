------------------------------ MODULE MCInbox ------------------------------
(***************************************************************************)
(* Small instances of Inbox for TLC.                                       *)
(***************************************************************************)
EXTENDS Inbox, TLC

CONSTANTS coordinator, worker

=============================================================================
