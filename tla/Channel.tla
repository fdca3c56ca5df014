------------------------------ MODULE Channel ------------------------------
(***************************************************************************)
(* What the inbox promises of every notice, with nothing of how it does    *)
(* it (orchestration/inbox.rs and docs/orchestration.md, "Background       *)
(* coordination and durable inbox").                                       *)
(*                                                                         *)
(* A notice that was posted stays open until its reader has received it or *)
(* it was withdrawn.  Copies are written only of a notice that was offered *)
(* and whose posting a crash would not undo, and only an open notice is    *)
(* offered: so a notice is repeated only while the host, when it last      *)
(* looked, could not know that it had been received.  A crash takes back   *)
(* what was not durable, but never a receipt.                              *)
(***************************************************************************)
EXTENDS Naturals

CONSTANTS Notices

VARIABLES
  status,   \* what has become of each notice
  durable,  \* what a crash would leave of that
  offered,  \* the notices the host has set out to send
  copies    \* how many copies of each were written to its reader

channel == <<status, durable, offered, copies>>

Init ==
  /\ status = [n \in Notices |-> "unposted"]
  /\ durable = status
  /\ offered = {}
  /\ copies = [n \in Notices |-> 0]

\* How one notice may move while the host runs.  It is received once a copy
\* was written, or in the answer to a call its reader makes (its only copy);
\* one that was withdrawn after it was sent may still be read.
Moves(n) ==
  \/ status'[n] = status[n]
  \/ status[n] = "unposted" /\ status'[n] = "open"
  \/ status[n] = "open" /\ status'[n] \in {"withdrawn", "received"}
  \/ status[n] = "withdrawn" /\ copies[n] > 0 /\ status'[n] = "received"

\* The ledger or the reader's record changes, durably or not.
Change ==
  /\ \A n \in Notices :
       /\ Moves(n)
       /\ durable'[n] \in {durable[n], status'[n]}
  /\ offered' \subseteq offered
  /\ UNCHANGED copies

\* The host looks at what is open and sets out to send some of it.
Offer ==
  /\ offered' \subseteq offered \cup {n \in Notices : status[n] = "open"}
  /\ UNCHANGED <<status, durable, copies>>

\* Copies are written of what was offered.
Send ==
  /\ \A n \in Notices :
       copies'[n] # copies[n] =>
         /\ n \in offered
         /\ durable[n] # "unposted"
         /\ copies'[n] = copies[n] + 1
  /\ offered' \subseteq offered
  /\ UNCHANGED <<status, durable>>

\* The host dies and comes back: a receipt stays, anything else is as it was
\* saved, and coming back may post notices of its own, which withdraw older
\* ones.
Crash ==
  /\ \A n \in Notices :
       IF status[n] = "received" THEN status'[n] = "received"
       ELSE \/ status'[n] = durable[n]
            \/ durable[n] = "unposted" /\ status'[n] = "open"
            \/ durable[n] = "open" /\ status'[n] = "withdrawn"
  /\ durable' = status'
  /\ offered' = {}
  /\ UNCHANGED copies

Next == Change \/ Offer \/ Send \/ Crash

Spec == Init /\ [][Next]_channel

=============================================================================
