------------------------------- MODULE Inbox -------------------------------
(***************************************************************************)
(* The durable inbox of a run (orchestration/inbox.rs): how a report, a    *)
(* decision or an instruction reaches the agent it is for.                 *)
(*                                                                         *)
(* Every notice is posted in the write that changes the run.  A pass every *)
(* two seconds takes what is due, one chat at a time: it reads the chat's  *)
(* record for receipts it missed, claims the rest, writes them to the      *)
(* chat's process as one turn, and puts back what was not taken.  The      *)
(* process's reader writes the provider's receipt into the record first    *)
(* and into the ledger second.  A worker may also be handed its notices in *)
(* the answer to a call it makes.                                          *)
(*                                                                         *)
(* The locks: the ledger's own (one step here), workspace_ops, which the   *)
(* pass holds while it serves one chat and a Stop takes too, and a         *)
(* session's lock, under which a turn is written.  The reader holds none   *)
(* of the last two between its steps.                                      *)
(*                                                                         *)
(* One run, one task per worker, retried in the same chat.  The sources    *)
(* enqueue compares are distinct here: a message is new each time, and an  *)
(* attempt settles once.  Peers' relays, services and bridges post and     *)
(* cancel notices of their own, which are left out.                        *)
(***************************************************************************)
EXTENDS Naturals, FiniteSets, FiniteSetsExt, Functions

CONSTANTS
  Workers,      \* the chats of the run's workers
  Coordinator,  \* the chat of its coordinator
  Posted,       \* the kinds of notice the agents post (a bound)
  MaxNotices,   \* how many notices may be posted (a bound of the model)
  MaxAttempts,  \* how many attempts a task has (a bound)
  MaxTries,     \* how often one notice is claimed (a bound)
  MaxRestarts,  \* how often the host may be killed (a bound)
  DiskFails,    \* whether saving the ledger may fail
  PipeFails,    \* whether a write to a process, or a start, may fail
  People,       \* the chats the person writes to
  None

Ids   == 1..MaxNotices
Chats == Workers \cup {Coordinator}

ASSUME InboxAssumption ==
  /\ IsFiniteSet(Workers)
  /\ Coordinator \notin Workers
  /\ MaxNotices \in Nat /\ MaxAttempts \in Nat
  /\ MaxTries \in Nat \ {0} /\ MaxRestarts \in Nat
  /\ DiskFails \in BOOLEAN /\ PipeFails \in BOOLEAN
  /\ Posted \subseteq {"status", "progress", "report", "failed", "disconnected",
                       "decision", "instruction", "resolution"}
  /\ People \subseteq Workers \cup {Coordinator}
  /\ None \notin Workers \cup {Coordinator}

VARIABLES
  mem,       \* the ledger in memory, as far as the inbox reads it
  disk,      \* the ledger the file holds; owed is mem # disk
  proc,      \* the process of each chat, and the turn it was last given
  readers,   \* receipts on their way, of every process that ever ran
  record,    \* the receipts in each chat's transcript
  pass,      \* deliver_pending, and the chat it holds workspace_ops for
  restarts,
  copies,    \* history: how often each notice was written to a process
  said       \* history: the content of the last copy, by its sequence

vars == <<mem, disk, proc, readers, record, pass, restarts, copies, said>>

Kinds == {"status", "progress", "report", "failed", "disconnected",
          "decision", "instruction", "resolution"}
States == {"Pending", "Delivering", "Acknowledged", "Cancelled"}

Note == [kind : Kinds \cup {"none"}, about : Workers \cup {None},
         attempt : 0..MaxAttempts, state : States, tries : 0..MaxTries,
         due : BOOLEAN, sequence : 0..MaxNotices, pruned : BOOLEAN]
Attempt == [n : 0..MaxAttempts, gate : 0..MaxNotices,
            status : {"none", "running", "blocked", "over"}]
Ledger == [open : BOOLEAN, attempt : [Workers -> Attempt],
           notes : [Ids -> Note], sequence : 0..MaxNotices]

Steps == {"off", "next", "receipts", "claim", "write", "later", "failed"}

TypeOK ==
  /\ mem \in Ledger /\ disk \in Ledger
  /\ proc \in [Chats -> [up : BOOLEAN, busy : BOOLEAN, turn : SUBSET Ids]]
  /\ readers \in
       [Chats -> SUBSET [ids : SUBSET Ids, step : {"waits", "read", "kept"}]]
  /\ record \in [Chats -> SUBSET Ids]
  /\ pass \in [step : Steps, due : SUBSET Ids, tried : SUBSET Ids,
               at : Chats \cup {None}, got : SUBSET Ids, ids : SUBSET Ids]
  /\ restarts \in 0..MaxRestarts
  /\ copies \in [Ids -> Nat]
  /\ said \in [Ids -> 0..MaxNotices]

---------------------------------------------------------------------------
(* The ledger *)

\* mutate: a change that is made only if it could be written.
Commit(next) == mem' = next /\ disk' = next

\* mutate_regardless: a change that is made whether or not it was written.
Keep(next) ==
  /\ mem' = next
  /\ disk' \in {next} \cup (IF DiskFails THEN {disk} ELSE {})

Running(l, w) == l.attempt[w].status = "running"
Waits(note)   == note.state \in {"Pending", "Delivering"} /\ ~note.pruned
Informs(note) == note.kind \in {"status", "progress"}
Target(note)  ==
  IF note.kind \in {"instruction", "resolution"} THEN note.about ELSE Coordinator

\* What a settled attempt's notice says makes its unsent progress pointless.
Supersedes(kind) == kind \in {"report", "disconnected"}

\* Mutant of Coalesces: one that was already sent takes it in too.
CoalescesSent(note, kind, w) ==
  /\ kind = "progress" /\ note.kind = "progress" /\ note.about = w
  /\ note.state = "Pending" /\ ~note.pruned

\* A progress update that no copy of was ever claimed takes the next one in.
Coalesces(note, kind, w) ==
  /\ kind = "progress" /\ note.kind = "progress" /\ note.about = w
  /\ note.state = "Pending" /\ note.tries = 0 /\ ~note.pruned

\* A new notice about w's task.
Fresh(l, kind, w, at) ==
  [kind |-> kind, about |-> w, attempt |-> l.attempt[w].n, state |-> "Pending",
   tries |-> 0, due |-> kind # "progress", sequence |-> at, pruned |-> FALSE]

\* What a notice about w makes of an older one.
Folded(note, kind, w) ==
  IF /\ Supersedes(kind) /\ note.kind = "progress"
     /\ note.about = w /\ note.state = "Pending"
  THEN [note EXCEPT !.state = "Cancelled"] ELSE note

\* An update that waits, with the words of the next one.
Renewed(note, attempt, at) ==
  [note EXCEPT !.sequence = at, !.due = FALSE, !.attempt = attempt]

\* enqueue: the ledger with one more notice about w's task.
Enqueue(l, kind, w) ==
  LET next == l.sequence + 1
      into == {n \in Ids : Coalesces(l.notes[n], kind, w)}
  IN [l EXCEPT
        !.sequence = next,
        !.notes =
          IF into # {}
          THEN [l.notes EXCEPT ![Min(into)] =
                  Renewed(l.notes[Min(into)], l.attempt[w].n, next)]
          ELSE [n \in Ids |-> IF n = next THEN Fresh(l, kind, w, next)
                              ELSE Folded(l.notes[n], kind, w)]]

Room(l) == l.sequence < MaxNotices

\* Mutant of Stale: only a newer update that still waits overtakes.
StaleIfWaiting(l, n) ==
  LET note == l.notes[n]
  IN /\ Informs(note)
     /\ \/ ~Running(l, note.about)
        \/ \E m \in Ids :
             /\ Informs(l.notes[m]) /\ Waits(l.notes[m])
             /\ l.notes[m].about = note.about
             /\ l.notes[m].sequence > note.sequence

\* stale_reason: an update of an attempt that no longer runs, or that a newer
\* one overtook; a failure that a newer attempt overtook.
Stale(l, n) ==
  LET note == l.notes[n]
  IN \/ /\ Informs(note)
        /\ \/ ~Running(l, note.about)
           \/ l.attempt[note.about].n # note.attempt
           \/ \E m \in Ids :
                /\ Informs(l.notes[m]) /\ ~l.notes[m].pruned
                /\ l.notes[m].about = note.about
                /\ l.notes[m].attempt = note.attempt
                /\ l.notes[m].state # "Cancelled"
                /\ l.notes[m].sequence > note.sequence
     \/ /\ note.kind \in {"failed", "disconnected"}
        /\ l.attempt[note.about].n > note.attempt

\* valid: the run is not stopped, the gate is open, the worker works.
Valid(l, n) ==
  LET note == l.notes[n]
  IN /\ l.open
     /\ note.kind = "decision" => l.attempt[note.about].gate = n
     /\ Target(note) # Coordinator => Running(l, note.about)

---------------------------------------------------------------------------
(* What posts notices: the coordinator, the workers, the host *)

\* A start, or a retry in the same chat: a new attempt and its first turn.
Start(w) ==
  /\ mem.open /\ mem.attempt[w].status \in {"none", "over"}
  /\ mem.attempt[w].n < MaxAttempts
  /\ ~proc[w].busy /\ pass.at # w
  /\ Commit([mem EXCEPT !.attempt[w] =
                [n |-> @.n + 1, gate |-> 0, status |-> "running"]])
  /\ proc' = [proc EXCEPT ![w] = [up |-> TRUE, busy |-> TRUE, turn |-> {}]]
  /\ readers' = [readers EXCEPT ![w] = @ \cup
       (IF proc[w].up /\ proc[w].turn # {}
        THEN {[ids |-> proc[w].turn, step |-> "waits"]} ELSE {})]
  /\ UNCHANGED <<record, pass, restarts, copies, said>>

\* record_message_as to the coordinator: a status or a progress update.
Tell(w, kind) ==
  /\ Room(mem) /\ mem.open
  /\ kind \in {"status", "progress"} \cap Posted
  /\ mem.attempt[w].status \in {"running", "blocked"} /\ proc[w].busy
  /\ Commit(Enqueue(mem, kind, w))
  /\ UNCHANGED <<proc, readers, record, pass, restarts, copies, said>>

\* record_message_as to a worker; the message of an interrupt is kept even
\* if it cannot be saved.
Instruct(w, interrupting) ==
  /\ Room(mem) /\ mem.open /\ Running(mem, w) /\ "instruction" \in Posted
  /\ LET next == Enqueue(mem, "instruction", w)
     IN IF interrupting THEN Keep(next) ELSE Commit(next)
  /\ UNCHANGED <<proc, readers, record, pass, restarts, copies, said>>

Settled(l, w) ==
  [l EXCEPT !.attempt[w].status = "over", !.attempt[w].gate = 0]

\* report_worker: a call of the worker's own.
Report(w) ==
  /\ Room(mem) /\ mem.open /\ Running(mem, w) /\ proc[w].busy
  /\ "report" \in Posted
  /\ Commit(Enqueue(Settled(mem, w), "report", w))
  /\ UNCHANGED <<proc, readers, record, pass, restarts, copies, said>>

\* confirm_proposed_report under while_idle: the coordinator settles the
\* attempt from the words its ended turn left, with the session held idle.
Confirm(w) ==
  /\ Room(mem) /\ mem.open /\ Running(mem, w)
  /\ proc[w].up /\ ~proc[w].busy
  /\ "report" \in Posted
  /\ Commit(Enqueue(Settled(mem, w), "report", w))
  /\ UNCHANGED <<proc, readers, record, pass, restarts, copies, said>>

\* execution::fail: the host settles the attempt and says why.
Fail(w, kind) ==
  /\ Room(mem) /\ mem.open
  /\ kind \in {"failed", "disconnected"} \cap Posted
  /\ mem.attempt[w].status \in {"running", "blocked"}
  /\ Commit(Enqueue(Settled(mem, w), kind, w))
  /\ UNCHANGED <<proc, readers, record, pass, restarts, copies, said>>

\* create_gate: the attempt is blocked on the decision.
AskGate(w) ==
  /\ Room(mem) /\ mem.open /\ Running(mem, w) /\ proc[w].busy
  /\ "decision" \in Posted
  /\ Commit(Enqueue([mem EXCEPT
        !.attempt[w].status = "blocked",
        !.attempt[w].gate = mem.sequence + 1], "decision", w))
  /\ UNCHANGED <<proc, readers, record, pass, restarts, copies, said>>

\* resolve_gate_and_resume: the answer is taken whether or not it is saved.
Resolve(w) ==
  /\ Room(mem) /\ mem.open /\ mem.attempt[w].gate # 0
  /\ Keep(Enqueue([mem EXCEPT !.attempt[w].status = "running",
                              !.attempt[w].gate = 0], "resolution", w))
  /\ UNCHANGED <<proc, readers, record, pass, restarts, copies, said>>

\* stop_run_in and prune_run: what waits is cancelled, and every notice of
\* the stopped run goes.  The model keeps what it was, unseen by the host.
Stopped(l) ==
  [l EXCEPT
     !.open = FALSE,
     !.attempt = [w \in Workers |->
       IF l.attempt[w].status = "none" THEN l.attempt[w]
       ELSE [l.attempt[w] EXCEPT !.status = "over", !.gate = 0]],
     !.notes = [n \in Ids |->
       [l.notes[n] EXCEPT
          !.state = IF Waits(l.notes[n]) THEN "Cancelled" ELSE l.notes[n].state,
          !.pruned = TRUE]]]

\* Mutant of StopRun: it does not wait.
StopRunAtOnce ==
  /\ mem.open
  /\ Keep(Stopped(mem))
  /\ UNCHANGED <<proc, readers, record, pass, restarts, copies, said>>

\* stop_run, which waits for workspace_ops.
StopRun ==
  /\ mem.open
  /\ pass.at = None
  /\ Keep(Stopped(mem))
  /\ UNCHANGED <<proc, readers, record, pass, restarts, copies, said>>

---------------------------------------------------------------------------
(* The pass: deliver_pending *)

Lapsed(l, n) == [l EXCEPT !.notes[n].due = TRUE]

\* Time: a debounce, a backoff or the wait for a receipt runs out.
Lapse(n) ==
  /\ Waits(mem.notes[n]) /\ ~mem.notes[n].due
  /\ mem.notes[n].tries < MaxTries
  /\ mem' = Lapsed(mem, n)
  /\ disk' = IF mem = disk THEN mem' ELSE disk
  /\ UNCHANGED <<proc, readers, record, pass, restarts, copies, said>>

\* Mutant of Due: a notice is due only until its first claim.
DueOnce(l) ==
  {n \in Ids :
     /\ l.notes[n].state = "Pending" /\ l.notes[n].due
     /\ ~\E m \in Ids :
           /\ Waits(l.notes[m]) /\ l.notes[m].state = "Delivering"
           /\ ~l.notes[m].due /\ Target(l.notes[m]) = Target(l.notes[n])}

\* due_notifications: a chat whose receipt is awaited gets nothing else.
Due(l) ==
  {n \in Ids :
     /\ Waits(l.notes[n]) /\ l.notes[n].due
     /\ ~\E m \in Ids :
           /\ Waits(l.notes[m]) /\ l.notes[m].state = "Delivering"
           /\ ~l.notes[m].due /\ Target(l.notes[m]) = Target(l.notes[n])}

Off == [step |-> "off", due |-> {}, tried |-> {}, at |-> None, got |-> {},
        ids |-> {}]

\* The chat is let go of: on to the next one, or done.
LetGo ==
  IF pass.due = {} THEN Off
  ELSE [pass EXCEPT !.step = "next", !.at = None, !.ids = {}]

\* A `?` inside the loop: the rest of the pass is dropped.
PassAborts ==
  /\ pass' = Off
  /\ UNCHANGED <<mem, disk, proc, readers, record, restarts, copies, said>>

PassBegins ==
  /\ pass.step = "off" /\ Due(mem) # {}
  /\ pass' = [Off EXCEPT !.step = "next", !.due = Due(mem),
                !.tried = {n \in Due(mem) : mem.notes[n].tries > 0}]
  /\ UNCHANGED <<mem, disk, proc, readers, record, restarts, copies, said>>

\* Mutant of Received: the record is not read.
ReceivedUnread(k) == {n \in pass.due \cap pass.tried : FALSE}

\* Which of a chat's candidates its record shows a receipt of.
Received(k) == {n \in pass.due \cap pass.tried : n \in record[k]}

\* workspace_ops is taken for one chat and its transcript read.
PassReads(k) ==
  /\ pass.step = "next"
  /\ LET mine == {n \in pass.due : Target(mem.notes[n]) = k}
         got  == Received(k) \cap mine
     IN /\ mine # {}
        /\ pass' = [pass EXCEPT
             !.at = k, !.due = @ \ mine, !.ids = mine \ got,
             !.got = got, !.step = IF got = {} THEN "claim" ELSE "receipts"]
  /\ UNCHANGED <<mem, disk, proc, readers, record, restarts, copies, said>>

\* acknowledge_notifications; refused for them all if one of them is gone.
Acked(l, ids) ==
  [l EXCEPT !.notes = [n \in Ids |->
     IF n \in ids /\ Waits(l.notes[n]) /\ l.notes[n].tries > 0
     THEN [l.notes[n] EXCEPT !.state = "Acknowledged"] ELSE l.notes[n]]]

Gone(l, ids) == \E n \in ids : l.notes[n].pruned

PassAcks ==
  /\ pass.step = "receipts" /\ ~Gone(mem, pass.got)
  /\ Keep(Acked(mem, pass.got))
  /\ pass' = [pass EXCEPT !.step = "claim", !.got = {}]
  /\ UNCHANGED <<proc, readers, record, restarts, copies, said>>

PassAcksNothing ==
  /\ pass.step = "receipts" /\ Gone(mem, pass.got)
  /\ PassAborts

\* What claim_notifications takes, and what it cancels.
Claimable(l, ids) ==
  {n \in ids : Waits(l.notes[n]) /\ l.notes[n].due}
Applies(l, n) == ~Stale(l, n) /\ Valid(l, n)

\* Mutant of Claimed: the time of the next try is not moved.
ClaimedStillDue(l, ids) ==
  [l EXCEPT !.notes = [n \in Ids |->
     IF n \notin Claimable(l, ids) THEN l.notes[n]
     ELSE IF ~Applies(l, n) THEN [l.notes[n] EXCEPT !.state = "Cancelled"]
     ELSE [l.notes[n] EXCEPT !.state = "Delivering",
                             !.tries = l.notes[n].tries + 1]]]

Claimed(l, ids) ==
  [l EXCEPT !.notes = [n \in Ids |->
     IF n \notin Claimable(l, ids) THEN l.notes[n]
     ELSE IF ~Applies(l, n) THEN [l.notes[n] EXCEPT !.state = "Cancelled"]
     ELSE [l.notes[n] EXCEPT !.state = "Delivering",
                             !.tries = l.notes[n].tries + 1, !.due = FALSE]]]

\* notification_ready and claim_notifications.
PassClaims ==
  LET batch == {n \in Claimable(mem, pass.ids) : Applies(mem, n)}
  IN /\ pass.step = "claim"
     /\ pass.ids # {} /\ ~proc[pass.at].busy
     /\ Commit(Claimed(mem, pass.ids))
     /\ pass' = IF batch = {} THEN LetGo
                ELSE [pass EXCEPT !.step = "write", !.ids = batch]
     /\ UNCHANGED <<proc, readers, record, restarts, copies, said>>

\* Nothing waits, or the chat is not ready for it.
PassSkips ==
  /\ pass.step = "claim"
  /\ pass.ids = {} \/ proc[pass.at].busy
  /\ pass' = LetGo
  /\ UNCHANGED <<mem, disk, proc, readers, record, restarts, copies, said>>

\* A save the pass needs fails.
PassCannotSave ==
  /\ DiskFails /\ pass.step \in {"claim", "later", "failed"}
  /\ pass.ids # {}
  /\ PassAborts

\* deliver_orchestration_notifications: one turn to an idle process, or to
\* one that is started for it.
PassWrites ==
  /\ pass.step = "write" /\ ~proc[pass.at].busy
  /\ proc' = [proc EXCEPT ![pass.at] =
                [up |-> TRUE, busy |-> TRUE, turn |-> pass.ids]]
  /\ copies' = [n \in Ids |-> copies[n] + IF n \in pass.ids THEN 1 ELSE 0]
  /\ said' = [n \in Ids |-> IF n \in pass.ids THEN mem.notes[n].sequence
                            ELSE said[n]]
  /\ pass' = LetGo
  /\ UNCHANGED <<mem, disk, readers, record, restarts>>

\* Ok(false): it became busy since it was asked.
PassFindsBusy ==
  /\ pass.step = "write" /\ proc[pass.at].busy
  /\ pass' = [pass EXCEPT !.step = "later"]
  /\ UNCHANGED <<mem, disk, proc, readers, record, restarts, copies, said>>

\* The write or the start fails; a start whose first write failed leaves its
\* process in the table.
PassFails ==
  /\ PipeFails /\ pass.step = "write" /\ ~proc[pass.at].busy
  /\ pass' = [pass EXCEPT !.step = "failed"]
  /\ \/ UNCHANGED proc
     \/ /\ ~proc[pass.at].up
        /\ proc' = [proc EXCEPT ![pass.at] =
                      [up |-> TRUE, busy |-> TRUE, turn |-> {}]]
  /\ UNCHANGED <<mem, disk, readers, record, restarts, copies, said>>

\* Mutant of Retried: a copy that could not be written does not count either.
RetriedUncounted(l, n, step) ==
  IF l.notes[n].state # "Delivering" THEN l
  ELSE [l EXCEPT !.notes[n] =
          [l.notes[n] EXCEPT !.state = "Pending", !.due = FALSE, !.tries = 0]]

\* retry_notification: what was not sent waits again; a claim that only found
\* the chat busy does not count.
Retried(l, n, step) ==
  IF l.notes[n].state # "Delivering" THEN l
  ELSE [l EXCEPT !.notes[n] =
          [l.notes[n] EXCEPT
             !.state = "Pending", !.due = FALSE,
             !.tries = l.notes[n].tries - (IF step = "later" THEN 1 ELSE 0)]]

PassRetries ==
  /\ pass.step \in {"later", "failed"}
  /\ LET n == Min(pass.ids)
     IN /\ Commit(Retried(mem, n, pass.step))
        /\ pass' = IF pass.ids = {n} THEN LetGo
                   ELSE [pass EXCEPT !.ids = @ \ {n}]
  /\ UNCHANGED <<proc, readers, record, restarts, copies, said>>

---------------------------------------------------------------------------
(* The processes and their readers *)

\* acknowledge_user_turn: the provider's own receipt of the turn it was given.
ReadReceipt(k) ==
  /\ proc[k].up /\ proc[k].turn # {}
  /\ proc' = [proc EXCEPT ![k].turn = {}]
  /\ readers' = [readers EXCEPT ![k] = @ \cup
                   {[ids |-> proc[k].turn, step |-> "read"]}]
  /\ UNCHANGED <<mem, disk, record, pass, restarts, copies, said>>

\* The same line, still in the output of a process that is gone.
ReadLate(k, r) ==
  /\ r.step = "waits"
  /\ readers' = [readers EXCEPT ![k] = (@ \ {r}) \cup {[r EXCEPT !.step = "read"]}]
  /\ UNCHANGED <<mem, disk, proc, record, pass, restarts, copies, said>>

\* The end of that output: the turn's delivery is recorded as unknown.
OutputEnds(k, r) ==
  /\ r.step = "waits"
  /\ readers' = [readers EXCEPT ![k] = @ \ {r}]
  /\ UNCHANGED <<mem, disk, proc, record, pass, restarts, copies, said>>

\* The receipt is written into the record before anything else hears of it.
KeepReceipt(k, r) ==
  /\ r.step = "read"
  /\ record' = [record EXCEPT ![k] = @ \cup r.ids]
  /\ readers' = [readers EXCEPT ![k] = (@ \ {r}) \cup {[r EXCEPT !.step = "kept"]}]
  /\ UNCHANGED <<mem, disk, proc, pass, restarts, copies, said>>

\* Mutant of AckReceipt: the ledger hears of it before the record.
AckReceiptFirst(k, r) ==
  /\ r.step = "read"
  /\ Keep(Acked(mem, r.ids))
  /\ UNCHANGED <<proc, readers, record, pass, restarts, copies, said>>

\* Then into the ledger.
AckReceipt(k, r) ==
  /\ r.step = "kept"
  /\ readers' = [readers EXCEPT ![k] = @ \ {r}]
  /\ IF Gone(mem, r.ids) THEN UNCHANGED <<mem, disk>> ELSE Keep(Acked(mem, r.ids))
  /\ UNCHANGED <<proc, record, pass, restarts, copies, said>>

TurnEnds(k) ==
  /\ proc[k].up /\ proc[k].busy
  /\ proc' = [proc EXCEPT ![k].busy = FALSE]
  /\ UNCHANGED <<mem, disk, readers, record, pass, restarts, copies, said>>

\* The person's turn takes the place of one no receipt came for.
PersonTurn(k) ==
  /\ k \in People /\ ~proc[k].busy
  /\ proc' = [proc EXCEPT ![k] = [up |-> TRUE, busy |-> TRUE, turn |-> {}]]
  /\ UNCHANGED <<mem, disk, readers, record, pass, restarts, copies, said>>

\* The process leaves the session table; what it printed is still read.
ProcessEnds(k) ==
  /\ proc[k].up
  /\ proc' = [proc EXCEPT ![k] = [up |-> FALSE, busy |-> FALSE, turn |-> {}]]
  /\ readers' = [readers EXCEPT ![k] = @ \cup
       (IF proc[k].turn = {} THEN {}
        ELSE {[ids |-> proc[k].turn, step |-> "waits"]})]
  /\ UNCHANGED <<mem, disk, record, pass, restarts, copies, said>>

\* take_for_working_worker: handed over in the answer to the worker's call.
Taken(l, w) ==
  {n \in Ids : /\ l.notes[n].state = "Pending" /\ ~l.notes[n].pruned
               /\ l.notes[n].kind # "none"
               /\ Target(l.notes[n]) = w /\ Valid(l, n)}

Handed(l, w) ==
  [l EXCEPT !.notes = [n \in Ids |->
     IF n \in Taken(l, w)
     THEN [l.notes[n] EXCEPT !.state = "Acknowledged",
                             !.tries = l.notes[n].tries + 1]
     ELSE l.notes[n]]]

TakeForWorker(w) ==
  /\ proc[w].busy /\ Taken(mem, w) # {}
  /\ \A n \in Taken(mem, w) : mem.notes[n].tries < MaxTries
  /\ Commit(Handed(mem, w))
  /\ UNCHANGED <<proc, readers, record, pass, restarts, copies, said>>

---------------------------------------------------------------------------
(* The host *)

\* settle_owed
Settle ==
  /\ mem # disk
  /\ disk' = mem
  /\ UNCHANGED <<mem, proc, readers, record, pass, restarts, copies, said>>

\* The attempts that were under way.
Cut(l) == {w \in Workers : l.attempt[w].status \in {"running", "blocked"}}

\* recover_interrupted_workers: no process survived, so no attempt did.  It
\* goes by the tasks' ids, which is any order of the workers.
Recovered(l, order) ==
  [l EXCEPT
     !.sequence = @ + Cardinality(Cut(l)),
     !.attempt = [w \in Workers |->
       IF w \in Cut(l) THEN [l.attempt[w] EXCEPT !.status = "over", !.gate = 0]
       ELSE l.attempt[w]],
     !.notes = [n \in Ids |->
       IF n \in l.sequence + 1 .. l.sequence + Cardinality(Cut(l))
       THEN Fresh(l, "disconnected", order[n - l.sequence], n)
       ELSE IF l.notes[n].about \in Cut(l)
       THEN Folded(l.notes[n], "disconnected", l.notes[n].about)
       ELSE l.notes[n]]]

Restart ==
  /\ restarts < MaxRestarts
  /\ disk.sequence + Cardinality(Workers) <= MaxNotices
  /\ \E order \in Bijection(1 .. Cardinality(Cut(disk)), Cut(disk)) :
       Commit(Recovered(disk, order))
  /\ proc' = [k \in Chats |-> [up |-> FALSE, busy |-> FALSE, turn |-> {}]]
  /\ readers' = [k \in Chats |-> {}]
  /\ pass' = Off
  /\ restarts' = restarts + 1
  /\ UNCHANGED <<record, copies, said>>

Init ==
  /\ mem = [open |-> TRUE, sequence |-> 0,
            attempt |-> [w \in Workers |->
              [n |-> 0, gate |-> 0, status |-> "none"]],
            notes |-> [n \in Ids |->
              [kind |-> "none", about |-> None, attempt |-> 0,
               state |-> "Cancelled", tries |-> 0, due |-> FALSE,
               sequence |-> 0, pruned |-> FALSE]]]
  /\ disk = mem
  /\ proc = [k \in Chats |-> [up |-> FALSE, busy |-> FALSE, turn |-> {}]]
  /\ readers = [k \in Chats |-> {}]
  /\ record = [k \in Chats |-> {}]
  /\ pass = Off
  /\ restarts = 0
  /\ copies = [n \in Ids |-> 0]
  /\ said = [n \in Ids |-> 0]

Pass ==
  \/ PassBegins \/ (\E k \in Chats : PassReads(k)) \/ PassAcks
  \/ PassAcksNothing \/ PassClaims \/ PassSkips \/ PassWrites
  \/ PassFindsBusy \/ PassFails \/ PassRetries \/ PassCannotSave

Reader(k) ==
  \/ ReadReceipt(k)
  \/ \E r \in readers[k] :
       ReadLate(k, r) \/ OutputEnds(k, r) \/ KeepReceipt(k, r) \/ AckReceipt(k, r)

Next ==
  \/ \E w \in Workers :
       \/ Start(w) \/ Report(w) \/ Confirm(w) \/ AskGate(w) \/ Resolve(w)
       \/ TakeForWorker(w)
       \/ \E kind \in Kinds : Tell(w, kind) \/ Fail(w, kind)
       \/ \E interrupting \in BOOLEAN : Instruct(w, interrupting)
  \/ \E k \in Chats : Reader(k) \/ TurnEnds(k) \/ PersonTurn(k) \/ ProcessEnds(k)
  \/ \E n \in Ids : Lapse(n)
  \/ StopRun \/ Pass \/ Settle \/ Restart

Spec == Init /\ [][Next]_vars

\* Time passes, the scheduler's pass goes on, what a live process was given
\* is received and its turn comes to an end.
Fairness ==
  /\ WF_vars(Pass)
  /\ \A n \in Ids : WF_vars(Lapse(n))
  /\ \A k \in Chats : WF_vars(Reader(k)) /\ WF_vars(TurnEnds(k))

FairSpec == Spec /\ Fairness

---------------------------------------------------------------------------
(* Properties *)

\* What one ledger says of a notice, with what the reader's record says.
Status(l, n) ==
  LET note == l.notes[n]
  IN IF note.kind = "none" THEN "unposted"
     ELSE IF note.state = "Acknowledged" \/ n \in record[Target(note)]
     THEN "received"
     ELSE IF note.state = "Cancelled" THEN "withdrawn" ELSE "open"

\* The notices the pass has set out to send: found without a receipt, and
\* then claimed.
Offered ==
  IF pass.step \in {"receipts", "claim"}
  THEN {n \in pass.ids : Waits(mem.notes[n])}
  ELSE IF pass.step = "write" THEN pass.ids ELSE {}

Channel == INSTANCE Channel WITH
  Notices <- Ids,
  status  <- [n \in Ids |-> Status(mem, n)],
  durable <- [n \in Ids |-> Status(disk, n)],
  offered <- Offered,
  copies  <- copies

\* The inbox keeps what Channel promises of every notice: it is never sent
\* again once its receipt could be known, never sent before it is saved, and
\* no crash, retry or late receipt undoes that it was received
\* (deliver_pending, take_for_working_worker, acknowledge_notifications).
ChannelHolds == Channel!Spec

\* A notice that was sent and still waits counts at least one try: the record
\* is only searched for those (inbox.rs, candidate.attempts > 0), and a
\* receipt is only taken for those.
SentIsCounted ==
  \A n \in Ids : copies[n] > 0 /\ Waits(mem.notes[n]) => mem.notes[n].tries > 0

\* What the coordinator is said to have received is in its record, so that
\* the record can stand in for a lost acknowledgement.
ReceiptIsRecorded ==
  \A n \in Ids :
    LET note == mem.notes[n]
    IN note.state = "Acknowledged" /\ Target(note) = Coordinator =>
         n \in record[Coordinator]

\* The words that are said to be received are the words that were sent: an
\* update is never folded into a notice of which a copy went out.
ReceivedAsSent ==
  \A n \in Ids :
    LET note == mem.notes[n]
    IN note.state = "Acknowledged" /\ Target(note) = Coordinator =>
         said[n] = note.sequence

\* Nothing is written to an agent of a stopped run: "Stopping a run cancels
\* outstanding delivery", also the delivery under way.
NothingSentAfterStop ==
  [][\A n \in Ids : copies'[n] # copies[n] => mem.open]_vars

\* The coordinator never reads an older update of an attempt after a newer
\* one it is known to have received.
StatusNeverGoesBack ==
  [][\A n, m \in Ids :
       /\ n # m /\ copies'[n] # copies[n]
       /\ Informs(mem.notes[n]) /\ Informs(mem.notes[m])
       /\ mem.notes[n].about = mem.notes[m].about
       /\ mem.notes[n].attempt = mem.notes[m].attempt
       /\ mem.notes[m].state = "Acknowledged"
       => mem.notes[m].sequence < mem.notes[n].sequence]_vars

\* A chat one of whose notices used up the tries of the model.
Exhausted(k) ==
  \E n \in Ids : Target(mem.notes[n]) = k /\ mem.notes[n].tries = MaxTries

\* Every notice that was posted is received or withdrawn in the end.
PostedSettles ==
  \A n \in Ids :
    Waits(mem.notes[n]) ~>
      (~Waits(mem.notes[n]) \/ Exhausted(Target(mem.notes[n])))

=============================================================================
