----------------------------- MODULE Questions -----------------------------
(***************************************************************************)
(* Recoverable questions: how one answer gets from the person to the agent *)
(* that asked, exactly along one of two ways.                              *)
(*                                                                         *)
(*   - While the asking call still waits, the answer goes back through it: *)
(*     an MCP tool call (question.rs) or the provider's own request, which *)
(*     is claimed first and written to the process afterwards.             *)
(*   - Once the call is gone, a pass every two seconds sends it as a turn  *)
(*     of the host's own, under an id that is the same on every try.       *)
(*                                                                         *)
(* The actors: the waiting calls, the person (answers, cancels, retries,   *)
(* Stop), the delivery pass, the reader and the reaper of every process,   *)
(* and a host that may be killed between any two steps.  Three locks order *)
(* them: the store's own (one step here), the delivery lock (desk), and a  *)
(* session's lock, which is held from taking a turn to recording its fate  *)
(* (proc[l].hand).                                                         *)
(*                                                                         *)
(* One chat and its persistent provider (a process that keeps reading its  *)
(* stdin).  The chat's record is a file of the same host; its writes are   *)
(* taken to succeed.  A person's own turns only make the process busy.     *)
(***************************************************************************)
EXTENDS Naturals, FiniteSets, SequencesExt

CONSTANTS
  Questions,    \* the question cards that may be asked
  Parts,        \* the questions on one card
  Launches,     \* launch ids: one for every process that may be started
  DiskFails,    \* whether saving questions.json may fail
  PipeFails,    \* whether a write to a live process, or a start, may fail
  MaxRestarts,  \* how often the host may be killed (a bound of the model)
  None

ASSUME QuestionsAssumption ==
  /\ Parts # {}
  /\ IsFiniteSet(Questions) /\ IsFiniteSet(Launches)
  /\ DiskFails \in BOOLEAN /\ PipeFails \in BOOLEAN
  /\ MaxRestarts \in Nat
  /\ None \notin Questions \cup Launches

VARIABLES
  rec,       \* the store's records in memory
  disk,      \* the records questions.json holds
  owed,      \* State::owed: memory holds something the file does not
  waiter,    \* State::waiters: no entry, Some(sender), or None once told
  call,      \* where the call that asked stands
  via,       \* what asked: an ask_user tool, or the provider itself (Via)
  asker,     \* the launch a record's origin names
  session,   \* the launch in the session table
  proc,      \* every process, and what its reader is doing
  queue,     \* the chat's queued turns that are answers
  envelope,  \* the answers whose user turn is in the chat's record
  receipt,   \* what question_receipt reads in that record
  desk,      \* who holds the delivery lock, and how far they are
  restarts,
  handed,    \* history: how often an answer was given to an agent
  lost       \* history: records a restart took back to an older state

store   == <<rec, disk, owed>>
calls   == <<waiter, call, via, asker>>
chat    == <<session, proc, queue>>
record  == <<envelope, receipt>>
history == <<restarts, handed, lost>>
vars    == <<store, calls, chat, record, desk, history>>

Deliveries == {"Pending", "Ready", "Dispatching", "Queued", "Delivered",
               "Cancelled", "Failed", "Uncertain"}
Receipts   == {"none", "queued", "dispatched", "failed", "unknown",
               "received", "cancelled"}
Waiters    == {"none", "waits", "told"}
CallSteps  == {"none", "waiting", "woken", "claimed", "written", "unwritten",
               "leaving", "over"}

Record == [delivery : Deliveries \cup {"Unasked"}, answers : SUBSET Parts]

\* One turn on its way into a process: whose, how far, and who carries it.
Hands == [turn : Questions, step : {"taken", "written", "refused"},
          by : {"reader", "send", "start"}]
Process == [used : BOOLEAN,          \* this launch id was given out
            up : BOOLEAN,            \* the process is alive
            reading : BOOLEAN,       \* its stdout is not yet at its end
            ended : BOOLEAN,         \* CutOff::Ended
            turn : {"idle", "running", "cutOff"},
            flight : Questions \cup {None},  \* user_turn_id
            hand : Hands \cup {None}]

\* What the holder of the delivery lock keeps: the pass, or a cancel.
Passes == [kind : {"pass"}, todo : SUBSET Questions,
           was : [Questions -> Deliveries \cup {"Unasked"}],
           at : Questions \cup {None}, read : Receipts,
           step : {"next", "judge", "send", "hand", "sent", "refused"}]
Cancels == [kind : {"card", "interrupt", "stop"}, ids : SUBSET Questions,
            todo : SUBSET Questions, step : {"keep", "unqueue", "end"}]

\* None is told apart from everything it stands in for.
ASSUME NoneAssumption == None \notin Hands \cup Passes \cup Cancels

\* Saving succeeds, or may fail.
Saves == IF DiskFails THEN BOOLEAN ELSE {TRUE}

---------------------------------------------------------------------------
(* The store *)

Complete(r) == r.answers = Parts
Open(r)     == r.delivery \notin {"Unasked", "Delivered", "Cancelled"}

\* One record, moved to another delivery state.
Moved(q, delivery) == [rec EXCEPT ![q].delivery = delivery]

\* save: a change that is made only if it could be written.
Save(next) == rec' = next /\ disk' = next /\ owed' = FALSE

\* Mutant of Keep: a save that fails is not noted.
KeepUnnoted(next, ok) ==
  /\ rec' = next
  /\ disk' = IF ok THEN next ELSE disk
  /\ owed' = FALSE

\* keep: a change that is made whether or not it could be written.
Keep(next, ok) ==
  /\ rec' = next
  /\ disk' = IF ok THEN next ELSE disk
  /\ owed' = ~ok

\* Answered, undelivered, and no live call owns them.
Outbox == {q \in Questions :
             /\ Complete(rec[q])
             /\ rec[q].delivery \in {"Ready", "Dispatching", "Queued"}
             /\ waiter[q] = "none"}

WithoutWaiters(Q) == [q \in Questions |-> IF q \in Q THEN "none" ELSE waiter[q]]

\* A line of the chat's record: a provider's receipt or a cancel, once
\* there, is what question_receipt answers for ever; else the last state is.
Recorded(Q, state) ==
  [q \in Questions |->
     IF q \in Q /\ receipt[q] \notin {"received", "cancelled"}
     THEN state ELSE receipt[q]]

\* Given to an agent once more (counted no further than "more than once").
HandedOn(q) == [handed EXCEPT ![q] = IF @ = 0 THEN 1 ELSE 2]

Init ==
  /\ rec = [q \in Questions |-> [delivery |-> "Unasked", answers |-> {}]]
  /\ disk = rec
  /\ owed = FALSE
  /\ waiter = [q \in Questions |-> "none"]
  /\ call = [q \in Questions |-> "none"]
  /\ via = [q \in Questions |-> "tool"]
  /\ asker = [q \in Questions |-> None]
  /\ session = None
  /\ proc = [l \in Launches |->
              [used |-> FALSE, up |-> FALSE, reading |-> FALSE,
               ended |-> FALSE, turn |-> "idle", flight |-> None,
               hand |-> None]]
  /\ queue = <<>>
  /\ envelope = {}
  /\ receipt = [q \in Questions |-> "none"]
  /\ desk = None
  /\ restarts = 0
  /\ handed = [q \in Questions |-> 0]
  /\ lost = {}

---------------------------------------------------------------------------
(* Asking and answering *)

\* insert, under the delivery lock: only a process in the table, in a turn.
\* A record that cannot be saved refuses the question.
Ask(q, how) ==
  /\ desk = None
  /\ session # None
  /\ proc[session].turn = "running" /\ proc[session].hand = None
  /\ rec[q].delivery = "Unasked"
  /\ Save([rec EXCEPT ![q].delivery = "Pending"])
  /\ waiter' = [waiter EXCEPT ![q] = "waits"]
  /\ call' = [call EXCEPT ![q] = "waiting"]
  /\ via' = [via EXCEPT ![q] = how]
  /\ asker' = [asker EXCEPT ![q] = session]
  /\ UNCHANGED <<chat, record, desk, history>>

\* answer: a card's answers, some or all; the same answer again is accepted.
\* One that completes a card a call waits for is kept even unsaved.
Answer(q, given, ok) ==
  LET answers   == rec[q].answers \cup given
      next      == [rec EXCEPT ![q] =
                      [delivery |-> IF rec[q].delivery = "Pending" /\ answers = Parts
                                    THEN "Ready" ELSE rec[q].delivery,
                       answers  |-> answers]]
      completes == answers # rec[q].answers /\ answers = Parts
      waitedFor == completes /\ waiter[q] = "waits" /\ call[q] = "waiting"
  IN /\ rec[q].delivery \notin {"Unasked", "Cancelled"}
     /\ ok \/ waitedFor
     /\ Keep(next, ok)
     /\ waiter' = IF completes /\ waiter[q] = "waits"
                  THEN [waiter EXCEPT ![q] = "told"] ELSE waiter
     /\ UNCHANGED <<call, via, asker, chat, record, desk, history>>

\* settle: write what could not be written when it happened.
Settle ==
  /\ owed
  /\ disk' = rec /\ owed' = FALSE
  /\ UNCHANGED <<rec, calls, chat, record, desk, history>>

---------------------------------------------------------------------------
(* The call that waits *)

\* Told, its entry dropped, or ten minutes gone by: the wait ends, and with
\* it the receiver, so an answer from here on finds nobody waiting.
Wake(q) ==
  /\ call[q] = "waiting"
  /\ call' = [call EXCEPT ![q] = "woken"]
  /\ UNCHANGED <<store, waiter, via, asker, chat, record, desk, history>>

\* The tool's connection is gone: the future is dropped where it waits.
Disconnect(q) ==
  /\ via[q] = "tool"
  /\ call[q] = "waiting"
  /\ call' = [call EXCEPT ![q] = "leaving"]
  /\ UNCHANGED <<store, waiter, via, asker, chat, record, desk, history>>

\* What take_tool and take_native both ask before they hand an answer over.
Owns(q) == waiter[q] # "none" /\ rec[q].delivery = "Ready"

\* take_tool: the answer and its hand-over in one step of the store.
TakeTool(q, ok) ==
  /\ via[q] = "tool"
  /\ call[q] = "woken"
  /\ call' = [call EXCEPT ![q] = "leaving"]
  /\ \/ /\ Owns(q)
        /\ Keep(Moved(q, "Delivered"), ok)
        /\ waiter' = WithoutWaiters({q})
        /\ handed' = HandedOn(q)
     \/ /\ ~Owns(q)
        /\ UNCHANGED <<store, waiter, handed>>
  /\ UNCHANGED <<via, asker, chat, record, desk, restarts, lost>>

\* Mutant of Detach: a call that ends leaves its entry among the waiters.
DetachLate(q) ==
  /\ call[q] = "leaving"
  /\ call' = [call EXCEPT ![q] = "over"]
  /\ UNCHANGED <<store, waiter, via, asker, chat, record, desk, history>>

\* detach: what the end of a call, answered or not, always does.
Detach(q) ==
  /\ call[q] = "leaving"
  /\ call' = [call EXCEPT ![q] = "over"]
  /\ waiter' = WithoutWaiters({q})
  /\ UNCHANGED <<store, via, asker, chat, record, desk, history>>

\* take_native: claimed, and uncertain until the pipe has taken it.  A
\* cancelled card is answered with nothing, which no record notices.
TakeNative(q, ok) ==
  /\ via[q] = "native"
  /\ call[q] = "woken"
  /\ \/ /\ rec[q].delivery = "Cancelled"
        /\ call' = [call EXCEPT ![q] = "over"]
        /\ waiter' = WithoutWaiters({q})
        /\ UNCHANGED store
     \/ /\ Owns(q)
        /\ call' = [call EXCEPT ![q] = "claimed"]
        /\ Keep(Moved(q, "Dispatching"), ok)
        /\ UNCHANGED waiter
     \/ /\ rec[q].delivery # "Cancelled" /\ ~Owns(q)
        /\ call' = [call EXCEPT ![q] = "leaving"]
        /\ UNCHANGED <<store, waiter>>
  /\ UNCHANGED <<via, asker, chat, record, desk, history>>

\* Whether a write to the process of l is taken (TRUE) or fails.
Taken(l) ==
  (IF proc[l].up /\ ~proc[l].ended THEN {TRUE} ELSE {})
  \cup (IF PipeFails \/ ~proc[l].up \/ proc[l].ended THEN {FALSE} ELSE {})

\* The claimed answer goes down the pipe, under the session's lock.
NativeWrite(q) ==
  /\ call[q] = "claimed"
  /\ proc[asker[q]].hand = None
  /\ \E taken \in Taken(asker[q]) :
       /\ call' = [call EXCEPT ![q] = IF taken THEN "written" ELSE "unwritten"]
       /\ handed' = IF taken THEN HandedOn(q) ELSE handed
  /\ UNCHANGED <<store, waiter, via, asker, chat, record, desk, restarts, lost>>

\* Mutants of NativeFate: any end of the write delivers; the end of the write
\* itself is kept as the state.
NativeFateAlways(q) == "Delivered"
NativeFateAsIs(q) == call[q]

\* A failed write may be partial: it stays uncertain.
NativeFate(q) == IF call[q] = "written" THEN "Delivered" ELSE "Uncertain"

\* native_written: only a claim that still stands is settled by it.
NativeWritten(q, ok) ==
  /\ call[q] \in {"written", "unwritten"}
  /\ call' = [call EXCEPT ![q] = "over"]
  /\ \/ /\ rec[q].delivery = "Dispatching"
        /\ Keep(Moved(q, NativeFate(q)), ok)
        /\ waiter' = WithoutWaiters({q})
     \/ /\ rec[q].delivery # "Dispatching"
        /\ UNCHANGED <<store, waiter>>
  /\ UNCHANGED <<via, asker, chat, record, desk, history>>

---------------------------------------------------------------------------
(* The process, its reader and its reaper *)

AskedBy(l) == {q \in Questions : asker[q] = l}

\* A process just started, in a turn.
Started(l, flight, hand) ==
  [proc EXCEPT ![l] = [used |-> TRUE, up |-> TRUE, reading |-> TRUE,
                       ended |-> FALSE, turn |-> "running",
                       flight |-> flight, hand |-> hand]]

\* forget_queued_turns: what waited for a process that is gone was not sent.
ForgetQueue ==
  /\ queue' = <<>>
  /\ receipt' = Recorded(ToSet(queue), "failed")

\* The person starts the chat again, or sends it a turn while it is idle.
PersonStarts(l) ==
  /\ session = None /\ ~proc[l].used
  /\ session' = l
  /\ proc' = Started(l, None, None)
  /\ UNCHANGED <<store, calls, queue, record, desk, history>>

PersonSends ==
  /\ session # None
  /\ proc[session].turn = "idle" /\ proc[session].hand = None
  /\ queue = <<>>
  /\ proc' = [proc EXCEPT ![session].turn = "running"]
  /\ UNCHANGED <<store, calls, session, queue, record, desk, history>>

\* The reader meets a full stop: the launch's calls lose their waiters and
\* the next queued turn is taken, under the session's lock.  The queue is
\* the chat's, whatever process this reader belongs to; only one that was
\* ended on purpose takes nothing.
TurnEnds(l) ==
  /\ proc[l].reading /\ proc[l].hand = None
  /\ proc[l].turn # "idle"
  /\ waiter' = WithoutWaiters(AskedBy(l))
  /\ \/ /\ proc[l].ended
        /\ UNCHANGED <<proc, queue>>
     \/ /\ ~proc[l].ended
        /\ queue' = IF queue = <<>> THEN <<>> ELSE Tail(queue)
        /\ proc' = [proc EXCEPT
             ![l].turn = "idle",
             ![l].hand = IF queue = <<>> THEN None
                         ELSE [turn |-> Head(queue), step |-> "taken",
                               by |-> "reader"]]
  /\ UNCHANGED <<store, call, via, asker, session, record, desk, history>>

\* write_user_message_locked: the words go down the pipe.
HandOver(l) ==
  /\ proc[l].hand # None /\ proc[l].hand.step = "taken"
  /\ \E taken \in Taken(l) :
       IF taken
       THEN /\ proc' = [proc EXCEPT ![l].hand.step = "written",
                                    ![l].turn = "running",
                                    ![l].flight = proc[l].hand.turn]
            /\ handed' = HandedOn(proc[l].hand.turn)
       ELSE /\ proc' = [proc EXCEPT ![l].hand.step = "refused"]
            /\ UNCHANGED handed
  /\ UNCHANGED <<store, calls, session, queue, record, desk, restarts, lost>>

\* record_delivery: what became of the words, before the lock is let go.  A
\* reader whose turn was refused drops everything that waited behind it; a
\* pass hears the outcome.
RecordHand(l) ==
  LET hand == proc[l].hand
      fate == IF hand.step = "written" THEN "dispatched" ELSE "failed"
      drop == hand.by = "reader" /\ hand.step = "refused"
  IN /\ hand # None /\ hand.step # "taken"
     /\ proc' = [proc EXCEPT ![l].hand = None]
     /\ receipt' = Recorded({hand.turn} \cup (IF drop THEN ToSet(queue) ELSE {}),
                            fate)
     /\ queue' = IF drop THEN <<>> ELSE queue
     /\ desk' = IF hand.by = "reader" THEN desk
                ELSE [desk EXCEPT !.step = IF fate = "failed" THEN "refused"
                                           ELSE "sent"]
     /\ UNCHANGED <<store, calls, session, envelope, history>>

\* acknowledge_user_turn: the provider's receipt for the turn it was given.
Acknowledge(l) ==
  /\ proc[l].reading /\ proc[l].hand = None
  /\ proc[l].flight # None
  /\ receipt[proc[l].flight] = "dispatched"
  /\ proc' = [proc EXCEPT ![l].flight = None]
  /\ receipt' = Recorded({proc[l].flight}, "received")
  /\ UNCHANGED <<store, calls, session, queue, envelope, desk, history>>

ProcessDies(l) ==
  /\ proc[l].up
  /\ proc' = [proc EXCEPT ![l].up = FALSE]
  /\ UNCHANGED <<store, calls, session, queue, record, desk, history>>

\* The end of a dead process's output: its calls lose their waiters, and a
\* turn it never acknowledged is not known to have been received.
OutputEnds(l) ==
  /\ proc[l].reading /\ ~proc[l].up /\ proc[l].hand = None
  /\ proc' = [proc EXCEPT ![l].reading = FALSE, ![l].flight = None]
  /\ waiter' = WithoutWaiters(AskedBy(l))
  /\ receipt' = Recorded({proc[l].flight} \ {None}, "unknown")
  /\ UNCHANGED <<store, call, via, asker, session, queue, envelope, desk, history>>

\* A send holds the table's lock from its look to its record.
SendHoldsTable(l) == proc[l].hand # None /\ proc[l].hand.by = "send"

\* The reaper takes a dead process out of the table, and its queue with it.
Reap(l) ==
  /\ session = l /\ ~proc[l].up
  /\ ~SendHoldsTable(l)
  /\ session' = None
  /\ ForgetQueue
  /\ UNCHANGED <<store, calls, proc, envelope, desk, history>>

\* end_process: out of the table first, the queue dropped, and only then,
\* under the session's lock, the process ended.
TakeOut ==
  /\ session' = None
  /\ ForgetQueue

EndProcess ==
  /\ session # None
  /\ ~SendHoldsTable(session)
  /\ TakeOut
  /\ UNCHANGED <<store, calls, proc, envelope, desk, history>>

\* Alive and in no table: somebody took it out and is about to end it.
Doomed(l) == proc[l].up /\ session # l

StopProcess(l) ==
  /\ Doomed(l) /\ proc[l].hand = None
  /\ proc' = [proc EXCEPT ![l].up = FALSE, ![l].ended = TRUE]
  /\ UNCHANGED <<store, calls, session, queue, record, desk, history>>

---------------------------------------------------------------------------
(* Cancel, interrupt and Stop, under the delivery lock *)

\* Mutant of ToTakeBack: looked up once the records are cancelled.
ToTakeBackLate(ids) == {q \in Outbox \cap ids : ~Open(rec[q])}

\* The answers whose turn may wait in the queue, looked up before the
\* records are cancelled, which takes them out of the outbox.
ToTakeBack(ids) == Outbox \cap ids

\* Mutant of CancelBegins: the records are cancelled without the lock.
CancelUnlocked(kind, ids) ==
  LET Q == {q \in ids : Open(rec[q])}
  IN /\ Keep([q \in Questions |-> [rec[q] EXCEPT !.delivery =
                IF q \in Q THEN "Cancelled" ELSE @]], TRUE)
     /\ waiter' = WithoutWaiters(Q)
     /\ UNCHANGED <<call, via, asker, chat, record, desk, history>>

CancelBegins(kind, ids) ==
  /\ desk = None
  /\ desk' = [kind |-> kind, ids |-> ids, todo |-> ToTakeBack(ids),
              step |-> "keep"]
  /\ UNCHANGED <<store, calls, chat, record, history>>

Cancelling == desk # None /\ desk.kind # "pass"

\* QuestionStore::cancel: effective here whether or not it could be saved.
CancelKeeps(ok) ==
  /\ Cancelling /\ desk.step = "keep"
  /\ LET Q == {q \in desk.ids : Open(rec[q])}
     IN IF Q = {} THEN UNCHANGED <<store, waiter>>
        ELSE /\ Keep([q \in Questions |->
                        IF q \in Q THEN [rec[q] EXCEPT !.delivery = "Cancelled"]
                        ELSE rec[q]], ok)
             /\ waiter' = WithoutWaiters(Q)
  /\ desk' = [desk EXCEPT !.step = "unqueue"]
  /\ UNCHANGED <<call, via, asker, chat, record, history>>

\* cancel_queued_turn, for every record the outbox held: out of the queue if
\* it is still in it, and said so in the chat's record.
CancelUnqueues(q) ==
  /\ Cancelling /\ desk.step = "unqueue"
  /\ q \in desk.todo
  /\ desk' = [desk EXCEPT !.todo = @ \ {q}]
  /\ \/ \E at \in DOMAIN queue :
          /\ queue[at] = q /\ \A i \in 1..at-1 : queue[i] # q
          /\ queue' = RemoveAt(queue, at)
          /\ receipt' = Recorded({q}, "cancelled")
     \/ /\ q \notin ToSet(queue)
        /\ UNCHANGED <<queue, receipt>>
  /\ UNCHANGED <<store, calls, session, proc, envelope, history>>

\* A card's cancel is over; an interrupt asks the process to stop its turn;
\* a Stop takes the process out, and keeps the lock until it is ended.
CancelEnds ==
  /\ Cancelling /\ desk.step = "unqueue" /\ desk.todo = {}
  /\ \/ /\ desk.kind = "card"
        /\ desk' = None
        /\ UNCHANGED <<chat, receipt>>
     \/ /\ desk.kind = "interrupt"
        /\ desk' = None
        /\ session # None => proc[session].hand = None
        /\ proc' = IF session # None /\ proc[session].turn = "running"
                   THEN [proc EXCEPT ![session].turn = "cutOff"] ELSE proc
        /\ UNCHANGED <<session, queue, receipt>>
     \/ /\ desk.kind = "stop"
        /\ desk' = [desk EXCEPT !.step = "end"]
        /\ TakeOut
        /\ UNCHANGED proc
  /\ UNCHANGED <<store, calls, envelope, history>>

StopEnds ==
  /\ Cancelling /\ desk.step = "end"
  /\ \A l \in Launches : ~Doomed(l)
  /\ desk' = None
  /\ UNCHANGED <<store, calls, chat, record, history>>

\* Mutant of Retryable: one that is in doubt is sent again.
RetryableInDoubt(q) == rec[q].delivery \in {"Failed", "Uncertain"}

Retryable(q) == rec[q].delivery = "Failed"

\* question_retry, under the delivery lock: only a failed one, only if saved.
Retry(q) ==
  /\ desk = None
  /\ Retryable(q)
  /\ Save(Moved(q, "Ready"))
  /\ UNCHANGED <<calls, chat, record, desk, history>>

---------------------------------------------------------------------------
(* The delivery pass *)

Passing(step) == desk # None /\ desk.kind = "pass" /\ desk.step = step

\* The outbox is read once, and the pass goes by what it held.
PassBegins ==
  /\ desk = None /\ Outbox # {}
  /\ desk' = [kind |-> "pass", todo |-> Outbox,
              was |-> [q \in Questions |-> IF q \in Outbox THEN rec[q].delivery
                                           ELSE "Unasked"],
              at |-> None, read |-> "none", step |-> "next"]
  /\ UNCHANGED <<store, calls, chat, record, history>>

\* question_receipt of the next one.
PassReads(q) ==
  /\ Passing("next") /\ q \in desk.todo
  /\ desk' = [desk EXCEPT !.todo = @ \ {q}, !.at = q, !.read = receipt[q],
                          !.step = "judge"]
  /\ UNCHANGED <<store, calls, chat, record, history>>

\* On to the next record, or the lock let go.
Onward ==
  IF desk.todo = {} THEN None
  ELSE [desk EXCEPT !.was[desk.at] = "Unasked", !.at = None,
                    !.read = "none", !.step = "next"]

\* set_delivery: a cancelled record is left alone, and a change that cannot
\* be saved is refused, which ends the pass.
SetDelivery(q, delivery, ok, then) ==
  \/ /\ rec[q].delivery = "Cancelled"
     /\ desk' = then
     /\ UNCHANGED store
  \/ /\ rec[q].delivery # "Cancelled" /\ ok
     /\ Save(Moved(q, delivery))
     /\ desk' = then
  \/ /\ rec[q].delivery # "Cancelled" /\ ~ok
     /\ desk' = None
     /\ UNCHANGED store

\* What the record says decides: interrupted before any receipt, received,
\* cancelled, given to a process that is or is not there, still queued; and
\* in every other case the turn is to be sent.
PassJudges(ok) ==
  LET q    == desk.at
      read == desk.read
      interrupted == desk.was[q] \in {"Dispatching", "Queued"} /\ read = "none"
      inProcess   == read \in {"dispatched", "unknown"}
      waits       == read = "queued" /\ q \in ToSet(queue)
  IN /\ Passing("judge")
     /\ \/ /\ interrupted \/ (inProcess /\ session = None)
           /\ SetDelivery(q, "Uncertain", ok, Onward)
           /\ UNCHANGED waiter
        \/ /\ read = "received"
           /\ SetDelivery(q, "Delivered", ok, Onward)
           /\ UNCHANGED waiter
        \/ /\ read = "cancelled"
           /\ IF Open(rec[q])
              THEN Keep(Moved(q, "Cancelled"), ok) /\ waiter' = WithoutWaiters({q})
              ELSE UNCHANGED <<store, waiter>>
           /\ desk' = Onward
        \/ /\ (inProcess /\ session # None) \/ waits
           /\ desk' = Onward
           /\ UNCHANGED <<store, waiter>>
        \/ /\ ~interrupted /\ ~waits
           /\ read \in {"none", "queued", "failed"}
           /\ SetDelivery(q, "Dispatching", ok, [desk EXCEPT !.step = "send"])
           /\ UNCHANGED waiter
     /\ UNCHANGED <<call, via, asker, chat, record, history>>

\* Mutant of OnRecord: it goes by the last state on record.
OnRecordByState(q) == receipt[q] \in {"dispatched", "unknown", "received"}

\* durable_user_turn_exists: the turn's own envelope is the receipt of a send.
OnRecord(q) == q \in envelope

\* send_turn and, where no process runs, start_session.  A turn that is on
\* record is never sent a second time: the call answers as if it had been.
PassSends ==
  LET q == desk.at
  IN /\ Passing("send")
     /\ \/ /\ OnRecord(q)
           /\ desk' = [desk EXCEPT !.step = "sent"]
           /\ UNCHANGED <<chat, record>>
        \/ /\ ~OnRecord(q) /\ session = None   \* not started
           /\ PipeFails
           /\ desk' = [desk EXCEPT !.step = "refused"]
           /\ UNCHANGED <<chat, record>>
        \/ /\ ~OnRecord(q) /\ session = None   \* started with the turn
           /\ \E l \in {m \in Launches : ~proc[m].used} :
                /\ session' = l
                /\ proc' = Started(l, q, [turn |-> q, step |-> "taken",
                                          by |-> "start"])
           /\ envelope' = envelope \cup {q}
           /\ desk' = [desk EXCEPT !.step = "hand"]
           /\ UNCHANGED <<queue, receipt>>
        \/ /\ ~OnRecord(q) /\ session # None   \* behind what goes on
           /\ proc[session].hand = None
           /\ proc[session].turn # "idle" \/ queue # <<>>
           /\ queue' = IF q \in ToSet(queue) THEN queue ELSE Append(queue, q)
           /\ envelope' = envelope \cup {q}
           /\ receipt' = Recorded({q}, "queued")
           /\ proc' = [proc EXCEPT ![session].turn =
                         IF @ = "idle" THEN "running" ELSE @]
           /\ desk' = [desk EXCEPT !.step = "sent"]
           /\ UNCHANGED session
        \/ /\ ~OnRecord(q) /\ session # None   \* straight to it
           /\ proc[session].hand = None
           /\ proc[session].turn = "idle" /\ queue = <<>>
           /\ envelope' = envelope \cup {q}
           /\ proc' = [proc EXCEPT ![session].hand =
                         [turn |-> q, step |-> "taken", by |-> "send"]]
           /\ desk' = [desk EXCEPT !.step = "hand"]
           /\ UNCHANGED <<session, queue, receipt>>
     /\ UNCHANGED <<store, calls, history>>

PassSettles(ok) ==
  /\ Passing("sent") \/ Passing("refused")
  /\ SetDelivery(desk.at, IF desk.step = "sent" THEN "Queued" ELSE "Failed",
                 ok, Onward)
  /\ UNCHANGED <<calls, chat, record, history>>

---------------------------------------------------------------------------
(* The host is killed and started again *)

\* Only the two files survive; every process and every call goes with it.
Restart ==
  /\ restarts < MaxRestarts
  /\ restarts' = restarts + 1
  /\ rec' = disk /\ owed' = FALSE
  /\ lost' = lost \cup {q \in Questions : rec[q] # disk[q]}
  /\ waiter' = WithoutWaiters(Questions)
  /\ call' = [q \in Questions |-> IF call[q] = "none" THEN "none" ELSE "over"]
  /\ session' = None
  /\ proc' = [l \in Launches |->
               [proc[l] EXCEPT !.up = FALSE, !.reading = FALSE, !.turn = "idle",
                               !.flight = None, !.hand = None]]
  /\ queue' = <<>>
  /\ desk' = None
  /\ UNCHANGED <<disk, via, asker, record, handed>>

---------------------------------------------------------------------------

CallActs(q) ==
  \/ \E how \in {"tool", "native"} : Ask(q, how)
  \/ Wake(q) \/ Disconnect(q) \/ Detach(q) \/ NativeWrite(q)
  \/ \E ok \in Saves : TakeTool(q, ok) \/ TakeNative(q, ok) \/ NativeWritten(q, ok)

PersonActs ==
  \/ \E q \in Questions, given \in SUBSET Parts \ {{}}, ok \in Saves :
       Answer(q, given, ok)
  \/ \E q \in Questions : Retry(q) \/ CancelBegins("card", {q})
  \/ \E kind \in {"interrupt", "stop"} : CancelBegins(kind, Questions)
  \/ PersonSends
  \/ \E l \in Launches : PersonStarts(l)

ProcessActs(l) ==
  \/ TurnEnds(l) \/ HandOver(l) \/ RecordHand(l) \/ Acknowledge(l)
  \/ ProcessDies(l) \/ OutputEnds(l) \/ Reap(l) \/ StopProcess(l)

CancelActs ==
  \/ \E ok \in Saves : CancelKeeps(ok)
  \/ \E q \in Questions : CancelUnqueues(q)
  \/ CancelEnds
  \/ StopEnds

PassActs ==
  \/ PassBegins
  \/ \E q \in Questions : PassReads(q)
  \/ \E ok \in Saves : PassJudges(ok) \/ PassSettles(ok)
  \/ PassSends

Next ==
  \/ \E q \in Questions : CallActs(q)
  \/ PersonActs
  \/ \E l \in Launches : ProcessActs(l)
  \/ EndProcess
  \/ CancelActs
  \/ PassActs
  \/ Settle
  \/ Restart

Spec == Init /\ [][Next]_vars

\* What the host's own threads and tasks do without anybody's help: the
\* waiting task (ten minutes at most), the pass, a cancel once begun, and a
\* turn once it was taken.  The pass asks for its lock every two seconds and
\* a person's cancels hold it a moment each, hence its strong fairness.
Fairness ==
  /\ \A q \in Questions :
       /\ WF_vars(Wake(q)) /\ WF_vars(Detach(q)) /\ SF_vars(NativeWrite(q))
       /\ WF_vars(\E ok \in Saves : TakeTool(q, ok))
       /\ WF_vars(\E ok \in Saves : TakeNative(q, ok))
       /\ WF_vars(\E ok \in Saves : NativeWritten(q, ok))
  /\ \A l \in Launches :
       WF_vars(HandOver(l)) /\ WF_vars(RecordHand(l)) /\ WF_vars(StopProcess(l))
  /\ WF_vars(CancelActs)
  /\ SF_vars(PassBegins)
  /\ WF_vars(\E q \in Questions : PassReads(q))
  /\ WF_vars(\E ok \in Saves : PassJudges(ok))
  /\ WF_vars(\E ok \in Saves : PassSettles(ok))
  /\ SF_vars(PassSends)

FairSpec == Spec /\ Fairness

---------------------------------------------------------------------------
(* Properties *)

\* Every variable keeps its type.
TypeOK ==
  /\ rec \in [Questions -> Record] /\ disk \in [Questions -> Record]
  /\ owed \in BOOLEAN
  /\ waiter \in [Questions -> Waiters]
  /\ call \in [Questions -> CallSteps]
  /\ via \in [Questions -> {"tool", "native"}]
  /\ asker \in [Questions -> Launches \cup {None}]
  /\ session \in Launches \cup {None}
  /\ proc \in [Launches -> Process]
  /\ queue \in Seq(Questions)
  /\ envelope \subseteq Questions
  /\ receipt \in [Questions -> Receipts]
  /\ desk \in Passes \cup Cancels \cup {None}
  /\ restarts \in 0..MaxRestarts
  /\ handed \in [Questions -> 0..2]
  /\ lost \subseteq Questions

\* An answer is given to an agent at most once, whichever way it goes and
\* wherever the host is killed: the call that claims it, the pass, a turn
\* written but not yet recorded, a retry.  Only an unsaved hand-over that a
\* restart forgot is excepted, as question_store.rs says where it keeps one.
AtMostOnce == \A q \in Questions : handed[q] > 1 => q \in lost

\* owed is None only while the file holds everything memory does, through
\* every mix of refused, kept and settled saves.
SavedUnlessOwed == ~owed => rec = disk

\* A queued continuation belongs to a record a cancel would find in the
\* outbox, or to one that is being cancelled just now: no answer is left
\* waiting in a queue that a cancel or a Stop would walk past.
QueueIsOwned ==
  \A q \in ToSet(queue) :
    \/ rec[q].delivery \in {"Dispatching", "Queued"} /\ waiter[q] = "none"
    \/ Cancelling /\ q \in desk.todo

\* No card is closed as delivered unless its answer was given to an agent,
\* whatever was claimed, refused, read late or lost on the way.
DeliveredWasHanded ==
  \A q \in Questions : rec[q].delivery = "Delivered" => handed[q] > 0

\* An entry among the waiters keeps the pass away from its record, so none
\* outlives the call that will take the answer or let go of it.
WaiterIsLive ==
  \A q \in Questions : waiter[q] # "none" => call[q] \notin {"none", "over"}

\* What the invariants above rest on, in the parts of an inductive one.
Claimed(q) == call[q] \in {"claimed", "written", "unwritten"}
Listed(q)  == desk # None /\ desk.kind = "pass" /\ (q \in desk.todo \/ q = desk.at)

\* The file knows every card memory knows; one past Ready has its answers.
CardsAreSaved ==
  \A q \in Questions :
    /\ rec[q].delivery = "Unasked" <=> disk[q].delivery = "Unasked"
    /\ \A r \in {rec[q], disk[q]} :
         /\ r.delivery \notin {"Unasked", "Pending", "Cancelled"} => Complete(r)
         /\ r.delivery = "Delivered" => handed[q] > 0

\* The chat's record has a turn's envelope before any other line of it, and
\* says dispatched only of what was given.
RecordIsTrue ==
  \A q \in Questions :
    /\ receipt[q] # "none" => q \in envelope
    /\ receipt[q] \in {"dispatched", "received"} => handed[q] > 0
    /\ q \in envelope => rec[q].delivery # "Unasked"

\* A turn on record is in one place at most: the queue, or one carrier.
OneTurn ==
  /\ IsInjective(queue)
  /\ \A q \in ToSet(queue) : q \in envelope /\ receipt[q] = "queued"
  /\ \A l \in Launches :
       /\ proc[l].flight # None => proc[l].flight \in envelope \ ToSet(queue)
       /\ proc[l].hand # None =>
            /\ proc[l].hand.turn \in envelope \ ToSet(queue)
            /\ proc[l].hand.step = "written" => handed[proc[l].hand.turn] > 0
            /\ \A m \in Launches \ {l} :
                 proc[m].hand # None => proc[m].hand.turn # proc[l].hand.turn
            /\ proc[l].hand.by # "reader" =>
                 Passing("hand") /\ proc[l].hand.turn = desk.at

\* A card is its call's or the pass's: one with a turn on record has neither
\* a waiter nor a claim, and a claim that lost its waiter cannot be renewed.
CallOrTurn ==
  \A q \in Questions :
    /\ call[q] # "none" => rec[q].delivery # "Unasked"
    /\ q \in envelope => waiter[q] = "none" /\ ~Claimed(q)
    /\ Claimed(q) => rec[q].delivery \in {"Dispatching", "Uncertain", "Cancelled"}
    /\ Claimed(q) /\ rec[q].delivery # "Dispatching" => waiter[q] = "none"
    /\ call[q] = "written" => handed[q] > 0

\* What the pass read of a card still holds when it comes to send it.
PassIsCurrent ==
  desk # None /\ desk.kind = "pass" =>
    /\ desk.at \notin desk.todo
    /\ desk.at = None <=> desk.step = "next"
    /\ desk.read # "none" => desk.at \in envelope
    /\ desk.read = "received" => handed[desk.at] > 0
    /\ \A q \in Questions : Listed(q) =>
         /\ waiter[q] = "none"
         /\ desk.was[q] \in {"Ready", "Dispatching", "Queued"}
    /\ desk.step \in {"next", "judge"} =>
         \A q \in Questions : Listed(q) /\ rec[q].delivery # desk.was[q] =>
           /\ rec[q].delivery \in {"Delivered", "Uncertain"}
           /\ desk.was[q] = "Dispatching" /\ q \notin envelope
    /\ desk.step = "judge" /\ desk.at \in ToSet(queue) => desk.read = "queued"
    /\ desk.step \notin {"next", "judge"} =>
         /\ rec[desk.at].delivery = "Dispatching" /\ ~Claimed(desk.at)
         /\ \A q \in desk.todo : rec[q].delivery # desk.was[q] =>
              /\ rec[q].delivery \in {"Delivered", "Uncertain"}
              /\ desk.was[q] = "Dispatching" /\ q \notin envelope
         /\ desk.at \notin envelope \cup lost => handed[desk.at] = 0
    /\ desk.step \in {"hand", "refused"} => desk.at \notin ToSet(queue)

\* Nothing that was given to an agent can be given again.
Once ==
  \A q \in Questions \ lost :
    /\ handed[q] < 2
    /\ q \in ToSet(queue) => handed[q] = 0
    /\ \A l \in Launches :
         proc[l].hand # None /\ proc[l].hand.step = "taken"
           /\ proc[l].hand.turn = q => handed[q] = 0
    /\ handed[q] > 0 /\ q \notin envelope =>
         /\ rec[q].delivery \in {"Dispatching", "Delivered", "Uncertain", "Cancelled"}
         /\ call[q] # "claimed"

\* A cancel begins with every queued turn it is about to take back, and a
\* Stop ends the process when it has taken them back.
CancelsAll ==
  Cancelling =>
    /\ \A q \in desk.todo : rec[q].delivery \notin {"Unasked", "Pending"}
    /\ desk.step = "keep" => ToSet(queue) \cap desk.ids \subseteq desk.todo
    /\ desk.step = "end" => desk.todo = {}

IInv ==
  /\ TypeOK /\ CardsAreSaved /\ RecordIsTrue /\ OneTurn /\ CallOrTurn
  /\ PassIsCurrent /\ Once /\ CancelsAll /\ QueueIsOwned /\ WaiterIsLive

\* A delivery that is in doubt is never sent again nor called delivered: it
\* stays so until the person dismisses it, over passes, retries and restarts.
DoubtIsFinal ==
  [][\A q \in Questions : rec[q].delivery = "Uncertain" =>
       rec'[q].delivery \in {"Uncertain", "Cancelled"} \/ q \in lost']_vars

\* A continuation gets its envelope (it is queued, written or started with)
\* only while its record is being dispatched: no cancel or Stop can fall
\* between the pass's decision and the send.
SentWhileOpen ==
  [][\A q \in envelope' \ envelope :
       rec[q].delivery = "Dispatching"]_vars

\* An answer that is ready does not stay so: its call takes it, or the call
\* ends and the pass sends it, or it is cancelled.  Once.
ReadyMovesOn ==
  \A q \in Questions :
    rec[q].delivery = "Ready" /\ ~OnRecord(q) ~>
      rec[q].delivery # "Ready" \/ OnRecord(q)

\* A continuation whose queue was lost before any process was given it is
\* sent after all, or its card says it was not.
LostQueueIsReplayed ==
  \A q \in Questions :
    /\ rec[q].delivery = "Queued" /\ receipt[q] = "queued"
    /\ handed[q] = 0 /\ session = None /\ queue = <<>>
    ~> handed[q] > 0
       \/ rec[q].delivery \in {"Delivered", "Cancelled", "Failed", "Uncertain"}
=============================================================================
