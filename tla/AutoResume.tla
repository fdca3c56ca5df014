---------------------------- MODULE AutoResume ----------------------------
(***************************************************************************)
(* Continuing a chat by itself after a usage limit (auto_resume.rs): the   *)
(* schedule of one chat, its file, and the scheduler, the person and the   *)
(* chat's process around it.                                               *)
(*                                                                         *)
(* When a turn fails at a limit the process's reader schedules a resume:   *)
(* a prompt after the reset, or a hand-over to another provider at once or *)
(* when the person has chosen one.  The scheduler claims what is due,      *)
(* hands it to the chat and drops the entry.  Whatever the person does     *)
(* cancels first, in a step of its own.  Messages that cannot be written   *)
(* at once wait in the chat's queue, in memory.                            *)
(*                                                                         *)
(* The locks: the schedule's own (one step here), the session table with   *)
(* the session, under which a turn is written, queued or started (one      *)
(* step), and held from the last look at a hand-over to its new process    *)
(* (the step "spawn").  A cancel takes neither of the last two.            *)
(*                                                                         *)
(* The chat is the person's own, of providers that keep their process      *)
(* between turns.  An entry is keyed by its chat, so other chats meet this *)
(* one only in that a save of theirs writes what it owes, as the settling  *)
(* every two seconds does.                                                 *)
(***************************************************************************)
EXTENDS Naturals, Sequences, SequencesExt

CONSTANTS
  Agents,       \* the providers the chat may run on
  Kinds,        \* what a limit leads to: of "reset", "switch", "ask"
  Resets,       \* the times a limit may name for its reset
  MaxIds,       \* how many entries are ever made (a bound of the model)
  MaxAsks,      \* how often the person does something (a bound)
  MaxOutages,   \* how often the profile folder goes away (a bound)
  MaxRestarts,  \* how often the server is killed (a bound)
  Message       \* a message of the person's, in a queue or in flight

Ids     == 1..MaxIds
NoTurn  == 0
Turns   == Ids \cup {Message}

ASSUME AutoResumeAssumption ==
  /\ Kinds \subseteq {"reset", "switch", "ask"}
  /\ MaxIds \in Nat /\ MaxAsks \in Nat
  /\ MaxOutages \in Nat /\ MaxRestarts \in Nat
  /\ Message \notin Nat
  /\ Agents # {}
  /\ 0 \notin Resets

VARIABLES
  mem,       \* the schedule in memory: entry, owed, unsaid
  file,      \* the entry the file holds
  made,      \* how many ids were given out
  chat,      \* the session: its process, its turn, its state
  queue,     \* the turns that wait for it
  sched,     \* the scheduler's thread: its step, and the entry it claimed
  person,    \* what follows the cancel the person's last action began with
  away,      \* whether the profile folder is away
  spent,     \* how much of each bound was used
  handed,    \* history: how often each resume's turn was written to a process
  off,       \* history: the resumes cancelled before a process was made for
             \* them, as far as a crash keeps that
  dropped    \* history: the resumes' turns that left the queue unsent

vars == <<mem, file, made, chat, queue, sched, person, away, spent, handed,
          off, dropped>>

Deliveries == {"none", "scheduled", "dispatching", "cancelled"}
Fields == [id : 0..MaxIds, delivery : Deliveries, kind : {"reset", "switch"},
           reset : Resets \cup {0}, agent : Agents, due : BOOLEAN,
           asking : BOOLEAN, chosen : BOOLEAN]
Entry == {e \in Fields : e.asking => e.delivery # "dispatching"}
NoEntry(agent) ==
  [id |-> 0, delivery |-> "none", kind |-> "reset", reset |-> 0,
   agent |-> agent, due |-> FALSE, asking |-> FALSE, chosen |-> FALSE]
Home == CHOOSE a \in Agents : TRUE
Gone == NoEntry(Home)

TypeOK ==
  /\ mem \in [entry : Entry, owed : BOOLEAN, unsaid : SUBSET Ids]
  /\ file \in Entry
  /\ made \in 0..MaxIds
  /\ chat \in [live : BOOLEAN, agent : Agents, busy : BOOLEAN,
               turn : Turns \cup {NoTurn}, limits : 0..2, cut : BOOLEAN,
               handoff : BOOLEAN, waits : BOOLEAN]
  /\ queue \in Seq(Turns)
  /\ sched \in [at : {"boot", "uncertain", "idle", "claimed", "send", "start",
                      "switch", "handoff", "spawn", "failed", "finish", "off"},
                entry : Entry, last : BOOLEAN]
  /\ person \in {"idle", "send", "stop", "end"}
  /\ away \in BOOLEAN
  /\ spent \in [asks : 0..MaxAsks, outages : 0..MaxOutages,
                restarts : 0..MaxRestarts]
  /\ handed \in [Ids -> Nat]
  /\ off \subseteq Ids /\ dropped \subseteq Ids

Idle(agent) == [live |-> FALSE, agent |-> agent, busy |-> FALSE,
                turn |-> NoTurn, limits |-> 0, cut |-> FALSE,
                handoff |-> FALSE, waits |-> FALSE]
Booting == [at |-> "boot", entry |-> Gone, last |-> FALSE]

Init ==
  /\ mem = [entry |-> Gone, owed |-> FALSE, unsaid |-> {}]
  /\ file = Gone
  /\ made = 0
  /\ chat = Idle(Home)
  /\ queue = <<>>
  /\ sched = Booting
  /\ person = "idle"
  /\ away = FALSE
  /\ spent = [asks |-> 0, outages |-> 0, restarts |-> 0]
  /\ handed = [i \in Ids |-> 0]
  /\ off = {} /\ dropped = {}

---------------------------------------------------------------------------
(* The schedule *)

\* save: written and then kept; it makes good a cancel that was owed.
Save(entry) ==
  /\ ~away
  /\ mem' = [mem EXCEPT !.entry = entry, !.owed = FALSE]
  /\ file' = entry

Waiting       == mem.entry.delivery \in {"scheduled", "dispatching"}
SwitchWaits   == Waiting /\ mem.entry.kind = "switch"
ActiveSwitch(e) ==
  /\ mem.entry.id = e.id
  /\ mem.entry.kind = "switch" /\ mem.entry.delivery = "dispatching"

\* schedule, schedule_switch_choice: the limit was already scheduled for.
Known(kind, reset) ==
  IF kind = "reset"
  THEN mem.entry.delivery = "scheduled" /\ mem.entry.reset = reset
  ELSE Waiting /\ mem.entry.agent = chat.agent

Fresh(kind, reset, chosen) ==
  [id |-> made + 1, delivery |-> "scheduled",
   kind |-> IF kind = "reset" THEN "reset" ELSE "switch",
   reset |-> IF kind = "reset" THEN reset ELSE 0,
   agent |-> chat.agent, due |-> kind # "reset",
   asking |-> kind = "ask", chosen |-> kind = "switch" /\ chosen]

\* A new entry takes the place of whatever the chat had.
Schedules(kind, reset, chosen) ==
  /\ made < MaxIds
  /\ ~Known(kind, reset)
  /\ Save(Fresh(kind, reset, chosen))
  /\ made' = made + 1

Cancellable ==
  \/ mem.entry.delivery = "scheduled"
  \/ SwitchWaits

\* cancel: it holds in this process whatever the file takes.  One that was
\* written is dropped at once, unless the folder goes away in between.
Cancels ==
  IF ~Cancellable THEN UNCHANGED <<mem, file, off>>
  ELSE LET stone == [mem.entry EXCEPT !.delivery = "cancelled"]
       IN /\ off' = IF sched.at = "spawn" /\ sched.entry.id = stone.id
                    THEN off ELSE off \cup {stone.id}
          /\ IF away
             THEN /\ mem' = [entry |-> stone, owed |-> TRUE,
                             unsaid |-> mem.unsaid \cup {stone.id}]
                  /\ file' = file
             ELSE \E left \in {stone, Gone} :
                    /\ mem' = [mem EXCEPT !.entry = left, !.owed = FALSE]
                    /\ file' = left

\* Mutant of Finishes: the entry of the chat is dropped, whichever it is.
FinishesByChat(e) ==
  IF away \/ mem.entry.delivery = "none" THEN UNCHANGED <<mem, file>>
  ELSE /\ mem' = [entry |-> Gone, owed |-> FALSE,
                  unsaid |-> mem.unsaid \ {e.id}]
       /\ file' = Gone

\* Mutant of Finishes: it is dropped although that could not be saved.
FinishesAnyway(e) ==
  IF mem.entry.id # e.id
  THEN /\ mem' = [mem EXCEPT !.unsaid = @ \ {e.id}]
       /\ file' = file
  ELSE /\ mem' = [mem EXCEPT !.entry = Gone, !.unsaid = @ \ {e.id}]
       /\ file' = IF away THEN file ELSE Gone

\* finish: the entry is dropped, if it is still the chat's.
Finishes(e) ==
  IF mem.entry.id # e.id
  THEN /\ mem' = [mem EXCEPT !.unsaid = @ \ {e.id}]
       /\ file' = file
  ELSE IF away THEN UNCHANGED <<mem, file>>
  ELSE /\ mem' = [entry |-> Gone, owed |-> FALSE,
                  unsaid |-> mem.unsaid \ {e.id}]
       /\ file' = Gone

---------------------------------------------------------------------------
(* The chat's process and its queue *)

Free == sched.at # "spawn"

Handed(turn) == IF turn \in Ids THEN [handed EXCEPT ![turn] = @ + 1] ELSE handed

Given(c, turn) == [c EXCEPT !.live = TRUE, !.busy = TRUE, !.turn = turn]

\* The first turn that waits is taken off the queue and given to the agent.
TakesFirst(c) ==
  /\ chat' = Given([c EXCEPT !.waits = @ /\ Len(queue) > 1], Head(queue))
  /\ queue' = Tail(queue)
  /\ handed' = Handed(Head(queue))

\* keep_waiting: it waits for the folder to come back.
KeepsWaiting(c) ==
  /\ chat' = [c EXCEPT !.waits = TRUE]
  /\ UNCHANGED <<queue, handed>>

\* dispatch_next_persistent_turn, start_queued_turn
NextTurn(c, none) ==
  IF queue = <<>> THEN chat' = none /\ UNCHANGED <<queue, handed>>
  ELSE IF away THEN KeepsWaiting(c) ELSE TakesFirst(c)

\* forget_queued_turns
Forgets ==
  /\ queue' = <<>>
  /\ dropped' = dropped \cup (ToSet(queue) \cap Ids)

Ended == [Idle(chat.agent) EXCEPT !.handoff = chat.handoff,
                                  !.waits = chat.waits]

\* The reader meets a usage limit: in the turn's full stop, or in a line of
\* its own before it.
ReadsLimit ==
  /\ chat.live /\ chat.turn # NoTurn /\ chat.limits < 2
  /\ chat' = [chat EXCEPT !.limits = @ + 1]
  /\ \/ UNCHANGED <<mem, file, made>>
     \/ \E kind \in Kinds, reset \in Resets, chosen \in BOOLEAN :
          /\ kind = "switch" /\ chosen => made + 1 < MaxIds
          /\ Schedules(kind, reset, chosen)
  /\ UNCHANGED <<queue, sched, person, away, spent, handed, off, dropped>>

\* end_turn_locked: what waits stays while the chat is to go on by itself.
ReadsFullStop ==
  /\ chat.live /\ chat.turn # NoTurn
  /\ LET c == [chat EXCEPT !.turn = NoTurn, !.busy = FALSE, !.limits = 0,
                           !.cut = FALSE]
     IN IF Waiting
        THEN chat' = c /\ UNCHANGED <<queue, handed>>
        ELSE NextTurn(c, c)
  /\ UNCHANGED <<mem, file, made, sched, person, away, spent, off, dropped>>

\* The process ends by itself: its queue goes with it, unless a hand-over is
\* to take it.
Exits ==
  /\ chat.live
  /\ chat' = [Ended EXCEPT !.waits = @ /\ SwitchWaits]
  /\ IF SwitchWaits THEN UNCHANGED <<queue, dropped>> ELSE Forgets
  /\ UNCHANGED <<mem, file, made, sched, person, away, spent, handed, off>>

\* The idle sweeper ends it, when it sat still for long enough.
SweepsIdle ==
  /\ chat.live /\ ~chat.busy /\ ~chat.waits
  /\ chat' = Ended
  /\ Forgets
  /\ UNCHANGED <<mem, file, made, sched, person, away, spent, handed, off>>

\* grace_ran_out: a stopped turn that never ended takes its process with it,
\* and what waits goes on in the next one.
GraceRunsOut ==
  /\ chat.live /\ chat.cut
  /\ NextTurn(Ended, Ended)
  /\ UNCHANGED <<mem, file, made, sched, person, away, spent, off, dropped>>

\* start_waiting_queues: the folder is back.
StartsWaiting ==
  /\ chat.waits /\ ~away /\ Free
  /\ ~chat.cut /\ ~chat.handoff
  /\ NextTurn([chat EXCEPT !.waits = FALSE], [chat EXCEPT !.waits = FALSE])
  /\ UNCHANGED <<mem, file, made, sched, person, away, spent, off, dropped>>

---------------------------------------------------------------------------
(* The person *)

Asked == [spent EXCEPT !.asks = @ + 1]

\* What the person does begins with the cancel; a Cancel on the banner is
\* nothing more.
Begins ==
  /\ person = "idle" /\ spent.asks < MaxAsks
  /\ Cancels
  /\ spent' = Asked
  /\ person' \in {"idle", "send", "stop", "end"}
  /\ person' = "idle" => Cancellable
  /\ UNCHANGED <<made, chat, queue, sched, away, handed, dropped>>

Busy(c) == c.busy \/ c.cut \/ queue # <<>>

\* send_turn: written between turns, queued behind anything else.
SendsTurn(turn) ==
  IF chat.live /\ ~Busy(chat)
  THEN chat' = Given(chat, turn) /\ queue' = queue /\ handed' = Handed(turn)
  ELSE /\ chat' = [chat EXCEPT !.busy = @ \/ chat.live]
       /\ queue' = Append(queue, turn)
       /\ handed' = handed

Takes == chat.live \/ chat.handoff \/ chat.waits

\* A message: sent to the process, or a process is started with it.
Sends ==
  /\ person = "send" /\ Free
  /\ person' = "idle"
  /\ IF away THEN UNCHANGED <<chat, queue, handed>>
     ELSE IF Takes THEN SendsTurn(Message)
     ELSE chat' = Given(chat, Message) /\ UNCHANGED <<queue, handed>>
  /\ UNCHANGED <<mem, file, made, sched, away, spent, off, dropped>>

\* Stop: the turn is cut short; its full stop is owed if there was one.
Stops ==
  /\ person = "stop" /\ Free
  /\ person' = "idle"
  /\ chat' = IF chat.live
             THEN [chat EXCEPT !.busy = FALSE, !.cut = @ \/ chat.busy]
             ELSE chat
  /\ UNCHANGED <<mem, file, made, queue, sched, away, spent, handed, off,
                 dropped>>

\* chat_stop: the process is ended and its queue forgotten.
Ends ==
  /\ person = "end" /\ Free
  /\ person' = "idle"
  /\ chat' = [Ended EXCEPT !.waits = FALSE]
  /\ Forgets
  /\ UNCHANGED <<mem, file, made, sched, away, spent, handed, off>>

\* choose_switch: the person picks the provider that was asked for.
Chooses ==
  /\ spent.asks < MaxAsks /\ made < MaxIds
  /\ mem.entry.asking /\ mem.entry.delivery = "scheduled"
  /\ Save([mem.entry EXCEPT !.asking = FALSE, !.chosen = TRUE, !.due = TRUE])
  /\ spent' = Asked
  /\ UNCHANGED <<made, chat, queue, sched, person, away, handed, off, dropped>>

---------------------------------------------------------------------------
(* The scheduler's thread *)

To(step)       == sched' = [sched EXCEPT !.at = step]
Or(step)       == sched' = [sched EXCEPT !.at = IF sched.last THEN "failed" ELSE step,
                                         !.last = TRUE]
IsSwitch(e)    == e.kind = "switch"
Working        == chat.live /\ (chat.busy \/ chat.cut)
Unhanded       == UNCHANGED <<chat, queue, handed>>
ScheduleStays  == UNCHANGED <<mem, file, made, off>>
RestStays      == UNCHANGED <<person, away, spent, dropped>>

\* Once, when the server starts: a cancel's tombstone is said and dropped.
BootClears ==
  /\ sched.at = "boot" /\ To("uncertain")
  /\ IF mem.entry.delivery = "cancelled"
     THEN Finishes(mem.entry) ELSE UNCHANGED <<mem, file>>
  /\ Unhanded /\ RestStays /\ UNCHANGED <<made, off>>

\* take_uncertain: what was being handed over is dropped and reported, never
\* repeated.  When that cannot be saved the thread ends, for good.
BootTakes ==
  /\ sched.at = "uncertain"
  /\ IF mem.entry.delivery # "dispatching"
     THEN To("idle") /\ UNCHANGED <<mem, file>>
     ELSE IF away THEN To("off") /\ UNCHANGED <<mem, file>>
     ELSE To("idle") /\ Save(Gone)
  /\ Unhanded /\ RestStays /\ UNCHANGED <<made, off>>

\* Mutant of IsDue: one the person has not chosen for is due as well.
IsDueAsked(e) == e.delivery = "scheduled" /\ e.due

IsDue(e) == e.delivery = "scheduled" /\ ~e.asking /\ e.due

\* Mutant of Claims: it is saved with the turn it leads to, or not at all.
ClaimsUnsaved ==
  /\ sched.at = "idle" /\ IsDue(mem.entry) /\ ~away
  /\ LET claimed == [mem.entry EXCEPT !.delivery = "dispatching"]
     IN /\ mem' = [mem EXCEPT !.entry = claimed]
        /\ sched' = [at |-> "claimed", entry |-> claimed, last |-> FALSE]
  /\ Unhanded /\ RestStays /\ UNCHANGED <<file, made, off>>

\* claim_due: on disk as being dispatched before anything is started.
Claims ==
  /\ sched.at = "idle" /\ IsDue(mem.entry)
  /\ LET claimed == [mem.entry EXCEPT !.delivery = "dispatching"]
     IN /\ Save(claimed)
        /\ sched' = [at |-> "claimed", entry |-> claimed, last |-> FALSE]
  /\ Unhanded /\ RestStays /\ UNCHANGED <<made, off>>

\* defer_switch: it was not cancelled, or replaced, while it was looked at.
Defers ==
  IF ActiveSwitch(sched.entry) /\ ~away
  THEN Save([mem.entry EXCEPT !.delivery = "scheduled", !.due = FALSE])
  ELSE UNCHANGED <<mem, file>>

\* A hand-over waits for the turn under way; a prompt goes where the chat's
\* process was seen, or not seen, to be.
Looks ==
  /\ sched.at = "claimed"
  /\ IF IsSwitch(sched.entry) /\ (away \/ Working)
     THEN Defers /\ To("idle")
     ELSE /\ To(IF IsSwitch(sched.entry) THEN "switch"
                ELSE IF chat.live THEN "send" ELSE "start")
          /\ UNCHANGED <<mem, file>>
  /\ Unhanded /\ RestStays /\ UNCHANGED <<made, off>>

\* A prompt is sent like any message ...
SendsResume ==
  /\ sched.at = "send"
  /\ IF away THEN To("failed") /\ Unhanded
     ELSE IF Takes THEN To("finish") /\ SendsTurn(sched.entry.id)
     ELSE Or("start") /\ Unhanded
  /\ ScheduleStays /\ RestStays

\* ... or starts a process; each is tried once more as the other.
StartsResume ==
  /\ sched.at = "start"
  /\ \/ To("failed") /\ Unhanded
     \/ /\ ~away /\ Takes
        /\ Or("send") /\ Unhanded
     \/ /\ ~away /\ ~Takes
        /\ To("finish")
        /\ chat' = Given(chat, sched.entry.id)
        /\ handed' = Handed(sched.entry.id)
        /\ UNCHANGED queue
  /\ ScheduleStays /\ RestStays

\* run_provider_switch: the old process is ended, under the session table.
SwitchTakes ==
  /\ sched.at = "switch"
  /\ \/ To("failed") /\ Unhanded
     \/ /\ ~away /\ ActiveSwitch(sched.entry)
        /\ ~Working
        /\ To("handoff")
        /\ chat' = [Ended EXCEPT !.handoff = TRUE]
        /\ UNCHANGED <<queue, handed>>
  /\ ScheduleStays /\ RestStays

\* Mutant of SwitchLooks: the receipt was looked at when the old process was ended.
SwitchLooksNot ==
  /\ sched.at = "handoff"
  /\ IF ~away /\ ~chat.live
     THEN To("spawn") /\ Unhanded
     ELSE /\ To("failed")
          /\ chat' = [chat EXCEPT !.handoff = FALSE]
          /\ UNCHANGED <<queue, handed>>
  /\ ScheduleStays /\ RestStays

\* start_session: the receipt is looked at again, and the table is held from
\* here on.
SwitchLooks ==
  /\ sched.at = "handoff"
  /\ IF ~away /\ ~chat.live /\ ActiveSwitch(sched.entry)
     THEN To("spawn") /\ Unhanded
     ELSE /\ To("failed")
          /\ chat' = [chat EXCEPT !.handoff = FALSE]
          /\ UNCHANGED <<queue, handed>>
  /\ ScheduleStays /\ RestStays

\* The new provider's process gets the history and the unfinished request.
SwitchSpawns ==
  /\ sched.at = "spawn"
  /\ \/ /\ To("failed")
        /\ chat' = [chat EXCEPT !.handoff = FALSE]
        /\ UNCHANGED <<queue, handed>>
     \/ /\ To("finish")
        /\ \E a \in Agents \ {chat.agent} :
             chat' = Given([chat EXCEPT !.handoff = FALSE, !.agent = a],
                           sched.entry.id)
        /\ handed' = Handed(sched.entry.id)
        /\ UNCHANGED queue
  /\ ScheduleStays /\ RestStays

\* Mutant of Fails: the loop goes on without the entry when its turn failed.
FailsUnfinished ==
  /\ sched.at = "failed" /\ To("idle")
  /\ Unhanded /\ RestStays /\ ScheduleStays

\* reopen_switch: a choice that failed is asked for again, under a new id.
Fails ==
  /\ sched.at = "failed" /\ To("finish")
  /\ IF /\ sched.entry.chosen /\ ~away
        /\ mem.entry.id = sched.entry.id /\ mem.entry.delivery = "dispatching"
     THEN /\ Save([mem.entry EXCEPT !.id = made + 1, !.delivery = "scheduled",
                                    !.asking = TRUE, !.chosen = FALSE])
          /\ made' = made + 1
     ELSE UNCHANGED <<mem, file, made>>
  /\ Unhanded /\ RestStays /\ UNCHANGED off

Drops ==
  /\ sched.at = "finish" /\ To("idle")
  /\ Finishes(sched.entry)
  /\ Unhanded /\ RestStays /\ UNCHANGED <<made, off>>

---------------------------------------------------------------------------
(* Time, the profile folder, and the server *)

ComesDue ==
  /\ mem.entry.delivery = "scheduled" /\ ~mem.entry.due
  /\ mem' = [mem EXCEPT !.entry.due = TRUE]
  /\ file' = mem'.entry
  /\ UNCHANGED <<made, sched, off>> /\ Unhanded /\ RestStays

FolderGoes ==
  /\ ~away /\ spent.outages < MaxOutages
  /\ away' = TRUE
  /\ spent' = [spent EXCEPT !.outages = @ + 1]
  /\ ScheduleStays /\ Unhanded /\ UNCHANGED <<sched, person, dropped>>

FolderReturns ==
  /\ away /\ away' = FALSE
  /\ ScheduleStays /\ Unhanded /\ UNCHANGED <<sched, person, spent, dropped>>

\* settle_cancelled_resumes: what is owed is written, and then said and
\* dropped.
Settles ==
  /\ ~away
  /\ \/ /\ mem.owed
        /\ Save(mem.entry)
     \/ /\ ~mem.owed
        /\ mem.entry.delivery = "cancelled" /\ mem.entry.id \in mem.unsaid
        /\ Finishes(mem.entry)
  /\ UNCHANGED <<made, sched, off>> /\ Unhanded /\ RestStays

\* The server is killed, and starts again from the file.
Dies ==
  /\ spent.restarts < MaxRestarts
  /\ spent' = [spent EXCEPT !.restarts = @ + 1]
  /\ mem' = [entry |-> file, owed |-> FALSE, unsaid |-> {}]
  /\ chat' = Idle(chat.agent)
  /\ Forgets
  /\ sched' = Booting
  /\ person' = "idle"
  /\ off' = IF file.delivery = "cancelled" THEN off ELSE off \ {file.id}
  /\ UNCHANGED <<file, made, away, handed>>

Agent     == ReadsLimit \/ ReadsFullStop \/ Exits
Host      == SweepsIdle \/ GraceRunsOut \/ StartsWaiting \/ Settles
Person    == Begins \/ Sends \/ Stops \/ Ends \/ Chooses
Scheduler ==
  \/ BootClears \/ BootTakes \/ Claims \/ Looks \/ SendsResume \/ StartsResume
  \/ SwitchTakes \/ SwitchLooks \/ SwitchSpawns \/ Fails \/ Drops
World     == ComesDue \/ FolderGoes \/ FolderReturns \/ Dies

Next == Agent \/ Host \/ Person \/ Scheduler \/ World

Spec == Init /\ [][Next]_vars

\* The threads run and time passes; a turn an agent was given ends, and the
\* folder comes back.  The person owes nothing but to finish what was begun,
\* and no agent has to meet a limit or to exit.
Fairness ==
  /\ WF_vars(Scheduler)
  /\ WF_vars(ReadsFullStop) /\ WF_vars(GraceRunsOut)
  /\ WF_vars(StartsWaiting) /\ WF_vars(Settles)
  /\ WF_vars(Sends \/ Stops \/ Ends)
  /\ WF_vars(ComesDue) /\ WF_vars(FolderReturns)

FairSpec == Spec /\ Fairness

---------------------------------------------------------------------------
(* Properties *)

Queued(i) == \E k \in DOMAIN queue : queue[k] = i

\* A resume's turn is given to an agent at most once, over every restart:
\* what may have been handed over when the server died is reported and never
\* repeated (claim_due, take_uncertain).
SentOnce ==
  \A i \in Ids :
    /\ handed[i] <= 1
    /\ handed[i] = 1 => ~Queued(i)
    /\ \A k, l \in DOMAIN queue : queue[k] = i /\ queue[l] = i => k = l

\* The file and the schedule differ in nothing but a cancel, and then the
\* store knows that it owes one: any other change is refused when it cannot
\* be saved (save, cancel, settle).
OnlyCancelsAreOwed ==
  mem.entry # file =>
    /\ mem.owed
    /\ mem.entry.delivery = "cancelled"

\* A resume that was cancelled before a process was being made for it is
\* never given to an agent: by this server, or by a later one once the cancel
\* is on disk (cancel, active_switch).
CancelledIsNotSent == [][\A i \in off : handed'[i] = handed[i]]_vars

\* An entry that waits for its time is not dropped by whoever finishes the
\* one before it: it leaves the schedule only claimed, cancelled, or replaced
\* by a newer one (finish compares ids; reopen_switch gives a new one).
ScheduledIsNotLost ==
  [][mem.entry.delivery = "scheduled" /\ mem'.entry.id # mem.entry.id =>
       \/ mem'.entry.id > mem.entry.id
       \/ mem.entry.id \in off']_vars

\* A resume that waits for the reset is settled: its turn is handed over or
\* it failed, it is cancelled, or a newer one took its place.  It is not
\* while a save is refused, and not once the scheduler's thread has ended.
ResetIsSettled ==
  \A i \in Ids :
    (mem.entry.id = i /\ mem.entry.kind = "reset"
       /\ mem.entry.delivery = "scheduled")
      ~> (mem.entry.id # i \/ mem.entry.delivery = "cancelled"
            \/ away \/ sched.at = "off")

\* "A still-live persistent process receives an ordinary next turn": a
\* resume's turn that waits in the chat's queue is given to its agent, or is
\* said not to have been sent.
ResumeIsHandedOver ==
  \A i \in Ids : Queued(i) ~> (handed[i] > 0 \/ i \in dropped)

=============================================================================
