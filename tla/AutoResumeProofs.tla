-------------------------- MODULE AutoResumeProofs --------------------------
(***************************************************************************)
(* Theorems about the schedule of AutoResume, for every number of limits,  *)
(* restarts and outages.  The invariant follows one entry's id: from the   *)
(* schedule into the scheduler's hands, from there into the queue or to    *)
(* the agent, and never back.                                              *)
(***************************************************************************)
EXTENDS AutoResume, TLAPS

\* The scheduler has claimed an entry: it still has its turn, or is done.
Carrying == {"claimed", "send", "start", "switch", "handoff", "spawn"}
Delivering == Carrying \cup {"failed", "finish"}

\* The turn of entry i has left the schedule.
Used(i) == handed[i] > 0 \/ Queued(i)

\* Ids are given out in order, and a chosen entry leaves one for its reopening.
IdsBelow ==
  /\ mem.entry.id <= made /\ file.id <= made /\ sched.entry.id <= made
  /\ mem.entry.delivery # "none" => mem.entry.id # 0
  /\ file.delivery # "none" => file.id # 0
  /\ mem.entry.chosen => made < MaxIds
  /\ \A i \in Ids : Used(i) \/ i \in off => i <= made

\* The file is behind the schedule by no more than a cancel.
FileBehind ==
  mem.entry # file =>
    mem.owed /\ mem.entry = [file EXCEPT !.delivery = "cancelled"]

\* While the scheduler has an entry the schedule and the file do not have it
\* as one that waits.
ClaimedOnce ==
  sched.at \in Delivering =>
    /\ sched.entry.id # 0
    /\ \A e \in {mem.entry, file} : e.id = sched.entry.id =>
         /\ e.delivery \in {"dispatching", "cancelled"}
         /\ e.kind = sched.entry.kind /\ e.chosen = sched.entry.chosen

\* An entry that waits, or is being carried, was not used before.
Unused ==
  /\ \A e \in {mem.entry, file} : e.delivery = "scheduled" => ~Used(e.id)
  /\ sched.at \in Carrying => ~Used(sched.entry.id)

\* A cancelled entry is on its way nowhere: it is not in the queue, is no
\* prompt the scheduler carries, and is no hand-over at its last step.
OffIsOff ==
  /\ mem.entry.id \in off => mem.entry.delivery = "cancelled"
  /\ \A i \in Ids : Queued(i) =>
       i \notin off /\ (mem.entry.id = i => mem.entry.kind = "reset")
  /\ sched.at \in {"send", "start"} => sched.entry.kind = "reset"
  /\ sched.at \in Carrying =>
       \/ sched.entry.kind = "switch" /\ sched.at # "spawn"
       \/ sched.entry.id \notin off

IInv ==
  /\ TypeOK
  /\ IdsBelow
  /\ FileBehind
  /\ ClaimedOnce
  /\ Unused
  /\ OffIsOff
  /\ SentOnce

-----------------------------------------------------------------------------
(* Types *)

LEMMA EntryTypes ==
  /\ \A agent \in Agents : NoEntry(agent) \in Entry
  /\ Gone \in Entry
  /\ Home \in Agents
<1>1. Home \in Agents
  BY AutoResumeAssumption DEF Home
<1>2. \A agent \in Agents : NoEntry(agent) \in Entry
  BY AutoResumeAssumption DEF NoEntry, Entry, Fields, Deliveries
<1>. QED BY <1>1, <1>2 DEF Gone

\* The turns are the entries' and the person's; none is "no turn".
LEMMA TurnFacts ==
  /\ Ids \subseteq Nat \ {0}
  /\ Message \in Turns /\ Message \notin Ids
  /\ NoTurn \notin Ids
BY AutoResumeAssumption DEF Ids, Turns, NoTurn

LEMMA ChangedEntries ==
  ASSUME NEW e \in Entry
  PROVE  /\ \A d \in {"scheduled", "cancelled", "none"} :
              [e EXCEPT !.delivery = d] \in Entry
         /\ ~e.asking => [e EXCEPT !.delivery = "dispatching"] \in Entry
         /\ ~e.asking => [e EXCEPT !.delivery = "scheduled", !.due = FALSE] \in Entry
         /\ e.delivery # "dispatching" => [e EXCEPT !.due = TRUE] \in Entry
         /\ [e EXCEPT !.asking = FALSE, !.chosen = TRUE, !.due = TRUE] \in Entry
         /\ \A i \in 0..MaxIds :
              [e EXCEPT !.id = i, !.delivery = "scheduled", !.asking = TRUE,
                        !.chosen = FALSE] \in Entry
BY DEF Entry, Fields, Deliveries

-----------------------------------------------------------------------------
(* What the steps do to the queue and to what was handed over *)

ChatRecord == [live : BOOLEAN, agent : Agents, busy : BOOLEAN,
               turn : Turns \cup {NoTurn}, limits : 0..2, cut : BOOLEAN,
               handoff : BOOLEAN, waits : BOOLEAN]

\* No entry but n is queued, or comes to be used; what is handed over was
\* queued before.
OnlyNew(n) ==
  /\ queue' \in Seq(Turns) /\ handed' \in [Ids -> Nat]
  /\ SentOnce'
  /\ \A i \in Ids : i # n =>
       /\ Used(i)' => Used(i)
       /\ Queued(i)' => Queued(i)
       /\ handed'[i] # handed[i] => Queued(i)

LEMMA StayNew ==
  ASSUME TypeOK, SentOnce, UNCHANGED <<queue, handed>>, NEW n
  PROVE  OnlyNew(n)
BY DEF OnlyNew, TypeOK, SentOnce, Used, Queued

LEMMA ForgetNew ==
  ASSUME TypeOK, SentOnce, queue' = <<>>, handed' = handed
  PROVE  OnlyNew(0)
<1>1. \A i \in Ids : ~Queued(i)'
  BY DEF Queued
<1>2. SentOnce'
  BY <1>1 DEF SentOnce, Queued
<1>. QED BY <1>1, <1>2 DEF OnlyNew, TypeOK, Used

\* The first turn goes to the agent: it was queued once, and never handed over.
LEMMA TakeNew ==
  ASSUME TypeOK, SentOnce, queue # <<>>,
         queue' = Tail(queue), handed' = Handed(Head(queue))
  PROVE  OnlyNew(0)
<1>. DEFINE h == Head(queue)
<1>1. /\ queue' \in Seq(Turns) /\ h \in Turns /\ h = queue[1]
      /\ 1 \in DOMAIN queue
      /\ \A k \in DOMAIN queue' : k + 1 \in DOMAIN queue /\ k + 1 # 1 /\ queue'[k] = queue[k + 1]
      /\ \A k \in DOMAIN queue' : k \in Nat
  BY DEF TypeOK
<1>2. \A i \in Ids : Queued(i)' => Queued(i) /\ i # h
  BY <1>1 DEF Queued, SentOnce
<1>3. /\ handed' \in [Ids -> Nat]
      /\ \A i \in Ids : i # h => handed'[i] = handed[i]
      /\ h \in Ids => handed'[h] = handed[h] + 1
  BY <1>1 DEF TypeOK, Handed
<1>4. h \in Ids => Queued(h) /\ handed[h] = 0
  BY <1>1 DEF Queued, SentOnce, TypeOK
<1>5. \A i \in Ids : handed'[i] <= 1 /\ (handed'[i] = 1 => ~Queued(i)')
  BY <1>2, <1>3, <1>4 DEF SentOnce
<1>6. \A i \in Ids : \A k, l \in DOMAIN queue' :
        queue'[k] = i /\ queue'[l] = i => k = l
  BY <1>1 DEF SentOnce
<1>7. SentOnce'
  BY <1>5, <1>6 DEF SentOnce
<1>. QED BY <1>1, <1>2, <1>3, <1>4, <1>7 DEF OnlyNew, Used

LEMMA GiveNew ==
  ASSUME TypeOK, SentOnce, NEW turn \in Turns, turn \in Ids => ~Used(turn),
         queue' = queue, handed' = Handed(turn)
  PROVE  OnlyNew(turn)
<1>1. /\ handed' \in [Ids -> Nat]
      /\ \A i \in Ids : i # turn => handed'[i] = handed[i]
      /\ turn \in Ids => handed'[turn] = 1
  BY DEF TypeOK, Handed, Used
<1>2. \A i \in Ids : Queued(i)' <=> Queued(i)
  BY DEF Queued
<1>3. SentOnce'
  BY <1>1, <1>2 DEF SentOnce, Used
<1>. QED BY <1>1, <1>2, <1>3 DEF OnlyNew, Used, TypeOK

LEMMA AppendNew ==
  ASSUME TypeOK, SentOnce, NEW turn \in Turns, turn \in Ids => ~Used(turn),
         queue' = Append(queue, turn), handed' = handed
  PROVE  OnlyNew(turn)
<1>1. /\ queue' \in Seq(Turns)
      /\ \A k \in DOMAIN queue' :
           \/ k \in DOMAIN queue /\ queue'[k] = queue[k]
           \/ k = Len(queue) + 1 /\ queue'[k] = turn
      /\ Len(queue) + 1 \notin DOMAIN queue
  BY DEF TypeOK
<1>2. \A i \in Ids : i # turn => (Queued(i)' => Queued(i))
  BY <1>1 DEF Queued
<1>3. turn \in Ids => handed[turn] = 0 /\ \A k \in DOMAIN queue : queue[k] # turn
  BY DEF Used, Queued, TypeOK
<1>4. \A i \in Ids : handed'[i] <= 1 /\ (handed'[i] = 1 => ~Queued(i)')
  BY <1>2, <1>3 DEF SentOnce
<1>5. \A i \in Ids : \A k, l \in DOMAIN queue' :
        queue'[k] = i /\ queue'[l] = i => k = l
  BY <1>1, <1>3 DEF SentOnce
<1>6. SentOnce'
  BY <1>4, <1>5 DEF SentOnce
<1>. QED BY <1>1, <1>2, <1>6 DEF OnlyNew, Used, TypeOK

\* send_turn gives the turn to the agent or to the queue.
LEMMA SendNew ==
  ASSUME TypeOK, SentOnce, NEW turn \in Turns, turn \in Ids => ~Used(turn),
         SendsTurn(turn)
  PROVE  OnlyNew(turn) /\ chat' \in ChatRecord
<1>1. OnlyNew(turn)
  BY GiveNew, AppendNew DEF SendsTurn
<1>2. chat' \in ChatRecord
  BY DEF SendsTurn, Given, TypeOK, ChatRecord
<1>. QED BY <1>1, <1>2

LEMMA NextTurnNew ==
  ASSUME TypeOK, SentOnce, NEW c \in ChatRecord, NEW none \in ChatRecord,
         NextTurn(c, none)
  PROVE  OnlyNew(0) /\ chat' \in ChatRecord
<1>1. OnlyNew(0)
  BY StayNew, TakeNew DEF NextTurn, KeepsWaiting, TakesFirst
<1>2. queue # <<>> => Head(queue) \in Turns
  BY DEF TypeOK
<1>3. chat' \in ChatRecord
  BY <1>2 DEF NextTurn, KeepsWaiting, TakesFirst, Given, ChatRecord
<1>. QED BY <1>1, <1>3

\* A message of the person's is none of the entries.
LEMMA MessageNew ==
  ASSUME OnlyNew(Message)
  PROVE  OnlyNew(0)
BY TurnFacts DEF OnlyNew

-----------------------------------------------------------------------------
(* The steps of the chat, which leave the schedule alone *)

\* The two action properties, of one step.
StepOK ==
  /\ \A i \in off : handed'[i] = handed[i]
  /\ mem.entry.delivery = "scheduled" /\ mem'.entry.id # mem.entry.id =>
       \/ mem'.entry.id > mem.entry.id
       \/ mem.entry.id \in off'

\* The scheduler goes on with the entry it has, or lets go of it.
SchedMoves ==
  /\ sched'.entry = sched.entry
  /\ sched'.at \in Delivering => sched.at \in Delivering
  /\ sched'.at \in Carrying => sched.at \in Carrying
  /\ sched'.at \in {"send", "start"} => sched.entry.kind = "reset"
  /\ sched'.at \in Carrying =>
       \/ sched.entry.kind = "switch" /\ sched'.at # "spawn"
       \/ sched.entry.id \notin off

\* What moves between the queue and the agent was queued before, so it is not
\* off; and nothing comes to be used.
LEMMA MovesKeep ==
  ASSUME IInv, TypeOK', OnlyNew(0), UNCHANGED <<file, made, off>>, SchedMoves,
         mem'.entry = mem.entry, mem'.owed = mem.owed
  PROVE  IInv' /\ StepOK
<1>1. \A i \in Ids : /\ Used(i)' => Used(i)
                     /\ Queued(i)' => Queued(i)
                     /\ handed'[i] # handed[i] => Queued(i)
  BY TurnFacts DEF OnlyNew
<1>2. /\ mem.entry.delivery = "scheduled" => mem.entry.id \in Ids
      /\ file.delivery = "scheduled" => file.id \in Ids
      /\ sched.at \in Carrying => sched.entry.id \in Ids
  BY DEF IInv, TypeOK, IdsBelow, ClaimedOnce, Delivering, Entry, Fields, Ids
<1>3. IdsBelow' /\ FileBehind' /\ ClaimedOnce'
  BY <1>1 DEF IInv, IdsBelow, FileBehind, ClaimedOnce, SchedMoves
<1>4. Unused'
  BY <1>1, <1>2 DEF IInv, Unused, SchedMoves
<1>5. OffIsOff'
  BY <1>1 DEF IInv, OffIsOff, SchedMoves
<1>6. StepOK
  BY <1>1 DEF StepOK, IInv, OffIsOff, TypeOK
<1>. QED BY <1>3, <1>4, <1>5, <1>6 DEF IInv, OnlyNew

\* The scheduler does nothing.
LEMMA SchedStays ==
  ASSUME IInv, sched' = sched
  PROVE  SchedMoves
BY DEF SchedMoves, IInv, OffIsOff

LEMMA ChatKeeps ==
  ASSUME IInv, TypeOK', OnlyNew(0), UNCHANGED <<mem, file, made, off, sched>>
  PROVE  IInv' /\ StepOK
BY MovesKeep, SchedStays

LEMMA FullStopKeeps ==
  ASSUME IInv, ReadsFullStop
  PROVE  IInv' /\ StepOK
<1>. DEFINE c == [chat EXCEPT !.turn = NoTurn, !.busy = FALSE, !.limits = 0,
                              !.cut = FALSE]
<1>1. c \in ChatRecord
  <2>1. chat \in ChatRecord /\ 0 \in 0..2
    BY DEF IInv, TypeOK, ChatRecord
  <2>. QED BY <2>1 DEF ChatRecord
<1>2. OnlyNew(0) /\ chat' \in ChatRecord
  <2>1. CASE Waiting
    BY <1>1, <2>1, StayNew DEF ReadsFullStop, IInv
  <2>2. CASE ~Waiting
    BY <1>1, <2>2, NextTurnNew DEF ReadsFullStop, IInv
  <2>. QED BY <2>1, <2>2
<1>3. TypeOK'
  BY <1>2 DEF IInv, TypeOK, OnlyNew, ReadsFullStop, ChatRecord
<1>. QED BY <1>2, <1>3, ChatKeeps DEF ReadsFullStop

\* forget_queued_turns only adds to what was dropped.
LEMMA ForgetsTypes ==
  ASSUME TypeOK, Forgets
  PROVE  queue' = <<>> /\ dropped' \subseteq Ids
BY DEF Forgets, TypeOK

LEMMA EndedTypes ==
  ASSUME TypeOK
  PROVE  /\ Ended \in ChatRecord
         /\ \A w \in BOOLEAN : /\ [Ended EXCEPT !.waits = w] \in ChatRecord
                               /\ [chat EXCEPT !.waits = w] \in ChatRecord
         /\ \A h \in BOOLEAN : /\ [Ended EXCEPT !.handoff = h] \in ChatRecord
                               /\ [chat EXCEPT !.handoff = h] \in ChatRecord
<1>1. chat \in ChatRecord
  BY DEF TypeOK, ChatRecord
<1>2. /\ chat.agent \in Agents /\ chat.handoff \in BOOLEAN /\ chat.waits \in BOOLEAN
      /\ 0 \in 0..2
  BY <1>1 DEF ChatRecord
<1>3. Idle(chat.agent) \in ChatRecord
  BY <1>2 DEF Idle, ChatRecord
<1>4. Ended \in ChatRecord
  BY <1>2, <1>3 DEF Ended, ChatRecord
<1>. QED BY <1>1, <1>4 DEF ChatRecord

LEMMA ExitsKeeps ==
  ASSUME IInv, Exits
  PROVE  IInv' /\ StepOK
<1>1. OnlyNew(0)
  BY StayNew, ForgetNew, ForgetsTypes DEF Exits, IInv, Forgets
<1>2. chat' \in ChatRecord
  <2>1. (Ended.waits /\ SwitchWaits) \in BOOLEAN
    OBVIOUS
  <2>. QED BY <2>1, EndedTypes DEF Exits, IInv
<1>3. TypeOK'
  BY <1>1, <1>2, ForgetsTypes DEF IInv, TypeOK, OnlyNew, Exits, ChatRecord
<1>. QED BY <1>1, <1>3, ChatKeeps DEF Exits

LEMMA SweepsKeeps ==
  ASSUME IInv, SweepsIdle
  PROVE  IInv' /\ StepOK
<1>1. OnlyNew(0)
  BY ForgetNew DEF SweepsIdle, IInv, Forgets
<1>2. TypeOK'
  BY <1>1, ForgetsTypes, EndedTypes DEF IInv, TypeOK, OnlyNew, SweepsIdle, ChatRecord
<1>. QED BY <1>1, <1>2, ChatKeeps DEF SweepsIdle

LEMMA GraceKeeps ==
  ASSUME IInv, GraceRunsOut
  PROVE  IInv' /\ StepOK
<1>1. OnlyNew(0) /\ chat' \in ChatRecord
  BY EndedTypes, NextTurnNew DEF GraceRunsOut, IInv
<1>2. TypeOK'
  BY <1>1 DEF IInv, TypeOK, OnlyNew, GraceRunsOut, ChatRecord
<1>. QED BY <1>1, <1>2, ChatKeeps DEF GraceRunsOut

LEMMA WaitingKeeps ==
  ASSUME IInv, StartsWaiting
  PROVE  IInv' /\ StepOK
<1>1. OnlyNew(0) /\ chat' \in ChatRecord
  BY EndedTypes, NextTurnNew DEF StartsWaiting, IInv
<1>2. TypeOK'
  BY <1>1 DEF IInv, TypeOK, OnlyNew, StartsWaiting, ChatRecord
<1>. QED BY <1>1, <1>2, ChatKeeps DEF StartsWaiting

\* A message is none of the entries' turns.
LEMMA SendsKeeps ==
  ASSUME IInv, Sends
  PROVE  IInv' /\ StepOK
<1>1. OnlyNew(0) /\ chat' \in ChatRecord
  <2>1. CASE away
    BY <2>1, StayNew DEF Sends, IInv, TypeOK, ChatRecord
  <2>2. CASE ~away /\ Takes
    BY <2>2, SendNew, MessageNew, TurnFacts DEF Sends, IInv
  <2>3. CASE ~away /\ ~Takes
    <3>1. OnlyNew(0)
      BY <2>3, StayNew DEF Sends, IInv
    <3>2. chat' \in ChatRecord
      BY <2>3, TurnFacts DEF Sends, IInv, TypeOK, ChatRecord, Given
    <3>. QED BY <3>1, <3>2
  <2>. QED BY <2>1, <2>2, <2>3
<1>2. TypeOK'
  BY <1>1 DEF IInv, TypeOK, OnlyNew, Sends, ChatRecord
<1>. QED BY <1>1, <1>2, ChatKeeps DEF Sends

LEMMA StopsKeeps ==
  ASSUME IInv, Stops
  PROVE  IInv' /\ StepOK
<1>1. OnlyNew(0)
  BY StayNew DEF Stops, IInv
<1>2. chat' \in ChatRecord
  BY DEF Stops, IInv, TypeOK, ChatRecord
<1>3. TypeOK'
  BY <1>1, <1>2 DEF IInv, TypeOK, OnlyNew, Stops, ChatRecord
<1>. QED BY <1>1, <1>3, ChatKeeps DEF Stops

LEMMA EndsKeeps ==
  ASSUME IInv, Ends
  PROVE  IInv' /\ StepOK
<1>1. OnlyNew(0)
  BY ForgetNew DEF Ends, IInv, Forgets
<1>2. TypeOK'
  BY <1>1, ForgetsTypes, EndedTypes DEF IInv, TypeOK, OnlyNew, Ends, ChatRecord
<1>. QED BY <1>1, <1>2, ChatKeeps DEF Ends

\* The folder goes or comes back: nothing moves.
LEMMA FolderKeeps ==
  ASSUME IInv, FolderGoes \/ FolderReturns
  PROVE  IInv' /\ StepOK
<1>1. OnlyNew(0)
  BY StayNew DEF FolderGoes, FolderReturns, Unhanded, IInv
<1>2. TypeOK'
  <2>1. spent' \in [asks : 0..MaxAsks, outages : 0..MaxOutages,
                    restarts : 0..MaxRestarts]
    BY AutoResumeAssumption DEF IInv, TypeOK, FolderGoes, FolderReturns, RestStays
  <2>. QED BY <2>1 DEF IInv, TypeOK, FolderGoes, FolderReturns, Unhanded,
              ScheduleStays
<1>. QED BY <1>1, <1>2, ChatKeeps DEF FolderGoes, FolderReturns, ScheduleStays

-----------------------------------------------------------------------------
(* The steps that save, and move no turn *)

LEMMA NothingMoves ==
  ASSUME UNCHANGED <<queue, handed>>
  PROVE  /\ \A i : (Used(i)' <=> Used(i)) /\ (Queued(i)' <=> Queued(i))
         /\ SentOnce' <=> SentOnce
BY DEF Used, Queued, SentOnce

\* The entry is dropped.
LEMMA GoneKeeps ==
  ASSUME IInv, TypeOK', UNCHANGED <<queue, handed, made, off>>, SchedMoves,
         mem'.entry = Gone, file' = Gone, mem.entry.delivery # "scheduled"
  PROVE  IInv' /\ StepOK
<1>1. Gone.id = 0 /\ Gone.delivery = "none" /\ Gone.chosen = FALSE
  BY DEF Gone, NoEntry
<1>2. IdsBelow' /\ FileBehind' /\ ClaimedOnce'
  BY <1>1, NothingMoves DEF IInv, TypeOK, IdsBelow, FileBehind, ClaimedOnce, SchedMoves
<1>3. Unused'
  BY <1>1, NothingMoves DEF IInv, Unused, SchedMoves
<1>4. 0 \notin off /\ 0 \notin Ids
  BY TurnFacts DEF IInv, TypeOK
<1>5. OffIsOff'
  BY <1>1, <1>4, NothingMoves DEF IInv, OffIsOff, SchedMoves
<1>. QED BY <1>2, <1>3, <1>5, NothingMoves DEF IInv, StepOK

\* An entry with a new id is saved.
LEMMA NewKeeps ==
  ASSUME IInv, TypeOK', UNCHANGED <<queue, handed, off>>, SchedMoves,
         made' = made + 1, mem'.entry.id = made', file' = mem'.entry,
         mem'.entry.chosen => made' < MaxIds
  PROVE  IInv' /\ StepOK
<1>1. /\ made \in Nat /\ made' # 0
      /\ mem.entry.id <= made /\ sched.entry.id <= made
      /\ mem.entry.id \in Nat /\ sched.entry.id \in Nat
      /\ made' \in Ids => ~Used(made') /\ made' \notin off
  BY DEF IInv, IdsBelow, TypeOK, Entry, Fields
<1>2. IdsBelow' /\ FileBehind'
  BY <1>1, NothingMoves DEF IInv, TypeOK, IdsBelow, FileBehind, SchedMoves, Ids
<1>3. ClaimedOnce'
  BY <1>1 DEF IInv, ClaimedOnce, SchedMoves
<1>4. Unused'
  <2>1. mem'.entry.delivery = "scheduled" => made' \in Ids
    BY <1>1 DEF TypeOK, Entry, Fields, Ids
  <2>. QED BY <1>1, <2>1, NothingMoves DEF IInv, Unused, SchedMoves
<1>5. OffIsOff'
  <2>1. made' \notin off
    BY <1>1 DEF IInv, TypeOK
  <2>2. \A i \in Ids : Queued(i) => i # made'
    BY <1>1 DEF Used
  <2>. QED BY <2>1, <2>2, NothingMoves DEF IInv, OffIsOff, SchedMoves
<1>6. StepOK
  BY <1>1 DEF StepOK
<1>. QED BY <1>2, <1>3, <1>4, <1>5, <1>6, NothingMoves DEF IInv

\* The entry is saved as it is, or as one that waits again or still.
LEMMA SameKeeps ==
  ASSUME IInv, TypeOK', UNCHANGED <<queue, handed, made, off>>, SchedMoves,
         file' = mem'.entry, mem'.entry.id = mem.entry.id,
         mem'.entry.kind = mem.entry.kind, mem.entry.id # 0,
         mem'.entry.chosen => made < MaxIds,
         \/ mem'.entry = mem.entry
         \/ /\ mem'.entry.delivery = "scheduled"
            /\ mem.entry.id \notin off
            /\ ~Used(mem.entry.id)
            /\ sched'.at \in Delivering => mem.entry.id # sched.entry.id
  PROVE  IInv' /\ StepOK
<1>1. IdsBelow' /\ FileBehind'
  BY NothingMoves DEF IInv, TypeOK, IdsBelow, FileBehind, SchedMoves
<1>2. ClaimedOnce'
  BY DEF IInv, ClaimedOnce, SchedMoves
<1>3. Unused'
  BY NothingMoves DEF IInv, Unused, SchedMoves
<1>4. OffIsOff'
  BY NothingMoves DEF IInv, OffIsOff, SchedMoves
<1>5. StepOK
  BY DEF StepOK
<1>. QED BY <1>1, <1>2, <1>3, <1>4, <1>5, NothingMoves DEF IInv

\* The scheduler hands over the turn it carries.
LEMMA HandsKeep ==
  ASSUME IInv, TypeOK', OnlyNew(sched.entry.id),
         UNCHANGED <<mem, file, made, off>>,
         sched' = [sched EXCEPT !.at = "finish"],
         \/ sched.at \in {"send", "start"}
         \/ sched.at = "spawn" /\ ~Queued(sched.entry.id)'
  PROVE  IInv' /\ StepOK
<1>. DEFINE n == sched.entry.id
<1>1. sched.at \in Carrying /\ n \in Ids
  BY DEF IInv, TypeOK, Carrying, ClaimedOnce, Delivering, Entry, Fields, Ids
<1>2. ~Used(n) /\ n \notin off /\ n <= made
  BY <1>1 DEF IInv, Unused, OffIsOff, IdsBelow
<1>3. \A e \in {mem.entry, file} : e.id = n => e.delivery # "scheduled" /\ e.kind = sched.entry.kind
  BY <1>1 DEF IInv, ClaimedOnce, Delivering
<1>4. sched'.entry = sched.entry /\ sched'.at = "finish"
  BY DEF IInv, TypeOK
<1>5. \A i \in Ids : i # n => /\ Used(i)' => Used(i)
                              /\ Queued(i)' => Queued(i)
                              /\ handed'[i] # handed[i] => Queued(i)
  BY DEF OnlyNew
<1>6. IdsBelow' /\ FileBehind'
  BY <1>2, <1>4, <1>5 DEF IInv, IdsBelow, FileBehind
<1>7. ClaimedOnce'
  BY <1>1, <1>4 DEF IInv, ClaimedOnce, Delivering
<1>8. Unused'
  <2>1. /\ mem.entry.delivery = "scheduled" => mem.entry.id \in Ids
        /\ file.delivery = "scheduled" => file.id \in Ids
    BY DEF IInv, TypeOK, IdsBelow, Entry, Fields, Ids
  <2>. QED BY <2>1, <1>3, <1>4, <1>5 DEF IInv, Unused, Carrying
<1>9. OffIsOff'
  <2>1. Queued(n)' => (mem.entry.id = n => mem.entry.kind = "reset")
    BY <1>3 DEF IInv, OffIsOff
  <2>. QED BY <2>1, <1>2, <1>4, <1>5 DEF IInv, OffIsOff, Carrying
<1>10. StepOK
  BY <1>2, <1>5 DEF StepOK, IInv, OffIsOff, TypeOK
<1>. QED BY <1>6, <1>7, <1>8, <1>9, <1>10 DEF IInv, OnlyNew

-----------------------------------------------------------------------------
(* The schedule's own steps *)

\* A limit is read: the entry it leads to has an id of its own.
LEMMA ReadsKeeps ==
  ASSUME IInv, ReadsLimit
  PROVE  IInv' /\ StepOK
<1>1. chat' \in ChatRecord
  BY DEF ReadsLimit, IInv, TypeOK, ChatRecord
<1>2. CASE UNCHANGED <<mem, file, made>>
  <2>1. OnlyNew(0)
    BY StayNew DEF ReadsLimit, IInv
  <2>2. TypeOK'
    BY <1>1, <1>2 DEF ReadsLimit, IInv, TypeOK, ChatRecord
  <2>. QED BY <1>2, <2>1, <2>2, ChatKeeps DEF ReadsLimit
<1>3. ASSUME NEW kind \in Kinds, NEW reset \in Resets, NEW chosen \in BOOLEAN,
             kind = "switch" /\ chosen => made + 1 < MaxIds,
             Schedules(kind, reset, chosen)
      PROVE  IInv' /\ StepOK
  <2>. DEFINE e == Fresh(kind, reset, chosen)
  <2>1. /\ e.id = made + 1 /\ made + 1 \in 0..MaxIds
        /\ e.chosen => made + 1 < MaxIds
    <3>1. made < MaxIds /\ made \in Nat
      BY <1>3, AutoResumeAssumption DEF Schedules, IInv, TypeOK
    <3>2. e.id = made + 1 /\ (e.chosen => kind = "switch" /\ chosen)
      BY DEF Fresh
    <3>3. e.chosen => made + 1 < MaxIds
      BY <1>3, <3>2
    <3>4. made + 1 \in 0..MaxIds
      BY <3>1, AutoResumeAssumption
    <3>. QED BY <3>2, <3>3, <3>4
  <2>2. e \in Entry
    BY <2>1 DEF Fresh, Entry, Fields, Deliveries, IInv, TypeOK
  <2>3. /\ mem'.entry = e /\ file' = e /\ made' = made + 1
        /\ mem' \in [entry : Entry, owed : BOOLEAN, unsaid : SUBSET Ids]
    BY <1>3, <2>2 DEF Schedules, Save, IInv, TypeOK
  <2>4. TypeOK'
    BY <1>1, <2>1, <2>2, <2>3 DEF ReadsLimit, IInv, TypeOK, ChatRecord
  <2>. QED BY <2>1, <2>3, <2>4, NewKeeps, SchedStays DEF ReadsLimit
<1>. QED BY <1>2, <1>3 DEF ReadsLimit

\* An entry that can be cancelled is one that waits, or a hand-over.
LEMMA BeginsKeeps ==
  ASSUME IInv, Begins
  PROVE  IInv' /\ StepOK
<1>. DEFINE stone == [mem.entry EXCEPT !.delivery = "cancelled"]
<1>1. spent' \in [asks : 0..MaxAsks, outages : 0..MaxOutages,
                  restarts : 0..MaxRestarts]
  <2>1. spent' = [spent EXCEPT !.asks = @ + 1] /\ spent.asks < MaxAsks
    BY DEF Begins, Asked
  <2>. QED BY <2>1, AutoResumeAssumption DEF IInv, TypeOK
<1>2. CASE ~Cancellable
  <2>1. TypeOK'
    BY <1>1, <1>2 DEF Begins, Cancels, IInv, TypeOK
  <2>2. OnlyNew(0)
    BY StayNew DEF Begins, IInv
  <2>. QED BY <1>2, <2>1, <2>2, ChatKeeps DEF Begins, Cancels
<1>3. CASE Cancellable
  <2>1. /\ stone \in Entry /\ stone.id = mem.entry.id /\ stone.kind = mem.entry.kind
        /\ stone.delivery = "cancelled" /\ stone.chosen = mem.entry.chosen
        /\ mem.entry \in Entry /\ mem.entry.id \in Ids
    <3>1. mem.entry \in Entry
      BY DEF IInv, TypeOK
    <3>2. mem.entry.delivery # "none"
      BY <1>3 DEF Cancellable, SwitchWaits, Waiting
    <3>3. mem.entry.id \in Ids
      BY <3>1, <3>2 DEF IInv, IdsBelow, Entry, Fields, Ids
    <3>4. stone \in Entry
      BY <3>1, ChangedEntries
    <3>. QED BY <3>1, <3>3, <3>4 DEF Entry, Fields
  <2>. DEFINE exempt == sched.at = "spawn" /\ sched.entry.id = mem.entry.id
  <2>2. /\ off' \subseteq off \cup {mem.entry.id} /\ off \subseteq off'
        /\ mem.entry.id \in off' \/ exempt
        /\ exempt => off' = off
    <3>1. off' = IF sched.at = "spawn" /\ sched.entry.id = stone.id
                 THEN off ELSE off \cup {stone.id}
      BY <1>3 DEF Begins, Cancels
    <3>. QED BY <2>1, <3>1
  <2>3. /\ \/ mem'.entry = stone /\ file' = stone
           \/ mem'.entry = stone /\ file' = file /\ mem'.owed
           \/ mem'.entry = Gone /\ file' = Gone
        /\ mem' \in [entry : Entry, owed : BOOLEAN, unsaid : SUBSET Ids]
        /\ file' \in Entry
    <3>1. CASE away
      <4>1. /\ mem' = [entry |-> stone, owed |-> TRUE,
                       unsaid |-> mem.unsaid \cup {stone.id}]
            /\ file' = file
        BY <1>3, <3>1 DEF Begins, Cancels
      <4>. QED BY <2>1, <4>1 DEF IInv, TypeOK
    <3>2. CASE ~away
      <4>1. \E left \in {stone, Gone} :
              /\ mem' = [mem EXCEPT !.entry = left, !.owed = FALSE]
              /\ file' = left
        BY <1>3, <3>2 DEF Begins, Cancels
      <4>. QED BY <2>1, <4>1, EntryTypes DEF IInv, TypeOK
    <3>. QED BY <3>1, <3>2
  <2>4. TypeOK'
    BY <1>1, <2>1, <2>2, <2>3 DEF Begins, IInv, TypeOK
  <2>5. /\ Gone.id = 0 /\ Gone.delivery = "none" /\ Gone.chosen = FALSE
        /\ 0 \notin Ids /\ 0 \notin off'
    BY <2>4, TurnFacts DEF Gone, NoEntry, TypeOK
  <2>6. mem.entry = file
    BY <1>3 DEF IInv, FileBehind, Cancellable, SwitchWaits, Waiting, TypeOK, Entry, Fields
  <2>7. UNCHANGED <<queue, handed, made, sched>>
    BY DEF Begins
  <2>8. IdsBelow'
    <3>1. \A i \in Ids : Used(i) \/ i \in off' => i <= made
      BY <2>2 DEF IInv, IdsBelow
    <3>2. \A i \in Ids : Used(i)' \/ i \in off' => i <= made'
      BY <2>7, <3>1, NothingMoves
    <3>3. /\ mem'.entry.id <= made /\ file'.id <= made
          /\ mem'.entry.delivery # "none" => mem'.entry.id # 0
          /\ file'.delivery # "none" => file'.id # 0
          /\ mem'.entry.chosen => made < MaxIds
      <4>1. /\ mem.entry.id <= made /\ file.id <= made
            /\ made \in Nat /\ mem.entry.id # 0
            /\ file.delivery # "none" => file.id # 0
            /\ mem.entry.chosen => made < MaxIds
        BY <2>1, TurnFacts DEF IInv, TypeOK, IdsBelow
      <4>2. CASE mem'.entry = stone /\ file' \in {stone, file}
        BY <2>1, <4>1, <4>2
      <4>3. CASE mem'.entry = Gone /\ file' = Gone
        BY <2>5, <4>1, <4>3
      <4>. QED BY <2>3, <4>2, <4>3
    <3>. QED BY <2>7, <3>2, <3>3 DEF IInv, IdsBelow
  <2>9. FileBehind'
    BY <2>3, <2>6 DEF FileBehind
  <2>10. ClaimedOnce'
    BY <2>1, <2>3, <2>5, <2>7 DEF IInv, ClaimedOnce
  <2>11. Unused'
    BY <2>1, <2>3, <2>5, <2>6, <2>7, NothingMoves DEF IInv, Unused
  <2>12. OffIsOff'
    <3>1. mem'.entry.id \in off' => mem'.entry.delivery = "cancelled"
      BY <2>1, <2>3, <2>5
    <3>2. \A i \in Ids : Queued(i) => i # mem.entry.id
      BY <1>3 DEF IInv, Unused, Used, OffIsOff, Cancellable, SwitchWaits
    <3>3. ASSUME sched.at \in Carrying
          PROVE  \/ sched.entry.kind = "switch" /\ sched.at # "spawn"
                 \/ sched.entry.id \notin off'
      <4>1. CASE sched.entry.id # mem.entry.id
        BY <2>2, <3>3, <4>1 DEF IInv, OffIsOff
      <4>2. CASE sched.entry.id = mem.entry.id /\ sched.at = "spawn"
        BY <2>2, <3>3, <4>2 DEF IInv, OffIsOff
      <4>3. CASE sched.entry.id = mem.entry.id /\ sched.at # "spawn"
        BY <1>3, <3>3, <4>3 DEF IInv, ClaimedOnce, Delivering, Cancellable, SwitchWaits
      <4>. QED BY <4>1, <4>2, <4>3
    <3>4. \A i \in Ids : Queued(i) =>
            i \notin off' /\ (mem'.entry.id = i => mem'.entry.kind = "reset")
      BY <2>1, <2>2, <2>3, <2>5, <3>2 DEF IInv, OffIsOff
    <3>5. \A i : Queued(i)' <=> Queued(i)
      BY <2>7 DEF Queued
    <3>6. sched'.at \in {"send", "start"} => sched'.entry.kind = "reset"
      BY <2>7 DEF IInv, OffIsOff
    <3>. QED BY <2>7, <3>1, <3>3, <3>4, <3>5, <3>6 DEF OffIsOff
  <2>13. StepOK
    <3>1. mem.entry.delivery = "scheduled" => ~(sched.at = "spawn" /\ sched.entry.id = mem.entry.id)
      BY DEF IInv, ClaimedOnce, Delivering, Carrying
    <3>. QED BY <2>2, <2>7, <3>1 DEF StepOK
  <2>. QED BY <2>4, <2>7, <2>8, <2>9, <2>10, <2>11, <2>12, <2>13, NothingMoves DEF IInv
<1>. QED BY <1>2, <1>3

\* The one the person is asked about is chosen.
LEMMA ChoosesKeeps ==
  ASSUME IInv, Chooses
  PROVE  IInv' /\ StepOK
<1>. DEFINE e == [mem.entry EXCEPT !.asking = FALSE, !.chosen = TRUE, !.due = TRUE]
<1>1. /\ e \in Entry /\ e.id = mem.entry.id /\ e.kind = mem.entry.kind
      /\ e.delivery = "scheduled"
      /\ mem.entry \in Entry /\ mem.entry.id # 0
  <2>1. mem.entry \in Entry /\ mem.entry.delivery = "scheduled"
    BY DEF Chooses, IInv, TypeOK
  <2>2. e \in Entry
    BY <2>1, ChangedEntries
  <2>. QED BY <2>1, <2>2 DEF Entry, Fields, IInv, IdsBelow
<1>2. /\ mem'.entry = e /\ file' = e
      /\ mem' \in [entry : Entry, owed : BOOLEAN, unsaid : SUBSET Ids]
  BY <1>1 DEF Chooses, Save, IInv, TypeOK
<1>3. spent' \in [asks : 0..MaxAsks, outages : 0..MaxOutages,
                  restarts : 0..MaxRestarts]
  BY AutoResumeAssumption DEF Chooses, Asked, IInv, TypeOK
<1>4. TypeOK'
  BY <1>1, <1>2, <1>3 DEF Chooses, IInv, TypeOK
<1>5. /\ mem.entry.id \notin off /\ ~Used(mem.entry.id)
      /\ sched.at \in Delivering => mem.entry.id # sched.entry.id
  BY DEF Chooses, IInv, OffIsOff, Unused, ClaimedOnce
<1>. QED BY <1>1, <1>2, <1>4, <1>5, SameKeeps, SchedStays DEF Chooses

\* Time passes.
LEMMA DueKeeps ==
  ASSUME IInv, ComesDue
  PROVE  IInv' /\ StepOK
<1>1. /\ mem.entry.delivery = "scheduled"
      /\ mem.entry \in Entry /\ mem.entry.id # 0
      /\ [mem.entry EXCEPT !.due = TRUE] \in Entry
  BY ChangedEntries DEF ComesDue, IInv, TypeOK, IdsBelow
<1>2. /\ mem'.entry = [mem.entry EXCEPT !.due = TRUE] /\ file' = mem'.entry
      /\ mem' \in [entry : Entry, owed : BOOLEAN, unsaid : SUBSET Ids]
  BY <1>1 DEF ComesDue, IInv, TypeOK
<1>3. /\ mem'.entry.delivery = "scheduled" /\ mem'.entry.id = mem.entry.id
      /\ mem'.entry.kind = mem.entry.kind /\ mem'.entry.chosen = mem.entry.chosen
  BY <1>1, <1>2 DEF Entry, Fields
<1>4. TypeOK'
  BY <1>1, <1>2 DEF ComesDue, Unhanded, RestStays, IInv, TypeOK
<1>5. /\ mem.entry.id \notin off /\ ~Used(mem.entry.id)
      /\ sched.at \in Delivering => mem.entry.id # sched.entry.id
      /\ mem.entry.chosen => made < MaxIds
  BY <1>1 DEF IInv, OffIsOff, Unused, ClaimedOnce, IdsBelow
<1>. QED BY <1>1, <1>2, <1>3, <1>4, <1>5, SameKeeps, SchedStays DEF ComesDue, Unhanded

\* finish drops the entry, or finds another in its place, or cannot.
LEMMA FinishesKeeps ==
  ASSUME IInv, NEW e, Finishes(e), mem.entry.delivery # "scheduled" \/ mem.entry.id # e.id,
         UNCHANGED <<queue, handed, made, off, chat, person, away, spent, dropped>>,
         SchedMoves,
         sched' \in [at : {"boot", "uncertain", "idle", "claimed", "send", "start",
                           "switch", "handoff", "spawn", "failed", "finish", "off"},
                     entry : Entry, last : BOOLEAN]
  PROVE  IInv' /\ StepOK
<1>1. mem' \in [entry : Entry, owed : BOOLEAN, unsaid : SUBSET Ids] /\ file' \in Entry
  <2>1. \/ UNCHANGED <<mem, file>>
        \/ mem' = [mem EXCEPT !.unsaid = @ \ {e.id}] /\ file' = file
        \/ mem' = [entry |-> Gone, owed |-> FALSE, unsaid |-> mem.unsaid \ {e.id}] /\ file' = Gone
    BY DEF Finishes
  <2>2. /\ mem \in [entry : Entry, owed : BOOLEAN, unsaid : SUBSET Ids]
        /\ file \in Entry /\ Gone \in Entry
    BY EntryTypes DEF IInv, TypeOK
  <2>3. (mem.unsaid \ {e.id}) \in SUBSET Ids
    BY <2>2
  <2>4. CASE mem' = [mem EXCEPT !.unsaid = @ \ {e.id}] /\ file' = file
    BY <2>2, <2>3, <2>4
  <2>5. CASE mem' = [entry |-> Gone, owed |-> FALSE, unsaid |-> mem.unsaid \ {e.id}]
             /\ file' = Gone
    BY <2>2, <2>3, <2>5
  <2>. QED BY <2>1, <2>2, <2>4, <2>5
<1>2. TypeOK'
  BY <1>1 DEF IInv, TypeOK
<1>3. CASE mem.entry.id = e.id /\ ~away
  BY <1>2, <1>3, GoneKeeps DEF Finishes
<1>4. CASE mem.entry.id # e.id \/ away
  <2>1. mem'.entry = mem.entry /\ mem'.owed = mem.owed /\ file' = file
    BY <1>4 DEF Finishes, IInv, TypeOK
  <2>. QED BY <1>2, <2>1, MovesKeep, StayNew DEF IInv
<1>. QED BY <1>3, <1>4

\* What is owed is written, and what was said is dropped.
LEMMA SettlesKeeps ==
  ASSUME IInv, Settles
  PROVE  IInv' /\ StepOK
<1>1. CASE mem.owed /\ Save(mem.entry)
  <2>1. /\ mem'.entry = mem.entry /\ file' = mem.entry /\ mem'.owed = FALSE
        /\ mem' \in [entry : Entry, owed : BOOLEAN, unsaid : SUBSET Ids]
    BY <1>1 DEF Save, IInv, TypeOK
  <2>2. TypeOK'
    BY <2>1 DEF Settles, Unhanded, RestStays, IInv, TypeOK
  <2>3. CASE mem.entry.id # 0
    BY <2>1, <2>2, <2>3, SameKeeps, SchedStays DEF Settles, Unhanded, IInv, IdsBelow
  <2>4. CASE mem.entry.id = 0
    <3>1. mem.entry = file
      BY <2>4 DEF IInv, FileBehind, IdsBelow, TypeOK, Entry, Fields
    <3>2. IdsBelow' /\ FileBehind' /\ ClaimedOnce' /\ Unused' /\ OffIsOff'
      BY <2>1, <3>1, NothingMoves
         DEF Settles, Unhanded, IInv, IdsBelow, FileBehind, ClaimedOnce, Unused, OffIsOff
    <3>. QED BY <2>1, <2>2, <3>2, NothingMoves DEF Settles, Unhanded, IInv, StepOK
  <2>. QED BY <2>3, <2>4
<1>2. CASE mem.entry.delivery = "cancelled" /\ Finishes(mem.entry)
  BY <1>2, FinishesKeeps, SchedStays
     DEF Settles, Unhanded, RestStays, IInv, TypeOK
<1>. QED BY <1>1, <1>2 DEF Settles

\* The server is killed: what the file lacks is one cancel, which is lost.
LEMMA DiesKeeps ==
  ASSUME IInv, Dies
  PROVE  IInv' /\ StepOK
<1>1. /\ mem'.entry = file /\ file' = file /\ made' = made /\ handed' = handed
      /\ queue' = <<>> /\ sched'.at = "boot" /\ sched'.entry = Gone
      /\ off' = IF file.delivery = "cancelled" THEN off ELSE off \ {file.id}
  BY DEF Dies, Booting, Forgets
<1>2. /\ \A i : ~Queued(i)'
      /\ \A i : Used(i)' => Used(i)
  BY <1>1 DEF Queued, Used
<1>3. SentOnce'
  BY <1>1, <1>2 DEF IInv, SentOnce, Queued
<1>4. Gone.id = 0 /\ Gone \in Entry /\ Home \in Agents
  BY EntryTypes DEF Gone, NoEntry
<1>5. TypeOK'
  <2>1. spent' \in [asks : 0..MaxAsks, outages : 0..MaxOutages,
                    restarts : 0..MaxRestarts]
    BY AutoResumeAssumption DEF Dies, IInv, TypeOK
  <2>2. chat' \in ChatRecord
    BY DEF Dies, Idle, IInv, TypeOK, ChatRecord
  <2>. QED BY <1>1, <1>4, <2>1, <2>2, ForgetsTypes
           DEF Dies, Booting, IInv, TypeOK, ChatRecord
<1>6. file.id = mem.entry.id /\ file.chosen = mem.entry.chosen
  BY DEF IInv, FileBehind, TypeOK, Entry, Fields
<1>7. IdsBelow' /\ FileBehind'
  BY <1>1, <1>2, <1>4, <1>6 DEF IInv, TypeOK, IdsBelow, FileBehind
<1>8. ClaimedOnce' /\ Unused'
  BY <1>1, <1>2 DEF IInv, ClaimedOnce, Unused, Delivering, Carrying
<1>9. OffIsOff'
  BY <1>1, <1>2 DEF OffIsOff, Carrying
<1>10. StepOK
  BY <1>1, <1>6 DEF StepOK
<1>. QED BY <1>3, <1>5, <1>7, <1>8, <1>9, <1>10 DEF IInv

-----------------------------------------------------------------------------
(* The scheduler's steps *)

SchedRecord == [at : {"boot", "uncertain", "idle", "claimed", "send", "start",
                      "switch", "handoff", "spawn", "failed", "finish", "off"},
                entry : Entry, last : BOOLEAN]

\* A step to a place where no entry is held lets go of it.
LEMMA LetsGo ==
  ASSUME IInv, NEW step \in {"boot", "uncertain", "idle", "off"}, To(step)
  PROVE  SchedMoves /\ sched' \in SchedRecord
<1>1. sched'.entry = sched.entry /\ sched'.at = step
  BY DEF To, IInv, TypeOK
<1>2. sched' \in SchedRecord
  BY DEF To, IInv, TypeOK, SchedRecord
<1>. QED BY <1>1, <1>2 DEF SchedMoves, Delivering, Carrying

\* From a place where one is held to one where it is done with.
LEMMA IsDone ==
  ASSUME IInv, sched.at \in Delivering,
         sched'.entry = sched.entry, sched'.at \in {"failed", "finish"}
  PROVE  SchedMoves
BY DEF SchedMoves, Delivering, Carrying

LEMMA BootClearsKeeps ==
  ASSUME IInv, BootClears
  PROVE  IInv' /\ StepOK
<1>1. SchedMoves /\ sched' \in SchedRecord
  BY LetsGo DEF BootClears
<1>2. CASE mem.entry.delivery = "cancelled"
  BY <1>1, <1>2, FinishesKeeps DEF BootClears, Unhanded, RestStays, SchedRecord
<1>3. CASE mem.entry.delivery # "cancelled"
  <2>1. UNCHANGED <<mem, file, made, off, chat, queue, handed>>
    BY <1>3 DEF BootClears, Unhanded
  <2>2. TypeOK'
    BY <1>1, <2>1 DEF BootClears, RestStays, IInv, TypeOK, SchedRecord
  <2>. QED BY <1>1, <2>1, <2>2, MovesKeep, StayNew DEF IInv
<1>. QED BY <1>2, <1>3

LEMMA BootTakesKeeps ==
  ASSUME IInv, BootTakes
  PROVE  IInv' /\ StepOK
<1>1. SchedMoves /\ sched' \in SchedRecord
  BY LetsGo DEF BootTakes
<1>2. CASE UNCHANGED <<mem, file>>
  <2>1. TypeOK'
    BY <1>1, <1>2 DEF BootTakes, Unhanded, RestStays, IInv, TypeOK, SchedRecord
  <2>. QED BY <1>1, <1>2, <2>1, MovesKeep, StayNew DEF BootTakes, Unhanded, IInv
<1>3. CASE mem.entry.delivery = "dispatching" /\ Save(Gone)
  <2>1. /\ mem'.entry = Gone /\ file' = Gone
        /\ mem' \in [entry : Entry, owed : BOOLEAN, unsaid : SUBSET Ids]
    BY <1>3, EntryTypes DEF Save, IInv, TypeOK
  <2>2. TypeOK'
    BY <1>1, <2>1, EntryTypes DEF BootTakes, Unhanded, RestStays, IInv, TypeOK, SchedRecord
  <2>. QED BY <1>1, <1>3, <2>1, <2>2, GoneKeeps DEF BootTakes, Unhanded
<1>. QED BY <1>2, <1>3 DEF BootTakes

\* claim_due: the entry goes from the schedule into the scheduler's hands.
LEMMA ClaimsKeeps ==
  ASSUME IInv, Claims
  PROVE  IInv' /\ StepOK
<1>. DEFINE e == [mem.entry EXCEPT !.delivery = "dispatching"]
<1>1. /\ mem.entry \in Entry /\ mem.entry.delivery = "scheduled" /\ ~mem.entry.asking
      /\ mem.entry.id # 0
  BY DEF Claims, IsDue, IInv, TypeOK, IdsBelow
<1>2. /\ e \in Entry /\ e.id = mem.entry.id /\ e.kind = mem.entry.kind
      /\ e.delivery = "dispatching" /\ e.chosen = mem.entry.chosen
  <2>1. e \in Entry
    BY <1>1, ChangedEntries
  <2>. QED BY <1>1, <2>1 DEF Entry, Fields
<1>3. /\ mem'.entry = e /\ file' = e
      /\ mem' \in [entry : Entry, owed : BOOLEAN, unsaid : SUBSET Ids]
  BY <1>2 DEF Claims, Save, IInv, TypeOK
<1>4. /\ sched'.at = "claimed" /\ sched'.entry = e
      /\ sched' \in SchedRecord
  BY <1>2 DEF Claims, SchedRecord
<1>5. UNCHANGED <<made, off, chat, queue, handed, person, away, spent, dropped>>
  BY DEF Claims, Unhanded, RestStays
<1>6. TypeOK'
  BY <1>2, <1>3, <1>4, <1>5 DEF IInv, TypeOK, SchedRecord
<1>7. mem.entry.id \notin off /\ ~Used(mem.entry.id)
  BY <1>1 DEF IInv, OffIsOff, Unused
<1>8. IdsBelow'
  BY <1>1, <1>2, <1>3, <1>4, <1>5, NothingMoves DEF IInv, IdsBelow
<1>9. FileBehind' /\ ClaimedOnce'
  BY <1>1, <1>2, <1>3, <1>4 DEF FileBehind, ClaimedOnce
<1>10. Unused'
  BY <1>2, <1>3, <1>4, <1>5, <1>7, NothingMoves DEF Unused
<1>11. OffIsOff'
  BY <1>2, <1>3, <1>4, <1>5, <1>7, NothingMoves DEF IInv, OffIsOff
<1>12. StepOK
  BY <1>2, <1>3, <1>5 DEF StepOK
<1>. QED BY <1>5, <1>6, <1>8, <1>9, <1>10, <1>11, <1>12, NothingMoves DEF IInv

\* A hand-over that has to wait is scheduled again, if it is still active.
LEMMA DefersKeeps ==
  ASSUME IInv, sched.at = "claimed", Defers, To("idle"),
         UNCHANGED <<queue, handed, chat, made, off, person, away, spent, dropped>>
  PROVE  IInv' /\ StepOK
<1>1. SchedMoves /\ sched' \in SchedRecord /\ sched'.at = "idle"
  BY LetsGo DEF To, IInv, TypeOK
<1>2. CASE UNCHANGED <<mem, file>>
  <2>1. TypeOK'
    BY <1>1, <1>2 DEF IInv, TypeOK, SchedRecord
  <2>. QED BY <1>1, <1>2, <2>1, MovesKeep, StayNew DEF IInv
<1>. DEFINE e == [mem.entry EXCEPT !.delivery = "scheduled", !.due = FALSE]
<1>3. CASE ActiveSwitch(sched.entry) /\ Save(e)
  <2>1. /\ mem.entry \in Entry /\ mem.entry.delivery = "dispatching"
        /\ mem.entry.id = sched.entry.id /\ mem.entry.id # 0 /\ ~mem.entry.asking
    BY <1>3 DEF ActiveSwitch, IInv, TypeOK, IdsBelow, Entry
  <2>2. /\ e \in Entry /\ e.id = mem.entry.id /\ e.kind = mem.entry.kind
        /\ e.delivery = "scheduled" /\ e.chosen = mem.entry.chosen
    <3>1. e \in Entry
      BY <2>1, ChangedEntries
    <3>. QED BY <2>1, <3>1 DEF Entry, Fields
  <2>3. /\ mem'.entry = e /\ file' = e
        /\ mem' \in [entry : Entry, owed : BOOLEAN, unsaid : SUBSET Ids]
    BY <1>3, <2>2 DEF Save, IInv, TypeOK
  <2>4. TypeOK'
    BY <1>1, <2>2, <2>3 DEF IInv, TypeOK, SchedRecord
  <2>5. /\ mem.entry.id \notin off /\ ~Used(mem.entry.id)
        /\ mem.entry.chosen => made < MaxIds
    BY <2>1 DEF IInv, OffIsOff, Unused, Carrying, IdsBelow
  <2>. QED BY <1>1, <2>1, <2>2, <2>3, <2>4, <2>5, SameKeeps DEF Delivering, Carrying
<1>. QED BY <1>2, <1>3 DEF Defers

LEMMA LooksKeeps ==
  ASSUME IInv, Looks
  PROVE  IInv' /\ StepOK
<1>1. CASE IsSwitch(sched.entry) /\ (away \/ Working)
  BY <1>1, DefersKeeps DEF Looks, Unhanded, RestStays
<1>2. CASE ~(IsSwitch(sched.entry) /\ (away \/ Working))
  <2>. DEFINE step == IF IsSwitch(sched.entry) THEN "switch"
                      ELSE IF chat.live THEN "send" ELSE "start"
  <2>1. /\ sched' = [sched EXCEPT !.at = step] /\ sched.at = "claimed"
        /\ UNCHANGED <<mem, file, made, off, chat, queue, handed, person, away,
                       spent, dropped>>
    BY <1>2 DEF Looks, To, Unhanded, RestStays
  <2>2. /\ sched'.entry = sched.entry /\ sched'.at = step /\ sched' \in SchedRecord
        /\ sched.entry.kind \in {"reset", "switch"}
    BY <2>1 DEF IInv, TypeOK, SchedRecord, Entry, Fields
  <2>3. SchedMoves
    BY <2>1, <2>2 DEF SchedMoves, IsSwitch, Delivering, Carrying, IInv, OffIsOff
  <2>4. TypeOK'
    BY <2>1, <2>2 DEF IInv, TypeOK, SchedRecord
  <2>. QED BY <2>1, <2>3, <2>4, MovesKeep, StayNew DEF IInv
<1>. QED BY <1>1, <1>2

\* The prompt found no process, or one it did not expect: it is tried as the
\* other, or has failed.
LEMMA TriesOther ==
  ASSUME IInv, sched.at \in {"send", "start"},
         \/ To("failed")
         \/ Or("send")
         \/ Or("start"),
         UNCHANGED <<mem, file, made, off, chat, queue, handed, person, away,
                     spent, dropped>>
  PROVE  IInv' /\ StepOK
<1>1. /\ sched'.entry = sched.entry /\ sched'.at \in {"failed", "send", "start"}
      /\ sched' \in SchedRecord
  BY DEF To, Or, IInv, TypeOK, SchedRecord
<1>2. SchedMoves
  BY <1>1 DEF SchedMoves, Delivering, Carrying, IInv, OffIsOff
<1>3. TypeOK'
  BY <1>1 DEF IInv, TypeOK, SchedRecord
<1>. QED BY <1>2, <1>3, MovesKeep, StayNew DEF IInv

LEMMA CarriedTurn ==
  ASSUME IInv, sched.at \in Carrying
  PROVE  /\ sched.entry.id \in Ids /\ sched.entry.id \in Turns
         /\ ~Used(sched.entry.id)
BY DEF IInv, TypeOK, Unused, ClaimedOnce, Delivering, Entry, Fields, Ids, Turns

LEMMA SendsResumeKeeps ==
  ASSUME IInv, SendsResume
  PROVE  IInv' /\ StepOK
<1>1. CASE ~away /\ Takes
  <2>1. /\ SendsTurn(sched.entry.id) /\ sched' = [sched EXCEPT !.at = "finish"]
        /\ sched.at = "send"
        /\ UNCHANGED <<mem, file, made, off, person, away, spent, dropped>>
    BY <1>1 DEF SendsResume, To, ScheduleStays, RestStays
  <2>2. OnlyNew(sched.entry.id) /\ chat' \in ChatRecord
    BY <2>1, CarriedTurn, SendNew DEF IInv, Carrying
  <2>3. TypeOK'
    BY <2>1, <2>2 DEF IInv, TypeOK, OnlyNew, ChatRecord
  <2>. QED BY <2>1, <2>2, <2>3, HandsKeep
<1>2. CASE away \/ ~Takes
  BY <1>2, TriesOther DEF SendsResume, ScheduleStays, RestStays, Unhanded
<1>. QED BY <1>1, <1>2

LEMMA StartsResumeKeeps ==
  ASSUME IInv, StartsResume
  PROVE  IInv' /\ StepOK
<1>1. CASE (To("failed") \/ Or("send")) /\ Unhanded
  BY <1>1, TriesOther DEF StartsResume, ScheduleStays, RestStays, Unhanded
<1>2. CASE /\ To("finish")
           /\ chat' = Given(chat, sched.entry.id)
           /\ handed' = Handed(sched.entry.id)
           /\ UNCHANGED queue
  <2>1. /\ sched' = [sched EXCEPT !.at = "finish"] /\ sched.at = "start"
        /\ UNCHANGED <<mem, file, made, off, person, away, spent, dropped>>
    BY <1>2 DEF StartsResume, To, ScheduleStays, RestStays
  <2>2. sched.entry.id \in Turns /\ OnlyNew(sched.entry.id)
    BY <1>2, <2>1, CarriedTurn, GiveNew DEF IInv, Carrying
  <2>3. chat' \in ChatRecord
    BY <1>2, <2>2 DEF Given, IInv, TypeOK, ChatRecord
  <2>4. TypeOK'
    BY <2>1, <2>2, <2>3 DEF IInv, TypeOK, OnlyNew, ChatRecord
  <2>. QED BY <2>1, <2>2, <2>4, HandsKeep
<1>. QED BY <1>1, <1>2 DEF StartsResume

\* A step of a hand-over that hands nothing over.
LEMMA SwitchMoves ==
  ASSUME IInv, sched.at \in {"switch", "handoff", "spawn"},
         NEW step \in {"handoff", "spawn", "failed"}, To(step),
         chat' \in ChatRecord,
         step = "handoff" => sched.at = "switch",
         step = "spawn" => ActiveSwitch(sched.entry),
         UNCHANGED <<mem, file, made, off, queue, handed, person, away, spent,
                     dropped>>
  PROVE  IInv' /\ StepOK
<1>1. /\ sched'.entry = sched.entry /\ sched'.at = step /\ sched' \in SchedRecord
  BY DEF To, IInv, TypeOK, SchedRecord
<1>2. step = "spawn" => sched.entry.id \notin off
  BY DEF ActiveSwitch, IInv, OffIsOff
<1>3. SchedMoves
  BY <1>1, <1>2 DEF SchedMoves, Delivering, Carrying, IInv, OffIsOff
<1>4. TypeOK'
  BY <1>1 DEF IInv, TypeOK, SchedRecord, ChatRecord
<1>. QED BY <1>3, <1>4, MovesKeep, StayNew DEF IInv

LEMMA SwitchTakesKeeps ==
  ASSUME IInv, SwitchTakes
  PROVE  IInv' /\ StepOK
<1>1. chat \in ChatRecord
  BY DEF IInv, TypeOK, ChatRecord
<1>. QED BY <1>1, SwitchMoves, EndedTypes
         DEF SwitchTakes, ScheduleStays, RestStays, Unhanded, IInv

LEMMA SwitchLooksKeeps ==
  ASSUME IInv, SwitchLooks
  PROVE  IInv' /\ StepOK
<1>1. chat \in ChatRecord
  BY DEF IInv, TypeOK, ChatRecord
<1>. QED BY <1>1, SwitchMoves, EndedTypes
         DEF SwitchLooks, ScheduleStays, RestStays, Unhanded, IInv

LEMMA SwitchSpawnsKeeps ==
  ASSUME IInv, SwitchSpawns
  PROVE  IInv' /\ StepOK
<1>1. CASE /\ To("failed")
           /\ chat' = [chat EXCEPT !.handoff = FALSE]
           /\ UNCHANGED <<queue, handed>>
  BY <1>1, SwitchMoves, EndedTypes DEF SwitchSpawns, ScheduleStays, RestStays, IInv
<1>2. CASE /\ To("finish")
           /\ \E a \in Agents \ {chat.agent} :
                chat' = Given([chat EXCEPT !.handoff = FALSE, !.agent = a],
                              sched.entry.id)
           /\ handed' = Handed(sched.entry.id)
           /\ UNCHANGED queue
  <2>1. /\ sched' = [sched EXCEPT !.at = "finish"] /\ sched.at = "spawn"
        /\ UNCHANGED <<mem, file, made, off, person, away, spent, dropped>>
    BY <1>2 DEF SwitchSpawns, To, ScheduleStays, RestStays
  <2>2. sched.entry.id \in Turns /\ OnlyNew(sched.entry.id)
    BY <1>2, <2>1, CarriedTurn, GiveNew DEF IInv, Carrying
  <2>3. chat' \in ChatRecord
    BY <1>2, <2>2 DEF Given, IInv, TypeOK, ChatRecord
  <2>4. TypeOK'
    BY <2>1, <2>2, <2>3 DEF IInv, TypeOK, OnlyNew, ChatRecord
  <2>5. ~Queued(sched.entry.id)'
    BY <1>2, <2>1, CarriedTurn DEF IInv, Carrying, Used, Queued
  <2>. QED BY <2>1, <2>2, <2>4, <2>5, HandsKeep
<1>. QED BY <1>1, <1>2 DEF SwitchSpawns

\* reopen_switch: the failed choice comes back as an entry of its own.
LEMMA FailsKeeps ==
  ASSUME IInv, Fails
  PROVE  IInv' /\ StepOK
<1>1. /\ sched'.entry = sched.entry /\ sched'.at = "finish" /\ sched.at = "failed"
      /\ sched' \in SchedRecord
      /\ UNCHANGED <<off, chat, queue, handed, person, away, spent, dropped>>
  BY DEF Fails, To, IInv, TypeOK, SchedRecord, Unhanded, RestStays
<1>2. SchedMoves
  BY <1>1, IsDone DEF Delivering
<1>3. CASE UNCHANGED <<mem, file, made>>
  <2>1. TypeOK'
    BY <1>1, <1>3 DEF IInv, TypeOK, SchedRecord
  <2>. QED BY <1>1, <1>2, <1>3, <2>1, MovesKeep, StayNew DEF IInv
<1>. DEFINE e == [mem.entry EXCEPT !.id = made + 1, !.delivery = "scheduled",
                                   !.asking = TRUE, !.chosen = FALSE]
<1>4. CASE /\ sched.entry.chosen /\ mem.entry.id = sched.entry.id
           /\ Save(e) /\ made' = made + 1
  <2>1. mem.entry.chosen /\ made + 1 \in 0..MaxIds
    <3>1. mem.entry.chosen
      BY <1>1, <1>4 DEF IInv, ClaimedOnce, Delivering
    <3>2. made \in Nat /\ made < MaxIds
      BY <3>1 DEF IInv, TypeOK, IdsBelow
    <3>. QED BY <3>1, <3>2, AutoResumeAssumption
  <2>2. mem.entry \in Entry
    BY DEF IInv, TypeOK
  <2>3. e \in Entry /\ e.id = made + 1 /\ e.chosen = FALSE
    <3>1. e \in Entry
      BY <2>1, <2>2, ChangedEntries
    <3>. QED BY <2>2, <3>1 DEF Entry, Fields
  <2>4. /\ mem'.entry = e /\ file' = e
        /\ mem' \in [entry : Entry, owed : BOOLEAN, unsaid : SUBSET Ids]
    BY <1>4, <2>3 DEF Save, IInv, TypeOK
  <2>5. TypeOK'
    BY <1>1, <1>4, <2>1, <2>3, <2>4 DEF IInv, TypeOK, SchedRecord
  <2>. QED BY <1>1, <1>2, <1>4, <2>3, <2>4, <2>5, NewKeeps
<1>. QED BY <1>3, <1>4 DEF Fails

LEMMA DropsKeeps ==
  ASSUME IInv, Drops
  PROVE  IInv' /\ StepOK
<1>1. SchedMoves /\ sched' \in SchedRecord
  BY LetsGo DEF Drops
<1>2. mem.entry.delivery # "scheduled" \/ mem.entry.id # sched.entry.id
  BY DEF Drops, IInv, ClaimedOnce, Delivering
<1>. QED BY <1>1, <1>2, FinishesKeeps DEF Drops, Unhanded, RestStays, SchedRecord

-----------------------------------------------------------------------------
(* The theorems *)

LEMMA Inductive ==
  ASSUME IInv, [Next]_vars
  PROVE  IInv' /\ StepOK
<1>1. CASE Agent
  BY <1>1, ReadsKeeps, FullStopKeeps, ExitsKeeps DEF Agent
<1>2. CASE Host
  BY <1>2, SweepsKeeps, GraceKeeps, WaitingKeeps, SettlesKeeps DEF Host
<1>3. CASE Person
  BY <1>3, BeginsKeeps, SendsKeeps, StopsKeeps, EndsKeeps, ChoosesKeeps DEF Person
<1>4. CASE Scheduler
  BY <1>4, BootClearsKeeps, BootTakesKeeps, ClaimsKeeps, LooksKeeps,
     SendsResumeKeeps, StartsResumeKeeps, SwitchTakesKeeps, SwitchLooksKeeps,
     SwitchSpawnsKeeps, FailsKeeps, DropsKeeps DEF Scheduler
<1>5. CASE World
  BY <1>5, DueKeeps, FolderKeeps, DiesKeeps DEF World
<1>6. CASE UNCHANGED vars
  <2>1. TypeOK'
    BY <1>6 DEF vars, IInv, TypeOK
  <2>. QED BY <1>6, <2>1, ChatKeeps, StayNew DEF vars, IInv
<1>. QED BY <1>1, <1>2, <1>3, <1>4, <1>5, <1>6 DEF Next

LEMMA StartsRight ==
  ASSUME Init
  PROVE  IInv
<1>1. Gone \in Entry /\ Home \in Agents
  BY EntryTypes
<1>2. Gone.id = 0 /\ Gone.delivery = "none" /\ Gone.chosen = FALSE
  BY DEF Gone, NoEntry
<1>3. \A i \in Ids : ~Used(i) /\ ~Queued(i)
  BY DEF Init, Used, Queued
<1>4. TypeOK
  <2>1. /\ 0 \in 0..MaxIds /\ 0 \in 0..2 /\ 0 \in 0..MaxAsks
        /\ 0 \in 0..MaxOutages /\ 0 \in 0..MaxRestarts
    BY AutoResumeAssumption
  <2>2. chat \in ChatRecord
    BY <1>1, <2>1 DEF Init, Idle, ChatRecord
  <2>3. queue \in Seq(Turns)
    BY DEF Init
  <2>4. sched \in SchedRecord
    BY <1>1 DEF Init, Booting, SchedRecord
  <2>5. spent \in [asks : 0..MaxAsks, outages : 0..MaxOutages,
                   restarts : 0..MaxRestarts]
    BY <2>1 DEF Init
  <2>6. handed \in [Ids -> Nat]
    BY DEF Init
  <2>. QED BY <1>1, <2>1, <2>2, <2>3, <2>4, <2>5, <2>6
           DEF Init, TypeOK, ChatRecord, SchedRecord
<1>5. IdsBelow /\ FileBehind /\ ClaimedOnce /\ Unused /\ OffIsOff
  BY <1>2, <1>3, <1>4
     DEF Init, TypeOK, Booting, IdsBelow, FileBehind, ClaimedOnce, Unused,
         OffIsOff, Delivering, Carrying
<1>6. SentOnce
  BY <1>3 DEF Init, SentOnce, Queued
<1>. QED BY <1>4, <1>5, <1>6 DEF IInv

THEOREM Invariant == Spec => []IInv
<1>1. Init => IInv
  BY StartsRight
<1>2. IInv /\ [Next]_vars => IInv'
  BY Inductive
<1>. QED BY <1>1, <1>2, PTL DEF Spec

\* The schedule, the chat and the scheduler stay of their types.
THEOREM TypeCorrect == Spec => []TypeOK
<1>1. IInv => TypeOK
  BY DEF IInv
<1>. QED BY <1>1, Invariant, PTL

\* No resume's turn is given to an agent twice, whatever server died in
\* between and whoever replaced it in the schedule (claim_due, take_uncertain).
THEOREM NeverSentTwice == Spec => []SentOnce
<1>1. IInv => SentOnce
  BY DEF IInv
<1>. QED BY <1>1, Invariant, PTL

\* What the file lacks is only ever a cancel that the store knows it owes
\* (save, cancel, settle).
THEOREM FileLacksOnlyCancels == Spec => []OnlyCancelsAreOwed
<1>1. IInv => OnlyCancelsAreOwed
  BY DEF IInv, FileBehind, OnlyCancelsAreOwed, TypeOK, Entry, Fields
<1>. QED BY <1>1, Invariant, PTL

\* A resume cancelled before its process was being made is never given to an
\* agent (cancel, active_switch).
THEOREM CancelHolds == Spec => CancelledIsNotSent
<1>1. IInv /\ [Next]_vars => (\A i \in off : handed'[i] = handed[i])
  BY Inductive DEF StepOK
<1>. QED BY <1>1, Invariant, PTL DEF Spec, CancelledIsNotSent

\* An entry that waits leaves the schedule only claimed, cancelled or replaced
\* by a newer one (finish, reopen_switch).
THEOREM WaitingIsKept == Spec => ScheduledIsNotLost
<1>1. IInv /\ [Next]_vars =>
        (mem.entry.delivery = "scheduled" /\ mem'.entry.id # mem.entry.id =>
           \/ mem'.entry.id > mem.entry.id
           \/ mem.entry.id \in off')
  BY Inductive DEF StepOK
<1>. QED BY <1>1, Invariant, PTL DEF Spec, ScheduledIsNotLost

=============================================================================
