-------------------------- MODULE QuestionsProofs --------------------------
(***************************************************************************)
(* Proofs about Questions, for any cards, processes, restarts, and any     *)
(* failures of the disk and the pipes.                                     *)
(*                                                                         *)
(* What the file holds needs no more than itself (SavedOrOwed).  All the   *)
(* rest follows from the invariant IInv: every step keeps the types, and   *)
(* every step keeps the rest of it.  Three lemmas carry most of the steps: *)
(* Less (nothing new is begun), CardMoves (one card's call or the person)  *)
(* and PassMoves (the pass at one card).                                   *)
(***************************************************************************)
EXTENDS Questions, SequenceTheorems, TLAPS

(* Sequences *)

\* Taking the first of a queue without repetitions leaves the others.
LEMMA TakeFirst ==
  ASSUME NEW S, NEW s \in Seq(S), IsInjective(s), s # <<>>
  PROVE  /\ Tail(s) \in Seq(S) /\ IsInjective(Tail(s))
         /\ Head(s) \in ToSet(s) /\ Head(s) \in S
         /\ ToSet(Tail(s)) = ToSet(s) \ {Head(s)}
<1>1. /\ Len(s) \in Nat \ {0} /\ Head(s) = s[1] /\ DOMAIN s = 1..Len(s)
      /\ \A i \in 1..Len(s) : s[i] \in S
  BY EmptySeq
<1>2. /\ Tail(s) \in Seq(S) /\ Len(Tail(s)) = Len(s) - 1
      /\ DOMAIN Tail(s) = 1..(Len(s) - 1)
      /\ \A i \in 1..(Len(s) - 1) : Tail(s)[i] = s[i+1]
  BY <1>1, HeadTailProperties
<1>3. IsInjective(Tail(s))
  BY <1>1, <1>2 DEF IsInjective
<1>4. ToSet(Tail(s)) \subseteq ToSet(s) \ {Head(s)}
  BY <1>1, <1>2 DEF IsInjective, ToSet
<1>5. ASSUME NEW i \in 1..Len(s), s[i] # Head(s) PROVE s[i] \in ToSet(Tail(s))
  <2>1. i-1 \in 1..(Len(s) - 1) /\ Tail(s)[i-1] = s[i]
    BY <1>1, <1>2, <1>5
  <2>. QED BY <1>2, <2>1 DEF ToSet
<1>6. ToSet(s) \ {Head(s)} \subseteq ToSet(Tail(s))
  BY <1>1, <1>5 DEF ToSet
<1>7. Head(s) \in ToSet(s) /\ Head(s) \in S
  BY <1>1 DEF ToSet
<1>. QED BY <1>2, <1>3, <1>4, <1>6, <1>7

\* A turn that is not in the queue goes to its end.
LEMMA PutLast ==
  ASSUME NEW S, NEW s \in Seq(S), IsInjective(s), NEW e \in S, e \notin ToSet(s)
  PROVE  /\ Append(s, e) \in Seq(S) /\ IsInjective(Append(s, e))
         /\ ToSet(Append(s, e)) = ToSet(s) \cup {e}
<1>1. /\ Append(s, e) \in Seq(S) /\ DOMAIN Append(s, e) = 1..(Len(s) + 1)
      /\ Append(s, e)[Len(s) + 1] = e
      /\ \A i \in 1..Len(s) : Append(s, e)[i] = s[i]
      /\ Len(s) \in Nat /\ DOMAIN s = 1..Len(s)
  BY AppendProperties
<1>2. \A i \in 1..Len(s) : s[i] # e
  BY <1>1 DEF ToSet
<1>3. IsInjective(Append(s, e))
  BY <1>1, <1>2 DEF IsInjective
<1>4. ToSet(Append(s, e)) = ToSet(s) \cup {e}
  BY <1>1 DEF ToSet
<1>. QED BY <1>1, <1>3, <1>4

\* Taking one out of the middle leaves the others.
LEMMA TakeOne ==
  ASSUME NEW S, NEW s \in Seq(S), IsInjective(s), NEW at \in DOMAIN s
  PROVE  /\ RemoveAt(s, at) \in Seq(S) /\ IsInjective(RemoveAt(s, at))
         /\ ToSet(RemoveAt(s, at)) \subseteq ToSet(s) \ {s[at]}
<1> DEFINE front == SubSeq(s, 1, at-1)
           back  == SubSeq(s, at+1, Len(s))
           rest  == RemoveAt(s, at)
<1>1. Len(s) \in Nat /\ DOMAIN s = 1..Len(s) /\ at \in 1..Len(s)
  OBVIOUS
<1>2. /\ front \in Seq(S) /\ Len(front) = at - 1
      /\ \A i \in 1..(at-1) : front[i] = s[i]
  BY <1>1
<1>3. /\ back \in Seq(S) /\ Len(back) = Len(s) - at
      /\ \A i \in 1..(Len(s) - at) : back[i] = s[at + i]
  BY <1>1, SubSeqProperties
<1>4. rest = front \o back
  BY DEF RemoveAt
<1> HIDE DEF front, back, rest
<1>5. /\ rest \in Seq(S) /\ Len(rest) = Len(s) - 1
      /\ DOMAIN rest = 1..(Len(s) - 1)
      /\ \A i \in 1..(Len(s) - 1) : rest[i] = IF i < at THEN s[i] ELSE s[i + 1]
  <2>1. /\ front \o back \in Seq(S)
        /\ Len(front \o back) = Len(front) + Len(back)
        /\ \A i \in 1..(Len(front) + Len(back)) : (front \o back)[i] =
             IF i <= Len(front) THEN front[i] ELSE back[i - Len(front)]
    BY <1>2, <1>3, ConcatProperties
  <2>2. Len(front) + Len(back) = Len(s) - 1
    BY <1>1, <1>2, <1>3
  <2>3. ASSUME NEW i \in 1..(Len(s) - 1)
        PROVE  rest[i] = IF i < at THEN s[i] ELSE s[i + 1]
    <3>1. rest[i] = IF i <= at - 1 THEN front[i] ELSE back[i - (at - 1)]
      BY <1>2, <1>4, <2>1, <2>2
    <3>2. CASE i < at
      BY <3>1, <3>2, <1>1, <1>2
    <3>3. CASE ~(i < at)
      <4>1. i - (at - 1) \in 1..(Len(s) - at) /\ at + (i - (at - 1)) = i + 1
        BY <3>3, <1>1
      <4>. QED BY <3>1, <3>3, <4>1, <1>1, <1>3
    <3>. QED BY <3>2, <3>3
  <2>4. rest \in Seq(S) /\ Len(rest) = Len(s) - 1
    BY <1>4, <2>1, <2>2
  <2>. QED BY <1>1, <2>3, <2>4
<1>6. IsInjective(rest)
  BY <1>1, <1>5 DEF IsInjective
<1>7. ToSet(rest) \subseteq ToSet(s) \ {s[at]}
  BY <1>1, <1>5 DEF IsInjective, ToSet
<1>. QED BY <1>5, <1>6, <1>7 DEF rest

-----------------------------------------------------------------------------
(* Updates that keep the types *)

\* A process that is ended.
LEMMA EndedType ==
  ASSUME NEW p \in Process
  PROVE  [p EXCEPT !.up = FALSE, !.ended = TRUE] \in Process
BY DEF Process

\* A process whose output is at its end.
LEMMA ReadOutType ==
  ASSUME NEW p \in Process
  PROVE  [p EXCEPT !.reading = FALSE, !.flight = None] \in Process
BY DEF Process

\* A process whose turn is over, and what it is given next.
LEMMA NextTurnType ==
  ASSUME NEW p \in Process, NEW h \in Hands \cup {None}
  PROVE  [p EXCEPT !.turn = "idle", !.hand = h] \in Process
BY DEF Process

\* A process in another state of its turn.
LEMMA TurnType ==
  ASSUME NEW p \in Process, NEW t \in {"running", "cutOff"}
  PROVE  [p EXCEPT !.turn = t] \in Process
BY DEF Process

\* A process that is given something.
LEMMA HandType ==
  ASSUME NEW p \in Process, NEW h \in Hands \cup {None}
  PROVE  [p EXCEPT !.hand = h] \in Process
BY DEF Process

\* A record in another delivery state.
LEMMA MovedType ==
  ASSUME NEW q \in Questions, NEW d \in Deliveries, rec \in [Questions -> Record]
  PROVE  Moved(q, d) \in [Questions -> Record]
BY DEF Moved, Record

\* A change of the records, saved or not.
LEMMA KeepType ==
  ASSUME NEW next \in [Questions -> Record], NEW ok \in BOOLEAN, Keep(next, ok),
         disk \in [Questions -> Record]
  PROVE  /\ rec' \in [Questions -> Record] /\ disk' \in [Questions -> Record]
         /\ owed' \in BOOLEAN
BY DEF Keep

\* A change of one record that is refused unless it is saved.
LEMMA SetDeliveryType ==
  ASSUME NEW q \in Questions, NEW d \in Deliveries, NEW ok \in BOOLEAN,
         NEW then, SetDelivery(q, d, ok, then),
         rec \in [Questions -> Record], disk \in [Questions -> Record],
         owed \in BOOLEAN
  PROVE  /\ rec' \in [Questions -> Record] /\ disk' \in [Questions -> Record]
         /\ owed' \in BOOLEAN
BY MovedType DEF SetDelivery, Save, store

-----------------------------------------------------------------------------
(* What the file holds *)

\* Every change of the store but a plain save, a kept change, a settled debt
\* and a restart leaves it alone; each of those leaves it in order.
LEMMA StoreMoves ==
  ASSUME SavedUnlessOwed, [Next]_vars
  PROVE  SavedUnlessOwed'
<1> USE DEF SavedUnlessOwed
<1>1. ASSUME NEW next, Save(next) PROVE SavedUnlessOwed'
  BY <1>1 DEF Save
<1>2. ASSUME NEW next, NEW ok \in BOOLEAN, Keep(next, ok) PROVE SavedUnlessOwed'
  BY <1>2 DEF Keep
<1>3. ASSUME UNCHANGED store PROVE SavedUnlessOwed'
  BY <1>3 DEF store
<1>4. Saves \subseteq BOOLEAN
  BY DEF Saves
<1>5. ASSUME NEW q, NEW delivery, NEW ok, NEW then, SetDelivery(q, delivery, ok, then)
      PROVE SavedUnlessOwed'
  BY <1>1, <1>3, <1>5 DEF SetDelivery
<1>6. CASE \E q \in Questions : CallActs(q)
  <2> SUFFICES ASSUME NEW q \in Questions, CallActs(q) PROVE SavedUnlessOwed'
    BY <1>6
  <2>1. CASE \E how \in {"tool", "native"} : Ask(q, how)
    BY <1>1, <2>1 DEF Ask
  <2>2. CASE Wake(q) \/ Disconnect(q) \/ Detach(q) \/ NativeWrite(q)
    BY <1>3, <2>2 DEF Wake, Disconnect, Detach, NativeWrite
  <2>3. CASE \E ok \in Saves : TakeTool(q, ok)
    BY <1>2, <1>3, <1>4, <2>3 DEF TakeTool, store
  <2>4. CASE \E ok \in Saves : TakeNative(q, ok)
    BY <1>2, <1>3, <1>4, <2>4 DEF TakeNative, store
  <2>5. CASE \E ok \in Saves : NativeWritten(q, ok)
    BY <1>2, <1>3, <1>4, <2>5 DEF NativeWritten, store
  <2>6. QED
    BY <2>1, <2>2, <2>3, <2>4, <2>5 DEF CallActs
<1>7. CASE PersonActs
  <2>1. CASE \E q \in Questions, given \in SUBSET Parts \ {{}}, ok \in Saves :
               Answer(q, given, ok)
    BY <1>2, <1>4, <2>1 DEF Answer
  <2>2. CASE \E q \in Questions : Retry(q)
    BY <1>1, <2>2 DEF Retry
  <2>3. CASE \/ \E q \in Questions : CancelBegins("card", {q})
             \/ \E kind \in {"interrupt", "stop"} : CancelBegins(kind, Questions)
    BY <1>3, <2>3 DEF CancelBegins
  <2>4. CASE PersonSends \/ \E l \in Launches : PersonStarts(l)
    BY <1>3, <2>4 DEF PersonSends, PersonStarts
  <2>5. QED
    BY <1>7, <2>1, <2>2, <2>3, <2>4 DEF PersonActs
<1>8. CASE \E l \in Launches : ProcessActs(l)
  BY <1>3, <1>8 DEF ProcessActs, TurnEnds, HandOver, RecordHand, Acknowledge,
       ProcessDies, OutputEnds, Reap, StopProcess, store
<1>9. CASE EndProcess
  BY <1>3, <1>9 DEF EndProcess
<1>10. CASE CancelActs
  <2>1. CASE \E ok \in Saves : CancelKeeps(ok)
    BY <1>2, <1>3, <1>4, <2>1 DEF CancelKeeps, store
  <2>2. CASE \E q \in Questions : CancelUnqueues(q)
    BY <1>3, <2>2 DEF CancelUnqueues
  <2>3. CASE CancelEnds \/ StopEnds
    BY <1>3, <2>3 DEF CancelEnds, StopEnds
  <2>4. QED
    BY <1>10, <2>1, <2>2, <2>3 DEF CancelActs
<1>11. CASE PassActs
  <2>1. CASE PassBegins \/ (\E q \in Questions : PassReads(q)) \/ PassSends
    BY <1>3, <2>1 DEF PassBegins, PassReads, PassSends
  <2>2. CASE \E ok \in Saves : PassJudges(ok)
    BY <1>2, <1>3, <1>4, <1>5, <2>2 DEF PassJudges, store
  <2>3. CASE \E ok \in Saves : PassSettles(ok)
    BY <1>5, <2>3 DEF PassSettles
  <2>4. QED
    BY <1>11, <2>1, <2>2, <2>3 DEF PassActs
<1>12. CASE Settle
  BY <1>12 DEF Settle
<1>13. CASE Restart
  BY <1>13 DEF Restart
<1>14. CASE UNCHANGED vars
  BY <1>3, <1>14 DEF vars
<1>15. QED
  BY <1>6, <1>7, <1>8, <1>9, <1>10, <1>11, <1>12, <1>13, <1>14 DEF Next

\* question_store.rs, State::owed: it is None only while questions.json holds
\* everything the server remembers, whatever saves failed and in what order.
THEOREM SavedOrOwed == Spec => []SavedUnlessOwed
<1>1. Init => SavedUnlessOwed
  BY DEF Init, SavedUnlessOwed
<1>2. SavedUnlessOwed /\ [Next]_vars => SavedUnlessOwed'
  BY StoreMoves
<1>3. QED
  BY <1>1, <1>2, PTL DEF Spec

-----------------------------------------------------------------------------
(* The types *)

\* Entries dropped among the waiters, a line of the chat's record, and a
\* hand-over counted.
LEMMA SmallTypes ==
  ASSUME TypeOK
  PROVE  /\ \A Q : WithoutWaiters(Q) \in [Questions -> Waiters]
         /\ \A Q : \A state \in Receipts : Recorded(Q, state) \in [Questions -> Receipts]
         /\ \A q \in Questions : HandedOn(q) \in [Questions -> 0..2]
BY DEF TypeOK, WithoutWaiters, Waiters, Recorded, HandedOn

\* The types, over what a call does.
LEMMA CallTypes ==
  ASSUME IInv, NEW q \in Questions, CallActs(q)
  PROVE  TypeOK'
<1> USE DEF IInv, TypeOK, store, calls, chat, record, history
<1>1. ASSUME NEW how \in {"tool", "native"}, Ask(q, how) PROVE TypeOK'
  <2>1. rec' \in [Questions -> Record] /\ disk' \in [Questions -> Record] /\ owed' \in BOOLEAN
    BY <1>1 DEF Ask, Save, Record, Deliveries
  <2>2. waiter' \in [Questions -> Waiters] /\ call' \in [Questions -> CallSteps]
    BY <1>1 DEF Ask, Waiters, CallSteps
  <2>3. /\ via' \in [Questions -> {"tool", "native"}]
        /\ asker' \in [Questions -> Launches \cup {None}]
    BY <1>1 DEF Ask
  <2>. QED BY <1>1, <2>1, <2>2, <2>3 DEF Ask
<1>2. CASE Wake(q) \/ Disconnect(q)
  BY <1>2 DEF Wake, Disconnect, CallSteps
<1>3. CASE Detach(q)
  <2>1. waiter' \in [Questions -> Waiters] /\ call' \in [Questions -> CallSteps]
    BY <1>3, SmallTypes DEF Detach, CallSteps
  <2>. QED BY <1>3, <2>1 DEF Detach
<1>4. CASE NativeWrite(q)
  <2>1. handed' \in [Questions -> 0..2] /\ call' \in [Questions -> CallSteps]
    BY <1>4, SmallTypes DEF NativeWrite, CallSteps
  <2>. QED BY <1>4, <2>1 DEF NativeWrite
<1>5. {"Delivered", "Dispatching", "Uncertain"} \subseteq Deliveries
  BY DEF Deliveries
<1>6. ASSUME NEW ok \in BOOLEAN, TakeTool(q, ok) PROVE TypeOK'
  <2>1. rec' \in [Questions -> Record] /\ disk' \in [Questions -> Record] /\ owed' \in BOOLEAN
    BY <1>5, <1>6, MovedType, KeepType DEF TakeTool
  <2>2. /\ waiter' \in [Questions -> Waiters] /\ handed' \in [Questions -> 0..2]
        /\ call' \in [Questions -> CallSteps]
    BY <1>6, SmallTypes DEF TakeTool, CallSteps
  <2>. QED BY <1>6, <2>1, <2>2 DEF TakeTool
<1>7. ASSUME NEW ok \in BOOLEAN, TakeNative(q, ok) PROVE TypeOK'
  <2>1. rec' \in [Questions -> Record] /\ disk' \in [Questions -> Record] /\ owed' \in BOOLEAN
    BY <1>5, <1>7, MovedType, KeepType DEF TakeNative
  <2>2. waiter' \in [Questions -> Waiters] /\ call' \in [Questions -> CallSteps]
    BY <1>7, SmallTypes DEF TakeNative, CallSteps
  <2>. QED BY <1>7, <2>1, <2>2 DEF TakeNative
<1>8. ASSUME NEW ok \in BOOLEAN, NativeWritten(q, ok) PROVE TypeOK'
  <2>1. rec' \in [Questions -> Record] /\ disk' \in [Questions -> Record] /\ owed' \in BOOLEAN
    BY <1>5, <1>8, MovedType, KeepType DEF NativeWritten, NativeFate
  <2>2. waiter' \in [Questions -> Waiters] /\ call' \in [Questions -> CallSteps]
    BY <1>8, SmallTypes DEF NativeWritten, CallSteps
  <2>. QED BY <1>8, <2>1, <2>2 DEF NativeWritten
<1>9. Saves \subseteq BOOLEAN
  BY DEF Saves
<1>. QED BY <1>1, <1>2, <1>3, <1>4, <1>6, <1>7, <1>8, <1>9 DEF CallActs

\* The types, over what the person does.
LEMMA PersonTypes ==
  ASSUME IInv, PersonActs
  PROVE  TypeOK'
<1> USE DEF IInv, TypeOK, store, calls, chat, record, history
<1>1. ASSUME NEW q \in Questions, NEW given \in SUBSET Parts, NEW ok \in BOOLEAN,
             Answer(q, given, ok)
      PROVE  TypeOK'
  <2> DEFINE answers == rec[q].answers \cup given
             next == [rec EXCEPT ![q] =
                       [delivery |-> IF rec[q].delivery = "Pending" /\ answers = Parts
                                     THEN "Ready" ELSE rec[q].delivery,
                        answers  |-> answers]]
  <2>1. next[q] \in Record
    BY DEF Record, Deliveries
  <2>2. next \in [Questions -> Record]
    BY <2>1
  <2>3. Keep(next, ok)
    BY <1>1 DEF Answer
  <2>4. rec' \in [Questions -> Record] /\ disk' \in [Questions -> Record] /\ owed' \in BOOLEAN
    BY <2>2, <2>3, KeepType
  <2>5. waiter' \in [Questions -> Waiters]
    BY <1>1 DEF Answer, Waiters
  <2>. QED BY <1>1, <2>4, <2>5 DEF Answer
<1>2. ASSUME NEW q \in Questions, Retry(q) PROVE TypeOK'
  <2>1. rec' \in [Questions -> Record] /\ disk' \in [Questions -> Record] /\ owed' \in BOOLEAN
    BY <1>2, MovedType DEF Retry, Save, Deliveries
  <2>. QED BY <1>2, <2>1 DEF Retry
<1>3. ASSUME NEW kind \in {"card", "interrupt", "stop"}, NEW ids \in SUBSET Questions,
             CancelBegins(kind, ids)
      PROVE  TypeOK'
  <2>1. desk' \in Cancels
    BY <1>3 DEF CancelBegins, Cancels, ToTakeBack, Outbox
  <2>. QED BY <1>3, <2>1 DEF CancelBegins
<1>4. CASE PersonSends
  <2>1. session \in Launches /\ [proc[session] EXCEPT !.turn = "running"] \in Process
    BY <1>4, TurnType DEF PersonSends
  <2>2. proc' \in [Launches -> Process]
    BY <1>4, <2>1 DEF PersonSends
  <2>. QED BY <1>4, <2>2 DEF PersonSends
<1>5. ASSUME NEW l \in Launches, PersonStarts(l) PROVE TypeOK'
  <2>1. proc' \in [Launches -> Process]
    BY <1>5 DEF PersonStarts, Process, Started
  <2>. QED BY <1>5, <2>1 DEF PersonStarts
<1>6. Saves \subseteq BOOLEAN
  BY DEF Saves
<1>7. ASSUME NEW q \in Questions, CancelBegins("card", {q}) PROVE TypeOK'
  BY <1>3, <1>7
<1>8. ASSUME NEW kind \in {"interrupt", "stop"}, CancelBegins(kind, Questions) PROVE TypeOK'
  BY <1>3, <1>8
<1> HIDE DEF IInv, TypeOK, store, calls, chat, record, history
<1>. QED BY <1>1, <1>2, <1>4, <1>5, <1>6, <1>7, <1>8 DEF PersonActs

\* The types, over what the processes and their readers do.
LEMMA ProcessTypes ==
  ASSUME IInv, \/ EndProcess
               \/ \E l \in Launches : ProcessActs(l)
  PROVE  TypeOK'
<1> USE DEF IInv, TypeOK, store, calls, chat, record, history
<1>1. {"failed", "dispatched", "received", "unknown"} \subseteq Receipts
  BY DEF Receipts
<1>2. <<>> \in Seq(Questions)
  BY EmptySeq
<1>3. ASSUME NEW l \in Launches, TurnEnds(l) PROVE TypeOK'
  <2> DEFINE next == IF queue = <<>> THEN None
                     ELSE [turn |-> Head(queue), step |-> "taken", by |-> "reader"]
  <2>1. queue # <<>> => Head(queue) \in Questions /\ Tail(queue) \in Seq(Questions)
    OBVIOUS
  <2>2. next \in Hands \cup {None}
    BY <2>1 DEF Hands
  <2>3. [proc[l] EXCEPT !.turn = "idle", !.hand = next] \in Process
    BY <2>2, NextTurnType
  <2>4. proc' \in [Launches -> Process]
    BY <1>3, <2>3 DEF TurnEnds
  <2>5. queue' \in Seq(Questions) /\ waiter' \in [Questions -> Waiters]
    BY <1>2, <1>3, <2>1, SmallTypes DEF TurnEnds
  <2>. QED BY <1>3, <2>4, <2>5 DEF TurnEnds
<1>4. ASSUME NEW l \in Launches, HandOver(l) PROVE TypeOK'
  <2>1. proc[l].hand \in Hands
    BY <1>4 DEF HandOver, Process
  <2>2. /\ [proc[l].hand EXCEPT !.step = "written"] \in Hands
        /\ [proc[l].hand EXCEPT !.step = "refused"] \in Hands
        /\ proc[l].hand.turn \in Questions
    BY <2>1 DEF Hands
  <2>3. /\ [proc[l] EXCEPT !.hand = [proc[l].hand EXCEPT !.step = "refused"]] \in Process
        /\ [proc[l] EXCEPT !.hand = [proc[l].hand EXCEPT !.step = "written"],
                          !.turn = "running", !.flight = proc[l].hand.turn] \in Process
    BY <2>2 DEF Process
  <2>4. proc' \in [Launches -> Process]
    BY <1>4, <2>3 DEF HandOver
  <2>5. handed' \in [Questions -> 0..2]
    BY <1>4, <2>2, SmallTypes DEF HandOver
  <2>. QED BY <1>4, <2>4, <2>5 DEF HandOver
<1>5. ASSUME NEW l \in Launches, RecordHand(l) PROVE TypeOK'
  <2>1. proc' \in [Launches -> Process]
    BY <1>5, HandType DEF RecordHand
  <2>2. receipt' \in [Questions -> Receipts]
    BY <1>1, <1>5, SmallTypes DEF RecordHand
  <2>3. queue' \in Seq(Questions)
    BY <1>2, <1>5 DEF RecordHand
  <2>4. proc[l].hand.by # "reader" => desk \in Passes
    BY <1>5 DEF RecordHand, OneTurn, Passing, Passes, Cancels
  <2>5. desk' \in Passes \cup Cancels \cup {None}
    BY <1>5, <2>4 DEF RecordHand, Passes
  <2>. QED BY <1>5, <2>1, <2>2, <2>3, <2>5 DEF RecordHand
<1>6. ASSUME NEW l \in Launches, Acknowledge(l) PROVE TypeOK'
  <2>1. proc' \in [Launches -> Process]
    BY <1>6 DEF Acknowledge, Process
  <2>2. receipt' \in [Questions -> Receipts]
    BY <1>1, <1>6, SmallTypes DEF Acknowledge
  <2>. QED BY <1>6, <2>1, <2>2 DEF Acknowledge
<1>7. ASSUME NEW l \in Launches, ProcessDies(l) PROVE TypeOK'
  <2>1. proc' \in [Launches -> Process]
    BY <1>7 DEF ProcessDies, Process
  <2>. QED BY <1>7, <2>1 DEF ProcessDies
<1>8. ASSUME NEW l \in Launches, OutputEnds(l) PROVE TypeOK'
  <2>1. proc' \in [Launches -> Process]
    BY <1>8, ReadOutType DEF OutputEnds
  <2>2. receipt' \in [Questions -> Receipts] /\ waiter' \in [Questions -> Waiters]
    BY <1>1, <1>8, SmallTypes DEF OutputEnds
  <2>. QED BY <1>8, <2>1, <2>2 DEF OutputEnds
<1>9. ASSUME ForgetQueue, session' = None,
             UNCHANGED <<store, calls, proc, envelope, desk, history>>
      PROVE  TypeOK'
  <2>1. receipt' \in [Questions -> Receipts] /\ queue' \in Seq(Questions)
    BY <1>1, <1>2, <1>9, SmallTypes DEF ForgetQueue
  <2>. QED BY <1>9, <2>1
<1>10. ASSUME NEW l \in Launches, StopProcess(l) PROVE TypeOK'
  <2>1. proc' \in [Launches -> Process]
    BY <1>10, EndedType DEF StopProcess
  <2>. QED BY <1>10, <2>1 DEF StopProcess
<1> HIDE DEF IInv, TypeOK, store, calls, chat, record, history
<1>. QED BY <1>3, <1>4, <1>5, <1>6, <1>7, <1>8, <1>9, <1>10
            DEF ProcessActs, EndProcess, TakeOut, Reap

\* The types, over what a cancel and a Stop do.
LEMMA CancelTypes ==
  ASSUME IInv, CancelActs
  PROVE  TypeOK'
<1> USE DEF IInv, TypeOK, store, calls, chat, record, history
<1>1. Cancelling => desk \in Cancels
  BY DEF Cancelling, Passes
<1>2. ASSUME NEW ok \in BOOLEAN, CancelKeeps(ok) PROVE TypeOK'
  <2> DEFINE Q == {q \in desk.ids : Open(rec[q])}
             next == [q \in Questions |-> IF q \in Q
                                          THEN [rec[q] EXCEPT !.delivery = "Cancelled"]
                                          ELSE rec[q]]
  <2>1. next \in [Questions -> Record]
    BY DEF Record, Deliveries
  <2>2. rec' \in [Questions -> Record] /\ disk' \in [Questions -> Record] /\ owed' \in BOOLEAN
    BY <1>2, <2>1, KeepType DEF CancelKeeps
  <2>3. waiter' \in [Questions -> Waiters]
    BY <1>2, SmallTypes DEF CancelKeeps
  <2>4. desk' \in Cancels
    BY <1>1, <1>2 DEF CancelKeeps, Cancels
  <2>. QED BY <1>2, <2>2, <2>3, <2>4 DEF CancelKeeps
<1>3. ASSUME NEW q \in Questions, CancelUnqueues(q) PROVE TypeOK'
  <2>1. desk' \in Cancels
    BY <1>1, <1>3 DEF CancelUnqueues, Cancels
  <2>2. receipt' \in [Questions -> Receipts]
    BY <1>3, SmallTypes DEF CancelUnqueues, Receipts
  <2>3. queue' \in Seq(Questions)
    BY <1>3, TakeOne DEF CancelUnqueues, OneTurn
  <2>. QED BY <1>3, <2>1, <2>2, <2>3 DEF CancelUnqueues
<1>4. CASE CancelEnds
  <2>1. desk' \in Cancels \cup {None}
    BY <1>1, <1>4 DEF CancelEnds, Cancels
  <2>2. receipt' \in [Questions -> Receipts]
    BY <1>4, SmallTypes DEF CancelEnds, TakeOut, ForgetQueue, Receipts
  <2>3. proc' \in [Launches -> Process]
    <3>1. session # None => [proc[session] EXCEPT !.turn = "cutOff"] \in Process
      BY TurnType
    <3>. QED BY <1>4, <3>1 DEF CancelEnds
  <2>4. queue' \in Seq(Questions) /\ session' \in Launches \cup {None}
    BY <1>4, EmptySeq DEF CancelEnds, TakeOut, ForgetQueue
  <2>. QED BY <1>4, <2>1, <2>2, <2>3, <2>4 DEF CancelEnds
<1>5. CASE StopEnds
  BY <1>5 DEF StopEnds
<1>6. Saves \subseteq BOOLEAN
  BY DEF Saves
<1> HIDE DEF IInv, TypeOK, store, calls, chat, record, history
<1>. QED BY <1>2, <1>3, <1>4, <1>5, <1>6 DEF CancelActs

\* The types, over what the pass does.
LEMMA PassTypes ==
  ASSUME IInv, PassActs
  PROVE  TypeOK'
<1> USE DEF IInv, TypeOK, store, calls, chat, record, history
<1>1. ASSUME NEW step, Passing(step)
      PROVE  /\ desk \in Passes
             /\ step # "next" => desk.at \in Questions
  BY <1>1 DEF Passing, Cancels, Passes, PassIsCurrent
<1>2. ASSUME desk \in Passes, desk.at \in Questions
      PROVE  /\ Onward \in Passes \cup {None}
             /\ \A step \in {"send", "hand", "sent", "refused"} :
                  [desk EXCEPT !.step = step] \in Passes
  BY <1>2 DEF Onward, Passes, Receipts
<1>3. {"Delivered", "Dispatching", "Uncertain", "Queued", "Failed", "Cancelled"} \subseteq Deliveries
  BY DEF Deliveries
<1>4. CASE PassBegins
  <2>1. desk' \in Passes
    BY <1>4 DEF PassBegins, Passes, Outbox, Record, Receipts
  <2>. QED BY <1>4, <2>1 DEF PassBegins
<1>5. ASSUME NEW q \in Questions, PassReads(q) PROVE TypeOK'
  <2>1. desk' \in Passes
    BY <1>1, <1>5 DEF PassReads, Passes
  <2>. QED BY <1>5, <2>1 DEF PassReads
<1>6. ASSUME NEW ok \in BOOLEAN, PassJudges(ok) PROVE TypeOK'
  <2>1. desk \in Passes /\ desk.at \in Questions
    BY <1>1, <1>6 DEF PassJudges
  <2>2. Onward \in Passes \cup {None} /\ [desk EXCEPT !.step = "send"] \in Passes
    BY <1>2, <2>1
  <2>3. desk' \in Passes \cup {None}
    BY <1>6, <2>2 DEF PassJudges, SetDelivery
  <2>4. rec' \in [Questions -> Record] /\ disk' \in [Questions -> Record] /\ owed' \in BOOLEAN
    <3>1. ASSUME NEW d \in {"Uncertain", "Delivered", "Dispatching"}, NEW then,
                 SetDelivery(desk.at, d, ok, then)
          PROVE  <2>4!:
      BY <1>3, <2>1, <3>1, SetDeliveryType
    <3>2. Keep(Moved(desk.at, "Cancelled"), ok) => <2>4!:
      BY <1>3, <2>1, MovedType, KeepType
    <3>. QED BY <1>6, <3>1, <3>2 DEF PassJudges
  <2>5. waiter' \in [Questions -> Waiters]
    BY <1>6, SmallTypes DEF PassJudges
  <2>. QED BY <1>6, <2>3, <2>4, <2>5 DEF PassJudges
<1>7. CASE PassSends
  <2>1. desk \in Passes /\ desk.at \in Questions
    BY <1>1, <1>7 DEF PassSends
  <2>2. desk' \in Passes
    BY <1>2, <1>7, <2>1 DEF PassSends
  <2>3. receipt' \in [Questions -> Receipts]
    BY <1>7, SmallTypes DEF PassSends, Receipts
  <2>4. queue' \in Seq(Questions)
    <3>1. Append(queue, desk.at) \in Seq(Questions)
      BY <2>1, AppendProperties
    <3>. QED BY <1>7, <3>1 DEF PassSends
  <2>5. \A by \in {"send", "start"} : [turn |-> desk.at, step |-> "taken", by |-> by] \in Hands
    BY <2>1 DEF Hands
  <2>6. \A l \in Launches :
          Started(l, desk.at, [turn |-> desk.at, step |-> "taken", by |-> "start"])
            \in [Launches -> Process]
    BY <2>1, <2>5 DEF Process, Started
  <2>7. ASSUME session # None
        PROVE  /\ [proc[session] EXCEPT !.turn = "running"] \in Process
               /\ [proc[session] EXCEPT !.hand =
                     [turn |-> desk.at, step |-> "taken", by |-> "send"]] \in Process
    BY <2>5, <2>7, TurnType, HandType
  <2>8. proc' \in [Launches -> Process]
    <3>1. CASE UNCHANGED proc
      BY <3>1
    <3>2. CASE \E l \in Launches : proc' =
                 Started(l, desk.at, [turn |-> desk.at, step |-> "taken", by |-> "start"])
      BY <2>6, <3>2
    <3>3. CASE /\ session # None
               /\ proc' = [proc EXCEPT ![session].turn = IF @ = "idle" THEN "running" ELSE @]
      <4>1. proc[session].turn # "idle" => [proc[session] EXCEPT !.turn = @] \in Process
        BY <3>3 DEF Process
      <4>. QED BY <2>7, <3>3, <4>1
    <3>4. CASE /\ session # None
               /\ proc' = [proc EXCEPT ![session].hand =
                             [turn |-> desk.at, step |-> "taken", by |-> "send"]]
      BY <2>7, <3>4
    <3>. QED BY <1>7, <3>1, <3>2, <3>3, <3>4 DEF PassSends
  <2>9. envelope' \subseteq Questions /\ session' \in Launches \cup {None}
    BY <1>7, <2>1 DEF PassSends
  <2>. QED BY <1>7, <2>2, <2>3, <2>4, <2>8, <2>9 DEF PassSends
<1>8. ASSUME NEW ok \in BOOLEAN, PassSettles(ok) PROVE TypeOK'
  <2>1. desk \in Passes /\ desk.at \in Questions
    BY <1>1, <1>8 DEF PassSettles
  <2>2. PICK d \in {"Queued", "Failed"} : SetDelivery(desk.at, d, ok, Onward)
    BY <1>8 DEF PassSettles
  <2>3. desk' \in Passes \cup {None}
    BY <1>2, <2>1, <2>2 DEF SetDelivery
  <2>4. rec' \in [Questions -> Record] /\ disk' \in [Questions -> Record] /\ owed' \in BOOLEAN
    BY <1>3, <2>1, <2>2, SetDeliveryType
  <2>. QED BY <1>8, <2>3, <2>4 DEF PassSettles
<1>9. Saves \subseteq BOOLEAN
  BY DEF Saves
<1> HIDE DEF IInv, TypeOK, store, calls, chat, record, history
<1>. QED BY <1>4, <1>5, <1>6, <1>7, <1>8, <1>9 DEF PassActs

\* The types, over a restart, a settled debt, and nothing at all.
LEMMA RestTypes ==
  ASSUME IInv, Restart \/ Settle \/ UNCHANGED vars
  PROVE  TypeOK'
<1> USE DEF IInv, TypeOK, store, calls, chat, record, history
<1>1. CASE Restart
  <2>1. /\ waiter' \in [Questions -> Waiters] /\ call' \in [Questions -> CallSteps]
    BY <1>1, SmallTypes DEF Restart, CallSteps
  <2>2. \A l \in Launches : [proc[l] EXCEPT !.up = FALSE, !.reading = FALSE,
               !.turn = "idle", !.flight = None, !.hand = None] \in Process
    BY DEF Process
  <2>3. proc' \in [Launches -> Process]
    BY <1>1, <2>2 DEF Restart
  <2>4. queue' \in Seq(Questions)
    BY <1>1, EmptySeq DEF Restart
  <2>5. restarts' \in 0..MaxRestarts
    <3>1. restarts' = restarts + 1 /\ restarts < MaxRestarts /\ restarts \in 0..MaxRestarts
      BY <1>1 DEF Restart
    <3>. QED BY <3>1, QuestionsAssumption
  <2>. QED BY <1>1, <2>1, <2>3, <2>4, <2>5 DEF Restart
<1>2. CASE Settle
  BY <1>2 DEF Settle
<1>3. CASE UNCHANGED vars
  BY <1>3 DEF vars
<1>. QED BY <1>1, <1>2, <1>3

-----------------------------------------------------------------------------
(* The invariant: what begins nothing *)

LEMMA EmptyQueue == ToSet(<<>>) = {} /\ IsInjective(<<>>)
BY DEF ToSet, IsInjective

\* What a change of the chat's record leaves on it.
LEMMA RecordedAt ==
  ASSUME NEW Q, NEW state
  PROVE  \A q \in Questions : Recorded(Q, state)[q] =
           IF q \in Q /\ receipt[q] \notin {"received", "cancelled"}
           THEN state ELSE receipt[q]
BY DEF Recorded


\* The three ways a record is changed, at one card and at the others.
LEMMA MovedAt ==
  ASSUME IInv, NEW q \in Questions, NEW d, NEW ok \in BOOLEAN,
         Keep(Moved(q, d), ok) \/ Save(Moved(q, d))
  PROVE  /\ rec'[q].delivery = d /\ rec'[q].answers = rec[q].answers
         /\ disk'[q] \in {rec'[q], disk[q]}
         /\ \A p \in Questions \ {q} :
              rec'[p] = rec[p] /\ disk'[p] \in {rec[p], disk[p]}
<1>1. Moved(q, d)[q].delivery = d /\ Moved(q, d)[q].answers = rec[q].answers
  BY DEF IInv, TypeOK, Record, Moved
<1>2. \A p \in Questions \ {q} : Moved(q, d)[p] = rec[p]
  BY DEF IInv, TypeOK, Moved
<1>3. rec' = Moved(q, d) /\ disk' \in {Moved(q, d), disk}
  BY DEF Keep, Save
<1>. QED BY <1>1, <1>2, <1>3

\* A pass that is past its choice is at a card.
LEMMA PassAt ==
  ASSUME IInv, desk # None, desk.kind = "pass"
  PROVE  /\ desk \in Passes
         /\ desk.step # "next" => desk.at \in Questions
BY DEF IInv, TypeOK, PassIsCurrent, Passes, Cancels

\* A call that goes on or ends, a process that has less to do than it had, and
\* whoever takes, keeps or lets go of the delivery lock.
LEMMA Less ==
  ASSUME IInv, TypeOK', UNCHANGED <<rec, disk, envelope, handed, lost>>,
         \/ desk' = desk
         \/ ~Passing("hand") /\ PassIsCurrent' /\ CancelsAll' /\ QueueIsOwned',
         IsInjective(queue'), ToSet(queue') \subseteq ToSet(queue),
         \A q \in Questions : waiter'[q] \in {waiter[q], "none"},
         \A q \in Questions :
           \/ call'[q] = call[q]
           \/ /\ call[q] # "none"
              /\ \/ call'[q] \in {"woken", "leaving"}
                 \/ call'[q] = "over" /\ waiter'[q] = "none",
         \A l \in Launches :
           /\ proc'[l].hand \in {proc[l].hand, None}
           /\ proc'[l].flight \in {proc[l].flight, None},
         \A q \in Questions :
           \/ receipt'[q] = receipt[q]
           \/ receipt'[q] = "received" /\ receipt[q] = "dispatched" /\ q \notin ToSet(queue)
           \/ receipt'[q] \in {"failed", "unknown", "cancelled"} /\ q \in envelope /\ q \notin ToSet(queue')
  PROVE  IInv'
<1>1. ToSet(queue) \subseteq Questions
  BY DEF IInv, TypeOK, ToSet
<1>2. CardsAreSaved'
  BY DEF IInv, CardsAreSaved, Complete
<1>3. RecordIsTrue'
  BY DEF IInv, RecordIsTrue
<1>4. OneTurn'
  <2>1. \A q \in ToSet(queue') : q \in envelope' /\ receipt'[q] = "queued"
    BY <1>1 DEF IInv, OneTurn
  <2>2. ASSUME NEW l \in Launches
        PROVE  proc'[l].flight # None => proc'[l].flight \in envelope' \ ToSet(queue')
    BY DEF IInv, OneTurn
  <2>3. ASSUME NEW l \in Launches, proc'[l].hand # None
        PROVE  /\ proc'[l].hand.turn \in envelope' \ ToSet(queue')
               /\ proc'[l].hand.step = "written" => handed'[proc'[l].hand.turn] > 0
               /\ \A m \in Launches \ {l} :
                    proc'[m].hand # None => proc'[m].hand.turn # proc'[l].hand.turn
               /\ proc'[l].hand.by # "reader" =>
                    Passing("hand")' /\ proc'[l].hand.turn = desk'.at
    BY <2>3 DEF IInv, OneTurn, Passing
  <2>. QED BY <2>1, <2>2, <2>3 DEF OneTurn
<1>5. CallOrTurn'
  BY DEF IInv, CallOrTurn, Claimed
<1>6. PassIsCurrent'
  <2>1. \A q \in Questions : Claimed(q)' => Claimed(q)
    BY DEF Claimed
  <2>2. \A q \in Questions : waiter'[q] = "none" \/ waiter'[q] = waiter[q]
    OBVIOUS
  <2>3. PassIsCurrent
    BY DEF IInv
  <2> SUFFICES ASSUME desk' = desk PROVE PassIsCurrent'
    OBVIOUS
  <2>. QED BY <2>1, <2>2, <2>3, PassAt DEF PassIsCurrent, Listed
<1>7. Once'
  BY DEF IInv, Once
<1>8. CancelsAll'
  BY DEF IInv, CancelsAll, Cancelling
<1>9. QueueIsOwned'
  BY <1>1 DEF IInv, QueueIsOwned, Cancelling
<1>10. WaiterIsLive'
  BY DEF IInv, WaiterIsLive
<1>. QED BY <1>2, <1>3, <1>4, <1>5, <1>6, <1>7, <1>8, <1>9, <1>10 DEF IInv

\* Such are the ends of a call, the start, the death and the end of a
\* process, a receipt, and the loss of a queue.
LEMMA QuietMoves ==
  ASSUME IInv, TypeOK',
         \/ \E q \in Questions : Wake(q) \/ Disconnect(q) \/ Detach(q)
         \/ PersonSends \/ EndProcess \/ UNCHANGED vars
         \/ \E l \in Launches :
              \/ PersonStarts(l) \/ Acknowledge(l) \/ ProcessDies(l)
              \/ OutputEnds(l) \/ Reap(l) \/ StopProcess(l)
  PROVE  IInv'
<1> USE DEF store, calls, chat, record, history
<1>1. CASE \E q \in Questions : Wake(q) \/ Disconnect(q) \/ Detach(q)
  BY <1>1, Less DEF IInv, OneTurn, TypeOK, Wake, Disconnect, Detach, WithoutWaiters
<1>2. CASE PersonSends \/ \E l \in Launches : PersonStarts(l) \/ ProcessDies(l) \/ StopProcess(l)
  <2>1. \A l \in Launches : /\ proc'[l].hand \in {proc[l].hand, None}
                            /\ proc'[l].flight \in {proc[l].flight, None}
    <3>1. CASE PersonSends
      BY <3>1 DEF IInv, TypeOK, Process, PersonSends
    <3>2. ASSUME NEW m \in Launches, PersonStarts(m)
          PROVE  \A l \in Launches : /\ proc'[l].hand \in {proc[l].hand, None}
                                    /\ proc'[l].flight \in {proc[l].flight, None}
      BY <3>2 DEF IInv, TypeOK, Process, PersonStarts, Started
    <3>3. ASSUME NEW m \in Launches, ProcessDies(m) \/ StopProcess(m)
          PROVE  \A l \in Launches : /\ proc'[l].hand \in {proc[l].hand, None}
                                    /\ proc'[l].flight \in {proc[l].flight, None}
      BY <3>3 DEF IInv, TypeOK, Process, ProcessDies, StopProcess
    <3>. QED BY <1>2, <3>1, <3>2, <3>3
  <2>. QED
    BY <1>2, <2>1, Less
       DEF IInv, OneTurn, PersonSends, PersonStarts, ProcessDies, StopProcess
<1>3. CASE EndProcess \/ \E l \in Launches : Reap(l)
  <2>1. ForgetQueue /\ UNCHANGED <<store, calls, proc, envelope, desk, history>>
    BY <1>3 DEF EndProcess, TakeOut, Reap
  <2>2. \A q \in Questions : receipt'[q] # receipt[q] =>
          receipt'[q] = "failed" /\ q \in ToSet(queue)
    BY <2>1, RecordedAt DEF ForgetQueue
  <2>3. queue' = <<>> /\ ToSet(queue) \subseteq envelope
    BY <2>1 DEF ForgetQueue, IInv, OneTurn
  <2>. QED
    BY <2>1, <2>2, <2>3, EmptyQueue, Less
<1>4. ASSUME NEW l \in Launches, Acknowledge(l) PROVE IInv'
  <2>1. \A m \in Launches : /\ proc'[m].hand \in {proc[m].hand, None}
                            /\ proc'[m].flight \in {proc[m].flight, None}
    BY <1>4 DEF IInv, TypeOK, Process, Acknowledge
  <2>2. proc[l].flight \notin ToSet(queue)
    BY <1>4 DEF Acknowledge, IInv, OneTurn
  <2>3. \A q \in Questions : receipt'[q] # receipt[q] =>
          receipt'[q] = "received" /\ receipt[q] = "dispatched" /\ q \notin ToSet(queue)
    BY <1>4, <2>2, RecordedAt DEF Acknowledge
  <2>. QED
    BY <1>4, <2>1, <2>3, Less DEF IInv, OneTurn, Acknowledge
<1>5. ASSUME NEW l \in Launches, OutputEnds(l) PROVE IInv'
  <2>1. \A m \in Launches : /\ proc'[m].hand \in {proc[m].hand, None}
                            /\ proc'[m].flight \in {proc[m].flight, None}
    BY <1>5 DEF IInv, TypeOK, Process, OutputEnds
  <2>2. proc[l].flight # None => proc[l].flight \in envelope \ ToSet(queue)
    BY <1>5 DEF IInv, OneTurn
  <2>3. \A q \in Questions : receipt'[q] # receipt[q] =>
          receipt'[q] = "unknown" /\ q \in envelope /\ q \notin ToSet(queue)
    BY <1>5, <2>2, RecordedAt DEF OutputEnds
  <2>. QED
    BY <1>5, <2>1, <2>3, Less DEF IInv, OneTurn, TypeOK, OutputEnds, WithoutWaiters
<1>6. CASE UNCHANGED vars
  BY <1>6, Less DEF vars, IInv, OneTurn, TypeOK
<1>. QED BY <1>1, <1>2, <1>3, <1>4, <1>5, <1>6

-----------------------------------------------------------------------------
(* The turns that are taken, given and recorded *)

\* A turn that is taken leaves the queue for one carrier, and is not given yet.
LEMMA TurnEndsIInv ==
  ASSUME IInv, TypeOK', NEW l \in Launches, TurnEnds(l)
  PROVE  IInv'
<1>1. /\ UNCHANGED <<rec, disk, owed, call, via, asker, session, envelope, receipt,
                      desk, restarts, handed, lost>>
      /\ \A q \in Questions : waiter'[q] \in {waiter[q], "none"}
      /\ proc[l].hand = None
  BY DEF IInv, TypeOK, TurnEnds, WithoutWaiters, store, record, history
<1>2. CASE proc[l].ended
  BY <1>1, <1>2, Less DEF IInv, OneTurn, TurnEnds
<1>3. CASE ~proc[l].ended /\ queue = <<>>
  <2>1. \A m \in Launches : /\ proc'[m].hand \in {proc[m].hand, None}
                            /\ proc'[m].flight \in {proc[m].flight, None}
    BY <1>3 DEF IInv, TypeOK, Process, TurnEnds
  <2>. QED
    BY <1>1, <1>3, <2>1, Less DEF IInv, OneTurn, TurnEnds
<1>4. CASE ~proc[l].ended /\ queue # <<>>
  <2> DEFINE p == Head(queue)
  <2>1. queue' = Tail(queue)
    BY <1>4 DEF TurnEnds
  <2>2. \A m \in Launches :
          /\ proc'[m].flight = proc[m].flight
          /\ proc'[m].hand = IF m = l THEN [turn |-> p, step |-> "taken", by |-> "reader"]
                             ELSE proc[m].hand
    BY <1>4 DEF IInv, TypeOK, Process, TurnEnds
  <2>3. /\ p \in Questions /\ p \in ToSet(queue) /\ IsInjective(queue')
        /\ ToSet(queue') = ToSet(queue) \ {p}
    BY <1>4, <2>1, TakeFirst DEF IInv, TypeOK, OneTurn
  <2> HIDE DEF p
  <2>4. /\ p \in envelope
        /\ p \notin lost => handed[p] = 0
        /\ \A m \in Launches : proc[m].hand # None => proc[m].hand.turn # p
        /\ ToSet(queue) \subseteq Questions
    BY <2>3 DEF IInv, TypeOK, OneTurn, Once, ToSet
  <2>5. CardsAreSaved' /\ RecordIsTrue'
    BY <1>1 DEF IInv, CardsAreSaved, RecordIsTrue, Complete
  <2>6. OneTurn'
    <3>1. \A q \in ToSet(queue') : q \in envelope' /\ receipt'[q] = "queued"
      BY <1>1, <2>3 DEF IInv, OneTurn
    <3>2. ASSUME NEW m \in Launches
          PROVE  proc'[m].flight # None => proc'[m].flight \in envelope' \ ToSet(queue')
      BY <1>1, <2>2, <2>3 DEF IInv, OneTurn
    <3>3. ASSUME NEW m \in Launches \ {l}, proc'[m].hand # None
          PROVE  /\ proc'[m].hand.turn \in envelope' \ ToSet(queue')
                 /\ proc'[m].hand.step = "written" => handed'[proc'[m].hand.turn] > 0
                 /\ \A k \in Launches \ {m} :
                      proc'[k].hand # None => proc'[k].hand.turn # proc'[m].hand.turn
                 /\ proc'[m].hand.by # "reader" =>
                      Passing("hand")' /\ proc'[m].hand.turn = desk'.at
      BY <3>3, <1>1, <2>2, <2>3, <2>4 DEF IInv, OneTurn, Passing
    <3>4. /\ proc'[l].hand.turn \in envelope' \ ToSet(queue')
          /\ \A k \in Launches \ {l} :
               proc'[k].hand # None => proc'[k].hand.turn # proc'[l].hand.turn
          /\ proc'[l].hand.step = "taken" /\ proc'[l].hand.by = "reader"
      BY <1>1, <2>2, <2>3, <2>4
    <3>. QED BY <2>3, <3>1, <3>2, <3>3, <3>4 DEF OneTurn
  <2>7. CallOrTurn'
    BY <1>1 DEF IInv, CallOrTurn, Claimed
  <2>8. PassIsCurrent'
    <3>. PassIsCurrent
      BY DEF IInv
    <3>. QED BY <1>1, <2>3, PassAt DEF PassIsCurrent, Listed, Claimed
  <2>9. Once'
    BY <1>1, <2>2, <2>3, <2>4 DEF IInv, Once
  <2>10. CancelsAll' /\ QueueIsOwned'
    BY <1>1, <2>3, <2>4 DEF IInv, CancelsAll, QueueIsOwned, Cancelling
  <2>11. WaiterIsLive'
    BY <1>1 DEF IInv, WaiterIsLive
  <2>. QED BY <2>5, <2>6, <2>7, <2>8, <2>9, <2>10, <2>11 DEF IInv
<1>. QED BY <1>2, <1>3, <1>4

\* A turn that is given was not given before, and one that is refused is not.
LEMMA HandOverIInv ==
  ASSUME IInv, TypeOK', NEW l \in Launches, HandOver(l)
  PROVE  IInv'
<1> DEFINE p == proc[l].hand.turn
<1>1. /\ UNCHANGED <<rec, disk, owed, waiter, call, via, asker, session, queue, envelope,
                      receipt, desk, restarts, lost>>
      /\ proc[l].hand # None /\ proc[l].hand.step = "taken"
  BY DEF HandOver, store, calls, record
<1>2. p \in Questions
  BY <1>1 DEF IInv, TypeOK, Process, Hands
<1>3. /\ p \in envelope \ ToSet(queue)
      /\ p \notin lost => handed[p] = 0
      /\ \A m \in Launches \ {l} : proc[m].hand # None => proc[m].hand.turn # p
      /\ proc[l].hand.by # "reader" => Passing("hand") /\ p = desk.at
  BY <1>1, <1>2 DEF IInv, OneTurn, Once
<1>4. /\ \A m \in Launches \ {l} :
            proc'[m].hand = proc[m].hand /\ proc'[m].flight = proc[m].flight
      /\ proc'[l].hand # None
      /\ proc'[l].hand.turn = p /\ proc'[l].hand.by = proc[l].hand.by
      /\ \/ /\ proc'[l].hand.step = "written" /\ proc'[l].flight = p
            /\ handed' = HandedOn(p)
         \/ /\ proc'[l].hand.step = "refused" /\ proc'[l].flight = proc[l].flight
            /\ handed' = handed
  <2>1. proc[l] \in Process /\ proc[l].hand \in Hands
    BY <1>1 DEF IInv, TypeOK, Process
  <2>2. PICK taken \in Taken(l) :
       IF taken
       THEN /\ proc' = [proc EXCEPT ![l].hand.step = "written",
                                    ![l].turn = "running",
                                    ![l].flight = proc[l].hand.turn]
            /\ handed' = HandedOn(proc[l].hand.turn)
       ELSE /\ proc' = [proc EXCEPT ![l].hand.step = "refused"]
            /\ UNCHANGED handed
    BY DEF HandOver
  <2>. QED BY <1>1, <2>1, <2>2, NoneAssumption DEF IInv, TypeOK, Process, Hands
<1>5. \A q \in Questions :
        /\ handed[q] \in 0..2 /\ handed'[q] \in 0..2 /\ handed'[q] >= handed[q]
        /\ q # p => handed'[q] = handed[q]
        /\ handed[p] = 0 => handed'[p] < 2
        /\ proc'[l].hand.step = "written" => handed'[p] > 0
  BY <1>2, <1>4 DEF IInv, TypeOK, HandedOn
<1> HIDE DEF p
<1>6. CardsAreSaved' /\ RecordIsTrue'
  BY <1>1, <1>5 DEF IInv, CardsAreSaved, RecordIsTrue, Complete
<1>7. OneTurn'
  <2>1. \A q \in ToSet(queue') : q \in envelope' /\ receipt'[q] = "queued"
    BY <1>1 DEF IInv, OneTurn
  <2>2. ASSUME NEW m \in Launches
        PROVE  proc'[m].flight # None => proc'[m].flight \in envelope' \ ToSet(queue')
    BY <1>1, <1>3, <1>4 DEF IInv, OneTurn
  <2>3. ASSUME NEW m \in Launches \ {l}, proc'[m].hand # None
        PROVE  /\ proc'[m].hand.turn \in envelope' \ ToSet(queue')
               /\ proc'[m].hand.step = "written" => handed'[proc'[m].hand.turn] > 0
               /\ \A k \in Launches \ {m} :
                    proc'[k].hand # None => proc'[k].hand.turn # proc'[m].hand.turn
               /\ proc'[m].hand.by # "reader" =>
                    Passing("hand")' /\ proc'[m].hand.turn = desk'.at
    <3>1. proc'[m].hand.turn \in Questions
      BY <2>3, <1>4 DEF IInv, TypeOK, Process, Hands
    <3>. QED BY <3>1, <2>3, <1>1, <1>3, <1>4, <1>5 DEF IInv, OneTurn, Passing
  <2>4. /\ proc'[l].hand.turn \in envelope' \ ToSet(queue')
        /\ proc'[l].hand.step = "written" => handed'[proc'[l].hand.turn] > 0
        /\ \A k \in Launches \ {l} :
             proc'[k].hand # None => proc'[k].hand.turn # proc'[l].hand.turn
        /\ proc'[l].hand.by # "reader" =>
             Passing("hand")' /\ proc'[l].hand.turn = desk'.at
    BY <1>1, <1>2, <1>3, <1>4, <1>5 DEF Passing
  <2>. QED BY <1>1, <2>1, <2>2, <2>3, <2>4 DEF IInv, OneTurn
<1>8. CallOrTurn'
  BY <1>1, <1>5 DEF IInv, CallOrTurn, Claimed
<1>9. PassIsCurrent'
  <2>1. PassIsCurrent
    BY DEF IInv
  <2>2. desk # None /\ desk.kind = "pass" /\ desk.read = "received" => desk.at \in Questions
    BY PassAt DEF IInv, PassIsCurrent, TypeOK
  <2>. QED BY <1>1, <1>3, <1>5, <2>1, <2>2, PassAt DEF PassIsCurrent, Listed, Claimed
<1>10. Once'
  <2>1. ASSUME NEW q \in Questions \ lost
        PROVE  /\ handed'[q] < 2
               /\ q \in ToSet(queue') => handed'[q] = 0
               /\ handed'[q] > 0 /\ q \notin envelope' =>
                    /\ rec'[q].delivery \in {"Dispatching", "Delivered", "Uncertain", "Cancelled"}
                    /\ call'[q] # "claimed"
    BY <1>1, <1>3, <1>5 DEF IInv, Once
  <2>2. ASSUME NEW q \in Questions \ lost, NEW m \in Launches, proc'[m].hand # None,
               proc'[m].hand.step = "taken", proc'[m].hand.turn = q
        PROVE  handed'[q] = 0
    BY <2>2, <1>2, <1>3, <1>4, <1>5 DEF IInv, Once
  <2>. QED BY <1>1, <2>1, <2>2 DEF Once
<1>11. CancelsAll' /\ QueueIsOwned' /\ WaiterIsLive'
  BY <1>1 DEF IInv, CancelsAll, QueueIsOwned, WaiterIsLive, Cancelling
<1>. QED BY <1>6, <1>7, <1>8, <1>9, <1>10, <1>11 DEF IInv
\* What became of a turn is recorded once it left its carrier.
LEMMA RecordHandIInv ==
  ASSUME IInv, NEW l \in Launches, RecordHand(l), TypeOK'
  PROVE  IInv'
<1> DEFINE h == proc[l].hand
           drop == h.by = "reader" /\ h.step = "refused"
           fate == IF h.step = "written" THEN "dispatched" ELSE "failed"
<1>1. /\ UNCHANGED <<rec, disk, owed, waiter, call, via, asker, session, envelope,
                      restarts, handed, lost>>
      /\ h # None
      /\ queue' = IF drop THEN <<>> ELSE queue
      /\ receipt' = Recorded({h.turn} \cup (IF drop THEN ToSet(queue) ELSE {}), fate)
      /\ desk' = IF h.by = "reader" THEN desk
                 ELSE [desk EXCEPT !.step = IF fate = "failed" THEN "refused" ELSE "sent"]
  BY DEF RecordHand, store, calls, history
<1>2. \A m \in Launches :
         /\ proc'[m].hand = IF m = l THEN None ELSE proc[m].hand
         /\ proc'[m].flight = proc[m].flight
  BY DEF IInv, TypeOK, Process, RecordHand
<1>3. h.turn \in Questions /\ h.step \in {"written", "refused"}
  BY <1>1 DEF IInv, TypeOK, Process, Hands, RecordHand
<1> HIDE DEF h, drop, fate
<1>4. /\ \A q \in ToSet(queue') : q \in ToSet(queue) /\ ~drop
      /\ IsInjective(queue) => IsInjective(queue')
  BY <1>1, EmptyQueue
<1>5. \A q \in Questions : receipt'[q] # receipt[q] =>
        /\ receipt'[q] = fate
        /\ q = h.turn \/ (q \in ToSet(queue) /\ drop)
  BY <1>1, RecordedAt
<1>6. /\ h.turn \in envelope \ ToSet(queue)
      /\ h.step = "written" => handed[h.turn] > 0
      /\ \A m \in Launches \ {l} : proc[m].hand # None => proc[m].hand.turn # h.turn
      /\ h.by # "reader" => Passing("hand") /\ h.turn = desk.at
  BY <1>1 DEF IInv, OneTurn, h
<1>7. h.by # "reader" =>
        /\ desk # None /\ desk.kind = "pass" /\ desk.step = "hand" /\ desk.at = h.turn
        /\ desk' # None /\ desk'.kind = "pass" /\ desk'.step \in {"sent", "refused"}
        /\ desk'.at = desk.at /\ desk'.todo = desk.todo /\ desk'.was = desk.was
        /\ desk'.read = desk.read
  <2>1. h.by # "reader" => desk \in Passes
    BY <1>6 DEF IInv, TypeOK, Passes, Cancels, Passing
  <2>. QED BY <2>1, <1>1, <1>6, NoneAssumption DEF Passes, Passing, TypeOK
<1>8. h.by = "reader" => desk' = desk
  BY <1>1
<1>9. fate = "dispatched" => h.step = "written"
  BY DEF fate
<1>10. ToSet(queue) \subseteq Questions
  BY DEF IInv, TypeOK, ToSet
<1>11. CardsAreSaved'
  BY <1>1 DEF IInv, CardsAreSaved, Complete
<1>12. RecordIsTrue'
  BY <1>1, <1>5, <1>6, <1>9 DEF IInv, RecordIsTrue, OneTurn, drop, fate
<1>13. OneTurn'
  <2>1. \A q \in ToSet(queue') : q \in envelope' /\ receipt'[q] = "queued"
    BY <1>1, <1>4, <1>5, <1>6, <1>10 DEF IInv, OneTurn
  <2>2. ASSUME NEW m \in Launches, proc'[m].hand # None
        PROVE  proc'[m].hand.by # "reader" => Passing("hand")' /\ proc'[m].hand.turn = desk'.at
    BY <2>2, <1>2, <1>6, <1>7, <1>8 DEF IInv, OneTurn, Passing
  <2>3. ASSUME NEW m \in Launches
        PROVE  proc'[m].flight # None => proc'[m].flight \in envelope' \ ToSet(queue')
    BY <1>1, <1>2, <1>4 DEF IInv, OneTurn
  <2>4. ASSUME NEW m \in Launches, proc'[m].hand # None
        PROVE  /\ proc'[m].hand.turn \in envelope' \ ToSet(queue')
               /\ proc'[m].hand.step = "written" => handed'[proc'[m].hand.turn] > 0
               /\ \A k \in Launches \ {m} :
                    proc'[k].hand # None => proc'[k].hand.turn # proc'[m].hand.turn
    BY <2>4, <1>1, <1>2, <1>4 DEF IInv, OneTurn
  <2>. QED BY <2>1, <2>2, <2>3, <2>4, <1>1, <1>4 DEF IInv, OneTurn
<1>14. CallOrTurn'
  BY <1>1 DEF IInv, CallOrTurn, Claimed
<1>15. PassIsCurrent'
  <2>1. CASE h.by = "reader"
    BY <2>1, <1>1, <1>4, <1>8 DEF IInv, PassIsCurrent, Listed, Claimed
  <2>2. CASE h.by # "reader"
    BY <2>2, <1>1, <1>4, <1>6, <1>7 DEF IInv, PassIsCurrent, Listed, Claimed
  <2>. QED BY <2>1, <2>2
<1>16. Once'
  BY <1>1, <1>2, <1>4 DEF IInv, Once
<1>17. CancelsAll'
  BY <1>1, <1>4, <1>7, <1>8 DEF IInv, CancelsAll, Cancelling
<1>18. QueueIsOwned'
  BY <1>1, <1>4, <1>7, <1>8 DEF IInv, QueueIsOwned, Cancelling
<1>19. WaiterIsLive'
  BY <1>1 DEF IInv, WaiterIsLive
<1>. QED BY <1>11, <1>12, <1>13, <1>14, <1>15, <1>16, <1>17, <1>18, <1>19 DEF IInv

-----------------------------------------------------------------------------
(* What a call and the person do to a card *)

\* What one card's call and the person do: the chat and its record stay as
\* they are, and so does every other card but for what is saved of it.
LEMMA CardMoves ==
  ASSUME IInv, TypeOK', NEW q \in Questions,
         UNCHANGED <<proc, queue, envelope, receipt, desk, lost>>,
         \A p \in Questions \ {q} :
           /\ rec'[p] = rec[p] /\ disk'[p] \in {rec[p], disk[p]}
           /\ waiter'[p] = waiter[p] /\ call'[p] = call[p] /\ handed'[p] = handed[p],
         disk'[q] \in {rec'[q], disk[q]},
         rec[q].delivery = "Unasked" => disk'[q] = rec'[q],
         rec'[q].delivery # "Unasked",
         rec'[q].delivery = "Pending" => rec[q].delivery \in {"Unasked", "Pending"},
         rec'[q].delivery \notin {"Pending", "Cancelled"} => Complete(rec'[q]),
         rec'[q].delivery = "Delivered" => handed'[q] > 0,
         \/ handed'[q] = handed[q]
         \/ /\ q \notin envelope /\ handed'[q] >= handed[q]
            /\ q \in lost \/ handed'[q] < 2,
         handed'[q] > 0 /\ q \notin envelope \cup lost =>
           /\ rec'[q].delivery \in {"Dispatching", "Delivered", "Uncertain", "Cancelled"}
           /\ call'[q] # "claimed",
         q \in envelope => waiter'[q] = "none" /\ ~Claimed(q)',
         Claimed(q)' => /\ rec'[q].delivery \in {"Dispatching", "Uncertain", "Cancelled"}
                        /\ rec'[q].delivery # "Dispatching" => waiter'[q] = "none"
                        /\ call'[q] = "written" => handed'[q] > 0,
         waiter'[q] # "none" => call'[q] \notin {"none", "over"},
         q \in ToSet(queue) => rec'[q].delivery = rec[q].delivery,
         Listed(q) =>
           /\ waiter'[q] = "none"
           /\ Claimed(q)' \/ handed'[q] # handed[q] => Claimed(q)
           /\ \/ rec'[q].delivery = rec[q].delivery
              \/ /\ rec[q].delivery = "Dispatching" /\ Claimed(q)
                 /\ rec'[q].delivery \in {"Delivered", "Uncertain"}
  PROVE  IInv'
<1>1. \A p \in Questions : handed'[p] >= handed[p] /\ handed[p] \in 0..2 /\ handed'[p] \in 0..2
  BY DEF IInv, TypeOK
<1>2. ToSet(queue) \subseteq Questions
  BY DEF IInv, TypeOK, ToSet
<1>3. CardsAreSaved'
  <2>1. ASSUME NEW p \in Questions \ {q}
        PROVE  /\ rec'[p].delivery = "Unasked" <=> disk'[p].delivery = "Unasked"
               /\ \A r \in {rec'[p], disk'[p]} :
                    /\ r.delivery \notin {"Unasked", "Pending", "Cancelled"} => Complete(r)
                    /\ r.delivery = "Delivered" => handed'[p] > 0
    BY DEF IInv, CardsAreSaved, Complete
  <2>2. /\ rec'[q].delivery = "Unasked" <=> disk'[q].delivery = "Unasked"
        /\ \A r \in {rec'[q], disk'[q]} :
             /\ r.delivery \notin {"Unasked", "Pending", "Cancelled"} => Complete(r)
             /\ r.delivery = "Delivered" => handed'[q] > 0
    BY <1>1 DEF IInv, CardsAreSaved, Complete
  <2>. QED BY <2>1, <2>2 DEF CardsAreSaved, Complete
<1>4. RecordIsTrue'
  BY <1>1 DEF IInv, RecordIsTrue
<1>5. OneTurn'
  <2>1. ASSUME NEW l \in Launches, proc[l].hand # None
        PROVE  proc[l].hand.turn \in Questions
    BY <2>1 DEF IInv, TypeOK, Process, Hands
  <2>. QED BY <1>1, <2>1 DEF IInv, OneTurn, Passing
<1>6. CallOrTurn'
  <2>1. \A p \in Questions \ {q} : Claimed(p)' <=> Claimed(p)
    BY DEF Claimed
  <2>2. call'[q] = "written" => Claimed(q)'
    BY DEF Claimed
  <2>. QED BY <2>1, <2>2 DEF IInv, CallOrTurn
<1>7. PassIsCurrent'
  <2>1. PassIsCurrent /\ CallOrTurn
    BY DEF IInv
  <2>2. \A p \in Questions \ {q} : Claimed(p)' <=> Claimed(p)
    BY DEF Claimed
  <2>3. \A p \in Questions : Listed(p)' <=> Listed(p)
    BY DEF Listed
  <2>4. desk # None /\ desk.kind = "pass" /\ desk.read = "received" => desk.at \in Questions
    BY PassAt DEF IInv, PassIsCurrent, TypeOK
  <2>5. CASE desk # None /\ desk.kind = "pass"
    <3>1. desk.todo \subseteq Questions
      BY <2>5, PassAt DEF Passes
    <3>2. /\ desk'.step \in {"next", "judge"} =>
              \A p \in Questions : Listed(p)' /\ rec'[p].delivery # desk'.was[p] =>
                /\ rec'[p].delivery \in {"Delivered", "Uncertain"}
                /\ desk'.was[p] = "Dispatching" /\ p \notin envelope'
      BY <2>1, <2>2, <2>3, <2>5 DEF PassIsCurrent, CallOrTurn
    <3>3. desk'.step \notin {"next", "judge"} =>
            /\ rec'[desk'.at].delivery = "Dispatching" /\ ~Claimed(desk.at)'
            /\ desk'.at \notin envelope' \cup lost' => handed'[desk'.at] = 0
      BY <2>1, <2>2, <2>3, <2>5, PassAt DEF PassIsCurrent, Listed
    <3>4. desk'.step \notin {"next", "judge"} =>
            \A p \in desk'.todo : rec'[p].delivery # desk'.was[p] =>
              /\ rec'[p].delivery \in {"Delivered", "Uncertain"}
              /\ desk'.was[p] = "Dispatching" /\ p \notin envelope'
      BY <2>1, <2>2, <2>3, <2>5, <3>1 DEF PassIsCurrent, CallOrTurn, Listed
    <3>5. \A p \in Questions : Listed(p)' =>
            waiter'[p] = "none" /\ desk'.was[p] \in {"Ready", "Dispatching", "Queued"}
      BY <2>1, <2>3, <2>5 DEF PassIsCurrent
    <3>. QED BY <1>1, <2>1, <2>4, <2>5, <3>2, <3>3, <3>4, <3>5 DEF PassIsCurrent, Claimed
  <2>. QED BY <2>5 DEF PassIsCurrent
<1>8. Once'
  <2>1. ASSUME NEW p \in Questions \ lost
        PROVE  /\ handed'[p] < 2
               /\ p \in ToSet(queue') => handed'[p] = 0
               /\ handed'[p] > 0 /\ p \notin envelope' =>
                    /\ rec'[p].delivery \in {"Dispatching", "Delivered", "Uncertain", "Cancelled"}
                    /\ call'[p] # "claimed"
    BY <1>1 DEF IInv, Once, OneTurn
  <2>2. ASSUME NEW p \in Questions \ lost, NEW m \in Launches, proc'[m].hand # None,
               proc'[m].hand.step = "taken", proc'[m].hand.turn = p
        PROVE  handed'[p] = 0
    BY <2>2 DEF IInv, Once, OneTurn
  <2>. QED BY <2>1, <2>2 DEF Once
<1>9. CancelsAll'
  BY DEF IInv, TypeOK, Passes, Cancels, CancelsAll, Cancelling
<1>10. QueueIsOwned'
  BY <1>2 DEF IInv, QueueIsOwned, OneTurn, Cancelling
<1>11. WaiterIsLive'
  BY DEF IInv, WaiterIsLive
<1>. QED BY <1>3, <1>4, <1>5, <1>6, <1>7, <1>8, <1>9, <1>10, <1>11 DEF IInv

\* A card that is asked is on the file before anybody waits for its answer.
LEMMA AskIInv ==
  ASSUME IInv, TypeOK', NEW q \in Questions, NEW how, Ask(q, how)
  PROVE  IInv'
<1>1. /\ desk = None /\ rec[q].delivery = "Unasked"
      /\ UNCHANGED <<proc, queue, envelope, receipt, desk, lost, handed>>
      /\ waiter' = [waiter EXCEPT ![q] = "waits"]
      /\ call' = [call EXCEPT ![q] = "waiting"]
  BY DEF Ask, chat, record, history
<1>2. /\ rec'[q].delivery = "Pending" /\ disk'[q] = rec'[q]
      /\ \A p \in Questions \ {q} : rec'[p] = rec[p] /\ disk'[p] \in {rec[p], disk[p]}
  BY DEF IInv, TypeOK, Record, Save, Ask
<1>3. /\ waiter'[q] = "waits" /\ call'[q] = "waiting" /\ ~Claimed(q)'
      /\ \A p \in Questions \ {q} : waiter'[p] = waiter[p] /\ call'[p] = call[p]
  BY <1>1 DEF IInv, TypeOK, Claimed
<1>4. q \notin envelope /\ q \notin ToSet(queue) /\ ~Listed(q)
  BY <1>1 DEF IInv, RecordIsTrue, OneTurn, Listed
<1>5. q \notin lost => handed[q] = 0
  BY <1>1, <1>4 DEF IInv, Once, TypeOK
<1>6. handed'[q] = handed[q] /\ \A p \in Questions \ {q} : handed'[p] = handed[p]
  BY <1>1
<1>7. handed'[q] > 0 /\ q \notin envelope \cup lost => FALSE
  BY <1>1, <1>5
<1>. QED BY <1>1, <1>2, <1>3, <1>4, <1>6, <1>7, CardMoves

\* An answer opens no card that was not open.
LEMMA AnswerIInv ==
  ASSUME IInv, TypeOK', NEW q \in Questions, NEW given \in SUBSET Parts,
         NEW ok \in BOOLEAN, Answer(q, given, ok)
  PROVE  IInv'
<1> DEFINE answers == rec[q].answers \cup given
           completes == answers # rec[q].answers /\ answers = Parts
<1>1. /\ rec[q].delivery \notin {"Unasked", "Cancelled"}
      /\ UNCHANGED <<proc, queue, envelope, receipt, desk, lost, handed, call>>
      /\ waiter' = IF completes /\ waiter[q] = "waits"
                   THEN [waiter EXCEPT ![q] = "told"] ELSE waiter
  BY DEF Answer, chat, record, history
<1>2. /\ rec'[q].delivery = IF rec[q].delivery = "Pending" /\ answers = Parts
                            THEN "Ready" ELSE rec[q].delivery
      /\ rec'[q].answers = answers
      /\ disk'[q] \in {rec'[q], disk[q]}
      /\ \A p \in Questions \ {q} : rec'[p] = rec[p] /\ disk'[p] \in {rec[p], disk[p]}
  BY DEF IInv, TypeOK, Record, Keep, Answer
<1>3. /\ waiter'[q] # "none" <=> waiter[q] # "none"
      /\ \A p \in Questions \ {q} : waiter'[p] = waiter[p]
  BY <1>1 DEF IInv, TypeOK
<1>4. rec[q].answers = Parts => answers = Parts
  BY DEF IInv, TypeOK, Record
<1> HIDE DEF answers, completes
<1>5. rec[q].delivery = "Pending" =>
        ~Listed(q) /\ ~Claimed(q) /\ q \notin ToSet(queue)
          /\ (q \notin envelope \cup lost => handed[q] = 0)
  <2> SUFFICES ASSUME rec[q].delivery = "Pending"
               PROVE  ~Listed(q) /\ ~Claimed(q) /\ q \notin ToSet(queue)
                        /\ (q \notin envelope \cup lost => handed[q] = 0)
    OBVIOUS
  <2>1. q \notin ToSet(queue)
    BY DEF IInv, QueueIsOwned, CancelsAll
  <2>. QED BY <2>1 DEF IInv, PassIsCurrent, CallOrTurn, Once, Listed, TypeOK
<1>6. Claimed(q)' <=> Claimed(q)
  BY <1>1 DEF Claimed
<1>7. /\ Listed(q) => waiter[q] = "none"
      /\ q \in envelope => waiter[q] = "none" /\ ~Claimed(q)
      /\ Claimed(q) => /\ rec[q].delivery \in {"Dispatching", "Uncertain", "Cancelled"}
                       /\ rec[q].delivery # "Dispatching" => waiter[q] = "none"
                       /\ call[q] = "written" => handed[q] > 0
      /\ waiter[q] # "none" => call[q] \notin {"none", "over"}
      /\ rec[q].delivery = "Delivered" => handed[q] > 0
      /\ rec[q].delivery \notin {"Unasked", "Pending", "Cancelled"} => rec[q].answers = Parts
      /\ q \notin lost /\ handed[q] > 0 /\ q \notin envelope =>
           /\ rec[q].delivery \in {"Dispatching", "Delivered", "Uncertain", "Cancelled"}
           /\ call[q] # "claimed"
  BY DEF IInv, PassIsCurrent, Listed, CallOrTurn, WaiterIsLive, CardsAreSaved, Complete, Once
<1>8. rec'[q].delivery \notin {"Pending", "Cancelled"} => Complete(rec'[q])
  BY <1>1, <1>2, <1>4, <1>7 DEF Complete
<1>9. handed'[q] = handed[q] /\ \A p \in Questions \ {q} : handed'[p] = handed[p]
  BY <1>1
<1>10. handed'[q] > 0 /\ q \notin envelope \cup lost =>
           /\ rec'[q].delivery \in {"Dispatching", "Delivered", "Uncertain", "Cancelled"}
           /\ call'[q] # "claimed"
  BY <1>1, <1>2, <1>5, <1>7 DEF IInv, TypeOK
<1>11. rec'[q].delivery = rec[q].delivery \/ (rec[q].delivery = "Pending" /\ rec'[q].delivery = "Ready")
  BY <1>2
<1>. QED BY <1>1, <1>2, <1>3, <1>5, <1>6, <1>7, <1>8, <1>9, <1>10, <1>11, CardMoves

\* A debt is settled: the file holds what memory holds.
LEMMA SettleIInv ==
  ASSUME IInv, TypeOK', Settle
  PROVE  IInv'
<1>1. /\ disk' = rec
      /\ UNCHANGED <<rec, calls, chat, record, desk, history>>
  BY DEF Settle
<1> USE DEF calls, chat, record, history
<1>2. CardsAreSaved' /\ RecordIsTrue' /\ WaiterIsLive' /\ CallOrTurn'
  BY <1>1 DEF IInv, CardsAreSaved, Complete, RecordIsTrue, WaiterIsLive, CallOrTurn, Claimed
<1>3. OneTurn'
  BY <1>1 DEF IInv, OneTurn, Passing
<1>4. PassIsCurrent'
  BY <1>1 DEF IInv, PassIsCurrent, Listed, Claimed
<1>5. Once' /\ CancelsAll' /\ QueueIsOwned'
  BY <1>1 DEF IInv, Once, CancelsAll, QueueIsOwned, Cancelling
<1>. QED BY <1>2, <1>3, <1>4, <1>5 DEF IInv

\* What IInv says of a card whose call is woken, and of one it may take.
LEMMA WokenCard ==
  ASSUME IInv, NEW q \in Questions, call[q] \in {"woken", "claimed", "written", "unwritten"}
  PROVE  /\ rec[q].delivery = "Delivered" => handed[q] > 0
         /\ rec[q].delivery \notin {"Unasked", "Pending", "Cancelled"} => Complete(rec[q])
         /\ Listed(q) => waiter[q] = "none"
         /\ Claimed(q) => /\ rec[q].delivery \in {"Dispatching", "Uncertain", "Cancelled"}
                          /\ rec[q].delivery # "Dispatching" => waiter[q] = "none"
                          /\ call[q] = "written" => handed[q] > 0
                          /\ q \notin envelope /\ q \notin ToSet(queue)
                          /\ call[q] = "claimed" /\ q \notin lost => handed[q] = 0
         /\ Owns(q) => /\ q \notin envelope /\ q \notin ToSet(queue) /\ ~Listed(q)
                       /\ q \notin lost => handed[q] = 0
         /\ q \in envelope => waiter[q] = "none"
         /\ q \notin lost /\ handed[q] > 0 /\ q \notin envelope =>
              /\ rec[q].delivery \in {"Dispatching", "Delivered", "Uncertain", "Cancelled"}
              /\ call[q] # "claimed"
         /\ handed[q] \in 0..2
BY DEF IInv, TypeOK, CardsAreSaved, PassIsCurrent, Listed, CallOrTurn, Claimed, OneTurn, Once, Owns

\* The tool's call takes the answer, and with it the card from the pass.
LEMMA TakeToolIInv ==
  ASSUME IInv, TypeOK', NEW q \in Questions, NEW ok \in BOOLEAN, TakeTool(q, ok)
  PROVE  IInv'
<1>1. /\ UNCHANGED <<proc, queue, envelope, receipt, desk, lost>>
      /\ call' = [call EXCEPT ![q] = "leaving"] /\ call[q] = "woken"
  BY DEF TakeTool, chat, record
<1>2. /\ call'[q] = "leaving" /\ ~Claimed(q)' /\ ~Claimed(q)
      /\ \A p \in Questions \ {q} : call'[p] = call[p]
  BY <1>1 DEF IInv, TypeOK, Claimed
<1>3. CASE /\ ~Owns(q)
           /\ UNCHANGED <<store, waiter, handed>>
  <2>1. rec'[q].delivery # "Unasked"
    BY <1>1, <1>3 DEF IInv, CallOrTurn, store
  <2>2. /\ rec' = rec /\ disk' = disk /\ waiter' = waiter /\ handed' = handed
    BY <1>3 DEF store
  <2>3. disk'[q] \in {rec'[q], disk[q]} /\ handed'[q] = handed[q]
    BY <2>2
  <2>4. rec[q].delivery = rec'[q].delivery /\ (waiter'[q] # "none" => call'[q] \notin {"none", "over"})
    BY <2>2, <1>2
  <2>. QED
    BY <1>1, <1>2, <2>1, <2>2, <2>3, <2>4, WokenCard, CardMoves
<1>4. CASE /\ Owns(q)
           /\ Keep(Moved(q, "Delivered"), ok)
           /\ waiter' = WithoutWaiters({q})
           /\ handed' = HandedOn(q)
  <2>1. /\ waiter'[q] = "none" /\ rec[q].delivery = "Ready"
        /\ \A p \in Questions \ {q} : waiter'[p] = waiter[p] /\ handed'[p] = handed[p]
    BY <1>4 DEF WithoutWaiters, HandedOn, Owns, IInv, TypeOK
  <2>2. /\ handed'[q] > 0 /\ handed'[q] >= handed[q]
        /\ handed[q] = 0 => handed'[q] < 2
    BY <1>4, <1>1, WokenCard DEF HandedOn, IInv, TypeOK
  <2>3. /\ rec'[q].delivery = "Delivered" /\ rec'[q].answers = rec[q].answers
        /\ disk'[q] \in {rec'[q], disk[q]}
        /\ \A p \in Questions \ {q} : rec'[p] = rec[p] /\ disk'[p] \in {rec[p], disk[p]}
    BY <1>4, MovedAt
  <2>4. Complete(rec'[q])
    BY <1>1, <2>1, <2>3, WokenCard DEF Complete
  <2>. QED
    BY <1>1, <1>2, <1>4, <2>1, <2>2, <2>3, <2>4, WokenCard, CardMoves
<1>. QED BY <1>3, <1>4 DEF TakeTool

\* The provider's call claims the answer, and with it the card from the pass.
LEMMA TakeNativeIInv ==
  ASSUME IInv, TypeOK', NEW q \in Questions, NEW ok \in BOOLEAN, TakeNative(q, ok)
  PROVE  IInv'
<1>1. UNCHANGED <<proc, queue, envelope, receipt, desk, lost, handed>> /\ call[q] = "woken"
  BY DEF TakeNative, chat, record, history
<1>2. \A p \in Questions \ {q} : call'[p] = call[p] /\ waiter'[p] = waiter[p]
  BY DEF TakeNative, WithoutWaiters, IInv, TypeOK
<1>3. CASE /\ Owns(q)
           /\ call' = [call EXCEPT ![q] = "claimed"]
           /\ Keep(Moved(q, "Dispatching"), ok)
           /\ UNCHANGED waiter
  <2>1. call'[q] = "claimed"
    BY <1>3 DEF IInv, TypeOK
  <2>2. /\ rec'[q].delivery = "Dispatching" /\ rec'[q].answers = rec[q].answers
        /\ disk'[q] \in {rec'[q], disk[q]}
        /\ \A p \in Questions \ {q} : rec'[p] = rec[p] /\ disk'[p] \in {rec[p], disk[p]}
    BY <1>3, MovedAt
  <2>3. Complete(rec'[q]) /\ rec[q].delivery = "Ready"
    BY <1>1, <1>3, <2>2, WokenCard DEF Complete, Owns
  <2>4. handed'[q] = handed[q] /\ \A p \in Questions \ {q} : handed'[p] = handed[p]
    BY <1>1
  <2>5. handed'[q] > 0 => q \in lost
    BY <1>1, <1>3, <2>4, WokenCard
  <2>. QED
    BY <1>1, <1>2, <1>3, <2>1, <2>2, <2>3, <2>4, <2>5, WokenCard, CardMoves
<1>4. CASE \/ /\ rec[q].delivery = "Cancelled"
              /\ call' = [call EXCEPT ![q] = "over"]
              /\ waiter' = WithoutWaiters({q})
              /\ UNCHANGED store
           \/ /\ rec[q].delivery # "Cancelled" /\ ~Owns(q)
              /\ call' = [call EXCEPT ![q] = "leaving"]
              /\ UNCHANGED <<store, waiter>>
  BY <1>1, <1>4, Less
     DEF IInv, TypeOK, OneTurn, WithoutWaiters, store
<1>. QED BY <1>3, <1>4 DEF TakeNative

\* A claimed answer is written once.
LEMMA NativeWriteIInv ==
  ASSUME IInv, TypeOK', NEW q \in Questions, NativeWrite(q)
  PROVE  IInv'
<1>1. /\ UNCHANGED <<rec, disk, waiter, proc, queue, envelope, receipt, desk, lost>>
      /\ call[q] = "claimed" /\ Claimed(q)
  BY DEF NativeWrite, store, chat, record, Claimed
<1>2. \A p \in Questions \ {q} : call'[p] = call[p] /\ handed'[p] = handed[p]
  BY DEF NativeWrite, HandedOn, IInv, TypeOK
<1>3. \/ call'[q] = "written" /\ handed'[q] > 0 /\ handed'[q] >= handed[q]
           /\ (handed[q] = 0 => handed'[q] < 2)
      \/ call'[q] = "unwritten" /\ handed'[q] = handed[q]
  <2>1. PICK taken \in Taken(asker[q]) :
          /\ call' = [call EXCEPT ![q] = IF taken THEN "written" ELSE "unwritten"]
          /\ handed' = IF taken THEN HandedOn(q) ELSE handed
    BY DEF NativeWrite
  <2>. QED BY <2>1 DEF HandedOn, IInv, TypeOK
<1>4. /\ rec[q].delivery \in {"Dispatching", "Uncertain", "Cancelled"}
      /\ rec[q].delivery # "Dispatching" => waiter[q] = "none"
      /\ q \notin envelope /\ q \notin ToSet(queue)
      /\ q \notin lost => handed[q] = 0
      /\ rec[q].delivery # "Cancelled" => Complete(rec[q])
      /\ Listed(q) => waiter[q] = "none"
  BY <1>1, WokenCard
<1>5. /\ rec'[q] = rec[q] /\ disk'[q] \in {rec'[q], disk[q]}
      /\ waiter'[q] = waiter[q]
      /\ Claimed(q)' /\ call'[q] \notin {"claimed", "none", "over"}
  BY <1>1, <1>3 DEF Claimed
<1>. QED
  BY <1>1, <1>2, <1>3, <1>4, <1>5, CardMoves

\* A claim that still stands is settled by what became of its write.
LEMMA NativeWrittenIInv ==
  ASSUME IInv, TypeOK', NEW q \in Questions, NEW ok \in BOOLEAN, NativeWritten(q, ok)
  PROVE  IInv'
<1>1. /\ UNCHANGED <<proc, queue, envelope, receipt, desk, lost, handed>>
      /\ call[q] \in {"written", "unwritten"} /\ Claimed(q)
      /\ call' = [call EXCEPT ![q] = "over"]
  BY DEF NativeWritten, chat, record, history, Claimed
<1>2. /\ call'[q] = "over" /\ ~Claimed(q)'
      /\ \A p \in Questions \ {q} : call'[p] = call[p]
  BY <1>1 DEF IInv, TypeOK, Claimed
<1>3. CASE /\ rec[q].delivery = "Dispatching"
           /\ Keep(Moved(q, NativeFate(q)), ok)
           /\ waiter' = WithoutWaiters({q})
  <2>1. /\ rec'[q].delivery = NativeFate(q) /\ rec'[q].answers = rec[q].answers
        /\ disk'[q] \in {rec'[q], disk[q]}
        /\ \A p \in Questions \ {q} : rec'[p] = rec[p] /\ disk'[p] \in {rec[p], disk[p]}
    BY <1>3, MovedAt
  <2>2. /\ NativeFate(q) \in {"Delivered", "Uncertain"}
        /\ NativeFate(q) = "Delivered" => handed[q] > 0
        /\ q \notin envelope /\ q \notin ToSet(queue)
        /\ Listed(q) => waiter[q] = "none"
    BY <1>1, WokenCard DEF NativeFate
  <2>3. waiter'[q] = "none" /\ \A p \in Questions \ {q} : waiter'[p] = waiter[p]
    BY <1>3 DEF WithoutWaiters
  <2>4. Complete(rec'[q])
    BY <1>1, <1>3, <2>1, WokenCard DEF Complete
  <2>5. handed'[q] = handed[q] /\ \A p \in Questions \ {q} : handed'[p] = handed[p]
    BY <1>1
  <2>. QED
    BY <1>1, <1>2, <1>3, <2>1, <2>2, <2>3, <2>4, <2>5, CardMoves
<1>4. CASE /\ rec[q].delivery # "Dispatching"
           /\ UNCHANGED <<store, waiter>>
  <2>1. waiter'[q] = "none"
    BY <1>1, <1>4, WokenCard
  <2>. QED
    BY <1>1, <1>2, <1>4, <2>1, Less DEF IInv, TypeOK, OneTurn, store
<1>. QED BY <1>3, <1>4 DEF NativeWritten

\* A retry takes up a card that was never given to anybody.
LEMMA RetryIInv ==
  ASSUME IInv, TypeOK', NEW q \in Questions, Retry(q)
  PROVE  IInv'
<1>1. /\ UNCHANGED <<proc, queue, envelope, receipt, desk, lost, handed, call, waiter>>
      /\ rec[q].delivery = "Failed" /\ desk = None
      /\ Save(Moved(q, "Ready"))
  BY DEF Retry, Retryable, calls, chat, record, history
<1>2. /\ rec'[q].delivery = "Ready" /\ rec'[q].answers = rec[q].answers
      /\ disk'[q] \in {rec'[q], disk[q]}
      /\ \A p \in Questions \ {q} : rec'[p] = rec[p] /\ disk'[p] \in {rec[p], disk[p]}
  BY <1>1, MovedAt
<1>3. /\ ~Listed(q) /\ ~Claimed(q) /\ q \notin ToSet(queue)
      /\ q \notin envelope \cup lost => handed[q] = 0
      /\ q \in envelope => waiter[q] = "none"
      /\ waiter[q] # "none" => call[q] \notin {"none", "over"}
      /\ Complete(rec[q])
  BY <1>1 DEF IInv, TypeOK, Listed, CallOrTurn, Once, OneTurn, QueueIsOwned, Cancelling,
              WaiterIsLive, CardsAreSaved
<1>4. Complete(rec'[q]) /\ ~Claimed(q)'
  BY <1>1, <1>2, <1>3 DEF Complete, Claimed
<1>5. /\ handed'[q] = handed[q] /\ waiter'[q] = waiter[q] /\ call'[q] = call[q]
      /\ handed'[q] > 0 => q \in envelope \cup lost
      /\ \A p \in Questions \ {q} :
           handed'[p] = handed[p] /\ waiter'[p] = waiter[p] /\ call'[p] = call[p]
  BY <1>1, <1>3
<1>. QED BY <1>1, <1>2, <1>3, <1>4, <1>5, CardMoves

-----------------------------------------------------------------------------
(* Cancel and Stop *)

\* A cancel looks up every queued turn of the cards it is about.
LEMMA CancelBeginsIInv ==
  ASSUME IInv, TypeOK', NEW kind \in {"card", "interrupt", "stop"},
         NEW ids \in SUBSET Questions, CancelBegins(kind, ids)
  PROVE  IInv'
<1>1. /\ desk = None
      /\ desk' = [kind |-> kind, ids |-> ids, todo |-> Outbox \cap ids, step |-> "keep"]
      /\ UNCHANGED <<rec, disk, envelope, handed, lost, queue, waiter, call, proc, receipt>>
  BY DEF CancelBegins, ToTakeBack, store, calls, chat, record, history
<1>2. Cancelling' /\ desk'.step = "keep"
  <2>1. desk' \in Cancels
    BY <1>1 DEF Cancels, Outbox
  <2>. QED BY <1>1, <2>1, NoneAssumption DEF Cancelling
<1>3. PassIsCurrent'
  BY <1>1, <1>2 DEF PassIsCurrent, Cancelling
<1>4. ToSet(queue) \cap ids \subseteq Outbox
  <2>1. ASSUME NEW q \in ToSet(queue) PROVE q \in Outbox
    <3>1. q \in Questions
      BY DEF IInv, TypeOK, ToSet
    <3>. QED BY <1>1, <3>1 DEF IInv, QueueIsOwned, Cancelling, CardsAreSaved, Outbox
  <2>. QED BY <2>1
<1>5. CancelsAll'
  BY <1>1, <1>2, <1>4 DEF CancelsAll, Outbox
<1>6. QueueIsOwned'
  BY <1>1 DEF IInv, QueueIsOwned, Cancelling
<1>. QED
  BY <1>1, <1>3, <1>5, <1>6, Less DEF IInv, OneTurn, Passing

\* The cards it cancels lose their callers and, if their turns are queued,
\* stay with the cancel until these are taken back.
LEMMA CancelKeepsIInv ==
  ASSUME IInv, TypeOK', NEW ok \in BOOLEAN, CancelKeeps(ok)
  PROVE  IInv'
<1> DEFINE Q == {q \in desk.ids : Open(rec[q])}
<1>1. /\ Cancelling /\ desk.step = "keep" /\ desk \in Cancels
      /\ desk' = [desk EXCEPT !.step = "unqueue"]
      /\ UNCHANGED <<envelope, handed, lost, queue, call, proc, receipt>>
  BY DEF IInv, TypeOK, Passes, Cancelling, CancelKeeps, chat, record, history
<1>2. /\ Cancelling' /\ desk'.step = "unqueue" /\ desk'.todo = desk.todo
      /\ desk.todo \subseteq Questions /\ desk.ids \subseteq Questions
      /\ ToSet(queue) \cap desk.ids \subseteq desk.todo
      /\ \A q \in desk.todo : rec[q].delivery \notin {"Unasked", "Pending"}
  BY <1>1, NoneAssumption DEF Cancels, Cancelling, IInv, CancelsAll
<1>3. /\ \A q \in Questions : waiter'[q] = IF q \in Q THEN "none" ELSE waiter[q]
      /\ \A q \in Questions : rec'[q].answers = rec[q].answers
      /\ \A q \in Questions : rec'[q].delivery = IF q \in Q THEN "Cancelled"
                                                 ELSE rec[q].delivery
      /\ disk' \in {rec', disk}
  <2>1. CASE Q = {}
    BY <2>1 DEF CancelKeeps, store
  <2>2. CASE Q # {}
    <3>1. /\ rec' = [q \in Questions |->
                        IF q \in Q THEN [rec[q] EXCEPT !.delivery = "Cancelled"]
                        ELSE rec[q]]
          /\ disk' \in {rec', disk}
          /\ waiter' = WithoutWaiters(Q)
      BY <2>2 DEF CancelKeeps, Keep
    <3>2. \A q \in Questions : rec[q] \in Record
      BY DEF IInv, TypeOK
    <3> HIDE DEF Q
    <3>. QED BY <3>1, <3>2 DEF WithoutWaiters, Record
  <2>. QED BY <2>1, <2>2
<1>4. \A q \in Q : /\ q \in Questions /\ q \in desk.ids
                   /\ rec[q].delivery \notin {"Unasked", "Delivered", "Cancelled"}
  BY <1>2 DEF Open
<1> HIDE DEF Q
<1>5. ToSet(queue) \subseteq Questions
  BY DEF IInv, TypeOK, ToSet
<1>6. CardsAreSaved'
  <2>1. \A q \in Questions : Complete(rec'[q]) <=> Complete(rec[q])
    BY <1>3 DEF Complete
  <2>2. CASE disk' = rec'
    BY <1>1, <1>3, <1>4, <2>1, <2>2 DEF IInv, CardsAreSaved, Complete
  <2>3. CASE disk' = disk
    BY <1>1, <1>3, <1>4, <2>1, <2>3 DEF IInv, CardsAreSaved, Complete
  <2>. QED BY <1>3, <2>2, <2>3
<1>7. RecordIsTrue' /\ WaiterIsLive'
  BY <1>1, <1>3, <1>4 DEF IInv, RecordIsTrue, WaiterIsLive
<1>8. OneTurn'
  BY <1>1 DEF IInv, OneTurn, Passing, Cancelling
<1>9. CallOrTurn'
  BY <1>1, <1>3, <1>4 DEF IInv, CallOrTurn, Claimed
<1>10. PassIsCurrent'
  BY <1>2 DEF PassIsCurrent, Cancelling
<1>11. Once'
  BY <1>1, <1>3 DEF IInv, Once
<1>12. CancelsAll'
  BY <1>2, <1>3, <1>4 DEF CancelsAll
<1>13. QueueIsOwned'
  BY <1>1, <1>2, <1>3, <1>4, <1>5 DEF IInv, QueueIsOwned
<1>. QED BY <1>6, <1>7, <1>8, <1>9, <1>10, <1>11, <1>12, <1>13 DEF IInv

\* A turn that is taken back is not in the queue any more.
LEMMA CancelUnqueuesIInv ==
  ASSUME IInv, TypeOK', NEW q \in Questions, CancelUnqueues(q)
  PROVE  IInv'
<1>1. /\ Cancelling /\ desk.step = "unqueue" /\ desk \in Cancels /\ q \in desk.todo
      /\ desk' = [desk EXCEPT !.todo = @ \ {q}]
      /\ UNCHANGED <<rec, disk, envelope, handed, lost, waiter, call, proc>>
  BY DEF IInv, TypeOK, Passes, Cancelling, CancelUnqueues, store, calls, history
<1>2. /\ Cancelling' /\ desk'.step = "unqueue" /\ desk'.todo = desk.todo \ {q}
      /\ desk.todo \subseteq Questions
  BY <1>1, NoneAssumption DEF Cancels, Cancelling
<1>3. /\ IsInjective(queue') /\ ToSet(queue') \subseteq ToSet(queue) \ {q}
      /\ \A p \in Questions : receipt'[p] # receipt[p] =>
           receipt'[p] = "cancelled" /\ p = q /\ q \in ToSet(queue)
  <2>1. ASSUME NEW at \in DOMAIN queue, queue[at] = q, queue' = RemoveAt(queue, at),
               receipt' = Recorded({q}, "cancelled")
        PROVE  /\ IsInjective(queue') /\ ToSet(queue') \subseteq ToSet(queue) \ {q}
               /\ \A p \in Questions : receipt'[p] # receipt[p] =>
                    receipt'[p] = "cancelled" /\ p = q /\ q \in ToSet(queue)
    <3>1. queue \in Seq(Questions) /\ IsInjective(queue)
      BY DEF IInv, TypeOK, OneTurn
    <3>2. IsInjective(queue') /\ ToSet(queue') \subseteq ToSet(queue) \ {q}
      BY <2>1, <3>1, TakeOne
    <3>3. q \in ToSet(queue)
      BY <2>1 DEF ToSet
    <3>. QED BY <2>1, <3>2, <3>3, RecordedAt
  <2>2. CASE q \notin ToSet(queue) /\ UNCHANGED <<queue, receipt>>
    BY <2>2 DEF IInv, OneTurn
  <2>. QED BY <2>1, <2>2 DEF CancelUnqueues
<1>4. \A p \in Questions :
        receipt'[p] # receipt[p] =>
          receipt'[p] = "cancelled" /\ p \in envelope /\ p \notin ToSet(queue')
  BY <1>3 DEF IInv, OneTurn
<1>5. PassIsCurrent'
  BY <1>2 DEF PassIsCurrent, Cancelling
<1>6. CancelsAll' /\ QueueIsOwned'
  BY <1>1, <1>2, <1>3 DEF IInv, CancelsAll, QueueIsOwned
<1>7. ~Passing("hand")
  BY <1>1 DEF Passing, Cancelling
<1>. QED
  BY <1>1, <1>3, <1>4, <1>5, <1>6, <1>7, Less

\* The lock is let go when every turn has been taken back.
LEMMA CancelEndsIInv ==
  ASSUME IInv, TypeOK', CancelEnds \/ StopEnds
  PROVE  IInv'
<1>1. /\ Cancelling /\ desk \in Cancels /\ desk.todo = {}
      /\ UNCHANGED <<rec, disk, envelope, handed, lost, waiter, call>>
      /\ desk' = None \/ desk' = [desk EXCEPT !.step = "end"]
  BY DEF IInv, TypeOK, CancelsAll, Passes, Cancelling, CancelEnds, StopEnds, store, calls,
         chat, record, history
<1>2. desk' # None => desk'.kind = desk.kind /\ desk'.kind # "pass" /\ desk'.todo = {}
                      /\ desk'.step = "end"
  BY <1>1 DEF Cancels
<1>3. \A l \in Launches : proc'[l].hand = proc[l].hand /\ proc'[l].flight = proc[l].flight
  <2>1. \/ proc' = proc
        \/ session \in Launches /\ proc' = [proc EXCEPT ![session].turn = "cutOff"]
    BY DEF IInv, TypeOK, CancelEnds, StopEnds, chat
  <2>. QED BY <2>1 DEF IInv, TypeOK, Process
<1>4. \/ UNCHANGED <<queue, receipt>>
      \/ queue' = <<>> /\ receipt' = Recorded(ToSet(queue), "failed")
  BY DEF CancelEnds, StopEnds, TakeOut, ForgetQueue, chat, record
<1>5. /\ IsInjective(queue') /\ ToSet(queue') \subseteq ToSet(queue)
      /\ \A p \in Questions : receipt'[p] # receipt[p] =>
           receipt'[p] = "failed" /\ p \in envelope /\ p \notin ToSet(queue')
  BY <1>4, EmptyQueue, RecordedAt DEF IInv, OneTurn
<1>6. PassIsCurrent'
  BY <1>2 DEF PassIsCurrent
<1>7. CancelsAll'
  BY <1>2 DEF CancelsAll, Cancelling
<1>8. QueueIsOwned'
  BY <1>1, <1>5 DEF IInv, QueueIsOwned
<1>9. ~Passing("hand")
  BY <1>1 DEF Passing, Cancelling
<1>. QED
  BY <1>1, <1>3, <1>5, <1>6, <1>7, <1>8, <1>9, Less

-----------------------------------------------------------------------------
(* The delivery pass *)

\* A pass begins with cards that are nobody else's.
LEMMA PassBeginsIInv ==
  ASSUME IInv, TypeOK', PassBegins
  PROVE  IInv'
<1>1. /\ desk = None
      /\ desk' = [kind |-> "pass", todo |-> Outbox,
                  was |-> [q \in Questions |-> IF q \in Outbox THEN rec[q].delivery
                                               ELSE "Unasked"],
                  at |-> None, read |-> "none", step |-> "next"]
      /\ UNCHANGED <<rec, disk, envelope, handed, lost, queue, waiter, call, proc, receipt>>
  BY DEF PassBegins, store, calls, chat, record, history
<1>2. PassIsCurrent'
  BY <1>1, QuestionsAssumption DEF PassIsCurrent, Listed, Outbox
<1>3. CancelsAll'
  BY <1>1 DEF CancelsAll, Cancelling
<1>4. QueueIsOwned'
  BY <1>1 DEF IInv, QueueIsOwned, Cancelling
<1>. QED
  BY <1>1, <1>2, <1>3, <1>4, Less DEF IInv, OneTurn, Passing

\* The receipt it reads is of a turn on record.
LEMMA PassReadsIInv ==
  ASSUME IInv, TypeOK', NEW q \in Questions, PassReads(q)
  PROVE  IInv'
<1>1. /\ desk # None /\ desk.kind = "pass" /\ desk.step = "next" /\ q \in desk.todo
      /\ desk \in Passes
      /\ UNCHANGED <<rec, disk, envelope, handed, lost, queue, waiter, call, proc, receipt>>
  BY PassAt DEF PassReads, Passing, store, calls, chat, record, history
<1>2. /\ desk' # None /\ desk'.kind = "pass" /\ desk'.step = "judge" /\ desk'.at = q
      /\ desk'.todo = desk.todo \ {q} /\ desk'.was = desk.was /\ desk'.read = receipt[q]
  <2>1. /\ desk' = [desk EXCEPT !.todo = @ \ {q}, !.at = q, !.read = receipt[q],
                                !.step = "judge"]
        /\ receipt[q] \in Receipts
    BY DEF PassReads, IInv, TypeOK
  <2>2. desk' \in Passes
    BY <1>1, <2>1 DEF Passes
  <2>3. desk' # None
    BY <2>2, NoneAssumption
  <2>. QED BY <1>1, <2>1, <2>3 DEF Passes
<1>3. /\ receipt[q] # "none" => q \in envelope
      /\ receipt[q] = "received" => handed[q] > 0
      /\ q \in ToSet(queue) => receipt[q] = "queued"
  BY DEF IInv, RecordIsTrue, OneTurn
<1>4. PassIsCurrent'
  <2>1. \A p \in Questions : Listed(p)' <=> Listed(p)
    <3>1. desk.at = None
      BY <1>1 DEF IInv, PassIsCurrent
    <3>. QED BY <1>1, <1>2, <3>1, QuestionsAssumption DEF Listed
  <2>2. PassIsCurrent /\ q # None
    BY QuestionsAssumption DEF IInv
  <2>. QED BY <1>1, <1>2, <1>3, <2>1, <2>2 DEF PassIsCurrent
<1>5. CancelsAll'
  BY <1>2 DEF CancelsAll, Cancelling
<1>6. QueueIsOwned'
  BY <1>1 DEF IInv, QueueIsOwned, Cancelling
<1>. QED
  BY <1>1, <1>4, <1>5, <1>6, Less DEF IInv, OneTurn, Passing

\* What the pass does to the card it is at.
LEMMA PassMoves ==
  ASSUME IInv, TypeOK', NEW q \in Questions,
         desk # None, desk.kind = "pass", desk.step # "hand",
         desk' = None \/ desk'.kind = "pass",
         UNCHANGED <<proc, queue, envelope, receipt, lost, handed, call>>,
         \A p \in Questions \ {q} :
           rec'[p] = rec[p] /\ disk'[p] \in {rec[p], disk[p]} /\ waiter'[p] = waiter[p],
         waiter'[q] = "none",
         disk'[q] \in {rec'[q], disk[q]},
         rec'[q].delivery \notin {"Unasked", "Pending"}, rec[q].delivery # "Unasked",
         rec'[q].delivery # "Cancelled" => Complete(rec'[q]),
         rec'[q].delivery = "Delivered" => handed[q] > 0,
         q \in ToSet(queue) => rec'[q].delivery \in {"Dispatching", "Queued"},
         Claimed(q) => rec'[q].delivery \in {"Dispatching", "Uncertain", "Cancelled"},
         handed[q] > 0 /\ q \notin envelope \cup lost =>
           rec'[q].delivery \in {"Dispatching", "Delivered", "Uncertain", "Cancelled"},
         PassIsCurrent'
  PROVE  IInv'
<1>1. CardsAreSaved'
  <2>1. ASSUME NEW p \in Questions \ {q}
        PROVE  /\ rec'[p].delivery = "Unasked" <=> disk'[p].delivery = "Unasked"
               /\ \A r \in {rec'[p], disk'[p]} :
                    /\ r.delivery \notin {"Unasked", "Pending", "Cancelled"} => Complete(r)
                    /\ r.delivery = "Delivered" => handed'[p] > 0
    BY DEF IInv, CardsAreSaved, Complete
  <2>2. /\ rec'[q].delivery = "Unasked" <=> disk'[q].delivery = "Unasked"
        /\ \A r \in {rec'[q], disk'[q]} :
             /\ r.delivery \notin {"Unasked", "Pending", "Cancelled"} => Complete(r)
             /\ r.delivery = "Delivered" => handed'[q] > 0
    BY DEF IInv, CardsAreSaved, Complete
  <2>. QED BY <2>1, <2>2 DEF CardsAreSaved, Complete
<1>2. RecordIsTrue' /\ WaiterIsLive'
  BY DEF IInv, RecordIsTrue, WaiterIsLive
<1>3. OneTurn'
  BY DEF IInv, OneTurn, Passing
<1>4. CallOrTurn'
  BY DEF IInv, CallOrTurn, Claimed
<1>5. Once'
  BY DEF IInv, Once
<1>6. CancelsAll'
  BY DEF CancelsAll, Cancelling
<1>7. QueueIsOwned'
  <2>1. ToSet(queue) \subseteq Questions
    BY DEF IInv, TypeOK, ToSet
  <2>. QED BY <2>1 DEF IInv, QueueIsOwned, Cancelling
<1>. QED BY <1>1, <1>2, <1>3, <1>4, <1>5, <1>6, <1>7 DEF IInv

\* On to the next card, or the lock let go: what is left to do is as it was.
LEMMA OnwardIs ==
  ASSUME IInv, desk # None, desk.kind = "pass", desk.at \in Questions
  PROVE  \/ Onward = None
         \/ /\ Onward # None /\ Onward.kind = "pass" /\ Onward.step = "next"
            /\ Onward.at = None /\ Onward.read = "none" /\ Onward.todo = desk.todo
            /\ \A p \in Questions : Onward.was[p] = IF p = desk.at THEN "Unasked"
                                                    ELSE desk.was[p]
<1>1. desk \in Passes
  BY PassAt
<1>2. CASE desk.todo # {}
  <2>1. Onward = [desk EXCEPT !.was[desk.at] = "Unasked", !.at = None,
                    !.read = "none", !.step = "next"]
    BY <1>2 DEF Onward
  <2>2. Onward \in Passes
    BY <1>1, <2>1 DEF Passes, Receipts
  <2>3. Onward # None
    BY <2>2, NoneAssumption
  <2>. QED BY <1>1, <2>1, <2>3 DEF Passes
<1>. QED BY <1>2 DEF Onward

\* The cards that are left stay what they were while the one before is done.
LEMMA OnwardIsCurrent ==
  ASSUME IInv, desk # None, desk.kind = "pass", desk.at \in Questions,
         UNCHANGED <<queue, envelope, call>>,
         \A p \in Questions \ {desk.at} : rec'[p] = rec[p] /\ waiter'[p] = waiter[p],
         desk' \in {None, Onward}
  PROVE  PassIsCurrent'
<1>1. CASE desk' = None
  BY <1>1 DEF PassIsCurrent
<1>2. CASE desk' # None
  <2>1. /\ desk'.kind = "pass" /\ desk'.step = "next" /\ desk'.at = None
        /\ desk'.read = "none" /\ desk'.todo = desk.todo
        /\ \A p \in Questions : desk'.was[p] = IF p = desk.at THEN "Unasked"
                                               ELSE desk.was[p]
    BY <1>2, OnwardIs
  <2>2. /\ desk.at \notin desk.todo /\ desk.todo \subseteq Questions
        /\ \A p \in desk.todo :
             /\ waiter[p] = "none"
             /\ desk.was[p] \in {"Ready", "Dispatching", "Queued"}
             /\ rec[p].delivery # desk.was[p] =>
                  /\ rec[p].delivery \in {"Delivered", "Uncertain"}
                  /\ desk.was[p] = "Dispatching" /\ p \notin envelope
    BY PassAt DEF IInv, PassIsCurrent, Listed, Passes
  <2>3. \A p \in Questions : Listed(p)' => p \in desk.todo /\ p # desk.at
    BY <2>1, <2>2, QuestionsAssumption DEF Listed
  <2>4. None \notin desk.todo
    BY <2>2, QuestionsAssumption
  <2>. QED BY <1>2, <2>1, <2>2, <2>3, <2>4 DEF PassIsCurrent
<1>. QED BY <1>1, <1>2

\* What set_delivery may do to a card.
LEMMA SetAt ==
  ASSUME IInv, NEW q \in Questions, NEW d, NEW ok \in BOOLEAN, NEW then,
         SetDelivery(q, d, ok, then)
  PROVE  /\ \A p \in Questions \ {q} : rec'[p] = rec[p] /\ disk'[p] \in {rec[p], disk[p]}
         /\ disk'[q] \in {rec'[q], disk[q]}
         /\ rec'[q].answers = rec[q].answers
         /\ \/ rec'[q].delivery = d /\ rec[q].delivery # "Cancelled" /\ desk' = then
            \/ rec'[q] = rec[q] /\ rec[q].delivery = "Cancelled" /\ desk' = then
            \/ rec'[q] = rec[q] /\ desk' = None
<1>1. CASE Save(Moved(q, d)) /\ rec[q].delivery # "Cancelled" /\ desk' = then
  BY <1>1, MovedAt DEF Save, IInv
<1>2. CASE rec[q].delivery = "Cancelled" /\ desk' = then /\ UNCHANGED store
  BY <1>2 DEF store
<1>3. CASE desk' = None /\ UNCHANGED store
  BY <1>3 DEF store
<1>. QED BY <1>1, <1>2, <1>3 DEF SetDelivery

\* A sent turn's card is queued; one that was refused can be retried.
LEMMA PassSettlesIInv ==
  ASSUME IInv, TypeOK', NEW ok \in BOOLEAN, PassSettles(ok)
  PROVE  IInv'
<1> DEFINE q == desk.at
           d == IF desk.step = "sent" THEN "Queued" ELSE "Failed"
<1>1. /\ desk # None /\ desk.kind = "pass" /\ desk.step \in {"sent", "refused"}
      /\ SetDelivery(q, d, ok, Onward)
      /\ UNCHANGED <<proc, queue, envelope, receipt, lost, handed, call, waiter>>
  BY DEF PassSettles, Passing, calls, chat, record, history
<1>2. q \in Questions /\ d \in {"Queued", "Failed"}
  BY <1>1, PassAt
<1>3. /\ rec[q].delivery = "Dispatching" /\ ~Claimed(q) /\ waiter[q] = "none"
      /\ q \notin envelope \cup lost => handed[q] = 0
      /\ d = "Failed" => q \notin ToSet(queue)
      /\ Complete(rec[q])
  BY <1>1, <1>2 DEF IInv, PassIsCurrent, Listed, CardsAreSaved
<1>4. /\ \A p \in Questions \ {q} : rec'[p] = rec[p] /\ disk'[p] \in {rec[p], disk[p]}
      /\ disk'[q] \in {rec'[q], disk[q]}
      /\ rec'[q].answers = rec[q].answers
      /\ rec'[q].delivery \in {d, "Dispatching"}
      /\ desk' \in {None, Onward}
  BY <1>1, <1>2, <1>3, SetAt
<1>5. PassIsCurrent'
  BY <1>1, <1>2, <1>4, OnwardIsCurrent
<1>6. desk' = None \/ desk'.kind = "pass"
  BY <1>1, <1>2, <1>4, OnwardIs
<1> HIDE DEF q, d
<1>7. Complete(rec'[q])
  BY <1>3, <1>4 DEF Complete
<1>. QED
  BY <1>1, <1>2, <1>3, <1>4, <1>5, <1>6, <1>7, PassMoves

\* What the pass decides of a card agrees with what was given of it.
LEMMA PassJudgesIInv ==
  ASSUME IInv, TypeOK', NEW ok \in BOOLEAN, PassJudges(ok)
  PROVE  IInv'
<1> DEFINE q == desk.at
           read == desk.read
           interrupted == desk.was[q] \in {"Dispatching", "Queued"} /\ read = "none"
           waits == read = "queued" /\ q \in ToSet(queue)
<1>1. /\ desk # None /\ desk.kind = "pass" /\ desk.step = "judge" /\ desk \in Passes
      /\ q \in Questions
      /\ UNCHANGED <<proc, queue, envelope, receipt, lost, handed, call>>
  BY PassAt DEF PassJudges, Passing, chat, record, history
<1>2. /\ waiter[q] = "none"
      /\ rec[q].delivery \notin {"Unasked", "Pending", "Cancelled", "Failed"}
      /\ rec[q].delivery # desk.was[q] =>
           rec[q].delivery \in {"Delivered", "Uncertain"} /\ q \notin envelope
             /\ desk.was[q] = "Dispatching"
      /\ desk.was[q] \in {"Ready", "Dispatching", "Queued"}
      /\ read # "none" => q \in envelope
      /\ read = "received" => handed[q] > 0
      /\ q \in ToSet(queue) => read = "queued"
      /\ q \in envelope => ~Claimed(q)
      /\ Claimed(q) => rec[q].delivery \in {"Dispatching", "Uncertain", "Cancelled"}
      /\ handed[q] > 0 /\ q \notin envelope \cup lost =>
           rec[q].delivery \in {"Dispatching", "Delivered", "Uncertain", "Cancelled"}
      /\ Complete(rec[q])
      /\ rec[q].delivery = "Delivered" => handed[q] > 0
      /\ handed[q] \in 0..2
      /\ q \in ToSet(queue) => rec[q].delivery \in {"Dispatching", "Queued"}
  BY <1>1 DEF IInv, TypeOK, PassIsCurrent, Listed, CallOrTurn, Once, CardsAreSaved,
              QueueIsOwned, Cancelling
<1>3. ASSUME NEW d \in {"Uncertain", "Delivered"}, SetDelivery(q, d, ok, Onward),
             UNCHANGED waiter, ~(read = "queued"),
             d = "Delivered" => read = "received"
      PROVE  IInv'
  <2>1. /\ \A p \in Questions \ {q} : rec'[p] = rec[p] /\ disk'[p] \in {rec[p], disk[p]}
        /\ disk'[q] \in {rec'[q], disk[q]}
        /\ rec'[q].answers = rec[q].answers
        /\ rec'[q].delivery = d \/ rec'[q] = rec[q]
        /\ desk' \in {None, Onward}
    BY <1>1, <1>3, SetAt
  <2>2. PassIsCurrent'
    BY <1>1, <1>3, <2>1, OnwardIsCurrent
  <2>3. desk' = None \/ desk'.kind = "pass"
    BY <1>1, <2>1, OnwardIs
  <2> HIDE DEF q, read
  <2>4. Complete(rec'[q])
    BY <1>2, <2>1 DEF Complete
  <2>. QED
    BY <1>1, <1>2, <1>3, <2>1, <2>2, <2>3, <2>4, PassMoves
<1>4. ASSUME read = "cancelled", desk' = Onward,
             IF Open(rec[q])
             THEN Keep(Moved(q, "Cancelled"), ok) /\ waiter' = WithoutWaiters({q})
             ELSE UNCHANGED <<store, waiter>>
      PROVE  IInv'
  <2>1. /\ \A p \in Questions \ {q} : rec'[p] = rec[p] /\ disk'[p] \in {rec[p], disk[p]}
        /\ disk'[q] \in {rec'[q], disk[q]}
        /\ rec'[q].delivery = "Cancelled" \/ rec'[q] = rec[q]
    BY <1>1, <1>4, MovedAt DEF store
  <2>2. waiter'[q] = "none" /\ \A p \in Questions \ {q} : waiter'[p] = waiter[p]
    BY <1>1, <1>2, <1>4 DEF WithoutWaiters
  <2>3. PassIsCurrent'
    BY <1>1, <1>4, <2>1, <2>2, OnwardIsCurrent
  <2>4. desk' = None \/ desk'.kind = "pass"
    BY <1>1, <1>4, OnwardIs
  <2> HIDE DEF q, read
  <2>. QED
    BY <1>1, <1>2, <1>4, <2>1, <2>2, <2>3, <2>4, PassMoves
<1>5. ASSUME desk' = Onward, UNCHANGED <<store, waiter>> PROVE IInv'
  <2>1. PassIsCurrent'
    BY <1>1, <1>5, OnwardIsCurrent DEF store
  <2>2. desk' = None \/ desk'.kind = "pass"
    BY <1>1, <1>5, OnwardIs
  <2> HIDE DEF q, read
  <2>. QED
    BY <1>1, <1>2, <1>5, <2>1, <2>2, PassMoves DEF store
<1>6. ASSUME ~interrupted, ~waits, read \in {"none", "queued", "failed"}, UNCHANGED waiter,
             SetDelivery(q, "Dispatching", ok, [desk EXCEPT !.step = "send"])
      PROVE  IInv'
  <2>1. /\ \A p \in Questions \ {q} : rec'[p] = rec[p] /\ disk'[p] \in {rec[p], disk[p]}
        /\ disk'[q] \in {rec'[q], disk[q]}
        /\ rec'[q].answers = rec[q].answers
        /\ \/ rec'[q].delivery = "Dispatching" /\ desk' = [desk EXCEPT !.step = "send"]
           \/ rec'[q] = rec[q] /\ desk' = None
    BY <1>1, <1>2, <1>6, SetAt
  <2>2. /\ ~Claimed(q)
        /\ q \notin envelope \cup lost => handed[q] = 0
    BY <1>2, <1>6
  <2>3. PassIsCurrent'
    <3>1. CASE desk' = None
      BY <3>1 DEF PassIsCurrent
    <3>2. CASE rec'[q].delivery = "Dispatching" /\ desk' = [desk EXCEPT !.step = "send"]
      <4>1. [desk EXCEPT !.step = "send"] \in Passes
        BY <1>1 DEF Passes
      <4>2. /\ desk' # None /\ desk'.kind = "pass" /\ desk'.step = "send"
            /\ desk'.at = q /\ desk'.todo = desk.todo /\ desk'.was = desk.was
            /\ desk'.read = read
        BY <1>1, <3>2, <4>1, NoneAssumption DEF Passes
      <4>3. /\ q \notin desk.todo /\ desk.todo \subseteq Questions /\ q # None
            /\ \A p \in desk.todo :
                 rec[p].delivery # desk.was[p] =>
                   /\ rec[p].delivery \in {"Delivered", "Uncertain"}
                   /\ desk.was[p] = "Dispatching" /\ p \notin envelope
            /\ \A p \in Questions : Listed(p) =>
                 /\ waiter[p] = "none"
                 /\ desk.was[p] \in {"Ready", "Dispatching", "Queued"}
        BY <1>1, QuestionsAssumption DEF IInv, PassIsCurrent, Listed, Passes
      <4>4. \A p \in Questions : Listed(p)' <=> Listed(p)
        BY <1>1, <4>2 DEF Listed
      <4> HIDE DEF q, read, interrupted, waits
      <4>. QED
        BY <1>1, <1>2, <1>6, <2>1, <2>2, <3>2, <4>2, <4>3, <4>4 DEF PassIsCurrent, Claimed
    <3>. QED BY <2>1, <3>1, <3>2
  <2>4. desk' = None \/ desk'.kind = "pass"
    BY <1>1, <2>1 DEF Passes
  <2> HIDE DEF q, read, interrupted, waits
  <2>5. Complete(rec'[q])
    BY <1>2, <2>1 DEF Complete
  <2>. QED
    BY <1>1, <1>2, <1>6, <2>1, <2>2, <2>3, <2>4, <2>5, PassMoves
<1>. QED
  <2>1. PassJudges(ok)
    OBVIOUS
  <2>. QED BY <1>3, <1>4, <1>5, <1>6 DEF PassJudges

\* What IInv says of a card that is to be sent.
LEMMA SendCard ==
  ASSUME IInv, Passing("send")
  PROVE  /\ desk # None /\ desk.kind = "pass" /\ desk.step = "send" /\ desk \in Passes
         /\ desk.at \in Questions
         /\ rec[desk.at].delivery = "Dispatching" /\ ~Claimed(desk.at)
         /\ waiter[desk.at] = "none"
         /\ desk.at \notin envelope =>
              /\ desk.at \notin ToSet(queue) /\ receipt[desk.at] = "none"
              /\ desk.at \notin lost => handed[desk.at] = 0
              /\ \A l \in Launches :
                   /\ proc[l].hand # None => proc[l].hand.turn # desk.at
                   /\ proc[l].flight # desk.at
         /\ \A l \in Launches : proc[l].hand # None => proc[l].hand.by = "reader"
<1>1. /\ desk # None /\ desk.kind = "pass" /\ desk.step = "send" /\ desk \in Passes
      /\ desk.at \in Questions /\ Listed(desk.at)
  BY PassAt DEF Passing, Listed
<1>. QED
  BY <1>1, QuestionsAssumption
     DEF IInv, PassIsCurrent, RecordIsTrue, OneTurn, Passing

\* The step after a send keeps what the pass knows of its cards.
LEMMA SendIsCurrent ==
  ASSUME IInv, Passing("send"), NEW step \in {"sent", "refused", "hand"},
         desk' = [desk EXCEPT !.step = step],
         UNCHANGED <<rec, waiter, call, handed, lost>>,
         envelope' \in {envelope, envelope \cup {desk.at}},
         step \in {"hand", "refused"} => desk.at \notin ToSet(queue')
  PROVE  /\ PassIsCurrent'
         /\ desk' # None /\ desk'.kind = "pass" /\ desk'.step = step /\ desk'.at = desk.at
<1>1. [desk EXCEPT !.step = step] \in Passes
  BY SendCard DEF Passes
<1>2. /\ desk' # None /\ desk'.kind = "pass" /\ desk'.step = step
      /\ desk'.at = desk.at /\ desk'.todo = desk.todo /\ desk'.was = desk.was
      /\ desk'.read = desk.read
  BY <1>1, SendCard, NoneAssumption DEF Passes
<1>3. \A p \in Questions : Listed(p)' <=> Listed(p)
  BY <1>2, SendCard DEF Listed
<1>4. PassIsCurrent /\ desk.todo \subseteq Questions
  BY SendCard DEF IInv, Passes
<1>. QED
  BY <1>2, <1>3, <1>4, SendCard DEF PassIsCurrent, Claimed

\* A turn that is on record, or cannot be started, is not sent.
LEMMA NotSent ==
  ASSUME IInv, TypeOK', Passing("send"), NEW step \in {"sent", "refused"},
         desk' = [desk EXCEPT !.step = step],
         step = "refused" => ~OnRecord(desk.at),
         UNCHANGED <<store, calls, chat, record, history>>
  PROVE  IInv'
<1> USE DEF store, calls, chat, record, history
<1>1. /\ PassIsCurrent'
      /\ desk' # None /\ desk'.kind = "pass"
  BY SendIsCurrent, SendCard DEF OnRecord
<1>2. CancelsAll'
  BY <1>1 DEF CancelsAll, Cancelling
<1>3. QueueIsOwned'
  BY SendCard DEF IInv, QueueIsOwned, Cancelling
<1>. QED
  BY <1>1, <1>2, <1>3, Less DEF IInv, OneTurn, Passing

\* A turn that goes to a carrier, or behind what waits, was in neither.
LEMMA SentOnce ==
  ASSUME IInv, TypeOK', Passing("send"), ~OnRecord(desk.at),
         UNCHANGED <<store, calls, history>>,
         envelope' = envelope \cup {desk.at},
         \/ /\ UNCHANGED <<queue, receipt>>
            /\ desk' = [desk EXCEPT !.step = "hand"]
            /\ \E l \in Launches, by \in {"send", "start"} :
                 /\ proc'[l].hand = [turn |-> desk.at, step |-> "taken", by |-> by]
                 /\ proc'[l].flight \in {proc[l].flight, desk.at}
                 /\ \A m \in Launches \ {l} :
                      proc'[m].hand = proc[m].hand /\ proc'[m].flight = proc[m].flight
         \/ /\ queue' = Append(queue, desk.at)
            /\ receipt' = Recorded({desk.at}, "queued")
            /\ desk' = [desk EXCEPT !.step = "sent"]
            /\ \A l \in Launches :
                 proc'[l].hand = proc[l].hand /\ proc'[l].flight = proc[l].flight
  PROVE  IInv'
<1> DEFINE q == desk.at
<1>1. /\ UNCHANGED <<rec, disk, waiter, call, handed, lost>>
      /\ q \in Questions /\ q \notin envelope /\ q \notin ToSet(queue)
      /\ rec[q].delivery = "Dispatching" /\ ~Claimed(q) /\ waiter[q] = "none"
      /\ q \notin lost => handed[q] = 0
      /\ \A l \in Launches : /\ proc[l].hand # None => proc[l].hand.turn # q
                             /\ proc[l].hand # None => proc[l].hand.by = "reader"
                             /\ proc[l].flight # q
      /\ receipt[q] = "none"
  BY SendCard DEF OnRecord, store, calls, history
<1>2. PassIsCurrent' /\ desk' # None /\ desk'.kind = "pass" /\ desk'.at = q
  BY <1>1, SendIsCurrent
<1>3. CardsAreSaved' /\ WaiterIsLive'
  BY <1>1 DEF IInv, CardsAreSaved, Complete, WaiterIsLive
<1>4. CallOrTurn'
  BY <1>1 DEF IInv, CallOrTurn, Claimed
<1>5. CancelsAll'
  BY <1>2 DEF CancelsAll, Cancelling
<1>6. ToSet(queue) \subseteq Questions /\ ToSet(queue) \subseteq envelope /\ IsInjective(queue)
  BY DEF IInv, TypeOK, ToSet, OneTurn
<1>7. ~Cancelling
  BY SendCard DEF Cancelling
<1>8. CASE /\ UNCHANGED <<queue, receipt>>
           /\ desk' = [desk EXCEPT !.step = "hand"]
           /\ \E l \in Launches, by \in {"send", "start"} :
                 /\ proc'[l].hand = [turn |-> desk.at, step |-> "taken", by |-> by]
                 /\ proc'[l].flight \in {proc[l].flight, desk.at}
                 /\ \A m \in Launches \ {l} :
                      proc'[m].hand = proc[m].hand /\ proc'[m].flight = proc[m].flight
  <2>1. PICK l \in Launches, by \in {"send", "start"} :
          /\ proc'[l].hand = [turn |-> q, step |-> "taken", by |-> by]
          /\ proc'[l].flight \in {proc[l].flight, q}
          /\ \A m \in Launches \ {l} :
               proc'[m].hand = proc[m].hand /\ proc'[m].flight = proc[m].flight
    BY <1>8
  <2>2. Passing("hand")'
    BY <1>2, <1>8, SendIsCurrent DEF Passing
  <2> HIDE DEF q
  <2>3. RecordIsTrue'
    BY <1>1, <1>8 DEF IInv, RecordIsTrue, q
  <2>4. OneTurn'
    <3>1. IsInjective(queue') /\ \A p \in ToSet(queue') : p \in envelope' /\ receipt'[p] = "queued"
      BY <1>6, <1>8 DEF IInv, OneTurn
    <3>2. ASSUME NEW m \in Launches
          PROVE  proc'[m].flight # None => proc'[m].flight \in envelope' \ ToSet(queue')
      BY <1>1, <1>8, <2>1 DEF IInv, OneTurn, q
    <3>3. ASSUME NEW m \in Launches \ {l}, proc'[m].hand # None
          PROVE  /\ proc'[m].hand.turn \in envelope' \ ToSet(queue')
                 /\ proc'[m].hand.step = "written" => handed'[proc'[m].hand.turn] > 0
                 /\ \A k \in Launches \ {m} :
                      proc'[k].hand # None => proc'[k].hand.turn # proc'[m].hand.turn
                 /\ proc'[m].hand.by = "reader"
      BY <3>3, <1>1, <1>8, <2>1 DEF IInv, OneTurn
    <3>4. /\ proc'[l].hand.turn \in envelope' \ ToSet(queue')
          /\ \A k \in Launches \ {l} :
               proc'[k].hand # None => proc'[k].hand.turn # proc'[l].hand.turn
          /\ proc'[l].hand.step = "taken" /\ proc'[l].hand.turn = desk'.at
      BY <1>1, <1>2, <1>8, <2>1 DEF q
    <3>. QED BY <2>2, <3>1, <3>2, <3>3, <3>4 DEF OneTurn
  <2>5. Once'
    BY <1>1, <1>8, <2>1 DEF IInv, Once
  <2>6. QueueIsOwned'
    BY <1>1, <1>7, <1>8 DEF IInv, QueueIsOwned
  <2>. QED BY <1>2, <1>3, <1>4, <1>5, <2>3, <2>4, <2>5, <2>6 DEF IInv
<1>9. CASE /\ queue' = Append(queue, desk.at)
           /\ receipt' = Recorded({desk.at}, "queued")
           /\ desk' = [desk EXCEPT !.step = "sent"]
           /\ \A l \in Launches :
                proc'[l].hand = proc[l].hand /\ proc'[l].flight = proc[l].flight
  <2>1. IsInjective(queue') /\ ToSet(queue') = ToSet(queue) \cup {q}
    BY <1>1, <1>9, PutLast DEF IInv, TypeOK, OneTurn
  <2>2. receipt'[q] = "queued" /\ \A p \in Questions \ {q} : receipt'[p] = receipt[p]
    <3>1. receipt' = Recorded({q}, "queued") /\ q \in Questions /\ receipt[q] = "none"
      BY <1>1, <1>9
    <3> HIDE DEF q
    <3>. QED BY <3>1, RecordedAt
  <2> HIDE DEF q
  <2>3. RecordIsTrue'
    BY <1>1, <2>2 DEF IInv, RecordIsTrue, q
  <2>4. OneTurn'
    <3>1. \A p \in ToSet(queue') : p \in envelope' /\ receipt'[p] = "queued"
      BY <1>6, <2>1, <2>2 DEF IInv, OneTurn, q
    <3>2. ASSUME NEW m \in Launches
          PROVE  proc'[m].flight # None => proc'[m].flight \in envelope' \ ToSet(queue')
      BY <1>1, <1>9, <2>1 DEF IInv, OneTurn
    <3>3. ASSUME NEW m \in Launches, proc'[m].hand # None
          PROVE  /\ proc'[m].hand.turn \in envelope' \ ToSet(queue')
                 /\ proc'[m].hand.step = "written" => handed'[proc'[m].hand.turn] > 0
                 /\ \A k \in Launches \ {m} :
                      proc'[k].hand # None => proc'[k].hand.turn # proc'[m].hand.turn
                 /\ proc'[m].hand.by = "reader"
      BY <3>3, <1>1, <1>9, <2>1 DEF IInv, OneTurn
    <3>. QED BY <2>1, <3>1, <3>2, <3>3 DEF OneTurn
  <2>5. Once'
    BY <1>1, <1>9, <2>1 DEF IInv, Once, q
  <2>6. QueueIsOwned'
    BY <1>1, <1>7, <2>1 DEF IInv, QueueIsOwned
  <2>. QED BY <1>2, <1>3, <1>4, <1>5, <2>3, <2>4, <2>5, <2>6 DEF IInv
<1>. QED BY <1>8, <1>9

\* The five ways of a send.
LEMMA PassSendsIInv ==
  ASSUME IInv, TypeOK', PassSends
  PROVE  IInv'
<1> DEFINE q == desk.at
<1>1. Passing("send") /\ UNCHANGED <<store, calls, history>>
  BY DEF PassSends
<1>2. CASE /\ OnRecord(q)
           /\ desk' = [desk EXCEPT !.step = "sent"]
           /\ UNCHANGED <<chat, record>>
  BY <1>1, <1>2, NotSent
<1>3. CASE /\ ~OnRecord(q)
           /\ desk' = [desk EXCEPT !.step = "refused"]
           /\ UNCHANGED <<chat, record>>
  BY <1>1, <1>3, NotSent
<1>4. CASE /\ ~OnRecord(q)
           /\ \E l \in Launches :
                proc' = Started(l, q, [turn |-> q, step |-> "taken", by |-> "start"])
           /\ envelope' = envelope \cup {q}
           /\ desk' = [desk EXCEPT !.step = "hand"]
           /\ UNCHANGED <<queue, receipt>>
  <2>1. PICK l \in Launches :
          proc' = Started(l, q, [turn |-> q, step |-> "taken", by |-> "start"])
    BY <1>4
  <2>2. /\ proc'[l].hand = [turn |-> q, step |-> "taken", by |-> "start"]
        /\ proc'[l].flight = q
        /\ \A m \in Launches \ {l} :
             proc'[m].hand = proc[m].hand /\ proc'[m].flight = proc[m].flight
    BY <2>1 DEF Started, IInv, TypeOK
  <2>. QED BY <1>1, <1>4, <2>2, SentOnce
<1>5. CASE /\ ~OnRecord(q) /\ session # None
           /\ queue' = IF q \in ToSet(queue) THEN queue ELSE Append(queue, q)
           /\ envelope' = envelope \cup {q}
           /\ receipt' = Recorded({q}, "queued")
           /\ proc' = [proc EXCEPT ![session].turn = IF @ = "idle" THEN "running" ELSE @]
           /\ desk' = [desk EXCEPT !.step = "sent"]
  <2>1. queue' = Append(queue, q)
    BY <1>1, <1>5, SendCard DEF OnRecord
  <2>2. \A m \in Launches : proc'[m].hand = proc[m].hand /\ proc'[m].flight = proc[m].flight
    <3>1. session \in Launches /\ \A m \in Launches : proc[m] \in Process
      BY <1>5 DEF IInv, TypeOK
    <3>. QED BY <1>5, <3>1 DEF Process, IInv, TypeOK
  <2>. QED BY <1>1, <1>5, <2>1, <2>2, SentOnce
<1>6. CASE /\ ~OnRecord(q) /\ session # None
           /\ envelope' = envelope \cup {q}
           /\ proc' = [proc EXCEPT ![session].hand =
                         [turn |-> q, step |-> "taken", by |-> "send"]]
           /\ desk' = [desk EXCEPT !.step = "hand"]
           /\ UNCHANGED <<session, queue, receipt>>
  <2>1. session \in Launches
    BY <1>6 DEF IInv, TypeOK
  <2>2. /\ proc'[session].hand = [turn |-> q, step |-> "taken", by |-> "send"]
        /\ proc'[session].flight = proc[session].flight
        /\ \A m \in Launches \ {session} :
             proc'[m].hand = proc[m].hand /\ proc'[m].flight = proc[m].flight
    BY <1>6, <2>1 DEF IInv, TypeOK, Process
  <2>. QED BY <1>1, <1>6, <2>1, <2>2, SentOnce
<1>. QED BY <1>2, <1>3, <1>4, <1>5, <1>6 DEF PassSends

-----------------------------------------------------------------------------
(* Restart, and every step *)

\* What a restart takes back, it takes back to what the file says.
LEMMA RestartIInv ==
  ASSUME IInv, TypeOK', Restart
  PROVE  IInv'
<1>1. /\ rec' = disk /\ disk' = disk /\ envelope' = envelope /\ receipt' = receipt
      /\ handed' = handed /\ queue' = <<>> /\ desk' = None
      /\ lost' = lost \cup {q \in Questions : rec[q] # disk[q]}
  BY DEF Restart, record
<1>2. \A q \in Questions :
        /\ waiter'[q] = "none"
        /\ call'[q] = IF call[q] = "none" THEN "none" ELSE "over"
  BY DEF Restart, WithoutWaiters
<1>3. \A l \in Launches : proc'[l].hand = None /\ proc'[l].flight = None
  <2>1. /\ proc' = [l \in Launches |->
               [proc[l] EXCEPT !.up = FALSE, !.reading = FALSE, !.turn = "idle",
                               !.flight = None, !.hand = None]]
        /\ \A l \in Launches : proc[l] \in Process
    BY DEF Restart, IInv, TypeOK
  <2>. QED BY <2>1 DEF Process
<1>4. CardsAreSaved'
  BY <1>1 DEF IInv, CardsAreSaved, Complete
<1>5. RecordIsTrue'
  BY <1>1 DEF IInv, CardsAreSaved, RecordIsTrue
<1>6. OneTurn'
  BY <1>1, <1>3, EmptyQueue DEF OneTurn
<1>7. CallOrTurn'
  BY <1>1, <1>2 DEF IInv, CardsAreSaved, CallOrTurn, Claimed
<1>8. PassIsCurrent' /\ CancelsAll'
  BY <1>1 DEF PassIsCurrent, CancelsAll, Cancelling
<1>9. Once'
  <2>1. ASSUME NEW q \in Questions, q \notin lost'
        PROVE  /\ handed'[q] < 2
               /\ handed'[q] > 0 /\ q \notin envelope' =>
                    /\ rec'[q].delivery \in {"Dispatching", "Delivered", "Uncertain", "Cancelled"}
                    /\ call'[q] # "claimed"
    BY <2>1, <1>1, <1>2 DEF IInv, Once
  <2>. QED BY <2>1, <1>1, <1>3, EmptyQueue DEF Once
<1>10. QueueIsOwned' /\ WaiterIsLive'
  BY <1>1, <1>2, EmptyQueue DEF QueueIsOwned, WaiterIsLive
<1>. QED BY <1>4, <1>5, <1>6, <1>7, <1>8, <1>9, <1>10 DEF IInv

\* Every step keeps the invariant.
LEMMA StepIInv ==
  ASSUME IInv, [Next]_vars
  PROVE  IInv'
<1>1. Saves \subseteq BOOLEAN
  BY DEF Saves
<1>2. TypeOK'
  BY CallTypes, PersonTypes, ProcessTypes, CancelTypes, PassTypes, RestTypes DEF Next
<1>3. ASSUME NEW q \in Questions, CallActs(q) PROVE IInv'
  BY <1>1, <1>2, <1>3, QuietMoves, AskIInv, TakeToolIInv, TakeNativeIInv, NativeWriteIInv,
     NativeWrittenIInv DEF CallActs
<1>4. CASE PersonActs
  <2>1. ASSUME NEW q \in Questions, NEW given \in SUBSET Parts \ {{}}, NEW ok \in Saves,
               Answer(q, given, ok)
        PROVE  IInv'
    BY <1>1, <1>2, <2>1, AnswerIInv
  <2>2. ASSUME NEW q \in Questions, Retry(q) \/ CancelBegins("card", {q}) PROVE IInv'
    BY <1>2, <2>2, RetryIInv, CancelBeginsIInv
  <2>3. ASSUME NEW kind \in {"interrupt", "stop"}, CancelBegins(kind, Questions) PROVE IInv'
    BY <1>2, <2>3, CancelBeginsIInv
  <2>. QED BY <1>2, <1>4, <2>1, <2>2, <2>3, QuietMoves DEF PersonActs
<1>5. ASSUME NEW l \in Launches, ProcessActs(l) PROVE IInv'
  BY <1>2, <1>5, QuietMoves, TurnEndsIInv, HandOverIInv, RecordHandIInv DEF ProcessActs
<1>6. CASE CancelActs
  BY <1>1, <1>2, <1>6, CancelKeepsIInv, CancelUnqueuesIInv, CancelEndsIInv DEF CancelActs
<1>7. CASE PassActs
  BY <1>1, <1>2, <1>7, PassBeginsIInv, PassReadsIInv, PassJudgesIInv, PassSettlesIInv,
     PassSendsIInv DEF PassActs
<1>8. CASE EndProcess \/ UNCHANGED vars
  BY <1>2, <1>8, QuietMoves
<1>. QED BY <1>2, <1>3, <1>4, <1>5, <1>6, <1>7, <1>8, SettleIInv, RestartIInv DEF Next

\* The invariant holds before anything is asked.
LEMMA InitIInv == Init => IInv
<1> SUFFICES ASSUME Init PROVE IInv
  OBVIOUS
<1> USE DEF Init
<1>1. TypeOK
  <2>1. rec \in [Questions -> Record] /\ disk \in [Questions -> Record]
    BY DEF Record
  <2>2. proc \in [Launches -> Process]
    BY DEF Process
  <2>3. queue \in Seq(Questions)
    BY EmptySeq
  <2>4. /\ waiter \in [Questions -> Waiters] /\ call \in [Questions -> CallSteps]
        /\ receipt \in [Questions -> Receipts]
    BY DEF Waiters, CallSteps, Receipts
  <2>5. restarts \in 0..MaxRestarts /\ handed \in [Questions -> 0..2]
    BY QuestionsAssumption
  <2>. QED BY <2>1, <2>2, <2>3, <2>4, <2>5 DEF TypeOK
<1>2. CardsAreSaved /\ RecordIsTrue
  BY DEF CardsAreSaved, RecordIsTrue
<1>3. OneTurn
  BY EmptyQueue DEF OneTurn
<1>4. CallOrTurn /\ PassIsCurrent /\ CancelsAll
  BY DEF CallOrTurn, Claimed, PassIsCurrent, CancelsAll, Cancelling
<1>5. Once /\ QueueIsOwned /\ WaiterIsLive
  BY EmptyQueue DEF Once, QueueIsOwned, WaiterIsLive
<1>. QED BY <1>1, <1>2, <1>3, <1>4, <1>5 DEF IInv

\* question_store.rs and the delivery code of chat.rs: what they keep between
\* any two steps of the host, the person, the processes and a restart.
THEOREM Inductive == Spec => []IInv
BY InitIInv, StepIInv, PTL DEF Spec

\* Every variable keeps its type, for any number of cards, questions on them,
\* processes and restarts.
THEOREM TypeCorrect == Spec => []TypeOK
<1>1. IInv => TypeOK
  BY DEF IInv
<1>. QED BY <1>1, Inductive, PTL

\* An answer reaches an agent at most once, whichever way it goes and wherever
\* the host is killed, unless a restart forgot an unsaved hand-over.
THEOREM OnceOnly == Spec => []AtMostOnce
<1>1. IInv => AtMostOnce
  BY DEF IInv, TypeOK, Once, AtMostOnce
<1>. QED BY <1>1, Inductive, PTL

\* No card is closed as delivered unless its answer was given to an agent.
THEOREM DeliveredIsTrue == Spec => []DeliveredWasHanded
<1>1. IInv => DeliveredWasHanded
  BY DEF IInv, CardsAreSaved, DeliveredWasHanded
<1>. QED BY <1>1, Inductive, PTL

\* A cancel or a Stop finds every turn that waits in the chat's queue.
THEOREM NoTurnIsForgotten == Spec => []QueueIsOwned
<1>1. IInv => QueueIsOwned
  BY DEF IInv
<1>. QED BY <1>1, Inductive, PTL

\* No waiter outlives the call that will take the answer or let go of it.
THEOREM NoWaiterIsLeft == Spec => []WaiterIsLive
<1>1. IInv => WaiterIsLive
  BY DEF IInv
<1>. QED BY <1>1, Inductive, PTL

\* Nothing but the pass puts a turn on record, and only while its card is
\* being dispatched.
THEOREM NothingSentBehindACancel == Spec => SentWhileOpen
<1>1. ASSUME IInv, [Next]_vars, NEW q \in envelope' \ envelope
      PROVE  rec[q].delivery = "Dispatching"
  <2> USE DEF record
  <2>1. CASE PassSends
    <3>1. q = desk.at
      BY <1>1, <2>1 DEF PassSends
    <3>. QED BY <1>1, <2>1, <3>1, SendCard DEF PassSends
  <2>2. CASE envelope' = envelope
    BY <1>1, <2>2
  <2>3. envelope' = envelope \/ PassSends
    <3>1. ASSUME NEW p \in Questions, CallActs(p) PROVE envelope' = envelope
      BY <3>1 DEF CallActs, Ask, Wake, Disconnect, Detach, NativeWrite, TakeTool, TakeNative,
                  NativeWritten
    <3>2. CASE PersonActs
      BY <3>2 DEF PersonActs, Answer, Retry, CancelBegins, PersonSends, PersonStarts
    <3>3. ASSUME NEW l \in Launches, ProcessActs(l) PROVE envelope' = envelope
      BY <3>3 DEF ProcessActs, TurnEnds, HandOver, RecordHand, Acknowledge, ProcessDies,
                  OutputEnds, Reap, StopProcess
    <3>4. CASE CancelActs
      BY <3>4 DEF CancelActs, CancelKeeps, CancelUnqueues, CancelEnds, StopEnds
    <3>5. CASE PassActs /\ ~PassSends
      BY <3>5 DEF PassActs, PassBegins, PassReads, PassJudges, PassSettles
    <3>6. CASE EndProcess \/ Settle \/ Restart \/ UNCHANGED vars
      BY <3>6 DEF EndProcess, Settle, Restart, vars
    <3>. QED BY <1>1, <3>1, <3>2, <3>3, <3>4, <3>5, <3>6 DEF Next
  <2>. QED BY <2>1, <2>2, <2>3
<1>2. IInv /\ [Next]_vars =>
        [\A q \in envelope' \ envelope : rec[q].delivery = "Dispatching"]_vars
  BY <1>1
<1>. QED BY <1>2, Inductive, PTL DEF Spec, SentWhileOpen

\* A record in doubt is left only by a cancel, or by a restart that forgot it.
LEMMA DoubtMoves ==
  ASSUME IInv, [Next]_vars, NEW q \in Questions, rec[q].delivery = "Uncertain"
  PROVE  rec'[q].delivery \in {"Uncertain", "Cancelled"} \/ q \in lost'
<1> DEFINE Stays == rec'[q].delivery \in {"Uncertain", "Cancelled"} \/ q \in lost'
<1>1. ASSUME UNCHANGED rec PROVE Stays
  BY <1>1
<1>2. ASSUME NEW p \in Questions, NEW d, NEW ok \in BOOLEAN,
             Keep(Moved(p, d), ok) \/ Save(Moved(p, d)),
             p # q \/ d \in {"Uncertain", "Cancelled"}
      PROVE  Stays
  BY <1>2, MovedAt
<1>3. Saves \subseteq BOOLEAN
  BY DEF Saves
<1> USE DEF store
<1>4. ASSUME NEW p \in Questions, CallActs(p) PROVE Stays
  <2>1. ASSUME NEW how \in {"tool", "native"}, Ask(p, how) PROVE Stays
    <3>1. p # q /\ rec' = [rec EXCEPT ![p].delivery = "Pending"]
      BY <2>1 DEF Ask, Save
    <3>. QED BY <3>1 DEF IInv, TypeOK
  <2>2. CASE Wake(p) \/ Disconnect(p) \/ Detach(p) \/ NativeWrite(p)
    BY <1>1, <2>2 DEF Wake, Disconnect, Detach, NativeWrite
  <2>3. ASSUME NEW ok \in Saves, TakeTool(p, ok) PROVE Stays
    BY <1>1, <1>2, <1>3, <2>3 DEF TakeTool, Owns
  <2>4. ASSUME NEW ok \in Saves, TakeNative(p, ok) PROVE Stays
    BY <1>1, <1>2, <1>3, <2>4 DEF TakeNative, Owns
  <2>5. ASSUME NEW ok \in Saves, NativeWritten(p, ok) PROVE Stays
    BY <1>1, <1>2, <1>3, <2>5 DEF NativeWritten
  <2>. QED BY <1>4, <2>1, <2>2, <2>3, <2>4, <2>5 DEF CallActs
<1>5. CASE PersonActs
  <2>1. ASSUME NEW p \in Questions, NEW given, NEW ok, Answer(p, given, ok) PROVE Stays
    BY <2>1 DEF Answer, Keep, IInv, TypeOK
  <2>2. ASSUME NEW p \in Questions, Retry(p) PROVE Stays
    BY <1>2, <2>2 DEF Retry, Retryable, Save, Keep
  <2>3. ASSUME UNCHANGED store PROVE Stays
    BY <1>1, <2>3
  <2>. QED
    BY <1>5, <2>1, <2>2, <2>3 DEF PersonActs, CancelBegins, PersonSends, PersonStarts
<1>6. ASSUME NEW l \in Launches, ProcessActs(l) PROVE Stays
  BY <1>1, <1>6 DEF ProcessActs, TurnEnds, HandOver, RecordHand, Acknowledge, ProcessDies,
                    OutputEnds, Reap, StopProcess
<1>7. CASE CancelActs
  <2>1. ASSUME NEW ok, CancelKeeps(ok) PROVE Stays
    BY <2>1 DEF CancelKeeps, Keep, IInv, TypeOK, Record
  <2>. QED BY <1>1, <1>7, <2>1 DEF CancelActs, CancelUnqueues, CancelEnds, StopEnds
<1>8. CASE PassActs
  <2>1. ASSUME NEW ok \in BOOLEAN, PassJudges(ok) PROVE Stays
    <3>1. desk # None /\ desk.kind = "pass" /\ desk.step = "judge" /\ desk.at \in Questions
      BY <2>1, PassAt DEF PassJudges, Passing
    <3>2. ASSUME desk.at = q
          PROVE  desk.was[q] = "Dispatching" /\ desk.read = "none"
      BY <3>1, <3>2 DEF IInv, PassIsCurrent, Listed
    <3>3. ASSUME NEW d, NEW then, SetDelivery(desk.at, d, ok, then),
                 desk.at # q \/ d = "Uncertain"
          PROVE  Stays
      BY <3>1, <3>3, SetAt
    <3>4. Keep(Moved(desk.at, "Cancelled"), ok) => Stays
      BY <1>2, <3>1
    <3>. QED BY <1>1, <2>1, <3>2, <3>3, <3>4 DEF PassJudges
  <2>2. ASSUME NEW ok \in BOOLEAN, PassSettles(ok) PROVE Stays
    <3>1. desk.at \in Questions /\ rec[desk.at].delivery = "Dispatching"
      BY <2>2, PassAt DEF PassSettles, Passing, IInv, PassIsCurrent
    <3>2. PICK d : SetDelivery(desk.at, d, ok, Onward)
      BY <2>2 DEF PassSettles
    <3>. QED BY <3>1, <3>2, SetAt
  <2>3. CASE PassBegins \/ PassSends \/ \E p \in Questions : PassReads(p)
    BY <1>1, <2>3 DEF PassBegins, PassSends, PassReads
  <2>. QED BY <1>3, <1>8, <2>1, <2>2, <2>3 DEF PassActs
<1>9. CASE EndProcess \/ Settle \/ UNCHANGED vars
  BY <1>1, <1>9 DEF EndProcess, Settle, vars
<1>10. CASE Restart
  BY <1>10 DEF Restart
<1>. QED BY <1>4, <1>5, <1>6, <1>7, <1>8, <1>9, <1>10 DEF Next

\* A delivery in doubt is never sent again nor called delivered.
THEOREM DoubtStays == Spec => DoubtIsFinal
<1>1. IInv /\ [Next]_vars =>
        [\A q \in Questions : rec[q].delivery = "Uncertain" =>
           rec'[q].delivery \in {"Uncertain", "Cancelled"} \/ q \in lost']_vars
  BY DoubtMoves
<1>. QED BY <1>1, Inductive, PTL DEF Spec, DoubtIsFinal
=============================================================================
