----------------------------- MODULE LedgerStatus -----------------------------
(***************************************************************************)
(* Theorems about the statuses Ledger keeps: that of an attempt which has  *)
(* ended is final, and that of the run keeps its word about the work.      *)
(***************************************************************************)
EXTENDS LedgerRules, LedgerSlots

-----------------------------------------------------------------------------
(* The status of an attempt that ended *)

Settled(b) == attempt[b].status \in {"completed", "failed", "cancelled"}

SettledKept == \A b \in Attempts : Settled(b) => attempt'[b].status = attempt[b].status

\* A step rewrites the status of no attempt but a live or a blocked one.
LEMMA SettledStep ==
    ASSUME IInv, [Next]_vars
    PROVE  SettledKept
<1>t. TypeOK
  BY DEF IInv
<1>u. UNCHANGED attempt => SettledKept
  BY DEF SettledKept
<1>1. ASSUME NEW t \in Tasks, NEW a \in Attempts, NEW by \in Starters, Start(t, a, by)
      PROVE  SettledKept
  BY <1>1, <1>t DEF SettledKept, TypeOK, Start, NextAttempt, Superseded, AttemptRecord, Settled
<1>2. Activate \/ ChatStarted => SettledKept
  BY <1>t DEF SettledKept, TypeOK, Activate, ChatStarted, AttemptRecord, Settled
<1>3. ASSUME NEW a \in Attempts, NEW retryable \in BOOLEAN, Failable(a), Fail(a, retryable)
      PROVE  SettledKept
  <2>1. ~Settled(a)
    BY <1>3 DEF Failable, Unsettled, Live, Settled
  <2>2. \A b \in Attempts : b # a => attempt'[b] = attempt[b]
    BY <1>3, <1>t DEF TypeOK, Fail
  <2>. QED BY <2>1, <2>2 DEF SettledKept
<1>4. ASSUME NEW a \in Attempts, NEW o \in Outcomes, NEW v \in Verdicts, Report(a, o, v)
      PROVE  SettledKept
  <2>1. ~Settled(a)
    BY <1>4 DEF Report, MayReport, Live, Settled
  <2>2. \A b \in Attempts : b # a => attempt'[b] = attempt[b]
    BY <1>4, <1>t DEF TypeOK, Report
  <2>. QED BY <2>1, <2>2 DEF SettledKept
<1>5. ASSUME NEW g \in Gates, NEW t \in Tasks, TaskGate(g, t) PROVE SettledKept
  BY <1>5, <1>t, NoneIsNoId DEF SettledKept, TypeOK, TaskGate, Unsettled, Live, Settled, IInv, HoldersOwn
<1>6. ASSUME NEW g \in Gates, NEW byPerson \in BOOLEAN, ResolveGate(g, byPerson)
      PROVE  SettledKept
  BY <1>6, <1>t DEF SettledKept, TypeOK, ResolveGate, Settled
<1>7. ASSUME NEW t \in Tasks, DropRecovery(t) PROVE SettledKept
  BY <1>7, <1>t, FieldTypes DEF SettledKept, TypeOK, DropRecovery, AttemptRecord
<1>8. ASSUME NEW t \in Tasks, StopTask(t) PROVE SettledKept
  <2>1. \A b \in Attempts : b # task[t].active => attempt'[b] = attempt[b]
    BY <1>8, <1>t DEF TypeOK, StopTask
  <2>. QED BY <1>8, <2>1 DEF SettledKept, StopTask, Unsettled, Live, Settled
<1>9. StopRun => SettledKept
  BY <1>t DEF SettledKept, TypeOK, StopRun, AttemptRecord, Settled
<1>10. ReplaceCommit => SettledKept
  BY <1>t DEF SettledKept, TypeOK, ReplaceCommit, Replace, AttemptRecord
<1>11. Restart => SettledKept
  <2>1. ASSUME Restart, NEW b \in Attempts, Settled(b)
        PROVE  attempt'[b].status = attempt[b].status
    <3>1. attempt[b] \in AttemptRecord /\ ~Unsettled(b)
      BY <2>1, <1>t DEF TypeOK, Unsettled, Live, Settled
    <3>. QED BY <2>1, <3>1 DEF Restart, UnsettledAttempts, AttemptRecord
  <2>. QED BY <2>1 DEF SettledKept
<1>12. CASE CoordinatorNext
  BY <1>12, <1>u, <1>1, <1>5, <1>6, <1>10
     DEF CoordinatorNext, CreateTask, ReplaceCheck, ReplaceCreate, CoordinatorStart,
         Starters, RunGate, AboutGate, Reopen
<1>13. CASE PersonNext
  BY <1>13, <1>u, <1>1, <1>6, <1>8, <1>9 DEF PersonNext, PageStart, Starters, Reopen
<1>14. CASE WorkerNext
  BY <1>14, <1>3, <1>4 DEF WorkerNext, WorkerFails
<1>15. CASE HostNext
  <2>1. ASSUME NEW retryable \in BOOLEAN, DispatchFails(retryable) PROVE SettledKept
    <3>1. dispatch \in Attempts
      BY <2>1, <1>t DEF DispatchFails, TypeOK
    <3>. QED BY <2>1, <3>1, <1>u, <1>3 DEF DispatchFails
  <2>. QED BY <1>15, <2>1, <1>u, <1>1, <1>2, <1>7
           DEF HostNext, StartReturns, ActivationRefused, TellReopen, Recover, Dispatch,
               Starters
<1>16. CASE UNCHANGED vars
  BY <1>16, <1>u DEF vars
<1>. QED BY <1>11, <1>12, <1>13, <1>14, <1>15, <1>16 DEF Next

\* An attempt that completed, failed or was cancelled stays what it is,
\* whatever gate, report, failure or restart comes after.
THEOREM SettledIsFinal == Spec => SettledStays
<1>1. IInv /\ [Next]_vars =>
        [\A a \in Attempts :
           attempt[a].status \in {"completed", "failed", "cancelled"}
             => attempt'[a].status = attempt[a].status]_vars
  BY SettledStep DEF SettledKept, Settled
<1>. QED BY <1>1, Inductive, PTL DEF Spec, SettledStays

-----------------------------------------------------------------------------
(* The status of the run *)

\* Nothing comes up that a stopped run would deny.
WordKept ==
    /\ \A g \in Gates : gate'[g].status = "open" => gate[g].status = "open"
    /\ \A b \in Attempts :
         Unsettled(b)' \/ attempt'[b].retryDue =>
             /\ Unsettled(b) \/ attempt[b].retryDue
             /\ attempt'[b].task = attempt[b].task
    /\ \A t \in Tasks : task'[t].replacedBy = None => task[t].replacedBy = None

\* A status that is derived says what the tasks and the gates say.
LEMMA DerivedWord ==
    ASSUME IInv', RInv', runStatus' = Derived(task', gate')
    PROVE  StatusKeepsItsWord'
<1>1. ASSUME runStatus' = "completed", NEW t \in Tasks, task'[t].replacedBy = None
      PROVE  task'[t].status \in {"absent", "completed", "cancelled"}
  BY <1>1 DEF Derived
<1>2. ASSUME runStatus' = "stopped"
      PROVE  /\ \A g \in Gates : gate'[g].status # "open"
             /\ \A t \in Tasks : task'[t].status \in {"running", "blocked"} =>
                                     task'[t].replacedBy # None
  BY <1>2 DEF Derived
<1>3. ASSUME NEW a \in Attempts, (Unsettled(a) \/ attempt[a].retryDue)'
      PROVE  /\ attempt'[a].task \in Tasks
             /\ task'[attempt'[a].task].status \in {"running", "blocked"}
  <2>1. Owns(a)'
    BY <1>3 DEF IInv, RInv, HoldersOwn, RetryIsOwn, Unsettled, Live
  <2>2. attempt'[a].task \in Tasks
    BY <2>1 DEF Owns, IInv, TypeOK, AttemptRecord
  <2>3. Live(a)' => task'[attempt'[a].task].status = "running"
    BY <2>1, <2>2, NoneIsNoId DEF Owns, IInv, StatusAgrees
  <2>4. attempt'[a].status = "blocked" => task'[attempt'[a].task].status = "blocked"
    BY DEF IInv, BlockedTogether
  <2>5. attempt'[a].retryDue => task'[attempt'[a].task].status = "blocked"
    BY DEF RInv, ScheduledRetry
  <2>. QED BY <1>3, <2>2, <2>3, <2>4, <2>5 DEF Unsettled
<1>. QED BY <1>1, <1>2, <1>3 DEF StatusKeepsItsWord

\* A run that stays stopped keeps its word if nothing comes up.
LEMMA StoppedWord ==
    ASSUME IInv, IInv', RInv, RInv', StatusKeepsItsWord, WordKept,
           runStatus = "stopped", runStatus' = "stopped"
    PROVE  StatusKeepsItsWord'
<1>1. \A b \in Attempts : Unsettled(b)' \/ attempt'[b].retryDue =>
         attempt'[b].task \in Tasks
  BY FieldTypes DEF WordKept, IInv, HoldersOwn, RetryIsOwn, Owns, Unsettled, Live
<1>. QED BY <1>1 DEF StatusKeepsItsWord, WordKept

\* recompute_run.
LEMMA RecomputedWord ==
    ASSUME IInv, IInv', RInv, RInv', StatusKeepsItsWord, WordKept,
           runStatus' = Recomputed(task', gate')
    PROVE  StatusKeepsItsWord'
BY DerivedWord, StoppedWord DEF Recomputed

\* Any other status promises nothing.
LEMMA OtherWord ==
    ASSUME runStatus' \notin {"completed", "stopped"}
    PROVE  StatusKeepsItsWord'
BY DEF StatusKeepsItsWord

\* A step that leaves the run's status and the tasks' alone.
LEMMA SameWord ==
    ASSUME IInv, IInv', RInv, RInv', StatusKeepsItsWord, WordKept, runStatus' = runStatus,
           \A t \in Tasks : task'[t].status = task[t].status
    PROVE  StatusKeepsItsWord'
<1>1. CASE runStatus = "stopped"
  BY <1>1, StoppedWord
<1>2. CASE runStatus = "completed"
  BY <1>2 DEF StatusKeepsItsWord, WordKept
<1>3. CASE runStatus \notin {"completed", "stopped"}
  BY <1>3, OtherWord
<1>. QED BY <1>1, <1>2, <1>3

-----------------------------------------------------------------------------
\* What an attempt's end, or less, leaves to a stopped run.
LEMMA KeptWord ==
    ASSUME IInv, SlotsKept,
           \A g \in Gates : gate'[g].status = "open" => gate[g].status = "open",
           \A b \in Attempts : attempt'[b].retryDue =>
                                   /\ Unsettled(b) \/ attempt[b].retryDue
                                   /\ attempt'[b].task = attempt[b].task,
           \A t \in Tasks : task'[t].replacedBy = None => task[t].replacedBy = None
    PROVE  WordKept
BY DEF SlotsKept, WordKept

\* A step that changes no attempt, gate or run status, and of the tasks no
\* status.
LEMMA UntouchedWord ==
    ASSUME IInv, IInv', RInv, RInv', StatusKeepsItsWord,
           UNCHANGED <<runStatus, attempt, gate>>,
           \A t \in Tasks : /\ task'[t].status = task[t].status
                            /\ task'[t].replacedBy = task[t].replacedBy
    PROVE  StatusKeepsItsWord'
<1>1. WordKept
  BY UntouchedKeeps, KeptWord
<1>. QED BY <1>1, SameWord

\* activate_attempt and finish_dispatch.
LEMMA StartGoesOnWord ==
    ASSUME IInv, IInv', RInv, RInv', StatusKeepsItsWord, Activate \/ ChatStarted
    PROVE  StatusKeepsItsWord'
<1>1. \A b \in Attempts : /\ attempt'[b].task = attempt[b].task
                          /\ attempt'[b].retryDue = attempt[b].retryDue
  <2>1. dispatch \in Attempts /\ attempt \in [Attempts -> AttemptRecord]
    BY DEF IInv, TypeOK, Activate, ChatStarted
  <2>2. CASE Activate
    <3>1. attempt' = [attempt EXCEPT ![dispatch].status = "running",
                                     ![dispatch].stage = "activated"]
      BY <2>2 DEF Activate
    <3>. QED BY <2>1, <3>1 DEF AttemptRecord
  <2>3. CASE ChatStarted
    <3>1. attempt' = [attempt EXCEPT ![dispatch].stage = "up"]
      BY <2>3 DEF ChatStarted
    <3>. QED BY <2>1, <3>1 DEF AttemptRecord
  <2>. QED BY <2>2, <2>3
<1>2. UNCHANGED <<runStatus, task, gate>>
  BY DEF Activate, ChatStarted
<1>3. WordKept
  BY <1>1, <1>2, ActivateKeeps, ChatStartedKeeps, KeptWord
<1>. QED BY <1>2, <1>3, SameWord

\* execution::fail: a retry may come up, of an attempt that held a slot.
LEMMA FailWord ==
    ASSUME IInv, IInv', RInv, RInv', StatusKeepsItsWord,
           NEW a \in Attempts, NEW retryable \in BOOLEAN,
           Failable(a), Fail(a, retryable)
    PROVE  StatusKeepsItsWord'
<1>1. \A b \in Attempts : /\ attempt'[b].task = attempt[b].task
                          /\ b # a => attempt'[b] = attempt[b]
  BY ZenonT(60) DEF IInv, TypeOK, Fail, AttemptRecord
<1>2. \A g \in Gates : gate'[g].status = "open" => gate[g].status = "open"
  BY CancelType DEF IInv, TypeOK, Fail
<1>3. \A t \in Tasks : task'[t].replacedBy = task[t].replacedBy
  BY DEF IInv, TypeOK, Fail, TaskRecord
<1>4. WordKept
  BY <1>1, <1>2, <1>3, FailKeeps, KeptWord DEF Failable
<1>. QED BY <1>4, RecomputedWord DEF Fail

\* report_worker.
LEMMA ReportWord ==
    ASSUME IInv, IInv', RInv, RInv', StatusKeepsItsWord,
           NEW a \in Attempts, NEW o \in Outcomes, NEW v \in Verdicts, Report(a, o, v)
    PROVE  StatusKeepsItsWord'
<1>1. \A b \in Attempts : /\ attempt'[b].task = attempt[b].task
                          /\ attempt'[b].retryDue => attempt[b].retryDue
  BY DEF IInv, TypeOK, Report, AttemptRecord
<1>2. PICK r \in [Tasks -> TaskRecord] :
        /\ task' = MakeReady(r)
        /\ \A t \in Tasks : r[t].replacedBy = task[t].replacedBy
  <2>. DEFINE t == attempt[a].task
              settled == [task[t] EXCEPT !.status = o, !.verdict = v]
              q == IF ReleasesAs(t, settled) THEN [settled EXCEPT !.retries = 0] ELSE settled
              r == [task EXCEPT ![t] = q]
  <2>1. t \in Tasks
    BY FieldTypes DEF IInv, Report, MayReport, Owns
  <2>2. settled \in TaskRecord /\ settled.replacedBy = task[t].replacedBy
    <3>1. task[t] \in TaskRecord
      BY <2>1 DEF IInv, TypeOK
    <3>2. o \in TaskStatuses
      BY DEF Outcomes, TaskStatuses
    <3>. QED BY <3>1, <3>2 DEF TaskRecord
  <2>3. q \in TaskRecord /\ q.replacedBy = task[t].replacedBy
    <3>. HIDE DEF settled
    <3>. QED BY <2>2 DEF TaskRecord
  <2>4. task' = MakeReady(r)
    BY DEF Report
  <2>. HIDE DEF q, t
  <2>5. r \in [Tasks -> TaskRecord] /\ \A u \in Tasks : r[u].replacedBy = task[u].replacedBy
    BY <2>1, <2>3 DEF IInv, TypeOK
  <2>. QED BY <2>4, <2>5
<1>3. \A t \in Tasks : task'[t].replacedBy = task[t].replacedBy
  BY <1>2 DEF MakeReady, TaskRecord
<1>4. gate' = gate
  BY DEF Report
<1>5. WordKept
  BY <1>1, <1>3, <1>4, ReportKeeps, KeptWord
<1>6. runStatus' = Recomputed(task', gate')
  BY <1>4 DEF Report
<1>. QED BY <1>5, <1>6, RecomputedWord

\* recover_due_workers giving a recovery up.
LEMMA DropRecoveryWord ==
    ASSUME IInv, IInv', RInv, RInv', StatusKeepsItsWord,
           NEW t \in Tasks, DropRecovery(t)
    PROVE  StatusKeepsItsWord'
<1>1. \A b \in Attempts : /\ attempt'[b].task = attempt[b].task
                          /\ attempt'[b].retryDue => attempt[b].retryDue
  BY FieldTypes DEF IInv, TypeOK, DropRecovery, AttemptRecord
<1>2. gate' = gate /\ \A u \in Tasks : task'[u].replacedBy = task[u].replacedBy
  BY DEF IInv, TypeOK, DropRecovery, TaskRecord
<1>3. WordKept
  BY <1>1, <1>2, DropRecoveryKeeps, KeptWord
<1>4. runStatus' = Recomputed(task', gate')
  BY <1>2 DEF DropRecovery
<1>. QED BY <1>3, <1>4, RecomputedWord

\* stop_task.
LEMMA StopTaskWord ==
    ASSUME IInv, IInv', RInv, RInv', StatusKeepsItsWord, NEW t \in Tasks, StopTask(t)
    PROVE  StatusKeepsItsWord'
<1>1. \A b \in Attempts : /\ attempt'[b].task = attempt[b].task
                          /\ attempt'[b].retryDue => attempt[b].retryDue
  BY FieldTypes DEF IInv, TypeOK, StopTask, AttemptRecord
<1>2. \A u \in Tasks : task'[u].replacedBy = task[u].replacedBy
  BY DEF IInv, TypeOK, StopTask, TaskRecord
<1>3. \A g \in Gates : gate'[g].status = "open" => gate[g].status = "open"
  BY CancelType DEF IInv, TypeOK, StopTask
<1>4. WordKept
  BY <1>1, <1>2, <1>3, StopTaskKeeps, KeptWord
<1>. QED BY <1>4, RecomputedWord DEF StopTask

\* stop_run.
LEMMA StopRunWord ==
    ASSUME IInv, StopRun
    PROVE  StatusKeepsItsWord'
<1>1. \A g \in Gates : gate'[g].status # "open"
  BY CancelType DEF IInv, TypeOK, StopRun
<1>2. \A b \in Attempts : /\ attempt'[b].status \notin {"preparing", "running", "blocked"}
                          /\ attempt'[b].retryDue = FALSE
  BY DEF IInv, TypeOK, StopRun, AttemptRecord
<1>3. runStatus' = "stopped"
  BY DEF StopRun
<1>. QED BY <1>1, <1>2, <1>3 DEF StatusKeepsItsWord, Unsettled, Live

\* supersede: the old task was no completed work.
LEMMA ReplaceCommitWord ==
    ASSUME IInv, IInv', RInv, RInv', StatusKeepsItsWord, ReplaceCommit
    PROVE  StatusKeepsItsWord'
<1>1. \A b \in Attempts : /\ attempt'[b].task = attempt[b].task
                          /\ attempt'[b].retryDue => attempt[b].retryDue
  BY DEF IInv, TypeOK, ReplaceCommit, Replace, AttemptRecord
<1>2. \A u \in Tasks : task'[u].replacedBy = None => task[u].replacedBy = None
  BY NoneIsNoId DEF IInv, TypeOK, ReplaceCommit, Replace, TaskRecord, Replacing
<1>3. gate' = gate
  BY DEF ReplaceCommit
<1>4. WordKept
  BY <1>1, <1>2, <1>3, ReplaceCommitKeeps, KeptWord
<1>5. CASE runStatus' = Recomputed(task', gate')
  BY <1>4, <1>5, RecomputedWord
<1>6. CASE ~Supersedable(replacing.old)
  BY <1>6, UntouchedWord DEF ReplaceCommit
<1>7. CASE Supersedable(replacing.old) /\ runStatus' = runStatus
  <2>1. runStatus # "completed"
    BY <1>7 DEF ReplaceCommit, Supersedable, StatusKeepsItsWord, IInv, TypeOK, Replacing
  <2>. QED BY <1>4, <1>7, <2>1, StoppedWord, OtherWord
<1>. QED BY <1>3, <1>5, <1>6, <1>7 DEF ReplaceCommit, Replace

\* recover_interrupted_workers, and then correct_finished_run_statuses.
LEMMA RestartWord ==
    ASSUME IInv, IInv', RInv, RInv', StatusKeepsItsWord, Restart
    PROVE  StatusKeepsItsWord'
<1>1. \A b \in Attempts : /\ attempt'[b].task = attempt[b].task
                          /\ attempt'[b].retryDue => attempt[b].retryDue
  BY DEF IInv, TypeOK, Restart, AttemptRecord
<1>2. \A u \in Tasks : task'[u].replacedBy = task[u].replacedBy
  BY DEF IInv, TypeOK, Restart, TaskRecord
<1>3. \A g \in Gates : gate'[g].status = "open" => gate[g].status = "open"
  BY CancelType DEF IInv, TypeOK, Restart
<1>4. WordKept
  BY <1>1, <1>2, <1>3, RestartKeeps, KeptWord
<1>5. \/ runStatus' = Derived(task', gate')
      \/ runStatus' = Recomputed(task', gate')
      \/ runStatus' = runStatus /\ runStatus' # "completed"
  BY DEF Restart
<1>6. CASE runStatus' = runStatus /\ runStatus' # "completed"
  BY <1>4, <1>6, StoppedWord, OtherWord
<1>. QED BY <1>4, <1>5, <1>6, DerivedWord, RecomputedWord

\* Every step keeps the word.
LEMMA WordStep ==
    ASSUME IInv, RInv, StatusKeepsItsWord, [Next]_vars
    PROVE  StatusKeepsItsWord'
<1>i. IInv' /\ RInv'
  BY NextIInv, NextRules
<1>1. ASSUME NEW t \in Tasks, NEW a \in Attempts, NEW by \in Starters, Start(t, a, by)
      PROVE  StatusKeepsItsWord'
  BY <1>1, OtherWord DEF Start
<1>2. ASSUME NEW t \in Tasks, CreateTask(t) \/ ReplaceCreate(t)
      PROVE  StatusKeepsItsWord'
  BY <1>2, OtherWord DEF CreateTask, ReplaceCreate, Create
<1>3. ASSUME NEW g \in Gates, NEW on, NEW about, Open(g, on, about)
      PROVE  StatusKeepsItsWord'
  BY <1>3, OtherWord DEF Open
<1>4. ASSUME NEW g \in Gates, NEW byPerson \in BOOLEAN, ResolveGate(g, byPerson)
      PROVE  StatusKeepsItsWord'
  BY <1>i, <1>4, DerivedWord DEF ResolveGate, Recomputed, StatusKeepsItsWord
<1>5. ASSUME NEW t \in Tasks, NEW byPerson \in BOOLEAN, NEW told \in BOOLEAN,
             Reopen(t, byPerson, told)
      PROVE  StatusKeepsItsWord'
  BY <1>i, <1>5, DerivedWord DEF Reopen, Recomputed
<1>6. ASSUME NEW t \in Tasks, ReplaceCheck(t) \/ TellReopen(t)
      PROVE  StatusKeepsItsWord'
  <2>1. \A u \in Tasks : /\ task'[u].status = task[u].status
                         /\ task'[u].replacedBy = task[u].replacedBy
    BY <1>6 DEF IInv, TypeOK, TaskRecord, ReplaceCheck, TellReopen
  <2>. QED BY <1>i, <1>6, <2>1, UntouchedWord DEF ReplaceCheck, TellReopen
<1>7. CASE CoordinatorNext
  BY <1>i, <1>7, <1>1, <1>2, <1>3, <1>4, <1>5, <1>6, ReplaceCommitWord
     DEF CoordinatorNext, CoordinatorStart, Starters, RunGate, AboutGate, TaskGate
<1>8. CASE PersonNext
  BY <1>i, <1>8, <1>1, <1>4, <1>5, StopTaskWord, StopRunWord
     DEF PersonNext, PageStart, Starters
<1>9. CASE WorkerNext
  BY <1>i, <1>9, FailWord, ReportWord DEF WorkerNext, WorkerFails
<1>10. CASE HostNext
  <2>1. ASSUME NEW retryable \in BOOLEAN, DispatchFails(retryable)
        PROVE  StatusKeepsItsWord'
    <3>1. dispatch \in Attempts
      BY <2>1 DEF DispatchFails, IInv, TypeOK
    <3>2. CASE Failable(dispatch)
      BY <1>i, <2>1, <3>1, <3>2, FailWord DEF DispatchFails
    <3>3. CASE ~Failable(dispatch)
      BY <1>i, <2>1, <3>3, UntouchedWord DEF DispatchFails
    <3>. QED BY <3>2, <3>3
  <2>2. CASE ActivationRefused
    BY <1>i, <2>2, UntouchedWord DEF ActivationRefused
  <2>. QED BY <1>i, <1>10, <1>1, <1>6, <2>1, <2>2, StartGoesOnWord, DropRecoveryWord
           DEF HostNext, StartReturns, Recover, Dispatch, Starters
<1>11. CASE UNCHANGED vars
  BY <1>i, <1>11, UntouchedWord DEF vars
<1>. QED BY <1>i, <1>7, <1>8, <1>9, <1>10, <1>11, RestartWord DEF Next

\* A run that says it is completed has no current work to do, and one that
\* says it is stopped has no worker, retry or question on its current work
\* (recompute_run, correct_finished_run_statuses).
THEOREM StatusIsTrue == Spec => []StatusKeepsItsWord
<1>1. Init => StatusKeepsItsWord
  BY DEF Init, StatusKeepsItsWord
<1>2. IInv /\ RInv /\ StatusKeepsItsWord /\ [Next]_vars => StatusKeepsItsWord'
  BY WordStep
<1>. QED BY <1>1, <1>2, Inductive, RulesHold, PTL DEF Spec

=============================================================================
