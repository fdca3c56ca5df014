----------------------------- MODULE LedgerRules -----------------------------
(***************************************************************************)
(* Theorems about what Ledger promises of the work it is not doing just    *)
(* now: of tasks that wait, are stopped, blocked or owed a retry, and of   *)
(* the budget their retries use up.  They hold together (RInv), on top of  *)
(* IInv of Ledger.                                                         *)
(***************************************************************************)
EXTENDS LedgerProofs

\* How a task that no worker is at says how its last attempt ended.
ActiveTells ==
    \A t \in Tasks :
        /\ task[t].status = "completed" => task[t].active # None
        /\ task[t].active # None =>
             /\ task[t].status \in {"pending", "ready", "completed"} =>
                    attempt[task[t].active].status = "completed"
             /\ task[t].status = "blocked" =>
                    attempt[task[t].active].status \in {"failed", "blocked"}

\* A gate a task waits on is no gate about a failed task.
GateShape == \A g \in Gates : gate[g].on # None => gate[g].about = None

\* The ledger's own counter is never behind what happened, nor over the limit.
CountIsKept ==
    \A t \in Tasks : /\ autoRetries[t] <= task[t].retries
                     /\ task[t].retries <= RetryLimit
                     /\ task[t].status = "absent" => autoRetries[t] = 0

\* A call that replaces a task does so with a task it has created.
NewTaskExists ==
    replacing # None /\ replacing.new # None => task[replacing.new].status # "absent"

RInv ==
    /\ ActiveTells
    /\ GateShape
    /\ CountIsKept
    /\ NewTaskExists
    /\ StoppedStaysDown
    /\ ScheduledRetry
    /\ BlockedIsExplained
    /\ DependantsNeverOutrun
    /\ PendingWaits

-----------------------------------------------------------------------------
(* What the types and the constants say, for the steps below *)

LEMMA FieldTypes ==
    ASSUME TypeOK
    PROVE  /\ \A u \in Tasks : /\ task[u].active \in Attempts \cup {None}
                               /\ task[u].retries \in Nat
                               /\ task[u].stopped \in BOOLEAN
                               /\ autoRetries[u] \in Nat
           /\ \A b \in Attempts : /\ attempt[b].task \in Tasks \cup {None}
                                  /\ attempt[b].retryDue \in BOOLEAN
                                  /\ attempt[b].finished \in BOOLEAN
           /\ \A g \in Gates : /\ gate[g].on \in Tasks \cup {None}
                               /\ gate[g].about \in Tasks \cup {None}
BY DEF TypeOK, TaskRecord, AttemptRecord, GateRecord

\* Dependencies are older tasks.
LEMMA DepsAreOlder == \A t \in Tasks : \A d \in Deps[t] : d \in Tasks /\ d # t
BY DepsAssumption, TasksAssumption

\* A completed task has no attempt that holds a slot.
LEMMA CompletedIsSettled ==
    ASSUME IInv, NEW t \in Tasks, task[t].active # None, Unsettled(task[t].active)
    PROVE  task[t].status \in {"running", "blocked"}
BY FieldTypes DEF IInv, StatusAgrees, BlockedTogether, ActiveIsOwn, Unsettled

\* What retry::counted counts is at least what the attempts show.
LEMMA BadEndsCount ==
    ASSUME IInv, ActiveTells, NEW t \in Tasks, EndedBadly(t), ~task[t].stopped,
           task[t].status \notin {"completed", "cancelled"}
    PROVE  Counted(t)
BY FieldTypes
   DEF IInv, TypeOK, TaskRecord, TaskStatuses, ActiveTells, ActiveIsOwn, StatusAgrees,
       EndedBadly, Counted, Unsettled, Live

USE DepsAreOlder

-----------------------------------------------------------------------------
(* One lemma for each kind of step *)

\* A step that moves nothing these rules speak of: an attempt may become live
\* in another way, and a gate may open on no task and about none that is due.
LEMMA QuietRules ==
    ASSUME IInv, RInv, NewTaskExists', GateShape', autoRetries' = autoRetries,
           \A u \in Tasks : /\ task'[u].status = task[u].status
                            /\ task'[u].active = task[u].active
                            /\ task'[u].verdict = task[u].verdict
                            /\ task'[u].stopped = task[u].stopped
                            /\ task'[u].retries = task[u].retries,
           \A b \in Attempts : /\ attempt'[b].task = attempt[b].task
                               /\ attempt'[b].retryDue = attempt[b].retryDue
                               /\ attempt'[b].finished = attempt[b].finished
                               /\ attempt'[b].status # attempt[b].status =>
                                      Live(b) /\ Live(b)',
           \A u \in Tasks : OpenGateOn(u)' <=> OpenGateOn(u),
           \A b \in Attempts : attempt[b].retryDue /\ Escalated(attempt[b].task)' =>
                                   Escalated(attempt[b].task)
    PROVE  RInv'
<1>1. \A u \in Tasks : Released(u)' <=> Released(u)
  BY DEF Released, ReleasesAs
<1>2. TypeOK
  BY DEF IInv
<1>3. ActiveTells' /\ CountIsKept' /\ StoppedStaysDown'
  BY <1>2, FieldTypes DEF RInv, ActiveTells, CountIsKept, StoppedStaysDown, Live
<1>4. ScheduledRetry'
  BY <1>2, FieldTypes DEF RInv, ScheduledRetry, Owns, Live
<1>5. BlockedIsExplained'
  BY <1>2, FieldTypes DEF RInv, BlockedIsExplained, Live
<1>6. DependantsNeverOutrun' /\ PendingWaits'
  BY <1>1 DEF RInv, DependantsNeverOutrun, PendingWaits
<1>. QED BY <1>3, <1>4, <1>5, <1>6 DEF RInv

\* No gate changes.
LEMMA GatesStay ==
    ASSUME gate' = gate
    PROVE  /\ GateShape => GateShape'
           /\ \A u : (OpenGateOn(u)' <=> OpenGateOn(u)) /\ (Escalated(u)' <=> Escalated(u))
BY DEF GateShape, OpenGateOn, Escalated

\* The ledger is left alone.
LEMMA UntouchedRules ==
    ASSUME IInv, RInv, NewTaskExists', UNCHANGED <<task, attempt, gate, autoRetries>>
    PROVE  RInv'
BY QuietRules, GatesStay DEF RInv

\* activate_attempt: one attempt goes from preparing to running.
LEMMA ActivateRules ==
    ASSUME IInv, RInv, Activate
    PROVE  RInv'
<1>1. \A b \in Attempts : /\ attempt'[b].task = attempt[b].task
                          /\ attempt'[b].retryDue = attempt[b].retryDue
                          /\ attempt'[b].finished = attempt[b].finished
                          /\ attempt'[b].status # attempt[b].status => Live(b) /\ Live(b)'
  BY DEF IInv, TypeOK, Activate, AttemptRecord, Live
<1>2. UNCHANGED <<task, gate, replacing, autoRetries>>
  BY DEF Activate
<1>3. NewTaskExists'
  BY <1>2 DEF RInv, NewTaskExists
<1>. QED BY <1>1, <1>2, <1>3, QuietRules, GatesStay DEF RInv

\* finish_dispatch: only how far the start got changes.
LEMMA ChatStartedRules ==
    ASSUME IInv, RInv, ChatStarted
    PROVE  RInv'
<1>1. \A b \in Attempts : /\ attempt'[b].task = attempt[b].task
                          /\ attempt'[b].retryDue = attempt[b].retryDue
                          /\ attempt'[b].finished = attempt[b].finished
                          /\ attempt'[b].status = attempt[b].status
  BY DEF IInv, TypeOK, ChatStarted, AttemptRecord
<1>2. UNCHANGED <<task, gate, replacing, autoRetries>>
  BY DEF ChatStarted
<1>3. NewTaskExists'
  BY <1>2 DEF RInv, NewTaskExists
<1>. QED BY <1>1, <1>2, <1>3, QuietRules, GatesStay DEF RInv

\* tell_reopens: only the notice is recorded.
LEMMA TellReopenRules ==
    ASSUME IInv, RInv, NEW t \in Tasks, TellReopen(t)
    PROVE  RInv'
<1>1. \A u \in Tasks : /\ task'[u].status = task[u].status
                       /\ task'[u].active = task[u].active
                       /\ task'[u].verdict = task[u].verdict
                       /\ task'[u].stopped = task[u].stopped
                       /\ task'[u].retries = task[u].retries
  BY DEF IInv, TypeOK, TellReopen, TaskRecord
<1>2. UNCHANGED <<attempt, gate, replacing, autoRetries>>
  BY DEF TellReopen
<1>3. NewTaskExists'
  BY <1>1, <1>2 DEF IInv, TypeOK, Replacing, RInv, NewTaskExists
<1>. QED BY <1>1, <1>2, <1>3, QuietRules, GatesStay DEF RInv

\* A question about the run, or about a task that failed and is not due.
LEMMA OpenRules ==
    ASSUME IInv, RInv, NEW g \in Gates, NEW about \in Tasks \cup {None},
           Open(g, None, about), UNCHANGED <<task, attempt, replacing, autoRetries>>,
           \A b \in Attempts : attempt[b].retryDue => attempt[b].task # about
    PROVE  RInv'
<1>1. NewTaskExists' /\ GateShape'
  BY DEF RInv, NewTaskExists, GateShape, IInv, TypeOK, Open
<1>a. /\ gate'[g].on = None /\ gate'[g].about = about
      /\ gate[g].status = "absent"
      /\ \A h \in Gates : h # g => gate'[h] = gate[h]
  BY DEF IInv, TypeOK, Open, NextGate
<1>2. \A u \in Tasks : OpenGateOn(u)' <=> OpenGateOn(u)
  BY <1>a, NoneIsNoId DEF OpenGateOn
<1>3. \A u \in Tasks : u # about /\ Escalated(u)' => Escalated(u)
  BY <1>a DEF Escalated
<1>4. \A b \in Attempts : attempt[b].retryDue => attempt[b].task \in Tasks
  BY FieldTypes DEF RInv, ScheduledRetry, Owns, IInv
<1>5. \A b \in Attempts : attempt[b].retryDue /\ Escalated(attempt[b].task)' =>
                             Escalated(attempt[b].task)
  <2>1. attempt' = attempt
    OBVIOUS
  <2>. QED BY <2>1, <1>3, <1>4 DEF Escalated
<1>. QED BY <1>1, <1>2, <1>5, QuietRules

\* create_task: a new task, pending unless all it depends on releases it.
LEMMA CreateRules ==
    ASSUME IInv, RInv, NEW t \in Tasks, Create(t), NewTaskExists',
           UNCHANGED <<attempt, gate, autoRetries>>
    PROVE  RInv'
<1>t. TypeOK
  BY DEF IInv
<1>a. /\ task[t].status = "absent" /\ task[t].active = None
      /\ \A b \in Attempts : attempt[b].retryDue => attempt[b].task # t
  BY <1>t, FieldTypes
     DEF Create, NextTask, Exists, IInv, ActiveIsOwn, RInv, ScheduledRetry
<1>b. /\ task'[t].active = None /\ task'[t].retries = 0 /\ task'[t].stopped = FALSE
      /\ task'[t].status \in {"ready", "pending"}
      /\ task'[t].status = "pending" => \E d \in Deps[t] : ~Released(d)
      /\ \A u \in Tasks : u # t => task'[u] = task[u]
  BY <1>t DEF TypeOK, Create, Created, NoTask
<1>c. /\ ~Released(t) /\ ~Released(t)'
      /\ \A u \in Tasks : u # t => (Released(u)' <=> Released(u))
  BY <1>a, <1>b DEF Released, ReleasesAs
<1>d. autoRetries[t] = 0 /\ RetryLimit \in Nat
  BY <1>a, LimitsAssumption DEF RInv, CountIsKept
<1>1. ActiveTells' /\ StoppedStaysDown'
  BY <1>t, <1>b, FieldTypes DEF RInv, ActiveTells, StoppedStaysDown
<1>2. CountIsKept' /\ GateShape'
  BY <1>b, <1>d, GatesStay DEF RInv, CountIsKept
<1>3. ScheduledRetry'
  BY <1>t, <1>a, <1>b, GatesStay, FieldTypes DEF RInv, ScheduledRetry, Owns
<1>4. BlockedIsExplained'
  BY <1>t, <1>b, GatesStay, FieldTypes DEF RInv, BlockedIsExplained
<1>5. DependantsNeverOutrun'
  BY <1>b, <1>c DEF RInv, DependantsNeverOutrun
<1>6. PendingWaits'
  BY <1>b, <1>c DEF RInv, PendingWaits
<1>. QED BY <1>1, <1>2, <1>3, <1>4, <1>5, <1>6 DEF RInv

\* reserve_attempt_for: the count goes up with the start, and what the task
\* depends on is released.
LEMMA StartRules ==
    ASSUME IInv, RInv, NEW t \in Tasks, NEW a \in Attempts, NEW by \in Starters,
           Start(t, a, by)
    PROVE  RInv'
<1>t. TypeOK
  BY DEF IInv
<1>a. /\ attempt[a].status = "absent"
      /\ \A d \in Deps[t] : Released(d)
      /\ task[t].status \notin {"absent", "completed", "cancelled"}
      /\ task[t].stopped => by = "page"
      /\ ByPerson(t, by) \/ Allowed(t)
  BY DEF Start, NextAttempt, AcceptsStart
<1>b. /\ attempt'[a].status = "preparing" /\ attempt'[a].task = t
      /\ attempt'[a].retryDue = FALSE
      /\ \A b \in Attempts : b # a => attempt'[b].task = attempt[b].task
      /\ \A b \in Attempts : b # a /\ b # task[t].active => attempt'[b] = attempt[b]
      /\ \A b \in Attempts : b # a /\ b = task[t].active => attempt'[b].retryDue = FALSE
  BY <1>t DEF TypeOK, Start, Reserved, NoAttempt, Superseded, AttemptRecord
<1>c. /\ task'[t].status = "running" /\ task'[t].active = a /\ task'[t].stopped = FALSE
      /\ task'[t].retries = RetriesAfterStart(t, by)
      /\ \A u \in Tasks : u # t => task'[u] = task[u]
  BY <1>t DEF TypeOK, TaskRecord, Start
<1>d. /\ \A g \in Gates : /\ gate'[g].on = gate[g].on /\ gate'[g].about = gate[g].about
                          /\ gate'[g].status = "open" => gate[g].status = "open"
                          /\ gate[g].status = "open" /\ gate[g].about # t =>
                                 gate'[g].status = "open"
  BY <1>t DEF TypeOK, Start, Cancel, GatesAbout, GateRecord
<1>e. \A u \in Tasks : /\ OpenGateOn(u)' <=> OpenGateOn(u)
                       /\ Escalated(u)' => Escalated(u)
  BY <1>d, NoneIsNoId DEF OpenGateOn, Escalated, RInv, GateShape
<1>f. ~Released(t) /\ ~Released(t)'
      /\ \A u \in Tasks : u # t => (Released(u)' <=> Released(u))
  BY <1>a, <1>c DEF Released, ReleasesAs
<1>g. \A u \in Tasks : u # t /\ task[u].active # None =>
         /\ task[u].active \in Attempts
         /\ attempt'[task[u].active] = attempt[task[u].active]
  BY <1>t, <1>a, <1>b, FieldTypes DEF IInv, ActiveIsOwn
<1>h. \A b \in Attempts : attempt'[b].retryDue =>
         /\ b # a /\ attempt[b].retryDue
         /\ attempt[b].task \in Tasks \ {t}
         /\ attempt'[b] = attempt[b]
  BY <1>t, <1>b, FieldTypes DEF RInv, ScheduledRetry, Owns
<1>i. /\ autoRetries'[t] = IF ByPerson(t, by) THEN 0
                           ELSE IF EndedBadly(t) THEN autoRetries[t] + 1 ELSE autoRetries[t]
      /\ \A u \in Tasks : u # t => autoRetries'[u] = autoRetries[u]
  BY <1>t DEF TypeOK, Start
<1>j. EndedBadly(t) /\ ~ByPerson(t, by) => Counted(t)
  BY <1>a, BadEndsCount DEF RInv, ByPerson
<1>1. ActiveTells' /\ StoppedStaysDown'
  BY <1>c, <1>g DEF RInv, ActiveTells, StoppedStaysDown
<1>2. CountIsKept'
  <2>1. /\ autoRetries'[t] <= task'[t].retries
        /\ task'[t].retries <= RetryLimit
    BY <1>t, <1>a, <1>c, <1>i, <1>j, FieldTypes, LimitsAssumption
       DEF RInv, CountIsKept, RetriesAfterStart, Allowed
  <2>. QED BY <2>1, <1>c, <1>i DEF RInv, CountIsKept
<1>3. GateShape' /\ NewTaskExists'
  BY <1>c, <1>d DEF Start, RInv, GateShape, NewTaskExists, IInv, TypeOK, Replacing
<1>4. ScheduledRetry'
  BY <1>c, <1>e, <1>h DEF RInv, ScheduledRetry, Owns
<1>5. BlockedIsExplained'
  BY <1>c, <1>e, <1>g DEF RInv, BlockedIsExplained
<1>6. DependantsNeverOutrun' /\ PendingWaits'
  BY <1>a, <1>c, <1>f DEF RInv, DependantsNeverOutrun, PendingWaits
<1>. QED BY <1>1, <1>2, <1>3, <1>4, <1>5, <1>6 DEF RInv

\* execution::fail: the task is blocked exactly if the host owes it a retry.
LEMMA FailRules ==
    ASSUME IInv, RInv, NEW a \in Attempts, NEW retryable \in BOOLEAN,
           Failable(a), Fail(a, retryable), UNCHANGED <<replacing, autoRetries>>
    PROVE  RInv'
<1>t. TypeOK
  BY DEF IInv
<1>. DEFINE retried == HostRetries(a, retryable)
<1>a. PICK t \in Tasks : t = attempt[a].task /\ task[t].active = a
  BY <1>t, FieldTypes DEF Failable, Owns
<1>b. /\ task[t].status \in {"running", "blocked"}
      /\ task[t].stopped = FALSE
      /\ retried \in BOOLEAN
      /\ retried => ~Escalated(t)
  <2>1. task[t].status \in {"running", "blocked"}
    BY <1>a, CompletedIsSettled, NoneIsNoId DEF Failable
  <2>. QED BY <1>t, <1>a, <2>1, FieldTypes DEF RInv, StoppedStaysDown, HostRetries
<1>c. /\ attempt'[a].status = "failed" /\ attempt'[a].finished = TRUE
      /\ attempt'[a].retryDue = retried /\ attempt'[a].task = t
      /\ \A b \in Attempts : b # a => attempt'[b] = attempt[b]
  <2>. HIDE DEF retried
  <2>1. attempt' = [attempt EXCEPT ![a] =
              [@ EXCEPT !.status = "failed", !.finished = TRUE, !.retryDue = retried]]
    BY DEF Fail, retried
  <2>. QED BY <1>t, <1>a, <2>1 DEF TypeOK, AttemptRecord
<1>d. /\ task'[t].status = IF retried THEN "blocked" ELSE "failed"
      /\ task'[t].active = a /\ task'[t].stopped = FALSE
      /\ task'[t].retries = task[t].retries
      /\ \A u \in Tasks : u # t => task'[u] = task[u]
  <2>. HIDE DEF retried
  <2>1. task' = [task EXCEPT ![t].status = IF retried THEN "blocked" ELSE "failed"]
    BY <1>a DEF Fail, retried
  <2>. QED BY <1>t, <1>a, <1>b, <2>1 DEF TypeOK, TaskRecord
<1>. HIDE DEF retried
<1>e. \A g \in Gates : /\ gate'[g].on = gate[g].on /\ gate'[g].about = gate[g].about
                       /\ gate'[g].status = "open" => gate[g].status = "open" /\ gate[g].on # t
                       /\ gate[g].status = "open" /\ gate[g].on # t => gate'[g].status = "open"
  BY <1>t, <1>a DEF TypeOK, Fail, Cancel, GatesOn, GateRecord
<1>f. /\ ~OpenGateOn(t)'
      /\ \A u \in Tasks : u # t => (OpenGateOn(u)' <=> OpenGateOn(u))
      /\ \A u \in Tasks : Escalated(u)' => Escalated(u)
  BY <1>e DEF OpenGateOn, Escalated
<1>g. /\ ~Released(t) /\ ~Released(t)'
      /\ \A u \in Tasks : u # t => (Released(u)' <=> Released(u))
  BY <1>b, <1>d DEF Released, ReleasesAs
<1>h. \A u \in Tasks : u # t /\ task[u].active # None =>
         /\ task[u].active \in Attempts
         /\ attempt'[task[u].active] = attempt[task[u].active]
  BY <1>t, <1>a, <1>c, FieldTypes DEF IInv, ActiveIsOwn
<1>i. \A b \in Attempts : b # a /\ attempt[b].retryDue =>
         /\ attempt[b].task \in Tasks \ {t} /\ attempt'[b] = attempt[b]
  BY <1>t, <1>a, <1>c, FieldTypes DEF RInv, ScheduledRetry, Owns
<1>1. ActiveTells' /\ StoppedStaysDown'
  BY <1>c, <1>d, <1>h DEF RInv, ActiveTells, StoppedStaysDown
<1>2. CountIsKept'
  BY <1>b, <1>d DEF RInv, CountIsKept
<1>3. GateShape' /\ NewTaskExists'
  BY <1>d, <1>e DEF RInv, GateShape, NewTaskExists, IInv, TypeOK, Replacing
<1>4. ScheduledRetry'
  <2>1. ASSUME NEW b \in Attempts, attempt'[b].retryDue, b # a
        PROVE  /\ attempt[b].retryDue /\ attempt'[b] = attempt[b]
               /\ attempt[b].task \in Tasks \ {t}
    BY <2>1, <1>c, <1>i
  <2>2. attempt'[a].retryDue => ~Escalated(t)' /\ task'[t].status = "blocked"
    BY <1>b, <1>c, <1>d, <1>f
  <2>3. ASSUME NEW b \in Attempts, attempt'[b].retryDue
        PROVE  \E u \in Tasks : /\ attempt'[b].task = u /\ task'[u].active = b
                                /\ attempt'[b].status = "failed"
                                /\ task'[u].status = "blocked" /\ ~task'[u].stopped
                                /\ ~OpenGateOn(u)' /\ ~Escalated(u)'
    <3>1. CASE b = a
      BY <2>2, <2>3, <3>1, <1>c, <1>d, <1>f
    <3>2. CASE b # a
      <4>1. PICK u \in Tasks \ {t} : u = attempt[b].task
        BY <2>1, <2>3, <3>2
      <4>2. /\ task[u].active = b /\ attempt[b].status = "failed"
            /\ task[u].status = "blocked" /\ ~task[u].stopped
            /\ ~OpenGateOn(u) /\ ~Escalated(u)
        BY <2>1, <2>3, <3>2, <4>1 DEF RInv, ScheduledRetry, Owns
      <4>. QED BY <2>1, <2>3, <3>2, <4>1, <4>2, <1>d, <1>f
    <3>. QED BY <3>1, <3>2
  <2>. QED BY <2>3, NoneIsNoId DEF ScheduledRetry, Owns, OpenGateOn, Escalated
<1>5. BlockedIsExplained'
  BY <1>c, <1>d, <1>f, <1>h, NoneIsNoId DEF RInv, BlockedIsExplained
<1>6. DependantsNeverOutrun'
  BY <1>a, <1>d, <1>g, NoneIsNoId DEF RInv, DependantsNeverOutrun
<1>7. PendingWaits'
  BY <1>d, <1>g DEF RInv, PendingWaits
<1>. QED BY <1>1, <1>2, <1>3, <1>4, <1>5, <1>6, <1>7 DEF RInv

\* report_worker: what waited for the task is ready as soon as nothing else
\* holds it, and the budget is whole again with a success.
LEMMA ReportRules ==
    ASSUME IInv, RInv, NEW a \in Attempts, NEW outcome \in Outcomes,
           NEW verdict \in Verdicts, Report(a, outcome, verdict)
    PROVE  RInv'
<1>t. TypeOK
  BY DEF IInv
<1>a. PICK t \in Tasks : t = attempt[a].task /\ task[t].active = a
  BY <1>t, FieldTypes DEF Report, MayReport, Owns
<1>b. /\ task[t].status = "running"
      /\ task[t].stopped = FALSE
      /\ Live(a)
  BY <1>t, <1>a, FieldTypes, NoneIsNoId
     DEF Report, MayReport, IInv, StatusAgrees, RInv, StoppedStaysDown
<1>. DEFINE settled == [task[t] EXCEPT !.status = outcome, !.verdict = verdict]
            released == ReleasesAs(t, settled)
            r == IF released THEN [settled EXCEPT !.retries = 0] ELSE settled
            T == [task EXCEPT ![t] = r]
<1>c. /\ attempt'[a].status = outcome /\ attempt'[a].finished = TRUE
      /\ attempt'[a].retryDue = FALSE /\ attempt'[a].task = t
      /\ \A b \in Attempts : b # a => attempt'[b] = attempt[b]
  BY <1>t, <1>a DEF TypeOK, AttemptRecord, Report
<1>d. /\ r.status = outcome /\ r.active = a /\ r.stopped = FALSE
      /\ r.verdict = verdict
      /\ r.retries = IF released THEN 0 ELSE task[t].retries
      /\ ReleasesAs(t, r) <=> released
  <2>1. task[t] \in TaskRecord
    BY <1>t DEF TypeOK
  <2>2. /\ settled.status = outcome /\ settled.active = a /\ settled.stopped = FALSE
        /\ settled.verdict = verdict /\ settled.retries = task[t].retries
        /\ settled = [settled EXCEPT !.status = outcome]
    BY <2>1, <1>a, <1>b DEF TaskRecord
  <2>3. settled \in [status: {outcome}, active: {a}, verdict: {verdict}, stopped: {FALSE},
                     retries: Nat, replacedBy: Tasks \cup {None},
                     personsReopen: BOOLEAN, told: BOOLEAN]
    BY <2>1, <1>a, <1>b DEF TaskRecord
  <2>. HIDE DEF settled
  <2>. QED BY <2>2, <2>3 DEF ReleasesAs
<1>e. task' = MakeReady(T)
  BY <1>a DEF Report
<1>f. /\ T[t] = r /\ \A u \in Tasks : u # t => T[u] = task[u]
  BY <1>t DEF TypeOK
<1>r. released \in BOOLEAN
  BY DEF ReleasesAs
<1>s. autoRetries' = [autoRetries EXCEPT ![t] = IF released THEN 0 ELSE @]
  BY <1>a DEF Report
<1>. HIDE DEF r, settled, released
<1>g. \A u \in Tasks :
        /\ T[u].status = "pending" /\ (\A d \in Deps[u] : ReleasesAs(d, T[d])) =>
               task'[u] = [T[u] EXCEPT !.status = "ready"]
        /\ ~(T[u].status = "pending" /\ (\A d \in Deps[u] : ReleasesAs(d, T[d]))) =>
               task'[u] = T[u]
  BY <1>e DEF MakeReady
<1>. HIDE DEF T
<1>h. /\ task'[t] = r
      /\ \A u \in Tasks : u # t => \/ task'[u] = task[u]
                                   \/ /\ task[u].status = "pending"
                                      /\ task'[u] = [task[u] EXCEPT !.status = "ready"]
  BY <1>d, <1>f, <1>g DEF Outcomes
<1>i. \A u \in Tasks : u # t => /\ task'[u].active = task[u].active
                                /\ task'[u].verdict = task[u].verdict
                                /\ task'[u].stopped = task[u].stopped
                                /\ task'[u].retries = task[u].retries
                                /\ task'[u].status # task[u].status =>
                                     task[u].status = "pending" /\ task'[u].status = "ready"
  <2>1. ASSUME NEW u \in Tasks, task'[u] = [task[u] EXCEPT !.status = "ready"]
        PROVE  /\ task'[u].active = task[u].active
               /\ task'[u].verdict = task[u].verdict
               /\ task'[u].stopped = task[u].stopped
               /\ task'[u].retries = task[u].retries
               /\ task'[u].status = "ready"
    <3>1. task[u] \in TaskRecord
      BY <1>t DEF TypeOK
    <3>. QED BY <2>1, <3>1 DEF TaskRecord
  <2>. QED BY <2>1, <1>h
<1>j. /\ ~Released(t)
      /\ \A u \in Tasks : ReleasesAs(u, T[u]) <=> Released(u)'
      /\ \A u \in Tasks : u # t => (Released(u)' <=> Released(u))
  BY <1>b, <1>f, <1>h, <1>i DEF Released, ReleasesAs
<1>k. \A u \in Tasks : OpenGateOn(u)' <=> OpenGateOn(u)
  BY GatesStay DEF Report
<1>l. \A u \in Tasks : Escalated(u)' <=> Escalated(u)
  BY GatesStay DEF Report
<1>m. \A u \in Tasks : u # t /\ task[u].active # None =>
         /\ task[u].active \in Attempts
         /\ attempt'[task[u].active] = attempt[task[u].active]
  BY <1>t, <1>a, <1>c, FieldTypes DEF IInv, ActiveIsOwn
<1>n. \A b \in Attempts : attempt'[b].retryDue =>
         /\ attempt[b].retryDue /\ attempt'[b] = attempt[b]
         /\ attempt[b].task \in Tasks \ {t}
  BY <1>t, <1>a, <1>c, FieldTypes DEF RInv, ScheduledRetry, Owns
<1>1. ActiveTells'
  BY <1>b, <1>c, <1>d, <1>h, <1>i, <1>m, NoneIsNoId DEF RInv, ActiveTells, Outcomes
<1>2. StoppedStaysDown'
  BY <1>d, <1>h, <1>i, <1>m DEF RInv, StoppedStaysDown
<1>3. CountIsKept'
  <2>1. /\ autoRetries'[t] = IF released THEN 0 ELSE autoRetries[t]
        /\ \A u \in Tasks : u # t => autoRetries'[u] = autoRetries[u]
    BY <1>t, <1>s DEF TypeOK
  <2>2. /\ autoRetries'[t] <= task'[t].retries /\ task'[t].retries <= RetryLimit
        /\ task'[t].status # "absent"
    BY <1>t, <2>1, <1>d, <1>h, <1>r, FieldTypes, LimitsAssumption
       DEF RInv, CountIsKept, Outcomes
  <2>. QED BY <2>1, <2>2, <1>i DEF RInv, CountIsKept
<1>4. GateShape' /\ NewTaskExists'
  <2>1. \A u \in Tasks : task'[u].status = "absent" => task[u].status = "absent"
    BY <1>d, <1>h, <1>i DEF Outcomes
  <2>. QED BY <2>1, GatesStay DEF Report, RInv, NewTaskExists, IInv, TypeOK, Replacing
<1>5. ScheduledRetry'
  BY <1>i, <1>k, <1>l, <1>n DEF RInv, ScheduledRetry, Owns
<1>6. BlockedIsExplained'
  BY <1>c, <1>d, <1>h, <1>i, <1>k, <1>m, NoneIsNoId DEF RInv, BlockedIsExplained, Outcomes
<1>7. DependantsNeverOutrun'
  BY <1>a, <1>d, <1>h, <1>i, <1>j, NoneIsNoId DEF RInv, DependantsNeverOutrun
<1>8. PendingWaits'
  <2>1. ASSUME NEW u \in Tasks, task'[u].status = "pending"
        PROVE  \E d \in Deps[u] : ~Released(d)'
    <3>1. T[u].status = "pending" /\ u # t
      BY <2>1, <1>d, <1>f, <1>h, <1>i DEF Outcomes
    <3>2. task'[u] # [T[u] EXCEPT !.status = "ready"]
      BY <2>1, <3>1, <1>t, <1>f DEF TypeOK, TaskRecord
    <3>3. \E d \in Deps[u] : ~ReleasesAs(d, T[d])
      BY <3>1, <3>2, <1>g
    <3>. QED BY <3>3, <1>j
  <2>. QED BY <2>1 DEF PendingWaits
<1>. QED BY <1>1, <1>2, <1>3, <1>4, <1>5, <1>6, <1>7, <1>8 DEF RInv

\* create_gate on a task: it waits on that gate, and so does the attempt at it.
LEMMA TaskGateRules ==
    ASSUME IInv, RInv, NEW g \in Gates, NEW t \in Tasks, TaskGate(g, t)
    PROVE  RInv'
<1>t. TypeOK
  BY DEF IInv
<1>a. /\ gate[g].status = "absent"
      /\ gate'[g] = [status |-> "open", on |-> t, about |-> None]
      /\ \A h \in Gates : h # g => gate'[h] = gate[h]
  BY <1>t DEF TypeOK, TaskGate, Open, NextGate
<1>b. /\ OpenGateOn(t)'
      /\ \A u \in Tasks : u # t => (OpenGateOn(u)' <=> OpenGateOn(u))
      /\ \A u \in Tasks : Escalated(u)' => Escalated(u)
  BY <1>a, NoneIsNoId DEF OpenGateOn, Escalated
<1>c. /\ task'[t].status = "blocked"
      /\ \A u \in Tasks : /\ task'[u].active = task[u].active
                          /\ task'[u].verdict = task[u].verdict
                          /\ task'[u].stopped = task[u].stopped
                          /\ task'[u].retries = task[u].retries
                          /\ u # t => task'[u] = task[u]
  BY <1>t DEF TypeOK, TaskGate, TaskRecord
<1>d. \A b \in Attempts : /\ attempt'[b].task = attempt[b].task
                          /\ attempt'[b].retryDue = attempt[b].retryDue
                          /\ attempt'[b].finished = attempt[b].finished
                          /\ b = task[t].active => attempt'[b].status = "blocked"
                          /\ b # task[t].active => attempt'[b] = attempt[b]
  BY <1>t DEF TypeOK, TaskGate, AttemptRecord
<1>e. /\ task[t].status # "absent"
      /\ task[t].active # None => Unsettled(task[t].active)
      /\ task[t].status # "completed"
      /\ ~task[t].stopped
      /\ \A b \in Attempts : attempt[b].retryDue => attempt[b].task # t
  <2>1. task[t].active # None => Unsettled(task[t].active)
    BY DEF TaskGate
  <2>2. task[t].status # "completed"
    BY <2>1, CompletedIsSettled DEF RInv, ActiveTells
  <2>3. ~task[t].stopped
    BY <2>1 DEF RInv, StoppedStaysDown, Unsettled, Live
  <2>4. ASSUME NEW b \in Attempts, attempt[b].retryDue, attempt[b].task = t
        PROVE  FALSE
    BY <2>1, <2>4, NoneIsNoId DEF RInv, ScheduledRetry, Owns, Unsettled, Live
  <2>. QED BY <2>1, <2>2, <2>3, <2>4 DEF TaskGate, Exists
<1>f. /\ ~Released(t) /\ ~Released(t)'
      /\ \A u \in Tasks : u # t => (Released(u)' <=> Released(u))
  BY <1>c, <1>e DEF Released, ReleasesAs
<1>g. \A u \in Tasks : u # t /\ task[u].active # None =>
         /\ task[u].active \in Attempts
         /\ attempt'[task[u].active] = attempt[task[u].active]
  BY <1>t, <1>d, FieldTypes DEF IInv, ActiveIsOwn
<1>1. ActiveTells'
  BY <1>t, <1>c, <1>d, <1>g, FieldTypes DEF RInv, ActiveTells
<1>2. StoppedStaysDown'
  BY <1>c, <1>e, <1>g DEF RInv, StoppedStaysDown
<1>3. CountIsKept'
  BY <1>c, <1>e DEF RInv, CountIsKept, TaskGate
<1>4. GateShape' /\ NewTaskExists'
  BY <1>a, <1>c DEF RInv, GateShape, NewTaskExists, TaskGate, IInv, TypeOK, Replacing
<1>5. ScheduledRetry'
  <2>1. ASSUME NEW b \in Attempts, attempt'[b].retryDue
        PROVE  \E u \in Tasks : /\ attempt'[b].task = u /\ task'[u].active = b
                                /\ attempt'[b].status = "failed"
                                /\ task'[u].status = "blocked" /\ ~task'[u].stopped
                                /\ ~OpenGateOn(u)' /\ ~Escalated(u)'
    <3>1. PICK u \in Tasks \ {t} : u = attempt[b].task
      BY <2>1, <1>t, <1>d, <1>e, FieldTypes DEF RInv, ScheduledRetry, Owns
    <3>2. /\ task[u].active = b /\ attempt[b].status = "failed"
          /\ task[u].status = "blocked" /\ ~task[u].stopped
          /\ ~OpenGateOn(u) /\ ~Escalated(u)
      BY <2>1, <3>1, <1>d DEF RInv, ScheduledRetry, Owns
    <3>. QED BY <3>1, <3>2, <1>b, <1>c, <1>g, NoneIsNoId
  <2>. QED BY <2>1, NoneIsNoId DEF ScheduledRetry, Owns, OpenGateOn, Escalated
<1>6. BlockedIsExplained'
  BY <1>b, <1>c, <1>g DEF RInv, BlockedIsExplained
<1>7. DependantsNeverOutrun' /\ PendingWaits'
  BY <1>c, <1>f DEF RInv, DependantsNeverOutrun, PendingWaits
<1>. QED BY <1>1, <1>2, <1>3, <1>4, <1>5, <1>6, <1>7 DEF RInv

\* resolve_gate_and_resume: the gate's task goes on, and the person's answer
\* makes the budget of the task it is about whole again.
LEMMA ResolveGateRules ==
    ASSUME IInv, RInv, NEW g \in Gates, NEW byPerson \in BOOLEAN, ResolveGate(g, byPerson)
    PROVE  RInv'
<1>t. TypeOK
  BY DEF IInv
<1>. DEFINE t == gate[g].on
            about == gate[g].about
            given == byPerson /\ about # None
<1>a. /\ \A h \in Gates : gate'[h].on = gate[h].on /\ gate'[h].about = gate[h].about
      /\ gate'[g].status = "resolved" /\ gate[g].status = "open"
      /\ \A h \in Gates : h # g => gate'[h] = gate[h]
  BY <1>t DEF TypeOK, ResolveGate, GateRecord
<1>b. \A u \in Tasks : /\ OpenGateOn(u)' => OpenGateOn(u)
                       /\ u # t => (OpenGateOn(u)' <=> OpenGateOn(u))
                       /\ Escalated(u)' => Escalated(u)
  BY <1>a DEF OpenGateOn, Escalated
<1>c. t # None => t \in Tasks /\ OpenGateOn(t) /\ about = None
  BY <1>t, <1>a, FieldTypes DEF RInv, GateShape, OpenGateOn
<1>d. \A u \in Tasks :
        /\ task'[u].active = task[u].active
        /\ task'[u].verdict = task[u].verdict
        /\ task'[u].stopped = task[u].stopped
        /\ task'[u].retries = IF u # t /\ given /\ u = about THEN 0 ELSE task[u].retries
        /\ ~(u = t /\ task[u].status = "blocked") => task'[u].status = task[u].status
        /\ u = t /\ task[u].status = "blocked" =>
             task'[u].status = IF task[u].active # None THEN "running" ELSE "ready"
  <2>1. ASSUME NEW u \in Tasks
        PROVE  /\ task'[u].active = task[u].active
               /\ task'[u].verdict = task[u].verdict
               /\ task'[u].stopped = task[u].stopped
               /\ task'[u].retries = IF u # t /\ given /\ u = about THEN 0 ELSE task[u].retries
               /\ ~(u = t /\ task[u].status = "blocked") => task'[u].status = task[u].status
               /\ u = t /\ task[u].status = "blocked" =>
                    task'[u].status = IF task[u].active # None THEN "running" ELSE "ready"
    <3>1. task[u] \in TaskRecord
      BY <1>t DEF TypeOK
    <3>2. task'[u] = IF u = t /\ task[u].status = "blocked"
                     THEN [task[u] EXCEPT !.status = IF @ = "blocked" /\ task[u].active # None
                                                     THEN "running" ELSE "ready"]
                     ELSE IF given /\ u = about THEN [task[u] EXCEPT !.retries = 0]
                     ELSE task[u]
      BY DEF ResolveGate
    <3>3. u = t => u # about
      BY <1>c, NoneIsNoId
    <3>. HIDE DEF t, about, given
    <3>. QED BY <3>1, <3>2, <3>3 DEF TaskRecord
  <2>. QED BY <2>1
<1>e. \A b \in Attempts :
        /\ attempt'[b].task = attempt[b].task
        /\ attempt'[b].retryDue = attempt[b].retryDue
        /\ attempt'[b].finished = attempt[b].finished
        /\ attempt'[b].status # attempt[b].status =>
             t # None /\ b = task[t].active /\ attempt[b].status = "blocked"
  BY <1>t DEF TypeOK, ResolveGate, AttemptRecord
<1>f. \A u \in Tasks : autoRetries'[u] = IF given /\ u = about THEN 0 ELSE autoRetries[u]
  BY DEF ResolveGate
<1>. HIDE DEF t, about, given
<1>g. \A u \in Tasks : Released(u)' <=> Released(u)
  BY <1>d DEF Released, ReleasesAs
<1>h. \A u \in Tasks : u # t /\ task[u].active # None =>
         /\ task[u].active \in Attempts
         /\ attempt'[task[u].active].status = attempt[task[u].active].status
  BY <1>t, <1>c, <1>e, FieldTypes DEF IInv, ActiveIsOwn
<1>i. \A u \in Tasks : task[u].active # None /\ task'[u].status = task[u].status =>
         attempt'[task[u].active].status = attempt[task[u].active].status
  <2>1. ASSUME NEW u \in Tasks, u = t, task[u].active # None, task[u].status # "blocked"
        PROVE  /\ task[u].active \in Attempts
               /\ attempt[task[u].active].status # "blocked"
    BY <2>1, <1>t, FieldTypes DEF IInv, BlockedTogether, ActiveIsOwn
  <2>. QED BY <2>1, <1>d, <1>e, <1>h
<1>1. ActiveTells'
  <2>1. ASSUME NEW u \in Tasks, task'[u].status # task[u].status
        PROVE  \/ task'[u].status = "running"
               \/ task'[u].status = "ready" /\ task[u].active = None
    BY <2>1, <1>d
  <2>. QED BY <2>1, <1>d, <1>i DEF RInv, ActiveTells
<1>2. StoppedStaysDown'
  <2>1. \A u \in Tasks : task[u].status = "failed" => task'[u].status = "failed"
    BY <1>d
  <2>. QED BY <2>1, <1>d, <1>i DEF RInv, StoppedStaysDown
<1>3. CountIsKept'
  <2>1. \A u \in Tasks : task'[u].status = "absent" => task[u].status = "absent"
    BY <1>d
  <2>2. ASSUME NEW u \in Tasks, given /\ u = about
        PROVE  autoRetries'[u] <= task'[u].retries /\ task'[u].retries <= RetryLimit
    BY <2>2, <1>c, <1>d, <1>f, NoneIsNoId, LimitsAssumption
  <2>3. ASSUME NEW u \in Tasks, ~(given /\ u = about)
        PROVE  autoRetries'[u] = autoRetries[u] /\ task'[u].retries = task[u].retries
    BY <2>3, <1>d, <1>f
  <2>. QED BY <2>1, <2>2, <2>3, <1>f DEF RInv, CountIsKept
<1>4. GateShape' /\ NewTaskExists'
  <2>1. \A u \in Tasks : task'[u].status = "absent" => task[u].status = "absent"
    BY <1>d
  <2>. QED BY <2>1, <1>a DEF RInv, GateShape, NewTaskExists, ResolveGate, IInv, TypeOK, Replacing
<1>5. ScheduledRetry'
  <2>1. ASSUME NEW b \in Attempts, attempt'[b].retryDue
        PROVE  \E u \in Tasks : /\ attempt'[b].task = u /\ task'[u].active = b
                                /\ attempt'[b].status = "failed"
                                /\ task'[u].status = "blocked" /\ ~task'[u].stopped
                                /\ ~OpenGateOn(u)' /\ ~Escalated(u)'
    <3>1. PICK u \in Tasks : u = attempt[b].task
      BY <2>1, <1>t, <1>e, FieldTypes DEF RInv, ScheduledRetry, Owns
    <3>2. /\ task[u].active = b /\ attempt[b].status = "failed"
          /\ task[u].status = "blocked" /\ ~task[u].stopped
          /\ ~OpenGateOn(u) /\ ~Escalated(u)
      BY <2>1, <3>1, <1>e DEF RInv, ScheduledRetry, Owns
    <3>3. u # t
      BY <3>2, <1>c, NoneIsNoId
    <3>. QED BY <3>1, <3>2, <3>3, <1>b, <1>d, <1>e
  <2>. QED BY <2>1, NoneIsNoId DEF ScheduledRetry, Owns, OpenGateOn, Escalated
<1>6. BlockedIsExplained'
  <2>1. ASSUME NEW u \in Tasks, task'[u].status = "blocked"
        PROVE  u # t /\ task[u].status = "blocked"
    BY <2>1, <1>d
  <2>. QED BY <2>1, <1>b, <1>d, <1>e, <1>h DEF RInv, BlockedIsExplained
<1>7. DependantsNeverOutrun' /\ PendingWaits'
  BY <1>d, <1>g DEF RInv, DependantsNeverOutrun, PendingWaits
<1>. QED BY <1>1, <1>2, <1>3, <1>4, <1>5, <1>6, <1>7 DEF RInv

\* A recovery given up: the task has failed, and nothing is owed any more.
LEMMA DropRecoveryRules ==
    ASSUME IInv, RInv, NEW t \in Tasks, DropRecovery(t)
    PROVE  RInv'
<1>t. TypeOK
  BY DEF IInv
<1>a. PICK a \in Attempts : /\ a = task[t].active /\ attempt[a].task = t
                            /\ attempt[a].status = "failed" /\ attempt[a].retryDue
  BY <1>t, FieldTypes DEF DropRecovery, IInv, ActiveIsOwn
<1>b. \A b \in Attempts : /\ attempt'[b].task = attempt[b].task
                          /\ attempt'[b].status = attempt[b].status
                          /\ b # a => attempt'[b] = attempt[b]
                          /\ b = a => attempt'[b].retryDue = FALSE
  <2>1. attempt' = [attempt EXCEPT ![a].retryDue = FALSE]
    BY <1>a DEF DropRecovery
  <2>. QED BY <1>t, <2>1 DEF TypeOK, AttemptRecord
<1>c. /\ task'[t].status = "failed"
      /\ \A u \in Tasks : /\ task'[u].active = task[u].active
                          /\ task'[u].verdict = task[u].verdict
                          /\ task'[u].stopped = task[u].stopped
                          /\ task'[u].retries = task[u].retries
                          /\ u # t => task'[u] = task[u]
  BY <1>t DEF TypeOK, DropRecovery, TaskRecord
<1>d. task[t].status = "blocked" /\ ~task[t].stopped
  BY <1>a DEF RInv, ScheduledRetry
<1>e. /\ ~Released(t) /\ ~Released(t)'
      /\ \A u \in Tasks : u # t => (Released(u)' <=> Released(u))
  BY <1>c, <1>d DEF Released, ReleasesAs
<1>f. \A u \in Tasks : u # t /\ task[u].active # None =>
         /\ task[u].active \in Attempts
         /\ attempt'[task[u].active] = attempt[task[u].active]
  BY <1>t, <1>a, <1>b, FieldTypes DEF IInv, ActiveIsOwn
<1>g. gate' = gate /\ autoRetries' = autoRetries /\ replacing' = replacing
  BY DEF DropRecovery
<1>1. ActiveTells' /\ StoppedStaysDown'
  BY <1>c, <1>d, <1>f DEF RInv, ActiveTells, StoppedStaysDown
<1>2. CountIsKept'
  BY <1>c, <1>d, <1>g DEF RInv, CountIsKept
<1>3. GateShape' /\ NewTaskExists'
  BY <1>t, <1>c, <1>g, GatesStay DEF RInv, NewTaskExists, TypeOK, Replacing
<1>4. ScheduledRetry'
  <2>1. ASSUME NEW b \in Attempts, attempt'[b].retryDue
        PROVE  /\ attempt'[b] = attempt[b] /\ attempt[b].retryDue
               /\ attempt[b].task \in Tasks \ {t}
    BY <2>1, <1>t, <1>a, <1>b, FieldTypes DEF RInv, ScheduledRetry, Owns
  <2>. QED BY <2>1, <1>c, <1>g DEF RInv, ScheduledRetry, Owns, OpenGateOn, Escalated
<1>5. BlockedIsExplained'
  BY <1>c, <1>f, <1>g, GatesStay DEF RInv, BlockedIsExplained
<1>6. DependantsNeverOutrun' /\ PendingWaits'
  BY <1>c, <1>e DEF RInv, DependantsNeverOutrun, PendingWaits
<1>. QED BY <1>1, <1>2, <1>3, <1>4, <1>5, <1>6 DEF RInv

\* stop_task: failed, cancelled, and the person's.
LEMMA StopTaskRules ==
    ASSUME IInv, RInv, NEW t \in Tasks, StopTask(t)
    PROVE  RInv'
<1>t. TypeOK
  BY DEF IInv
<1>a. PICK a \in Attempts : /\ a = task[t].active /\ attempt[a].task = t /\ Unsettled(a)
  BY <1>t, FieldTypes DEF StopTask, IInv, ActiveIsOwn
<1>b. /\ attempt'[a].status = "cancelled" /\ attempt'[a].retryDue = FALSE
      /\ attempt'[a].task = t
      /\ \A b \in Attempts : b # a => attempt'[b] = attempt[b]
  <2>1. attempt' = [attempt EXCEPT ![a] = [@ EXCEPT !.status = "cancelled",
                                                   !.finished = TRUE, !.retryDue = FALSE]]
    BY <1>a DEF StopTask
  <2>. QED BY <1>t, <1>a, <2>1 DEF TypeOK, AttemptRecord
<1>c. /\ task'[t].status = "failed" /\ task'[t].active = a
      /\ task'[t].retries = task[t].retries
      /\ \A u \in Tasks : u # t => task'[u] = task[u]
  <2>1. task' = [task EXCEPT ![t] = [@ EXCEPT !.status = "failed", !.stopped = TRUE]]
    BY DEF StopTask
  <2>. QED BY <1>t, <1>a, <2>1 DEF TypeOK, TaskRecord
<1>d. \A g \in Gates : /\ gate'[g].on = gate[g].on /\ gate'[g].about = gate[g].about
                       /\ gate'[g].status = "open" => gate[g].status = "open"
                       /\ gate[g].status = "open" /\ gate[g].on # t => gate'[g].status = "open"
  BY <1>t DEF TypeOK, StopTask, Cancel, GatesOn, GateRecord
<1>e. \A u \in Tasks : /\ u # t => (OpenGateOn(u)' <=> OpenGateOn(u))
                       /\ Escalated(u)' => Escalated(u)
  BY <1>d DEF OpenGateOn, Escalated
<1>f. task[t].status \in {"running", "blocked"}
  BY <1>a, CompletedIsSettled, NoneIsNoId
<1>g. /\ ~Released(t) /\ ~Released(t)'
      /\ \A u \in Tasks : u # t => (Released(u)' <=> Released(u))
  BY <1>c, <1>f DEF Released, ReleasesAs
<1>h. \A u \in Tasks : u # t /\ task[u].active # None =>
         /\ task[u].active \in Attempts
         /\ attempt'[task[u].active] = attempt[task[u].active]
  BY <1>t, <1>a, <1>b, FieldTypes DEF IInv, ActiveIsOwn
<1>1. ActiveTells' /\ StoppedStaysDown'
  BY <1>b, <1>c, <1>h, NoneIsNoId DEF RInv, ActiveTells, StoppedStaysDown
<1>2. CountIsKept'
  BY <1>c DEF RInv, CountIsKept, StopTask
<1>3. GateShape' /\ NewTaskExists'
  BY <1>t, <1>c, <1>d DEF RInv, GateShape, NewTaskExists, StopTask, TypeOK, Replacing
<1>4. ScheduledRetry'
  <2>1. ASSUME NEW b \in Attempts, attempt'[b].retryDue
        PROVE  \E u \in Tasks : /\ attempt'[b].task = u /\ task'[u].active = b
                                /\ attempt'[b].status = "failed"
                                /\ task'[u].status = "blocked" /\ ~task'[u].stopped
                                /\ ~OpenGateOn(u)' /\ ~Escalated(u)'
    <3>1. PICK u \in Tasks \ {t} : u = attempt[b].task
      BY <2>1, <1>t, <1>a, <1>b, FieldTypes DEF RInv, ScheduledRetry, Owns
    <3>2. /\ task[u].active = b /\ attempt[b].status = "failed"
          /\ task[u].status = "blocked" /\ ~task[u].stopped
          /\ ~OpenGateOn(u) /\ ~Escalated(u)
      BY <2>1, <3>1, <1>b DEF RInv, ScheduledRetry, Owns
    <3>. QED BY <3>1, <3>2, <2>1, <1>b, <1>c, <1>e
  <2>. QED BY <2>1, NoneIsNoId DEF ScheduledRetry, Owns, OpenGateOn, Escalated
<1>5. BlockedIsExplained'
  BY <1>c, <1>e, <1>h DEF RInv, BlockedIsExplained
<1>6. DependantsNeverOutrun' /\ PendingWaits'
  BY <1>a, <1>c, <1>g, NoneIsNoId DEF RInv, DependantsNeverOutrun, PendingWaits
<1>. QED BY <1>1, <1>2, <1>3, <1>4, <1>5, <1>6 DEF RInv

\* stop_run: nothing is left to wait, to be blocked or to be owed.
LEMMA StopRunRules ==
    ASSUME IInv, RInv, StopRun
    PROVE  RInv'
<1>t. TypeOK
  BY DEF IInv
<1>a. \A u \in Tasks :
        /\ task'[u].active = task[u].active
        /\ task'[u].verdict = task[u].verdict
        /\ task'[u].stopped = task[u].stopped
        /\ task'[u].retries = task[u].retries
        /\ task[u].status \in {"absent", "completed", "failed"} =>
             task'[u].status = task[u].status
        /\ task[u].status \notin {"absent", "completed", "failed"} =>
             task'[u].status = "cancelled"
  BY <1>t DEF TypeOK, StopRun, TaskRecord
<1>b. \A b \in Attempts :
        /\ attempt'[b].retryDue = FALSE
        /\ attempt[b].status \notin {"preparing", "running", "blocked"} =>
             attempt'[b].status = attempt[b].status
  BY <1>t DEF TypeOK, StopRun, AttemptRecord
<1>c. \A g \in Gates : gate'[g].on = gate[g].on /\ gate'[g].about = gate[g].about
  BY <1>t DEF TypeOK, StopRun, Cancel, GateRecord
<1>d. \A u \in Tasks : Released(u)' <=> Released(u)
  BY <1>a DEF Released, ReleasesAs
<1>1. ActiveTells' /\ StoppedStaysDown'
  BY <1>t, <1>a, <1>b, FieldTypes DEF RInv, ActiveTells, StoppedStaysDown
<1>2. CountIsKept'
  BY <1>a DEF RInv, CountIsKept, StopRun
<1>3. GateShape' /\ NewTaskExists'
  BY <1>t, <1>a, <1>c DEF RInv, GateShape, NewTaskExists, StopRun, TypeOK, Replacing
<1>4. ScheduledRetry' /\ BlockedIsExplained' /\ PendingWaits'
  BY <1>a, <1>b DEF ScheduledRetry, BlockedIsExplained, PendingWaits
<1>5. DependantsNeverOutrun'
  BY <1>a, <1>d DEF RInv, DependantsNeverOutrun
<1>. QED BY <1>1, <1>2, <1>3, <1>4, <1>5 DEF RInv

\* reopen_task_as: nothing rests on the task yet, and what waited wait again.
LEMMA ReopenRules ==
    ASSUME IInv, RInv, NEW t \in Tasks, NEW byPerson \in BOOLEAN, NEW told \in BOOLEAN,
           Reopen(t, byPerson, told)
    PROVE  RInv'
<1>t. TypeOK
  BY DEF IInv
<1>a. /\ task[t].status = "completed"
      /\ \A u \in Tasks : t \in Deps[u] => task[u].active = None
      /\ attempt' = attempt /\ replacing' = replacing
  BY DEF Reopen, NoDependantStarted
<1>b. /\ task'[t].status = "ready"
      /\ task'[t].retries = IF byPerson THEN 0 ELSE task[t].retries
      /\ \A u \in Tasks :
           /\ task'[u].active = task[u].active
           /\ task'[u].verdict = task[u].verdict
           /\ task'[u].stopped = task[u].stopped
           /\ u # t => task'[u].retries = task[u].retries
           /\ u # t /\ t \in Deps[u] /\ task[u].status = "ready" =>
                task'[u].status = "pending"
           /\ u # t /\ ~(t \in Deps[u] /\ task[u].status = "ready") =>
                task'[u].status = task[u].status
  BY <1>t DEF TypeOK, Reopen, TaskRecord
<1>c. \A g \in Gates : /\ gate'[g].on = gate[g].on /\ gate'[g].about = gate[g].about
                       /\ gate'[g].status = "open" => gate[g].status = "open"
                       /\ gate[g].status = "open" /\ gate[g].about # t =>
                              gate'[g].status = "open"
  BY <1>t DEF TypeOK, Reopen, Cancel, GatesAbout, GateRecord
<1>d. \A u \in Tasks : /\ OpenGateOn(u)' <=> OpenGateOn(u)
                       /\ Escalated(u)' => Escalated(u)
  BY <1>c, NoneIsNoId DEF OpenGateOn, Escalated, RInv, GateShape
<1>e. /\ ~Released(t)'
      /\ \A u \in Tasks : u # t => (Released(u)' <=> Released(u))
  BY <1>b DEF Released, ReleasesAs
<1>f. \A u \in Tasks : autoRetries'[u] = IF u = t /\ byPerson THEN 0 ELSE autoRetries[u]
  BY <1>t DEF TypeOK, Reopen
<1>1. ActiveTells' /\ StoppedStaysDown'
  BY <1>a, <1>b DEF RInv, ActiveTells, StoppedStaysDown
<1>2. CountIsKept'
  BY <1>a, <1>b, <1>f, LimitsAssumption DEF RInv, CountIsKept
<1>3. GateShape' /\ NewTaskExists'
  BY <1>t, <1>a, <1>b, <1>c DEF RInv, GateShape, NewTaskExists, TypeOK, Replacing
<1>4. ScheduledRetry'
  <2>1. ASSUME NEW b \in Attempts, attempt'[b].retryDue
        PROVE  \E u \in Tasks : /\ attempt'[b].task = u /\ task'[u].active = b
                                /\ attempt'[b].status = "failed"
                                /\ task'[u].status = "blocked" /\ ~task'[u].stopped
                                /\ ~OpenGateOn(u)' /\ ~Escalated(u)'
    <3>1. PICK u \in Tasks : u = attempt[b].task
      BY <2>1, <1>t, <1>a, FieldTypes DEF RInv, ScheduledRetry, Owns
    <3>2. /\ task[u].active = b /\ attempt[b].status = "failed"
          /\ task[u].status = "blocked" /\ ~task[u].stopped
          /\ ~OpenGateOn(u) /\ ~Escalated(u)
      BY <2>1, <3>1, <1>a DEF RInv, ScheduledRetry, Owns
    <3>. QED BY <3>1, <3>2, <1>a, <1>b, <1>d
  <2>. QED BY <2>1, NoneIsNoId DEF ScheduledRetry, Owns, OpenGateOn, Escalated
<1>5. BlockedIsExplained'
  BY <1>a, <1>b, <1>d DEF RInv, BlockedIsExplained
<1>6. DependantsNeverOutrun'
  BY <1>a, <1>b, <1>e DEF RInv, DependantsNeverOutrun
<1>7. PendingWaits'
  BY <1>b, <1>e DEF RInv, PendingWaits
<1>. QED BY <1>1, <1>2, <1>3, <1>4, <1>5, <1>6, <1>7 DEF RInv

\* supersede and retry::replaced: the new task takes the count over, and a
\* retry the old one was owed is taken back with its status.
LEMMA ReplaceCommitRules ==
    ASSUME IInv, RInv, ReplaceCommit
    PROVE  RInv'
<1>t. TypeOK
  BY DEF IInv
<1>n. NewTaskExists'
  BY DEF ReplaceCommit, NewTaskExists
<1>1. CASE ~Supersedable(replacing.old)
  <2>1. UNCHANGED <<task, attempt, gate, autoRetries>>
    BY <1>1 DEF ReplaceCommit
  <2>. QED BY <1>n, <2>1, UntouchedRules
<1>2. CASE Supersedable(replacing.old)
  <2>. DEFINE old == replacing.old
              new == replacing.new
              due == {b \in Attempts : attempt[b].task = old /\ attempt[b].retryDue}
              used == task[old].retries + (IF Counted(old) THEN 1 ELSE 0)
              tried == autoRetries[old] + (IF EndedBadly(old) THEN 1 ELSE 0)
              larger(m, n) == IF m >= n THEN m ELSE n
  <2>a. /\ old \in Tasks /\ new \in Tasks
        /\ task[old].status \in {"blocked", "failed"}
        /\ ~task[old].stopped /\ Allowed(old)
        /\ task[new].status # "absent"
    BY <1>t, <1>2 DEF TypeOK, ReplaceCommit, Replacing, Supersedable, RInv, NewTaskExists
  <2>b. /\ used \in Nat /\ tried \in Nat /\ tried <= used /\ used <= RetryLimit
    BY <1>t, <2>a, FieldTypes, BadEndsCount, LimitsAssumption
       DEF RInv, CountIsKept, Allowed
  <2>c. \A b \in Attempts : /\ attempt'[b].task = attempt[b].task
                            /\ attempt'[b].status = attempt[b].status
                            /\ b \in due => attempt'[b].retryDue = FALSE
                            /\ b \notin due => attempt'[b] = attempt[b]
    <3>1. ASSUME NEW b \in Attempts
          PROVE  /\ attempt'[b].task = attempt[b].task
                 /\ attempt'[b].status = attempt[b].status
                 /\ b \in due => attempt'[b].retryDue = FALSE
                 /\ b \notin due => attempt'[b] = attempt[b]
      <4>1. attempt'[b] = IF b \in due THEN [attempt[b] EXCEPT !.retryDue = FALSE]
                          ELSE attempt[b]
        BY <1>2 DEF ReplaceCommit, Replace
      <4>2. attempt[b] \in AttemptRecord
        BY <1>t DEF TypeOK
      <4>. HIDE DEF due
      <4>. QED BY <4>1, <4>2 DEF AttemptRecord
    <3>. QED BY <3>1
  <2>d. /\ due = {} => task'[old].status = task[old].status
        /\ due # {} => task'[old].status = "failed"
        /\ task'[new].retries = larger(task[new].retries, used)
        /\ \A u \in Tasks : /\ task'[u].active = task[u].active
                            /\ task'[u].verdict = task[u].verdict
                            /\ task'[u].stopped = task[u].stopped
                            /\ u # new => task'[u].retries = task[u].retries
                            /\ u # old => task'[u].status = task[u].status
    <3>. DEFINE m == larger(task[new].retries, used)
                T == [task EXCEPT ![new].retries = m]
                U == [T EXCEPT ![old].replacedBy = new]
    <3>1. task' = [task EXCEPT ![new].retries = larger(@, used),
                               ![old].replacedBy = new,
                               ![old].status = IF due # {} THEN "failed" ELSE @]
      BY <1>2 DEF ReplaceCommit, Replace
    <3>2. m \in Nat
      BY <1>t, <2>a, <2>b, FieldTypes
    <3>3. task' = [U EXCEPT ![old].status = IF due # {} THEN "failed" ELSE @]
      <4>. HIDE DEF old, new, due, used
      <4>. QED BY ZenonT(60), <3>1
    <3>. HIDE DEF old, new, due, used, m
    <3>4. /\ T \in [Tasks -> TaskRecord] /\ T[new].retries = m
          /\ \A u \in Tasks : /\ T[u].active = task[u].active
                              /\ T[u].verdict = task[u].verdict
                              /\ T[u].stopped = task[u].stopped
                              /\ u # new => T[u].retries = task[u].retries
                              /\ T[u].status = task[u].status
      BY <1>t, <2>a, <3>2 DEF TypeOK, TaskRecord
    <3>. HIDE DEF T
    <3>5. /\ U \in [Tasks -> TaskRecord]
          /\ \A u \in Tasks : /\ U[u].active = T[u].active
                              /\ U[u].verdict = T[u].verdict
                              /\ U[u].stopped = T[u].stopped
                              /\ U[u].retries = T[u].retries
                              /\ U[u].status = T[u].status
      BY <2>a, <3>4 DEF TaskRecord
    <3>. HIDE DEF U
    <3>6. /\ task'[old].status = IF due # {} THEN "failed" ELSE U[old].status
          /\ \A u \in Tasks : /\ task'[u].active = U[u].active
                              /\ task'[u].verdict = U[u].verdict
                              /\ task'[u].stopped = U[u].stopped
                              /\ task'[u].retries = U[u].retries
                              /\ u # old => task'[u].status = U[u].status
      <4>. DEFINE s == IF due # {} THEN "failed" ELSE U[old].status
      <4>1. task' = [U EXCEPT ![old].status = s]
        BY <3>3
      <4>. HIDE DEF s
      <4>2. /\ task'[old].status = s
            /\ \A u \in Tasks : /\ task'[u].active = U[u].active
                                /\ task'[u].verdict = U[u].verdict
                                /\ task'[u].stopped = U[u].stopped
                                /\ task'[u].retries = U[u].retries
                                /\ u # old => task'[u].status = U[u].status
        BY <2>a, <3>5, <4>1 DEF TaskRecord
      <4>. QED BY <4>2 DEF s
    <3>. QED BY <2>a, <3>4, <3>5, <3>6 DEF m
  <2>e. /\ autoRetries'[new] = larger(autoRetries[new], tried)
        /\ \A u \in Tasks : u # new => autoRetries'[u] = autoRetries[u]
    BY <1>t, <1>2, <2>a DEF TypeOK, ReplaceCommit, Replace
  <2>f. gate' = gate
    BY DEF ReplaceCommit
  <2>g. ASSUME NEW b \in Attempts, attempt[b].retryDue, b \notin due
        PROVE  attempt[b].task \in Tasks \ {old}
    BY <2>g, <1>t, FieldTypes DEF RInv, ScheduledRetry, Owns
  <2>h. \A u \in Tasks : u # old /\ task[u].active # None =>
           /\ task[u].active \in Attempts
           /\ attempt'[task[u].active] = attempt[task[u].active]
    BY <1>t, <2>c, FieldTypes DEF IInv, ActiveIsOwn
  <2>i. \A u \in Tasks : task[u].active # None =>
           /\ task[u].active \in Attempts
           /\ attempt'[task[u].active].status = attempt[task[u].active].status
    BY <1>t, <2>c, FieldTypes
  <2>1. CountIsKept'
    <3>1. /\ autoRetries'[new] <= task'[new].retries
          /\ task'[new].retries <= RetryLimit
      BY <1>t, <2>a, <2>b, <2>d, <2>e, FieldTypes, LimitsAssumption DEF RInv, CountIsKept
    <3>2. \A u \in Tasks : task'[u].status = "absent" => u # new /\ task[u].status = "absent"
      <4>. HIDE DEF old, new, due
      <4>. QED BY <2>a, <2>d
    <3>. HIDE DEF old, new, due, tried, used
    <3>. QED BY <3>1, <3>2, <2>d, <2>e DEF RInv, CountIsKept
  <2>. HIDE DEF old, new, due, used, tried
  <2>2. ActiveTells' /\ StoppedStaysDown'
    BY <2>a, <2>d, <2>i DEF RInv, ActiveTells, StoppedStaysDown
  <2>3. GateShape'
    BY <2>f, GatesStay DEF RInv
  <2>4. ScheduledRetry'
    <3>1. ASSUME NEW b \in Attempts, attempt'[b].retryDue
          PROVE  /\ attempt'[b] = attempt[b] /\ attempt[b].retryDue
                 /\ attempt[b].task \in Tasks \ {old}
      BY <3>1, <2>c, <2>g
    <3>. QED BY <3>1, <2>d, <2>f DEF RInv, ScheduledRetry, Owns, OpenGateOn, Escalated
  <2>5. BlockedIsExplained'
    <3>1. \A u \in Tasks : OpenGateOn(u)' <=> OpenGateOn(u)
      BY <2>f, GatesStay
    <3>2. task'[old].status = "blocked" =>
             \A b \in Attempts : attempt'[b] = attempt[b]
      BY <2>c, <2>d
    <3>. QED BY <1>t, <3>1, <3>2, <2>d, <2>h, FieldTypes DEF RInv, BlockedIsExplained
  <2>6. \A u \in Tasks : Released(u)' <=> Released(u)
    BY <2>a, <2>d DEF Released, ReleasesAs
  <2>7. DependantsNeverOutrun'
    BY <2>d, <2>6 DEF RInv, DependantsNeverOutrun
  <2>8. PendingWaits'
    BY <2>a, <2>d, <2>6 DEF RInv, PendingWaits
  <2>. QED BY <1>n, <2>1, <2>2, <2>3, <2>4, <2>5, <2>7, <2>8 DEF RInv
<1>. QED BY <1>1, <1>2

\* A restart fails what was under way, and closes only gates on that.
LEMMA RestartRules ==
    ASSUME IInv, RInv, Restart
    PROVE  RInv'
<1>t. TypeOK
  BY DEF IInv
<1>. DEFINE hit == {attempt[a].task : a \in UnsettledAttempts}
<1>a. \A b \in Attempts :
        /\ attempt'[b].task = attempt[b].task
        /\ attempt[b].finished => attempt'[b].finished
        /\ Unsettled(b) => attempt'[b].status = "failed" /\ attempt'[b].retryDue = FALSE
        /\ ~Unsettled(b) => /\ attempt'[b].status = attempt[b].status
                            /\ attempt'[b].retryDue = attempt[b].retryDue
  <2>1. ASSUME NEW b \in Attempts
        PROVE  /\ attempt'[b].task = attempt[b].task
               /\ attempt[b].finished => attempt'[b].finished
               /\ Unsettled(b) => attempt'[b].status = "failed" /\ attempt'[b].retryDue = FALSE
               /\ ~Unsettled(b) => /\ attempt'[b].status = attempt[b].status
                                   /\ attempt'[b].retryDue = attempt[b].retryDue
    <3>1. attempt[b] \in AttemptRecord
      BY <1>t DEF TypeOK
    <3>. QED BY <3>1 DEF Restart, UnsettledAttempts, AttemptRecord
  <2>. QED BY <2>1
<1>b. \A u \in Tasks :
        /\ task'[u].active = task[u].active
        /\ task'[u].verdict = task[u].verdict
        /\ task'[u].stopped = task[u].stopped
        /\ task'[u].retries = task[u].retries
        /\ task'[u].status # task[u].status =>
             /\ task[u].active \in UnsettledAttempts
             /\ task[u].status \notin {"completed", "cancelled"}
             /\ task'[u].status = "failed"
        /\ task[u].active \in UnsettledAttempts => task'[u].status # "blocked"
  <2>1. ASSUME NEW u \in Tasks
        PROVE  /\ task'[u].active = task[u].active
               /\ task'[u].verdict = task[u].verdict
               /\ task'[u].stopped = task[u].stopped
               /\ task'[u].retries = task[u].retries
               /\ task'[u].status # task[u].status =>
                    /\ task[u].active \in UnsettledAttempts
                    /\ task[u].status \notin {"completed", "cancelled"}
                    /\ task'[u].status = "failed"
               /\ task[u].active \in UnsettledAttempts => task'[u].status # "blocked"
    <3>1. task[u] \in TaskRecord
      BY <1>t DEF TypeOK
    <3>. QED BY <3>1 DEF Restart, TaskRecord
  <2>. QED BY <2>1
<1>c. \A g \in Gates : /\ gate'[g].on = gate[g].on /\ gate'[g].about = gate[g].about
                       /\ gate'[g].status = "open" => gate[g].status = "open"
                       /\ gate[g].status = "open" /\ gate[g].on \notin hit =>
                              gate'[g].status = "open"
  BY <1>t DEF TypeOK, Restart, Cancel, GateRecord
<1>d. \A u \in Tasks : u \in hit => task[u].active \in UnsettledAttempts
  BY NoneIsNoId DEF IInv, HoldersOwn, Owns, UnsettledAttempts, Unsettled, Live
<1>e. \A u \in Tasks : /\ OpenGateOn(u)' => OpenGateOn(u)
                       /\ u \notin hit /\ OpenGateOn(u) => OpenGateOn(u)'
                       /\ Escalated(u)' => Escalated(u)
  BY <1>c DEF OpenGateOn, Escalated
<1>. HIDE DEF hit
<1>f. \A u \in Tasks : task[u].active # None =>
        /\ task[u].active \in Attempts
        /\ task[u].active \notin UnsettledAttempts =>
             /\ attempt'[task[u].active].status = attempt[task[u].active].status
             /\ attempt'[task[u].active].retryDue = attempt[task[u].active].retryDue
             /\ attempt[task[u].active].finished => attempt'[task[u].active].finished
        /\ task[u].active \in UnsettledAttempts =>
             /\ task[u].status \in {"running", "blocked"}
             /\ attempt[task[u].active].status \notin {"completed", "failed", "cancelled"}
  <2>1. ASSUME NEW u \in Tasks, task[u].active # None, task[u].active \in UnsettledAttempts
        PROVE  /\ task[u].status \in {"running", "blocked"}
               /\ attempt[task[u].active].status \notin {"completed", "failed", "cancelled"}
    BY <2>1, CompletedIsSettled DEF UnsettledAttempts, Unsettled, Live
  <2>. QED BY <2>1, <1>t, <1>a, FieldTypes DEF UnsettledAttempts
<1>g. \A u \in Tasks : Released(u)' <=> Released(u)
  BY <1>b DEF Released, ReleasesAs
<1>h. \A u \in Tasks : task'[u].status = "absent" <=> task[u].status = "absent"
  BY <1>b, <1>f, NoneIsNoId DEF UnsettledAttempts
<1>1. ActiveTells'
  BY <1>b, <1>f DEF RInv, ActiveTells
<1>2. StoppedStaysDown'
  BY <1>b, <1>f DEF RInv, StoppedStaysDown
<1>3. CountIsKept'
  BY <1>b, <1>h DEF RInv, CountIsKept, Restart
<1>4. GateShape' /\ NewTaskExists'
  BY <1>c DEF RInv, GateShape, NewTaskExists, Restart
<1>5. ScheduledRetry'
  <2>1. ASSUME NEW b \in Attempts, attempt'[b].retryDue
        PROVE  \E u \in Tasks : /\ attempt'[b].task = u /\ task'[u].active = b
                                /\ attempt'[b].status = "failed"
                                /\ task'[u].status = "blocked" /\ ~task'[u].stopped
                                /\ ~OpenGateOn(u)' /\ ~Escalated(u)'
    <3>1. ~Unsettled(b) /\ attempt[b].retryDue
      BY <2>1, <1>t, <1>a, FieldTypes
    <3>2. PICK u \in Tasks : u = attempt[b].task
      BY <3>1, <1>t, FieldTypes DEF RInv, ScheduledRetry, Owns
    <3>3. /\ task[u].active = b /\ attempt[b].status = "failed"
          /\ task[u].status = "blocked" /\ ~task[u].stopped
          /\ ~OpenGateOn(u) /\ ~Escalated(u)
      BY <3>1, <3>2 DEF RInv, ScheduledRetry, Owns
    <3>. QED BY <3>1, <3>2, <3>3, <1>a, <1>b, <1>e DEF UnsettledAttempts
  <2>. QED BY <2>1, NoneIsNoId DEF ScheduledRetry, Owns, OpenGateOn, Escalated
<1>6. BlockedIsExplained'
  <2>1. ASSUME NEW u \in Tasks, task'[u].status = "blocked"
        PROVE  /\ task[u].status = "blocked" /\ task[u].active \notin UnsettledAttempts
               /\ OpenGateOn(u) => OpenGateOn(u)'
    BY <2>1, <1>b, <1>d, <1>e
  <2>. QED BY <2>1, <1>b, <1>f DEF RInv, BlockedIsExplained
<1>7. DependantsNeverOutrun' /\ PendingWaits'
  BY <1>b, <1>g DEF RInv, DependantsNeverOutrun, PendingWaits
<1>. QED BY <1>1, <1>2, <1>3, <1>4, <1>5, <1>6, <1>7 DEF RInv

-----------------------------------------------------------------------------
(* Every step keeps the rules *)

LEMMA InitRules == Init => RInv
<1>. SUFFICES ASSUME Init PROVE RInv
  OBVIOUS
<1>. USE DEF Init, NoTask, NoAttempt, NoGate
<1>1. ActiveTells /\ GateShape /\ NewTaskExists
  BY DEF ActiveTells, GateShape, NewTaskExists
<1>2. CountIsKept
  BY LimitsAssumption DEF CountIsKept
<1>3. StoppedStaysDown /\ ScheduledRetry /\ BlockedIsExplained
  BY DEF StoppedStaysDown, ScheduledRetry, BlockedIsExplained
<1>4. DependantsNeverOutrun /\ PendingWaits
  BY DEF DependantsNeverOutrun, PendingWaits
<1>. QED BY <1>1, <1>2, <1>3, <1>4 DEF RInv

\* One case for each actor, and one for a step that changes nothing.
LEMMA NextRules ==
    ASSUME IInv, RInv, [Next]_vars
    PROVE  RInv'
<1>1. ASSUME NEW t \in Tasks, CreateTask(t) \/ ReplaceCreate(t) PROVE RInv'
  <2>1. NewTaskExists'
    <3>1. /\ task'[t].status # "absent"
          /\ \A u \in Tasks : u # t => task'[u] = task[u]
      BY <1>1 DEF IInv, TypeOK, CreateTask, ReplaceCreate, Create, Created, NoTask
    <3>2. CASE CreateTask(t)
      BY <3>1, <3>2 DEF CreateTask, IInv, TypeOK, Replacing, RInv, NewTaskExists
    <3>3. CASE ReplaceCreate(t)
      BY <3>1, <3>3 DEF ReplaceCreate, IInv, TypeOK, Replacing, NewTaskExists
    <3>. QED BY <1>1, <3>2, <3>3
  <2>. QED BY <1>1, <2>1, CreateRules DEF CreateTask, ReplaceCreate
<1>2. ASSUME NEW t \in Tasks, ReplaceCheck(t) PROVE RInv'
  BY <1>2, UntouchedRules DEF ReplaceCheck, NewTaskExists
<1>3. CASE CoordinatorNext
  <2>1. ASSUME NEW t \in Tasks, NEW a \in Attempts, CoordinatorStart(t, a) PROVE RInv'
    BY <2>1, StartRules DEF CoordinatorStart, Starters
  <2>2. ASSUME NEW g \in Gates, RunGate(g) PROVE RInv'
    <3>1. \A b \in Attempts : attempt[b].retryDue => attempt[b].task # None
      BY DEF RInv, ScheduledRetry, Owns
    <3>. QED BY <2>2, <3>1, OpenRules DEF RunGate
  <2>3. ASSUME NEW g \in Gates, NEW t \in Tasks, AboutGate(g, t) PROVE RInv'
    <3>1. \A b \in Attempts : attempt[b].retryDue => attempt[b].task # t
      BY <2>3 DEF AboutGate, ShownFailed, RInv, ScheduledRetry, Owns
    <3>. QED BY <2>3, <3>1, OpenRules DEF AboutGate
  <2>. QED BY <1>3, <1>1, <1>2, <2>1, <2>2, <2>3, ReplaceCommitRules, TaskGateRules,
              ResolveGateRules, ReopenRules
           DEF CoordinatorNext
<1>4. CASE PersonNext
  <2>1. ASSUME NEW t \in Tasks, NEW a \in Attempts, PageStart(t, a) PROVE RInv'
    BY <2>1, StartRules DEF PageStart, Starters
  <2>. QED BY <1>4, <2>1, ResolveGateRules, ReopenRules, StopTaskRules, StopRunRules
           DEF PersonNext
<1>5. CASE WorkerNext
  BY <1>5, FailRules, ReportRules DEF WorkerNext, WorkerFails
<1>6. CASE HostNext
  <2>1. ASSUME NEW t \in Tasks, NEW a \in Attempts, Recover(t, a) \/ Dispatch(t, a)
        PROVE  RInv'
    BY <2>1, StartRules DEF Recover, Dispatch, Starters
  <2>2. ASSUME NEW retryable \in BOOLEAN, DispatchFails(retryable) PROVE RInv'
    <3>1. dispatch \in Attempts /\ UNCHANGED <<replacing, autoRetries>>
      BY <2>2 DEF DispatchFails, IInv, TypeOK
    <3>2. CASE Failable(dispatch)
      BY <2>2, <3>1, <3>2, FailRules DEF DispatchFails
    <3>3. CASE ~Failable(dispatch)
      <4>1. UNCHANGED <<task, attempt, gate, replacing, autoRetries>>
        BY <2>2, <3>1, <3>3 DEF DispatchFails
      <4>2. NewTaskExists'
        BY <4>1 DEF RInv, NewTaskExists
      <4>. QED BY <4>1, <4>2, UntouchedRules
    <3>. QED BY <3>2, <3>3
  <2>3. CASE ActivationRefused
    <3>1. UNCHANGED <<task, attempt, gate, replacing, autoRetries>>
      BY <2>3 DEF ActivationRefused
    <3>2. NewTaskExists'
      BY <3>1 DEF RInv, NewTaskExists
    <3>. QED BY <3>1, <3>2, UntouchedRules
  <2>. QED BY <1>6, <2>1, <2>2, <2>3, ActivateRules, ChatStartedRules,
              DropRecoveryRules, TellReopenRules
           DEF HostNext, StartReturns
<1>7. CASE UNCHANGED vars
  <2>1. NewTaskExists'
    BY <1>7 DEF vars, RInv, NewTaskExists
  <2>. QED BY <1>7, <2>1, UntouchedRules DEF vars
<1>. QED BY <1>3, <1>4, <1>5, <1>6, <1>7, RestartRules DEF Next

\* RInv is an invariant of the ledger, whatever its constants.
THEOREM RulesHold == Spec => []RInv
<1>1. Init => RInv
  BY InitRules
<1>2. IInv /\ RInv /\ [Next]_vars => RInv'
  BY NextRules
<1>. QED BY <1>1, <1>2, Inductive, PTL DEF Spec

-----------------------------------------------------------------------------
(* The theorems *)

\* Agents and the host make at most RETRY_LIMIT starts and replacements after
\* failures between two decisions of the person, counted off the attempts
\* (retry::allows, started, replaced).
THEOREM BudgetIsKept == Spec => []BudgetHolds
<1>1. IInv /\ RInv => BudgetHolds
  BY FieldTypes, LimitsAssumption DEF IInv, RInv, CountIsKept, BudgetHolds
<1>. QED BY <1>1, Inductive, RulesHold, PTL

\* A task the person stopped is started by nobody else (stop_task).
THEOREM StoppedIsThePersons == Spec => []StoppedStaysDown
<1>1. RInv => StoppedStaysDown
  BY DEF RInv
<1>. QED BY <1>1, RulesHold, PTL

\* Whatever the host still owes a retry may have it: no stop, gate or
\* replacement leaves one behind (execution::fail, take_recovery).
THEOREM RetriesMayBeMade == Spec => []ScheduledRetry
<1>1. RInv => ScheduledRetry
  BY DEF RInv
<1>. QED BY <1>1, RulesHold, PTL

\* No task is blocked for nothing: it has an open gate, a retry to come or a
\* worker's word for it (resolve_gate_and_resume, stop_task, supersede).
THEOREM NothingIsStuck == Spec => []BlockedIsExplained
<1>1. RInv => BlockedIsExplained
  BY DEF RInv
<1>. QED BY <1>1, RulesHold, PTL

\* Work that has begun rests on completed, passing work only, whatever is
\* reopened in the meantime (reserve_attempt_for, reopen_task_as).
THEOREM WorkRestsOnWork == Spec => []DependantsNeverOutrun
<1>1. RInv => DependantsNeverOutrun
  BY DEF RInv
<1>. QED BY <1>1, RulesHold, PTL

\* A pending task always has something to wait for (make_ready).
THEOREM NoWakeUpIsLost == Spec => []PendingWaits
<1>1. RInv => PendingWaits
  BY DEF RInv
<1>. QED BY <1>1, RulesHold, PTL

=============================================================================
