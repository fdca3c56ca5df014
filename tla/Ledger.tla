------------------------------- MODULE Ledger -------------------------------
(***************************************************************************)
(* The orchestration ledger of one run (src-tauri/src/orchestration.rs and *)
(* its submodules retry, execution, automation and workspaces): tasks, the *)
(* attempts workers make at them, and the decision gates they wait on.     *)
(*                                                                         *)
(* Every action is one hold of the store's mutex (`mutate`), so it is      *)
(* atomic and, because the whole ledger is written before it is published, *)
(* durable.  What interleaves is everything in between: the coordinator's  *)
(* calls, the person's page, the workers' reports and failures, the host's *)
(* scheduler, and a restart of the server.  `workspace_ops`, the lock a    *)
(* start keeps from its reservation until its chat is up, is the variable  *)
(* `dispatch`.                                                             *)
(*                                                                         *)
(* The run has no plan card (nothing is held by a plan), is no mission that *)
(* can be closed, and none of its tasks changes hands, is a peer request or *)
(* is split by its worker.  Replacing, task_create's `supersedes`, is made  *)
(* by one call at a time.  Times are not kept: a retry that is owed may be  *)
(* due at any moment.                                                      *)
(***************************************************************************)
EXTENDS Integers, FiniteSets

CONSTANTS
    Tasks,          \* the ids tasks can get, in the order they are created
    Attempts,       \* the ids attempts can get, in the order of reservation
    Gates,          \* the ids gates can get, in the order they are opened
    Deps,           \* [task -> the older tasks it depends on]
    Checks,         \* the tasks whose kind requires a verdict
    SharedWriters,  \* the tasks whose workers write in one shared checkout
    MaxConcurrent,  \* Run::max_concurrent
    RetryLimit,     \* retry::RETRY_LIMIT
    MaxHostRetries, \* RecoveryPolicy::max_retries
    None            \* "no such id"

ASSUME TasksAssumption == Tasks \subseteq Nat /\ None \notin Tasks
ASSUME AttemptsAssumption == Attempts \subseteq Nat /\ None \notin Attempts
ASSUME GatesAssumption == Gates \subseteq Nat /\ None \notin Gates
ASSUME DepsAssumption ==
    /\ Deps \in [Tasks -> SUBSET Tasks]
    /\ \A t \in Tasks : \A d \in Deps[t] : d < t
ASSUME KindsAssumption == Checks \subseteq Tasks /\ SharedWriters \subseteq Tasks
ASSUME LimitsAssumption ==
    MaxConcurrent \in Nat /\ RetryLimit \in Nat /\ MaxHostRetries \in Nat

VARIABLES
    runStatus,   \* Run::status
    task,        \* [Tasks -> record]: the fields of Task that control reads
    attempt,     \* [Attempts -> record]: the fields of Attempt
    gate,        \* [Gates -> record]: the fields of Gate
    dispatch,    \* the attempt whose start holds workspace_ops, or None
    replacing,   \* the task_create call with `supersedes` under way
    autoRetries  \* history: agents' and the host's starts after a failure

vars == <<runStatus, task, attempt, gate, dispatch, replacing, autoRetries>>

-----------------------------------------------------------------------------
(* Types *)

RunStatuses == {"planning", "running", "waiting", "completed", "failed", "stopped"}
TaskStatuses == {"absent", "pending", "ready", "running", "blocked",
                 "completed", "failed", "cancelled"}
AttemptStatuses == {"absent", "preparing", "running", "blocked",
                    "completed", "failed", "cancelled"}
GateStatuses == {"absent", "open", "resolved", "cancelled"}
Verdicts == {"none", "pass", "fail"}

\* How far a start got: reserved, activated (its chat is being started), up.
Stages == {"reserved", "activated", "up"}

TaskRecord ==
    [status: TaskStatuses, active: Attempts \cup {None}, verdict: Verdicts,
     stopped: BOOLEAN, retries: Nat, replacedBy: Tasks \cup {None},
     personsReopen: BOOLEAN, told: BOOLEAN]

AttemptRecord ==
    [status: AttemptStatuses, task: Tasks \cup {None}, finished: BOOLEAN,
     stage: Stages, retryDue: BOOLEAN, hostRetries: Nat]

GateRecord ==
    [status: GateStatuses, on: Tasks \cup {None}, about: Tasks \cup {None}]

Replacing == [old: Tasks, new: Tasks \cup {None}] \cup {None}

NoTask == [status |-> "absent", active |-> None, verdict |-> "none",
           stopped |-> FALSE, retries |-> 0, replacedBy |-> None,
           personsReopen |-> FALSE, told |-> TRUE]
NoAttempt == [status |-> "absent", task |-> None, finished |-> FALSE,
              stage |-> "reserved", retryDue |-> FALSE, hostRetries |-> 0]
NoGate == [status |-> "absent", on |-> None, about |-> None]

TypeOK ==
    /\ runStatus \in RunStatuses
    /\ task \in [Tasks -> TaskRecord]
    /\ attempt \in [Attempts -> AttemptRecord]
    /\ gate \in [Gates -> GateRecord]
    /\ dispatch \in Attempts \cup {None}
    /\ replacing \in Replacing
    /\ autoRetries \in [Tasks -> Nat]

Init ==
    /\ runStatus = "planning"
    /\ task = [t \in Tasks |-> NoTask]
    /\ attempt = [a \in Attempts |-> NoAttempt]
    /\ gate = [g \in Gates |-> NoGate]
    /\ dispatch = None
    /\ replacing = None
    /\ autoRetries = [t \in Tasks |-> 0]

-----------------------------------------------------------------------------
(* What the code reads off the ledger *)

Exists(t) == task[t].status # "absent"
NextTask(t) == ~Exists(t) /\ \A u \in Tasks : u < t => Exists(u)
NextAttempt(a) ==
    /\ attempt[a].status = "absent"
    /\ \A b \in Attempts : b < a => attempt[b].status # "absent"
NextGate(g) ==
    /\ gate[g].status = "absent"
    /\ \A h \in Gates : h < g => gate[h].status # "absent"

OpenGateOn(t) == \E g \in Gates : gate[g].status = "open" /\ gate[g].on = t
Escalated(t) == \E g \in Gates : gate[g].status = "open" /\ gate[g].about = t

\* Gate::holds_run: a question about the whole run pauses new work.
RunHeld ==
    \E g \in Gates : /\ gate[g].status = "open"
                     /\ gate[g].on = None
                     /\ gate[g].about = None

Live(a) == attempt[a].status \in {"preparing", "running"}

\* attempt_is_unsettled: an attempt that holds its task and a worker slot.
Unsettled(a) ==
    \/ Live(a)
    \/ attempt[a].status = "blocked" /\ OpenGateOn(attempt[a].task)

UnsettledAttempts == {a \in Attempts : Unsettled(a)}
Owns(a) == attempt[a].task # None /\ task[attempt[a].task].active = a

\* releases_dependants, of a task record.
ReleasesAs(t, r) ==
    /\ r.status = "completed"
    /\ IF t \in Checks THEN r.verdict = "pass" ELSE r.verdict # "fail"
Released(t) == ReleasesAs(t, task[t])

\* make_ready, on a table of tasks.
MakeReady(T) ==
    [t \in Tasks |->
        IF /\ T[t].status = "pending"
           /\ \A d \in Deps[t] : ReleasesAs(d, T[d])
        THEN [T[t] EXCEPT !.status = "ready"]
        ELSE T[t]]

\* derived_run_status, on tables of tasks and gates.
Derived(T, G) ==
    LET created == {t \in Tasks : T[t].status # "absent"}
        current == {t \in created : T[t].replacedBy = None /\ T[t].status # "cancelled"}
        some(S) == \E t \in current : T[t].status \in S
        held == \E t \in current : T[t].status = "completed" /\ ~ReleasesAs(t, T[t])
        waits == \/ \E g \in Gates : G[g].status = "open"
                 \/ some({"blocked"})
                 \/ held
    IN  IF created = {} THEN "planning"
        ELSE IF current # {} /\ \A t \in current : T[t].status = "completed"
             THEN "completed"
        ELSE IF waits THEN "waiting"
        ELSE IF some({"running", "ready", "pending"}) THEN "running"
        ELSE IF some({"failed"}) THEN "failed"
        ELSE "stopped"

\* Mutant of Recomputed: a completed run is final as well.
RecomputedUnlessOver(T, G) ==
    IF runStatus \in {"stopped", "completed"} THEN runStatus ELSE Derived(T, G)

\* recompute_run: an explicit stop stays until new work is created.
Recomputed(T, G) == IF runStatus = "stopped" THEN "stopped" ELSE Derived(T, G)

\* retry::counted: whether an act on t now answers a failure of it.
Counted(t) ==
    /\ ~task[t].stopped
    /\ \/ task[t].status = "failed"
       \/ /\ task[t].status = "blocked"
          /\ task[t].active # None
          /\ \/ attempt[task[t].active].status = "failed"
             \/ attempt[task[t].active].status = "blocked" /\ ~OpenGateOn(t)
       \/ task[t].status = "completed" /\ task[t].verdict = "fail"
       \/ /\ task[t].status \in {"ready", "pending"}
          /\ task[t].verdict = "fail"
          /\ task[t].active # None
          /\ attempt[task[t].active].status = "completed"

\* Mutant of ShownFailed: it forgets the retry the host has scheduled.
ShownFailedThoughDue(t) == ~task[t].stopped /\ Counted(t)

\* retry::failed_as: whether t is SHOWN as failed, which leaves out a
\* failure the host has scheduled its own recovery of.
ShownFailed(t) ==
    /\ ~task[t].stopped
    /\ \/ task[t].status = "failed"
       \/ /\ task[t].status = "blocked"
          /\ task[t].active # None
          /\ ~Unsettled(task[t].active)
          /\ ~OpenGateOn(t)
          /\ ~attempt[task[t].active].retryDue
       \/ task[t].status = "completed" /\ task[t].verdict = "fail"

\* retry::allows: whether an agent or the host may answer that failure.
Allowed(t) == Counted(t) => ~Escalated(t) /\ task[t].retries < RetryLimit

\* Closing gates: a table of gates with the open ones in S cancelled.
Cancel(S) ==
    [g \in Gates |-> IF g \in S /\ gate[g].status = "open"
                     THEN [gate[g] EXCEPT !.status = "cancelled"]
                     ELSE gate[g]]
GatesOn(t) == {g \in Gates : gate[g].on = t}
GatesAbout(t) == {g \in Gates : gate[g].about = t}

\* How the last work on t ended, read off its attempt alone (history only).
EndedBadly(t) ==
    /\ task[t].active # None
    /\ ~Unsettled(task[t].active)
    /\ \/ attempt[task[t].active].status \in {"failed", "blocked"}
       \/ attempt[task[t].active].status = "completed" /\ task[t].verdict = "fail"

-----------------------------------------------------------------------------
(* Creating work *)

\* Mutant of Created: it takes any dependency for an unfinished one.
CreatedPending(t) ==
    [NoTask EXCEPT !.status = IF Deps[t] = {} THEN "ready" ELSE "pending"]

Created(t) ==
    [NoTask EXCEPT !.status = IF \A d \in Deps[t] : Released(d)
                              THEN "ready" ELSE "pending"]

\* create_task_with_effort, by the coordinator: the dependencies exist, and a
\* run that was stopped runs again.
Create(t) ==
    /\ NextTask(t)
    /\ \A d \in Deps[t] : Exists(d)
    /\ task' = [task EXCEPT ![t] = Created(t)]
    /\ runStatus' = "running"

CreateTask(t) ==
    /\ Create(t)
    /\ UNCHANGED <<attempt, gate, dispatch, replacing, autoRetries>>

-----------------------------------------------------------------------------
(* The one door every start goes through: reserve_attempt_for *)

Starters == {"coordinator", "page", "recovery"}

ByPerson(t, by) == by = "page" \/ task[t].personsReopen

\* Mutants: one worker too many, and a worker that waits on a decision does
\* not count.
SlotFreeAtLimit == Cardinality(UnsettledAttempts) <= MaxConcurrent
CheckoutFreeOfLive == \A a \in Attempts : Live(a) => attempt[a].task \notin SharedWriters

SlotFree == Cardinality(UnsettledAttempts) < MaxConcurrent
CheckoutFree == \A a \in UnsettledAttempts : attempt[a].task \notin SharedWriters

AcceptsStart(t, by) ==
    /\ task[t].status \notin {"absent", "completed", "cancelled"}
    /\ task[t].told
    /\ task[t].stopped => by = "page"
    /\ task[t].replacedBy = None
    /\ ByPerson(t, by) \/ Allowed(t)
    /\ by = "recovery" => /\ task[t].active # None
                          /\ attempt[task[t].active].status = "failed"
                          /\ attempt[task[t].active].retryDue
    /\ runStatus \notin {"completed", "stopped"}
    /\ \A d \in Deps[t] : Released(d)
    /\ task[t].active # None => ~Unsettled(task[t].active)
    /\ SlotFree
    /\ t \in SharedWriters => CheckoutFree

\* Mutant of Superseded: the replaced attempt stays due.
SupersededDue(r) ==
    [r EXCEPT !.finished = @ \/ r.status = "blocked",
              !.status = IF r.status = "blocked" THEN "cancelled" ELSE @]

\* The attempt a start replaces: one that reported itself blocked is over.
Superseded(r) ==
    [r EXCEPT !.retryDue = FALSE,
              !.finished = @ \/ r.status = "blocked",
              !.status = IF r.status = "blocked" THEN "cancelled" ELSE @]

Reserved(t, by) ==
    [NoAttempt EXCEPT !.status = "preparing", !.task = t,
                      !.hostRetries = IF by = "recovery"
                                      THEN attempt[task[t].active].hostRetries + 1
                                      ELSE 0]

\* Mutants of RetriesAfterStart: it counts down, or only what is shown failed.
RetriesCountedDown(t, by) ==
    IF ByPerson(t, by) THEN 0
    ELSE IF Counted(t) THEN task[t].retries - 1 ELSE task[t].retries
RetriesOfShown(t, by) ==
    IF ByPerson(t, by) THEN 0
    ELSE IF ShownFailed(t) THEN task[t].retries + 1 ELSE task[t].retries

\* retry::started.
RetriesAfterStart(t, by) ==
    IF ByPerson(t, by) THEN 0
    ELSE IF Counted(t) THEN task[t].retries + 1 ELSE task[t].retries

Start(t, a, by) ==
    /\ dispatch = None
    /\ NextAttempt(a)
    /\ AcceptsStart(t, by)
    /\ attempt' = [b \in Attempts |->
                     IF b = a THEN Reserved(t, by)
                     ELSE IF b = task[t].active THEN Superseded(attempt[b])
                     ELSE attempt[b]]
    /\ task' = [task EXCEPT ![t] =
                 [@ EXCEPT !.status = "running",
                           !.active = a,
                           !.stopped = FALSE,
                           !.personsReopen = FALSE,
                           !.retries = RetriesAfterStart(t, by)]]
    /\ gate' = IF ByPerson(t, by) THEN Cancel(GatesAbout(t)) ELSE gate
    /\ autoRetries' = [autoRetries EXCEPT ![t] =
                          IF ByPerson(t, by) THEN 0
                          ELSE IF EndedBadly(t) THEN @ + 1 ELSE @]
    /\ runStatus' = "running"
    /\ dispatch' = a
    /\ UNCHANGED replacing

CoordinatorStart(t, a) == Start(t, a, "coordinator")
PageStart(t, a) == Start(t, a, "page")

\* recover_due_workers leaves a due retry for a later pass while the run is
\* stopped, a decision about the whole run is open or no slot is free.
RecoveryTried == runStatus # "stopped" /\ ~RunHeld /\ SlotFree

\* recover_due_workers: the host's own retry of a provider failure.
Recover(t, a) ==
    /\ RecoveryTried
    /\ Start(t, a, "recovery")

\* ready_wave: the ready tasks a scheduler pass picks, oldest first, as many
\* as there are free slots; one writer of the shared checkout among them.
Offered(t) ==
    /\ task[t].status = "ready"
    /\ task[t].told
    /\ t \in SharedWriters =>
          /\ CheckoutFree
          /\ \A u \in SharedWriters : u < t => ~(task[u].status = "ready" /\ task[u].told)

\* Mutant of ReadyWave: one slot too few.
ReadyWaveShort ==
    IF runStatus \in {"stopped", "completed"} \/ RunHeld THEN {}
    ELSE {t \in Tasks :
            /\ Offered(t)
            /\ Cardinality({u \in Tasks : u <= t /\ Offered(u)})
                 + Cardinality(UnsettledAttempts) < MaxConcurrent}

ReadyWave ==
    IF runStatus \in {"stopped", "completed"} \/ RunHeld THEN {}
    ELSE {t \in Tasks :
            /\ Offered(t)
            /\ Cardinality({u \in Tasks : u < t /\ Offered(u)})
                 + Cardinality(UnsettledAttempts) < MaxConcurrent}

\* dispatch_ready, one start of the wave.  start_scheduler passes over runs
\* that are planning, running or waiting only.  The code reads the wave once
\* and makes its starts one after another, each through the same door; here
\* it is read again before each, which leaves the same tasks in it.
Dispatch(t, a) ==
    /\ runStatus \in {"planning", "running", "waiting"}
    /\ t \in ReadyWave
    /\ Start(t, a, "coordinator")

-----------------------------------------------------------------------------
(* An attempt ending: execution::fail and settle_attempt *)

\* execution::fail of the task's unsettled attempt a.  A retryable failure is
\* the host's to retry, unless a decision, the policy or the task's own
\* budget stands in the way.
HostRetries(a, retryable) ==
    LET t == attempt[a].task
    IN  /\ retryable
        /\ attempt[a].hostRetries < MaxHostRetries
        /\ ~OpenGateOn(t)
        /\ task[t].retries < RetryLimit
        /\ ~Escalated(t)

Fail(a, retryable) ==
    LET t == attempt[a].task
        retried == HostRetries(a, retryable)
    IN  /\ attempt' = [attempt EXCEPT ![a] =
              [@ EXCEPT !.status = "failed", !.finished = TRUE, !.retryDue = retried]]
        /\ task' = [task EXCEPT ![t].status = IF retried THEN "blocked" ELSE "failed"]
        /\ gate' = Cancel(GatesOn(t))
        /\ runStatus' = Recomputed(task', gate')

Failable(a) == Unsettled(a) /\ Owns(a)

\* activate_attempt: the reservation is still being prepared.
Activate ==
    /\ dispatch # None
    /\ attempt[dispatch].stage = "reserved"
    /\ attempt[dispatch].status = "preparing"
    /\ attempt' = [attempt EXCEPT ![dispatch] =
                    [@ EXCEPT !.status = "running", !.stage = "activated"]]
    /\ UNCHANGED <<runStatus, task, gate, dispatch, replacing, autoRetries>>

\* activate_attempt refusing: the start returns the error and its lock, and
\* leaves the attempt as it found it.
ActivationRefused ==
    /\ dispatch # None
    /\ attempt[dispatch].stage = "reserved"
    /\ attempt[dispatch].status # "preparing"
    /\ dispatch' = None
    /\ UNCHANGED <<runStatus, task, attempt, gate, replacing, autoRetries>>

\* finish_dispatch after chat_start succeeded: the worker is up.
ChatStarted ==
    /\ dispatch # None
    /\ attempt[dispatch].stage = "activated"
    /\ attempt' = [attempt EXCEPT ![dispatch].stage = "up"]
    /\ dispatch' = None
    /\ UNCHANGED <<runStatus, task, gate, replacing, autoRetries>>

\* fail_preparation: the workspace could not be prepared or the chat could
\* not be started.  An attempt that failed by itself meanwhile is left alone.
DispatchFails(retryable) ==
    /\ dispatch # None
    /\ IF Failable(dispatch)
       THEN Fail(dispatch, retryable)
       ELSE UNCHANGED <<runStatus, task, attempt, gate>>
    /\ dispatch' = None
    /\ UNCHANGED <<replacing, autoRetries>>

\* observe_worker_turn_event, worker_disconnected and the monitor's 30-second
\* check: the provider said an error or its process is gone.  A running
\* attempt that never had a process is found by the monitor alone, and a
\* disconnection is never retried by the host.
WorkerFails(a, retryable) ==
    /\ Failable(a)
    /\ attempt[a].stage = "reserved" => attempt[a].status = "running" /\ ~retryable
    /\ Fail(a, retryable)
    /\ UNCHANGED <<dispatch, replacing, autoRetries>>

Outcomes == {"completed", "failed", "blocked"}

\* Mutant of MayReport: a report that comes late is taken.
MayReportLate(a) == attempt[a].stage # "reserved" /\ Owns(a)

\* report_worker: only a started, live attempt that its task still has.
MayReport(a) == attempt[a].stage # "reserved" /\ Owns(a) /\ Live(a)

\* report_worker and settle_attempt: the worker's one report of its attempt.
\* Only a completed task's verdict is ever read, and of one that is no check
\* only whether it is `fail`.
Report(a, outcome, verdict) ==
    LET t == attempt[a].task
        settled == [task[t] EXCEPT !.status = outcome, !.verdict = verdict]
        released == ReleasesAs(t, settled)
    IN  /\ MayReport(a)
        /\ t \in Checks /\ outcome = "completed" => verdict # "none"
        /\ t \notin Checks => verdict # "pass"
        /\ outcome # "completed" => verdict = "none"
        /\ attempt' = [attempt EXCEPT ![a] =
              [@ EXCEPT !.status = outcome, !.finished = TRUE, !.retryDue = FALSE]]
        /\ task' = MakeReady([task EXCEPT
                     ![t] = IF released THEN [settled EXCEPT !.retries = 0] ELSE settled])
        /\ autoRetries' = [autoRetries EXCEPT ![t] = IF released THEN 0 ELSE @]
        /\ runStatus' = Recomputed(task', gate)
        /\ UNCHANGED <<gate, dispatch, replacing>>

-----------------------------------------------------------------------------
(* Gates *)

Open(g, on, about) ==
    /\ NextGate(g)
    /\ gate' = [gate EXCEPT ![g] = [status |-> "open", on |-> on, about |-> about]]
    /\ runStatus' = "waiting"

\* create_gate naming no task: the coordinator asks about the run.
RunGate(g) ==
    /\ Open(g, None, None)
    /\ UNCHANGED <<task, attempt, dispatch, replacing, autoRetries>>

\* create_gate by the coordinator on a task that is shown as failed: the
\* decision about it is the person's, and nothing of the task waits on it.
AboutGate(g, t) ==
    /\ Exists(t)
    /\ task[t].replacedBy = None
    /\ ShownFailed(t)
    /\ ~Escalated(t)
    /\ Open(g, None, t)
    /\ UNCHANGED <<task, attempt, dispatch, replacing, autoRetries>>

\* create_gate on a task: by its own worker, or by the coordinator, also for
\* a task no worker has been on.
TaskGate(g, t) ==
    /\ Exists(t)
    /\ task[t].replacedBy # None \/ ~ShownFailed(t)
    /\ task[t].active # None => Unsettled(task[t].active)
    /\ ~OpenGateOn(t)
    /\ Open(g, t, None)
    /\ task' = [task EXCEPT ![t].status = "blocked"]
    /\ attempt' = [a \in Attempts |->
                     IF a = task[t].active THEN [attempt[a] EXCEPT !.status = "blocked"]
                     ELSE attempt[a]]
    /\ UNCHANGED <<dispatch, replacing, autoRetries>>

\* resolve_gate_and_resume: what waited on the gate goes on, and the person's
\* answer about a failed task gives it its retries again.
ResolveGate(g, byPerson) ==
    LET t == gate[g].on
        about == gate[g].about
        given == byPerson /\ about # None
    IN  /\ gate[g].status = "open"
        /\ gate' = [gate EXCEPT ![g].status = "resolved"]
        /\ task' = [u \in Tasks |->
             IF u = t /\ task[u].status = "blocked"
             THEN [task[u] EXCEPT !.status = IF @ = "blocked" /\ task[u].active # None
                                             THEN "running" ELSE "ready"]
             ELSE IF given /\ u = about THEN [task[u] EXCEPT !.retries = 0]
             ELSE task[u]]
        /\ attempt' = [a \in Attempts |->
             IF t # None /\ attempt[a].status = "blocked" /\ a = task[t].active
             THEN [attempt[a] EXCEPT !.status = "running"]
             ELSE attempt[a]]
        /\ autoRetries' = [u \in Tasks |->
             IF given /\ u = about THEN 0 ELSE autoRetries[u]]
        /\ runStatus' = Recomputed(task', gate')
        /\ UNCHANGED <<dispatch, replacing>>

-----------------------------------------------------------------------------
(* The host giving a recovery up, and the person stopping work *)

\* Mutant of DropRecovery: the task is left as it was.
DropRecoveryOnly(t) ==
    /\ task[t].active # None
    /\ attempt[task[t].active].status = "failed"
    /\ attempt[task[t].active].retryDue
    /\ attempt' = [attempt EXCEPT ![task[t].active].retryDue = FALSE]
    /\ UNCHANGED <<runStatus, task, gate, dispatch, replacing, autoRetries>>

\* recover_due_workers when the start it made was refused or could not be
\* prepared: the retry is taken back and the task has failed.  What the pass
\* asked first (RecoveryTried) it asked of a snapshot, so it may hold no more.
DropRecovery(t) ==
    /\ task[t].active # None
    /\ attempt[task[t].active].status = "failed"
    /\ attempt[task[t].active].retryDue
    /\ attempt' = [attempt EXCEPT ![task[t].active].retryDue = FALSE]
    /\ task' = [task EXCEPT ![t].status = "failed"]
    /\ runStatus' = Recomputed(task', gate)
    /\ UNCHANGED <<gate, dispatch, replacing, autoRetries>>

\* stop_task: the person ends one worker, and holds its task.
StopTask(t) ==
    /\ dispatch = None
    /\ Exists(t)
    /\ task[t].active # None
    /\ Unsettled(task[t].active)
    /\ attempt' = [attempt EXCEPT ![task[t].active] =
          [@ EXCEPT !.status = "cancelled", !.finished = TRUE, !.retryDue = FALSE]]
    /\ gate' = Cancel(GatesOn(t))
    /\ task' = [task EXCEPT ![t] = [@ EXCEPT !.status = "failed", !.stopped = TRUE]]
    /\ runStatus' = Recomputed(task', gate')
    /\ UNCHANGED <<dispatch, replacing, autoRetries>>

\* stop_run and stop_run_in: everything unfinished is cancelled.
StopRun ==
    /\ dispatch = None
    /\ task' = [t \in Tasks |->
         IF task[t].status \in {"absent", "completed", "failed"} THEN task[t]
         ELSE [task[t] EXCEPT !.status = "cancelled"]]
    /\ attempt' = [a \in Attempts |->
         IF attempt[a].status \in {"preparing", "running", "blocked"}
         THEN [attempt[a] EXCEPT !.status = "cancelled", !.finished = TRUE,
                                 !.retryDue = FALSE]
         ELSE [attempt[a] EXCEPT !.retryDue = FALSE]]
    /\ gate' = Cancel(Gates)
    /\ runStatus' = "stopped"
    /\ UNCHANGED <<dispatch, replacing, autoRetries>>

-----------------------------------------------------------------------------
(* Reopening a completed task: workspaces.rs *)

\* Mutant of NoDependantStarted: it looks at the workers there are now.
NoDependantRunning(t) == \A u \in Tasks : t \in Deps[u] => task[u].status # "running"

\* Work that rests on t has not begun.
NoDependantStarted(t) == \A u \in Tasks : t \in Deps[u] => task[u].active = None

\* reopen_task_as.  The verdict stays; the start waits for its notice.  The
\* person's own reopen in a chat that is gone is recorded as told at once.
Reopen(t, byPerson, told) ==
    /\ dispatch = None
    /\ runStatus # "stopped"
    /\ task[t].status = "completed"
    /\ byPerson \/ Allowed(t)
    /\ told => byPerson
    /\ task[t].active # None
    /\ NoDependantStarted(t)
    /\ gate' = IF byPerson THEN Cancel(GatesAbout(t)) ELSE gate
    /\ task' = [u \in Tasks |->
         IF u = t THEN [task[t] EXCEPT !.status = "ready",
                                       !.told = @ /\ told,
                                       !.personsReopen = byPerson,
                                       !.retries = IF byPerson THEN 0 ELSE @]
         ELSE IF t \in Deps[u] /\ task[u].status = "ready"
              THEN [task[u] EXCEPT !.status = "pending"]
         ELSE task[u]]
    /\ autoRetries' = [autoRetries EXCEPT ![t] = IF byPerson THEN 0 ELSE @]
    /\ runStatus' = Recomputed(task', gate')
    /\ UNCHANGED <<attempt, dispatch, replacing>>

\* tell_reopens: the notice is confirmed on disk.
TellReopen(t) ==
    /\ dispatch = None
    /\ ~task[t].told
    /\ task' = [task EXCEPT ![t].told = TRUE]
    /\ UNCHANGED <<runStatus, attempt, gate, dispatch, replacing, autoRetries>>

-----------------------------------------------------------------------------
(* Replacing a failed task: three holds of the lock in one call *)

Supersedable(t) ==
    /\ task[t].replacedBy = None
    /\ task[t].status \in {"blocked", "failed"}
    /\ ~task[t].stopped
    /\ Allowed(t)
    /\ task[t].active # None => ~Live(task[t].active)

\* check_supersede.  The model has one such call under way at a time, and
\* makes one only while there is an id left for the new task.
ReplaceCheck(t) ==
    /\ replacing = None
    /\ \E u \in Tasks : NextTask(u) /\ \A d \in Deps[u] : Exists(d)
    /\ Supersedable(t)
    /\ replacing' = [old |-> t, new |-> None]
    /\ UNCHANGED <<runStatus, task, attempt, gate, dispatch, autoRetries>>

ReplaceCreate(t) ==
    /\ replacing # None
    /\ replacing.new = None
    /\ Create(t)
    /\ replacing' = [replacing EXCEPT !.new = t]
    /\ UNCHANGED <<attempt, gate, dispatch, autoRetries>>

\* supersede and retry::replaced: the count goes with the work, and a retry
\* the host owed the old task is taken back.
Replace(old, new) ==
    LET due == {a \in Attempts : attempt[a].task = old /\ attempt[a].retryDue}
        used == task[old].retries + (IF Counted(old) THEN 1 ELSE 0)
        tried == autoRetries[old] + (IF EndedBadly(old) THEN 1 ELSE 0)
        larger(m, n) == IF m >= n THEN m ELSE n
    IN  /\ task' = [task EXCEPT
              ![new].retries = larger(@, used),
              ![old].replacedBy = new,
              ![old].status = IF due # {} THEN "failed" ELSE @]
        /\ attempt' = [a \in Attempts |->
              IF a \in due THEN [attempt[a] EXCEPT !.retryDue = FALSE] ELSE attempt[a]]
        /\ autoRetries' = [autoRetries EXCEPT ![new] = larger(@, tried)]
        /\ runStatus' = IF due # {} THEN Recomputed(task', gate) ELSE runStatus

ReplaceCommit ==
    /\ replacing # None
    /\ replacing.new # None
    /\ IF Supersedable(replacing.old)
       THEN Replace(replacing.old, replacing.new)
       ELSE UNCHANGED <<runStatus, task, attempt, autoRetries>>
    /\ replacing' = None
    /\ UNCHANGED <<gate, dispatch>>

-----------------------------------------------------------------------------
(* A restart of the server *)

\* recover_interrupted_workers and correct_finished_run_statuses.
Restart ==
    LET interrupted == UnsettledAttempts
        hit == {attempt[a].task : a \in interrupted}
        T == [t \in Tasks |->
               IF /\ task[t].active \in interrupted
                  /\ task[t].status \notin {"completed", "cancelled"}
               THEN [task[t] EXCEPT !.status = "failed"] ELSE task[t]]
        G == Cancel({g \in Gates : gate[g].on \in hit})
        status == IF interrupted = {} THEN runStatus ELSE Recomputed(T, G)
    IN  /\ attempt' = [a \in Attempts |->
             IF a \in interrupted
             THEN [attempt[a] EXCEPT !.status = "failed", !.finished = TRUE,
                                     !.retryDue = FALSE]
             ELSE IF attempt[a].status # "absent"
                  THEN [attempt[a] EXCEPT !.finished = TRUE]
             ELSE attempt[a]]
        /\ task' = T
        /\ gate' = G
        /\ runStatus' = IF status \in {"failed", "completed"}
                        THEN Derived(T, G) ELSE status
        /\ dispatch' = None
        /\ replacing' = None
        /\ UNCHANGED autoRetries

-----------------------------------------------------------------------------
(* The specification *)

CoordinatorNext ==
    \/ \E t \in Tasks : CreateTask(t) \/ ReplaceCheck(t) \/ ReplaceCreate(t)
    \/ \E t \in Tasks, a \in Attempts : CoordinatorStart(t, a)
    \/ \E g \in Gates : RunGate(g) \/ ResolveGate(g, FALSE)
    \/ \E g \in Gates, t \in Tasks : AboutGate(g, t) \/ TaskGate(g, t)
    \/ \E t \in Tasks : Reopen(t, FALSE, FALSE)
    \/ ReplaceCommit

PersonNext ==
    \/ \E t \in Tasks, a \in Attempts : PageStart(t, a)
    \/ \E g \in Gates : ResolveGate(g, TRUE)
    \/ \E t \in Tasks, told \in BOOLEAN : Reopen(t, TRUE, told)
    \/ \E t \in Tasks : StopTask(t)
    \/ StopRun

WorkerNext ==
    \E a \in Attempts :
        \/ \E retryable \in BOOLEAN : WorkerFails(a, retryable)
        \/ \E o \in Outcomes, v \in Verdicts : Report(a, o, v)

\* A start returns, and with it the lock it holds.
StartReturns ==
    \/ Activate
    \/ ActivationRefused
    \/ ChatStarted
    \/ \E retryable \in BOOLEAN : DispatchFails(retryable)

HostNext ==
    \/ StartReturns
    \/ \E t \in Tasks, a \in Attempts : Recover(t, a) \/ Dispatch(t, a)
    \/ \E t \in Tasks : DropRecovery(t) \/ TellReopen(t)

Next == CoordinatorNext \/ PersonNext \/ WorkerNext \/ HostNext \/ Restart

Spec == Init /\ [][Next]_vars

\* What start_scheduler does on every pass, every two seconds: it makes the
\* recoveries that are due (or gives them up), delivers the notices of
\* reopens and starts the ready wave.  A worker is assumed to end: it
\* reports, or it fails.  Nothing is assumed of the coordinator, the person
\* or the server's restarts.
Fairness ==
    /\ WF_vars(StartReturns)
    /\ WF_vars(\E t \in Tasks, a \in Attempts : Dispatch(t, a))
    /\ \A t \in Tasks :
         /\ WF_vars(\/ \E a \in Attempts : Recover(t, a)
                    \/ RecoveryTried /\ DropRecovery(t))
         /\ WF_vars(TellReopen(t))
    /\ \A a \in Attempts :
         WF_vars(\/ \E o \in Outcomes, v \in Verdicts : Report(a, o, v)
                 \/ \E retryable \in BOOLEAN : WorkerFails(a, retryable))

FairSpec == Spec /\ Fairness

-----------------------------------------------------------------------------
(* Safety *)

\* The slots: no interleaving of starts, gates, failures and restarts has
\* more unsettled attempts than the run allows (reserve_attempt_for counts
\* them, and a gate-blocked worker keeps its slot).
ConcurrencyLimit == Cardinality(UnsettledAttempts) <= MaxConcurrent

\* The shared checkout: at most one unsettled attempt writes in it, although
\* a gate can turn a settled `blocked` attempt into an unsettled one.
OneWriter ==
    \A a, b \in UnsettledAttempts :
        attempt[a].task \in SharedWriters /\ attempt[b].task \in SharedWriters => a = b

\* An unsettled attempt is its task's active one, so no task has two workers
\* and no worker's report is refused as stale while it holds a slot.
OneLiveAttempt == \A a \in UnsettledAttempts : Owns(a)

\* The task and its attempt tell one story: a task runs exactly while its
\* active attempt is live.
StatusAgrees ==
    \A t \in Tasks :
        task[t].status = "running" <=> task[t].active # None /\ Live(task[t].active)

\* No task is left waiting for nothing: one that is blocked waits on an open
\* gate of its own, on a retry the host owes it, or was reported blocked.
BlockedIsExplained ==
    \A t \in Tasks : task[t].status = "blocked" =>
        \/ OpenGateOn(t)
        \/ /\ task[t].active # None
           /\ LET r == attempt[task[t].active]
              IN  \/ r.status = "failed" /\ r.retryDue
                  \/ r.status = "blocked" /\ r.finished

\* Work never outruns what it depends on: once a task has had an attempt,
\* everything it depends on stands completed and passing, whatever is
\* reopened, replaced, failed or restarted afterwards.
DependantsNeverOutrun ==
    \A t \in Tasks : task[t].active # None => \A d \in Deps[t] : Released(d)

\* No wake-up is lost: a pending task has a dependency that does not release
\* it, so whichever worker settles the last one makes it ready.
PendingWaits ==
    \A t \in Tasks : task[t].status = "pending" => \E d \in Deps[t] : ~Released(d)

\* A retry the host owes is one it may still make: of the active, failed
\* attempt of a blocked task that is neither stopped, waiting on a gate nor
\* with the person.
ScheduledRetry ==
    \A a \in Attempts : attempt[a].retryDue =>
        LET t == attempt[a].task
        IN  /\ Owns(a)
            /\ attempt[a].status = "failed"
            /\ task[t].status = "blocked"
            /\ ~task[t].stopped
            /\ ~OpenGateOn(t)
            /\ ~Escalated(t)

\* The budget, counted by what happened to the attempts and not by the
\* ledger's own counter: between two decisions of the person, agents and the
\* host make at most RETRY_LIMIT starts and replacements after failures of a
\* task and of what it replaces.
BudgetHolds == \A t \in Tasks : autoRetries[t] <= RetryLimit

\* What the run's status promises of its current work, the tasks nothing
\* replaced: of a completed run it is all completed or cancelled, and in a
\* stopped one none has a worker or a retry to come; no gate is open either.
StatusKeepsItsWord ==
    LET Current(t) == task[t].replacedBy = None
    IN  /\ runStatus = "completed" =>
             \A t \in Tasks : Current(t) =>
                 task[t].status \in {"absent", "completed", "cancelled"}
        /\ runStatus = "stopped" =>
             /\ \A g \in Gates : gate[g].status # "open"
             /\ \A a \in Attempts :
                  Unsettled(a) \/ attempt[a].retryDue => ~Current(attempt[a].task)

\* A task the person stopped stays down until they start it: it is failed,
\* its attempt is cancelled and nothing is scheduled for it.
StoppedStaysDown ==
    \A t \in Tasks : task[t].stopped =>
        /\ task[t].status = "failed"
        /\ task[t].active # None
        /\ attempt[task[t].active].status = "cancelled"

\* An attempt that completed, failed or was cancelled never becomes anything
\* else: no late report, gate, failure or restart rewrites it.
SettledStays ==
    [][\A a \in Attempts :
         attempt[a].status \in {"completed", "failed", "cancelled"}
           => attempt'[a].status = attempt[a].status]_vars

-----------------------------------------------------------------------------
(* The inductive invariant: what OneLiveAttempt and StatusAgrees rest on *)

\* A task's active attempt is an attempt at that task, which exists.
ActiveIsOwn ==
    \A t \in Tasks : task[t].active # None =>
        /\ task[t].status # "absent"
        /\ attempt[task[t].active].task = t
        /\ attempt[task[t].active].status # "absent"

\* Not only the unsettled attempts but every blocked one, also one reported
\* blocked, is its task's active attempt: a start cancels the one it replaces.
HoldersOwn ==
    \A a \in Attempts :
        attempt[a].status \in {"preparing", "running", "blocked"} => Owns(a)

\* A blocked attempt has a blocked task, and a blocked task with an open gate
\* has no attempt or a blocked one: resolving the gate moves both or neither.
BlockedTogether ==
    /\ \A a \in Attempts :
         attempt[a].status = "blocked" => task[attempt[a].task].status = "blocked"
    /\ \A t \in Tasks :
         task[t].status = "blocked" /\ task[t].active # None /\ OpenGateOn(t)
           => attempt[task[t].active].status = "blocked"

\* Only the active attempt, and only a failed one, is owed a retry.
RetryIsOwn ==
    \A a \in Attempts :
        attempt[a].retryDue => Owns(a) /\ attempt[a].status = "failed"

IInv ==
    /\ TypeOK
    /\ ActiveIsOwn
    /\ HoldersOwn
    /\ StatusAgrees
    /\ BlockedTogether
    /\ RetryIsOwn

-----------------------------------------------------------------------------
(* Liveness *)

\* The model's bound: no attempt is left to reserve.
Exhausted == \A a \in Attempts : attempt[a].status # "absent"
AnyGateOpen == \E g \in Gates : gate[g].status = "open"

\* A ready task that every check of the start but the slot, the shared
\* checkout and the lock would let through, in a run the scheduler looks at.
Startable(t) ==
    /\ task[t].status = "ready"
    /\ task[t].told
    /\ ~task[t].stopped
    /\ task[t].replacedBy = None
    /\ ByPerson(t, "coordinator") \/ Allowed(t)
    /\ \A d \in Deps[t] : Released(d)
    /\ runStatus \in {"planning", "running", "waiting"}

\* "Other independent ready tasks should still get their chance in the same
\* wave" (dispatch_ready): a startable task is started, whatever else the
\* wave offers, unless a decision is open or the task stops being startable.
ReadyIsStarted ==
    \A t \in Tasks : Startable(t) ~> ~Startable(t) \/ AnyGateOpen \/ Exhausted

\* A retry the host scheduled is made or taken back; it is never left due for
\* ever, whatever else takes the slots.
RecoveryIsMade ==
    \A a \in Attempts :
        attempt[a].retryDue ~> ~attempt[a].retryDue \/ AnyGateOpen \/ Exhausted

=============================================================================
