--------------------------- MODULE PlanApproval ---------------------------
(***************************************************************************)
(* The plan of one run and the person's approval of it (orchestration.rs). *)
(*                                                                         *)
(* The lead makes tasks and changes them; whatever the person has not      *)
(* approved as it stands makes the plan wait for them, and holds the tasks *)
(* it is about and what depends on those.  The person decides on a card    *)
(* that is redrawn as the plan changes under them, or in a message the     *)
(* lead hands on; both name the revision they saw.  An approval fixes what *)
(* each task runs as; a change of an approved task keeps what it was, for  *)
(* a rejection to restore.                                                 *)
(*                                                                         *)
(* One write of the ledger is one step: repair what older ledgers lack,    *)
(* change, move the revision of a waiting plan whose scope changed         *)
(* (mutate_locked).  The card and the message lag behind it.               *)
(*                                                                         *)
(* The run is one of the lead's own, its tasks top-level work with a       *)
(* registered owner and so a worker of their own.  A start may be refused  *)
(* for more than is here (slots, shared checkouts, spent retries, notices  *)
(* not yet told: module Ledger), which takes starts away and adds none.    *)
(***************************************************************************)
EXTENDS Naturals, Sequences, SequencesExt

CONSTANTS
  Tasks,      \* the tasks that may ever be made
  Owners,     \* the lead's direct reports
  Workers,    \* worker settings: provider, model, effort and access
  Routes,     \* the owners with the settings each may be given
  Policies,   \* recovery policies, of which the run's defaults name one
  Words,      \* what a task says: its title, spec, card and kind
  Sizes,      \* what a task is worth
  Proposals,  \* the words with the size the lead may give a task
  MaxEdits,   \* how many changes the lead and the person make (a bound)
  MaxStarts,  \* how many attempts there are (a bound)
  MaxTime,    \* how often the clock moves on (a bound)
  None

ASSUME PlanAssumption ==
  /\ MaxEdits \in Nat /\ MaxStarts \in Nat /\ MaxTime \in Nat \ {0}
  /\ None \notin Owners \cup Workers \cup Policies \cup Words \cup Sizes
  /\ Routes \subseteq Owners \X Workers
  /\ Proposals \subseteq Words \X Sizes

VARIABLES
  run,       \* the status of the run
  defaults,  \* the recovery policy of the run's worker defaults
  plan,      \* its PlanApproval
  task,      \* its tasks
  attempts,  \* the attempts of each task, in order
  gates,     \* the tasks with an open decision gate
  now,       \* the clock, in milliseconds that several writes may share
  card,      \* the plan card as it is drawn, and what was read on it
  message,   \* the person's last message, with the plan that was on screen
  edits,     \* how many changes were made
  basis,     \* history: what the person had seen of each task they approved
  recalled   \* history: the withdrawn tasks a gate was opened on

vars == <<run, defaults, plan, task, attempts, gates, now, card, message,
          edits, basis, recalled>>

---------------------------------------------------------------------------
(* What the ledger holds *)

Statuses == {"absent", "pending", "ready", "running", "blocked", "failed",
             "completed", "cancelled"}
Gone == {"absent", "cancelled"}

\* Approved: what an approval fixed for the task's starts.
Fixed == [owner : Owners, worker : Workers, policy : Policies]

\* TaskApprovalRollback: what a task was when its approval was last taken.
Rollback == [fixed : Fixed, owner : Owners, worker : Workers, size : Sizes,
             status : Statuses, handoffs : Nat]

Task ==
  [status : Statuses, owner : Owners \cup {None}, worker : Workers \cup {None},
   words : Words \cup {None}, size : Sizes \cup {None}, deps : SUBSET Tasks,
   fixed : Fixed \cup {None}, rollback : Rollback \cup {None},
   handoffs : Seq([to : Owners, at : 1..MaxTime]), created : 0..MaxTime]
Attempt ==
  [owner : Owners, worker : Workers, policy : Policies, at : 1..MaxTime,
   due : BOOLEAN,
   status : {"running", "blocked", "failed", "completed", "cancelled"}]

\* What plan_scope takes of a task, and the card shows of it.
Shape == [owner : Owners, worker : Workers, words : Words, size : Sizes,
          deps : SUBSET Tasks]
Scopes == [tasks : UNION {[T -> Shape] : T \in SUBSET Tasks},
           defaults : Policies]
Plans ==
  [status : {"pending", "approved", "rejected"}, revision : Nat \ {0},
   requested : 1..MaxTime, consent : 0..MaxTime, scope : Scopes]

\* What a made task always has.
Named(r) ==
  r.status # "absent" => None \notin {r.owner, r.worker, r.words, r.size}

\* History: what the person had in front of them of a task.
Seen == [shown : Shape, policy : Policies]

ASSUME NoneAssumption == None \notin Fixed /\ None \notin Rollback /\ None \notin Seen

NoTask ==
  [status |-> "absent", owner |-> None, worker |-> None, words |-> None,
   size |-> None, deps |-> {}, fixed |-> None, rollback |-> None,
   handoffs |-> <<>>, created |-> 0]
NoCard == [revision |-> 0, scope |-> None, settled |-> FALSE, read |-> None]
NoMessage == [revision |-> 0, scope |-> None, spent |-> FALSE]

TypeOK ==
  /\ run \in {"planning", "running", "waiting", "completed", "failed",
              "stopped"}
  /\ defaults \in Policies
  /\ plan \in Plans
  /\ task \in [Tasks -> Task] /\ \A t \in Tasks : Named(task[t])
  /\ attempts \in [Tasks -> Seq(Attempt)]
  /\ basis \in [Tasks -> Seen \cup {None}]
  /\ gates \subseteq Tasks /\ recalled \subseteq Tasks
  /\ now \in 1..MaxTime
  /\ card = NoCard \/
       card \in [revision : 1..plan.revision, scope : Scopes,
                settled : BOOLEAN, read : Scopes]
  /\ message = NoMessage \/
       message \in [revision : 1..plan.revision, scope : Scopes,
                   spent : BOOLEAN]
  /\ edits \in 0..MaxEdits

\* create_run of agents mode, and require_plan_approval with it.  The scope of
\* a plan with no tasks is its revision 1.
Init ==
  /\ run = "planning"
  /\ defaults \in Policies
  /\ plan = [status |-> "pending", revision |-> 1, requested |-> 1,
             consent |-> 0,
             scope |-> [tasks |-> [t \in {} |-> None], defaults |-> defaults]]
  /\ task = [t \in Tasks |-> NoTask]
  /\ attempts = [t \in Tasks |-> <<>>]
  /\ gates = {}
  /\ now = 1
  /\ card = NoCard /\ message = NoMessage
  /\ edits = 0
  /\ basis = [t \in Tasks |-> None]
  /\ recalled = {}

---------------------------------------------------------------------------
(* One write of the ledger *)

\* Approved::of: what a start that asks for nothing of its own would get.
InEffect(r) == [owner |-> r.owner, worker |-> r.worker, policy |-> defaults]

\* Mutant of MadeBefore: equality counts for a plan that waits as well.
MadeBeforeOrWith(r) ==
  IF plan.status = "approved" THEN r.created <= plan.consent
  ELSE r.created <= plan.requested

\* Work a plan was reopened for carries the time of the reopening.
MadeBefore(r) ==
  IF plan.status = "approved" THEN r.created <= plan.consent
  ELSE r.created < plan.requested

\* backfill_legacy_plan_approvals: a task that was there for the last
\* approval, as the times tell it, and has no mark of it.
LegacyApproved(r) ==
  /\ plan.consent # 0
  /\ r.status \notin Gone
  /\ r.fixed = None /\ r.rollback = None
  /\ MadeBefore(r)

\* The tasks as every write finds them: approval::backfill gives such a task
\* the shape it has now.
Stored == [t \in Tasks |->
             IF LegacyApproved(task[t])
             THEN [task[t] EXCEPT !.fixed = InEffect(task[t])]
             ELSE task[t]]

With(t, r) == [Stored EXCEPT ![t] = r]

\* awaiting_approval with task_is_withdrawable_from_plan.
Awaiting(T, A) ==
  {t \in Tasks :
     /\ T[t].status \notin Gone
     /\ T[t].fixed = None
     /\ \/ T[t].rollback # None
        \/ T[t].status \notin {"completed", "failed", "running"} /\ A[t] = <<>>}

Shown(r) == [owner |-> r.owner, worker |-> r.worker, words |-> r.words,
             size |-> r.size, deps |-> r.deps]

\* plan_scope: what an approval now would cover.
Scope(T, A, d) ==
  [tasks |-> [t \in Awaiting(T, A) |-> Shown(T[t])], defaults |-> d]

\* refresh_plan_revisions
Refreshed(p, T, A, d) ==
  IF p.status = "pending" /\ p.scope # Scope(T, A, d)
  THEN [p EXCEPT !.scope = Scope(T, A, d), !.revision = @ + 1]
  ELSE p

\* mutate_locked: the change T, A, p, d of the tasks, their attempts, the
\* plan and the defaults.
Write(T, A, p, d) ==
  /\ task' = T /\ attempts' = A /\ defaults' = d
  /\ plan' = Refreshed(p, T, A, d)

\* Mutant of Reopened: a plan that was decided stays so.
ReopenedNever(p) == p

\* Mutant of Reopened: the plan that is put back is a new one.
ReopenedAfresh(p) ==
  IF p.status = "pending" THEN p
  ELSE [p EXCEPT !.status = "pending", !.requested = now', !.revision = 0]

\* A plan that was decided is put back in front of the person.
Reopened(p) ==
  IF p.status = "pending" THEN p
  ELSE [p EXCEPT !.status = "pending", !.requested = now']

---------------------------------------------------------------------------
(* Tasks, attempts and the run *)

Exists(t) == task[t].status # "absent"
Ended == run \in {"stopped", "completed", "failed"}
Done(T, S) == \A u \in S : T[u].status = "completed"
ReadyOrPending(T, S) == IF Done(T, S) THEN "ready" ELSE "pending"

\* depends_on_transitively, and what held_by_plan goes through: every set
\* with t that holds what its members depend on has u.
Below(t, u) ==
  \A S \in SUBSET Tasks :
    t \in S /\ (\A s \in S : task[s].deps \subseteq S) => u \in S

Working(t) == attempts[t] # <<>> /\ Last(attempts[t]).status = "running"
Unsettled(t) ==
  /\ attempts[t] # <<>>
  /\ \/ Last(attempts[t]).status = "running"
     \/ Last(attempts[t]).status = "blocked" /\ t \in gates

NotStarted(t) == task[t].status \in {"pending", "ready"} /\ attempts[t] = <<>>

Latest(t, status, due) ==
  [attempts EXCEPT ![t][Len(attempts[t])] =
     [@ EXCEPT !.status = status, !.due = due]]

MakeReady(T) ==
  [t \in Tasks |-> IF T[t].status = "pending" /\ Done(T, T[t].deps)
                   THEN [T[t] EXCEPT !.status = "ready"] ELSE T[t]]

\* derived_run_status and recompute_run
Recomputed(T, G) ==
  LET left == {T[t].status : t \in Tasks} \ Gone
  IN  IF run = "stopped" THEN "stopped"
      ELSE IF \A t \in Tasks : T[t].status = "absent" THEN "planning"
      ELSE IF left = {"completed"} THEN "completed"
      ELSE IF G # {} \/ "blocked" \in left THEN "waiting"
      ELSE IF left \cap {"running", "ready", "pending"} # {} THEN "running"
      ELSE IF "failed" \in left THEN "failed"
      ELSE "stopped"

\* A change, in the millisecond of the write before it or in a later one.
Edit ==
  /\ edits < MaxEdits /\ edits' = edits + 1
  /\ now' \in now..MaxTime

MayStart == FoldFunction(LAMBDA A, n : Len(A) + n, 0, attempts) < MaxStarts

seenVars == <<card, message, basis>>

---------------------------------------------------------------------------
(* The lead's and the person's changes *)

\* create_task: it is always new work, and ends any rest the run had come to.
CreateTask(t, route, brief, deps) ==
  /\ Edit
  /\ ~Exists(t)
  /\ route \in Routes /\ brief \in Proposals
  /\ \A u \in deps : Exists(u)
  /\ Write(With(t, [NoTask EXCEPT
                      !.status = ReadyOrPending(Stored, deps),
                      !.owner = route[1], !.worker = route[2], !.words = brief[1],
                      !.size = brief[2], !.deps = deps, !.created = now']),
           attempts, Reopened(plan), defaults)
  /\ run' = "running"
  /\ UNCHANGED <<gates, recalled, seenVars>>

\* TaskApprovalRollback::capture, unless one is kept already.
Kept(r) ==
  IF r.rollback # None \/ r.fixed = None THEN r.rollback
  ELSE [fixed |-> r.fixed, owner |-> r.owner, worker |-> r.worker,
        size |-> r.size, status |-> r.status, handoffs |-> Len(r.handoffs)]

Reassigned(r, route) ==
  [r EXCEPT !.rollback = Kept(r), !.owner = route[1], !.worker = route[2],
            !.handoffs = Append(@, [to |-> route[1], at |-> now']),
            !.fixed = None,
            !.status = ReadyOrPending(Stored, r.deps)]

\* reassign_task: a task nobody works on changes hands.
Reassign(t, route) ==
  /\ Edit
  /\ ~Ended
  /\ ~Working(t)
  /\ task[t].status \in {"pending", "ready", "failed", "blocked"}
  /\ task[t].owner # route[1]
  /\ Write(With(t, Reassigned(Stored[t], route)),
           attempts, Reopened(plan), defaults)
  /\ UNCHANGED <<run, gates, recalled, seenVars>>

\* revise_task and set_task_access: a plan that waits, and a task of it that
\* is not approved and has not started.
Revisable(t) ==
  /\ plan.status = "pending" /\ ~Ended
  /\ Stored[t].fixed = None
  /\ NotStarted(t)

\* revise_task: what is not named stays, so any of these may be as it was.
Revise(t, route, brief, deps) ==
  LET revised == [Stored[t] EXCEPT
        !.owner = route[1], !.worker = route[2], !.words = brief[1],
        !.size = brief[2], !.deps = deps, !.status = ReadyOrPending(Stored, deps)]
  IN  /\ Edit
      /\ Revisable(t)
      /\ deps = task[t].deps
           \/ \A u \in deps : task[u].status \notin Gone /\ ~Below(u, t)
      /\ revised # Stored[t]
      /\ Write(With(t, revised), attempts, plan, defaults)
      /\ UNCHANGED <<run, gates, recalled, seenVars>>

\* revise_task with withdraw
Withdraw(t) ==
  /\ Edit
  /\ Revisable(t)
  /\ \A u \in Tasks : task[u].status # "cancelled" => t \notin task[u].deps
  /\ Write(With(t, [Stored[t] EXCEPT !.status = "cancelled"]),
           attempts, plan, defaults)
  /\ UNCHANGED <<run, gates, recalled, seenVars>>

\* set_task_size: the person's, until the task has an attempt.
SetSize(t, size) ==
  /\ Edit
  /\ NotStarted(t)
  /\ task[t].size # size
  /\ IF Stored[t].fixed = None
     THEN Write(With(t, [Stored[t] EXCEPT !.size = size]),
                attempts, plan, defaults)
     ELSE Write(With(t, [Stored[t] EXCEPT !.rollback = Kept(Stored[t]),
                                          !.size = size, !.fixed = None]),
                attempts, Reopened(plan), defaults)
  /\ UNCHANGED <<run, gates, recalled, seenVars>>

\* set_task_access: the person's choice between two ways to run the task, on
\* the revision their card shows.
SetAccess(t, worker) ==
  /\ Edit
  /\ Revisable(t)
  /\ card.revision = plan.revision
  /\ worker # task[t].worker
  /\ Write(With(t, [Stored[t] EXCEPT !.worker = worker]),
           attempts, plan, defaults)
  /\ UNCHANGED <<run, gates, recalled, seenVars>>

\* configure_automation
Configure(policy) ==
  /\ Edit
  /\ run # "stopped"
  /\ policy # defaults
  /\ Write(Stored, attempts, plan, policy)
  /\ UNCHANGED <<run, gates, recalled, seenVars>>

---------------------------------------------------------------------------
(* What the person has on screen *)

ledgerVars == <<run, defaults, plan, task, attempts, gates, now, edits, basis,
                recalled>>

\* chatPlans: the card is there while the plan waits and the run is live.
OnScreen == plan.status = "pending" /\ ~Ended

\* nextShown: a card that opens is read before anything is pressed on it, and
\* one that is redrawn only when it has held still (PLAN_SETTLE_MS).
OpenCard ==
  /\ OnScreen
  /\ card = NoCard
  /\ card' = [revision |-> plan.revision, scope |-> plan.scope,
              settled |-> TRUE, read |-> plan.scope]
  /\ UNCHANGED <<ledgerVars, message>>

RedrawCard ==
  /\ OnScreen
  /\ card # NoCard /\ card.revision # plan.revision
  /\ card' = [card EXCEPT !.revision = plan.revision, !.scope = plan.scope,
                          !.settled = FALSE]
  /\ UNCHANGED <<ledgerVars, message>>

CardSettles ==
  /\ card # NoCard /\ ~card.settled
  /\ card' = [card EXCEPT !.settled = TRUE, !.read = card.scope]
  /\ UNCHANGED <<ledgerVars, message>>

CloseCard ==
  /\ ~OnScreen
  /\ card # NoCard
  /\ card' = NoCard
  /\ UNCHANGED <<ledgerVars, message>>

\* seenPlans: a message says which revision was on screen as it left, the one
\* that had just been drawn as well.  The lead may hand it on much later.
SendMessage ==
  /\ card # NoCard
  /\ message' = [revision |-> card.revision, scope |-> card.scope,
                 spent |-> FALSE]
  /\ message' # message
  /\ UNCHANGED <<ledgerVars, card>>

---------------------------------------------------------------------------
(* The decision *)

Asked == Awaiting(Stored, attempts)

\* decide_plan_in: a decision about revision, whoever makes it.
Decidable(revision) ==
  /\ plan.status = "pending"
  /\ ~Ended
  /\ Asked # {}
  /\ revision = plan.revision

\* decide_plan_in, Approve.  The person saw the tasks as in seen.
Approve(seen) ==
  /\ Write([t \in Tasks |->
              IF t \in Asked
              THEN [Stored[t] EXCEPT !.fixed = InEffect(Stored[t]), !.rollback = None]
              ELSE Stored[t]],
           attempts, [plan EXCEPT !.status = "approved", !.consent = now],
           defaults)
  /\ basis' = [t \in Tasks |->
       IF t \notin Asked THEN basis[t]
       ELSE IF t \in DOMAIN seen.tasks
            THEN [shown |-> seen.tasks[t], policy |-> seen.defaults]
       ELSE None]
  /\ UNCHANGED <<run, gates, now, edits, recalled>>

\* approve_plan_from_card, reject_plan_from_card: the card names the tasks
\* and the revision it shows, and says how long it has shown them.
Pressed ==
  /\ card # NoCard
  /\ card.settled
  /\ DOMAIN card.scope.tasks = Asked
  /\ Decidable(card.revision)

ApproveOnCard ==
  /\ Pressed
  /\ Approve(card.read)
  /\ UNCHANGED <<card, message>>

\* approve_plan_in_conversation: the lead hands on the person's message, the
\* one turn of which approves once.
ApproveInChat ==
  /\ ~message.spent
  /\ Decidable(message.revision)
  /\ Approve(message.scope)
  /\ message' = [message EXCEPT !.spent = TRUE]
  /\ UNCHANGED card

\* TaskApprovalRollback::restore
Restored(r) ==
  [r EXCEPT !.fixed = r.rollback.fixed, !.owner = r.rollback.owner,
            !.worker = r.rollback.worker, !.size = r.rollback.size,
            !.status = r.rollback.status,
            !.handoffs = SubSeq(@, 1, r.rollback.handoffs),
            !.rollback = None]

\* Rejected work: what was approved once is so again, what has a history is
\* left, the rest is withdrawn.
Rejected(t) ==
  IF Stored[t].rollback # None THEN Restored(Stored[t])
  ELSE IF Stored[t].status \in {"completed", "failed", "running"}
          \/ attempts[t] # <<>> THEN Stored[t]
  ELSE [Stored[t] EXCEPT !.status = "cancelled"]

\* Mutant of FirstPlan: a task that was approved before does not count.
FirstPlanButRollbacks ==
  /\ \A t \in Tasks \ Asked :
       Stored[t].fixed # None => Stored[t].status = "cancelled"
  /\ \A t \in Tasks : attempts[t] = <<>>

\* Nothing of the run was ever approved.
FirstPlan ==
  /\ \A t \in Tasks \ Asked :
       Stored[t].fixed # None => Stored[t].status = "cancelled"
  /\ \A t \in Tasks : attempts[t] = <<>>
  /\ \A t \in Asked : Stored[t].rollback = None

\* stop_run_in
StopTasks(T) ==
  [t \in Tasks |-> IF T[t].status \in {"absent", "completed", "failed"}
                   THEN T[t] ELSE [T[t] EXCEPT !.status = "cancelled"]]
StopAttempts ==
  [t \in Tasks |-> [i \in DOMAIN attempts[t] |->
     [attempts[t][i] EXCEPT
        !.status = IF @ \in {"running", "blocked"} THEN "cancelled" ELSE @,
        !.due = FALSE]]]

\* decide_plan_in, Reject.
RejectOnCard ==
  LET T == [t \in Tasks |-> IF t \in Asked THEN Rejected(t) ELSE Stored[t]]
      p == [plan EXCEPT !.status = "rejected"]
  IN  /\ Pressed
      /\ IF FirstPlan
         THEN /\ Write(StopTasks(T), StopAttempts, p, defaults)
              /\ gates' = {}
              /\ run' = "stopped"
         ELSE /\ Write(MakeReady(T), attempts, p, defaults)
              /\ run' = Recomputed(task', gates)
              /\ UNCHANGED gates
      /\ UNCHANGED <<now, edits, recalled, seenVars>>

---------------------------------------------------------------------------
(* Starts *)

\* held_by_plan
HeldByPlan(t) ==
  /\ plan.status = "pending"
  /\ \E u \in Tasks : Below(t, u) /\ Stored[u].fixed = None

\* under_handoff and handoff_started: attempts the last new owner began.
UnderHandoff(t, i) ==
  LET h == Last(task[t].handoffs)
  IN  attempts[t][i].at >= h.at /\ attempts[t][i].owner = h.to
HandoffStarted(t) == \E i \in DOMAIN attempts[t] : UnderHandoff(t, i)

\* Mutant of KeepsTo: any worker will do for an approved task.
KeepsToOwner(t, worker) ==
  Stored[t].fixed # None => Stored[t].fixed.owner = Stored[t].owner

\* approval::keeps_to
KeepsTo(t, worker) ==
  Stored[t].fixed # None =>
    /\ Stored[t].fixed.worker = worker
    /\ Stored[t].fixed.owner = Stored[t].owner

\* reserve_attempt_for, for a start that asks for these worker settings: the
\* first one after a handoff keeps to what the handoff named, every one of an
\* approved task to what was approved.
Accepted(t, worker) ==
  /\ ~HeldByPlan(t)
  /\ task[t].handoffs # <<>> /\ ~HandoffStarted(t) => worker = task[t].worker
  /\ KeepsTo(t, worker)
  /\ run \notin {"completed", "stopped"}
  /\ task[t].status \notin Gone \cup {"completed"}
  /\ Done(task, task[t].deps)
  /\ ~Unsettled(t)

\* Its attempt.  The one before it, were it blocked, is over.
Begun(t, worker) ==
  LET before == attempts[t]
      past == IF before = <<>> THEN <<>>
              ELSE Latest(t, IF Last(before).status = "blocked" THEN "cancelled"
                             ELSE Last(before).status, FALSE)[t]
      policy == IF Stored[t].fixed # None THEN Stored[t].fixed.policy
                ELSE defaults
  IN  Append(past, [owner |-> task[t].owner, worker |-> worker,
                    policy |-> policy, at |-> now, due |-> FALSE,
                    status |-> "running"])

Start(t, worker) ==
  /\ MayStart
  /\ Accepted(t, worker)
  /\ Write(With(t, [Stored[t] EXCEPT !.status = "running",
                                     !.worker = worker]),
           [attempts EXCEPT ![t] = Begun(t, worker)], plan, defaults)
  /\ run' = "running"
  /\ UNCHANGED <<gates, now, edits, recalled, seenVars>>

\* The lead's start, with settings of its choice; the scheduler's dispatch is
\* one with the settings the task has (settings_for_task).
StartByLead(t, worker) == Start(t, worker)

\* page_retry_is_current: the page retries the attempt it shows, with that
\* attempt's settings, unless a new owner has started since.
StartFromPage(t, i) ==
  /\ i \in DOMAIN attempts[t]
  /\ task[t].handoffs # <<>> => UnderHandoff(t, i) \/ ~HandoffStarted(t)
  /\ Start(t, attempts[t][i].worker)

\* settings_for_task
Canonical(t) ==
  IF Stored[t].fixed # None THEN Stored[t].fixed.worker ELSE task[t].worker

\* recover_due_workers: the host's retry of a failed attempt, with what that
\* ran as, or after a spent quota with what the task runs as.  While the plan
\* holds the task the retry waits; refused for anything else it is given up.
Recover(t, quota) ==
  LET worker == IF quota THEN Canonical(t) ELSE Last(attempts[t]).worker
  IN  /\ attempts[t] # <<>>
      /\ Last(attempts[t]).status = "failed" /\ Last(attempts[t]).due
      /\ run # "stopped"
      /\ ~HeldByPlan(t)
      /\ MayStart
      /\ IF Accepted(t, worker)
         THEN Start(t, worker)
         ELSE /\ Write(With(t, [Stored[t] EXCEPT !.status = "failed"]),
                       Latest(t, "failed", FALSE), plan, defaults)
              /\ run' = Recomputed(task', gates)
              /\ UNCHANGED <<gates, now, edits, recalled, seenVars>>

---------------------------------------------------------------------------
(* What becomes of a start *)

\* report_worker and settle_attempt
Report(t, outcome) ==
  /\ Working(t)
  /\ Write(MakeReady(With(t, [Stored[t] EXCEPT !.status = outcome])),
           Latest(t, outcome, FALSE), plan, defaults)
  /\ run' = Recomputed(task', gates)
  /\ UNCHANGED <<gates, now, edits, recalled, seenVars>>

\* execution::fail: the host may retry a failure that no gate stands over.
Fail(t, retryable) ==
  LET due == retryable /\ t \notin gates
  IN  /\ Unsettled(t)
      /\ Write(With(t, [Stored[t] EXCEPT
                          !.status = IF due THEN "blocked" ELSE "failed"]),
               Latest(t, "failed", due), plan, defaults)
      /\ gates' = gates \ {t}
      /\ run' = Recomputed(task', gates')
      /\ UNCHANGED <<now, edits, recalled, seenVars>>

\* create_gate on a task: its worker's, or the lead's on a task of any status
\* that no worker has been on.
AskGate(t) ==
  /\ Edit
  /\ Exists(t)
  /\ attempts[t] # <<>> => Working(t)
  /\ t \notin gates
  /\ Write(With(t, [Stored[t] EXCEPT !.status = "blocked"]),
           IF attempts[t] = <<>> THEN attempts ELSE Latest(t, "blocked", FALSE),
           plan, defaults)
  /\ gates' = gates \cup {t}
  /\ run' = "waiting"
  /\ recalled' = IF task[t].status = "cancelled" THEN recalled \cup {t}
                 ELSE recalled
  /\ UNCHANGED seenVars

\* resolve_gate_and_resume
ResolveGate(t) ==
  LET resumed == attempts[t] # <<>> /\ Last(attempts[t]).status = "blocked"
  IN  /\ t \in gates
      /\ Write(With(t, [Stored[t] EXCEPT
                 !.status = IF @ # "blocked" THEN @
                            ELSE IF attempts[t] # <<>> THEN "running"
                            ELSE "ready"]),
               IF resumed THEN Latest(t, "running", FALSE) ELSE attempts,
               plan, defaults)
      /\ gates' = gates \ {t}
      /\ run' = Recomputed(task', gates')
      /\ UNCHANGED <<now, edits, recalled, seenVars>>

---------------------------------------------------------------------------

Changes(t) ==
  \/ \E route \in Routes \cup {<<task[t].owner, task[t].worker>>},
        brief \in Proposals \cup {<<task[t].words, task[t].size>>},
        deps \in SUBSET Tasks :
       \/ CreateTask(t, route, brief, deps)
       \/ Revise(t, route, brief, deps)
  \/ \E route \in Routes : Reassign(t, route)
  \/ Withdraw(t)
  \/ \E size \in Sizes : SetSize(t, size)
  \/ \E worker \in Workers : SetAccess(t, worker)

Runs(t) ==
  \/ \E worker \in Workers : StartByLead(t, worker)
  \/ \E i \in 1..MaxStarts : StartFromPage(t, i)
  \/ \E quota \in BOOLEAN : Recover(t, quota)
  \/ \E outcome \in {"completed", "failed", "blocked"} : Report(t, outcome)
  \/ \E retryable \in BOOLEAN : Fail(t, retryable)
  \/ AskGate(t)
  \/ ResolveGate(t)

Decides == ApproveOnCard \/ ApproveInChat \/ RejectOnCard

Looks == OpenCard \/ RedrawCard \/ CardSettles \/ CloseCard \/ SendMessage

Next ==
  \/ \E t \in Tasks : Changes(t) \/ Runs(t)
  \/ \E policy \in Policies : Configure(policy)
  \/ Decides
  \/ Looks

Spec == Init /\ [][Next]_vars

---------------------------------------------------------------------------
(* Properties *)

\* The approval of a task the person saw as in b.
FixedAs(b) ==
  [owner |-> b.shown.owner, worker |-> b.shown.worker, policy |-> b.policy]

\* A task starts only as what the person had seen of it when they approved
\* it, whoever starts it, with whatever settings it is asked for and after
\* whatever handoffs (held_by_plan, approval::keeps_to).  A withdrawn task that
\* a gate was opened on is left out (see OnlyApprovedStarts).
StartsAsApproved ==
  [][\A t \in Tasks \ recalled :
       Len(attempts'[t]) > Len(attempts[t]) =>
         LET start == Last(attempts'[t])
         IN  /\ basis[t] # None
             /\ FixedAs(basis[t]) = [owner |-> start.owner,
                                    worker |-> start.worker,
                                    policy |-> start.policy]]_vars

\* What becomes approved is what the person had in front of them, in every
\* particular, when they approved it: never work that was added or changed
\* meanwhile (plan_scope), nor a revision that had only just taken the place
\* of another, nor new work by the times in the ledger
\* (backfill_legacy_plan_approvals).
ApprovedWasSeen ==
  [][\A t \in Tasks \ recalled :
       task[t].fixed = None /\ task'[t].fixed # None =>
         /\ basis'[t] # None
         /\ task'[t].fixed = FixedAs(basis'[t])
         /\ plan'.status = "approved" => Shown(task'[t]) = basis'[t].shown]_vars

\* While nothing is asked of the person, nothing that could still start is
\* without their approval: only a waiting plan holds starts (held_by_plan),
\* and what could be held must have put the plan back before them.
NothingSlipsBy ==
  plan.status = "pending" \/
    \A t \in Tasks \ recalled :
      task[t].status \in Gone \/ task[t].fixed # None

\* A rejection takes nothing back that the person had approved before: such a
\* task stands again as they approved it, with its attempts as they were
\* (decide_plan_in, TaskApprovalRollback::restore).
RejectKeepsApproved ==
  [][plan.status = "pending" /\ plan'.status = "rejected" =>
       \A t \in Tasks \ recalled :
         task[t].status \notin Gone /\ basis[t] # None =>
           /\ task'[t].status # "cancelled"
           /\ task'[t].fixed = FixedAs(basis[t])
           /\ task'[t].owner = basis[t].shown.owner
           /\ task'[t].size = basis[t].shown.size
           /\ attempts'[t] = attempts[t]]_vars

\* "A task you have not approved never starts; rejecting an amendment
\* withdraws the new work" (docs/agents-mode.md:1650); but create_gate takes a
\* withdrawn task back to Blocked and its answer to Ready.
OnlyApprovedStarts ==
  [][\A t \in Tasks :
       Len(attempts'[t]) > Len(attempts[t]) => task[t].fixed # None]_vars

---------------------------------------------------------------------------
(* The inductive invariant (PlanApprovalProofs) *)

\* What is gone has no attempts; what ran has.  A rollback is kept only of an
\* approval that was taken, of a task nobody worked on.
HistoryInv ==
  \A t \in Tasks :
    /\ task[t].status \in Gone => attempts[t] = <<>>
    /\ task[t].status \in {"completed", "failed", "running"} =>
         attempts[t] # <<>>
    /\ task[t].rollback # None =>
         /\ task[t].fixed = None
         /\ task[t].rollback.status \in {"pending", "ready", "failed", "blocked"}
         /\ task[t].rollback.status = "failed" => attempts[t] # <<>>
         /\ task[t].rollback.handoffs <= Len(task[t].handoffs)

\* A task without approval has the plan wait, is no older than that waiting
\* if it never had any, and has not run without.
MarkInv ==
  \A t \in Tasks \ recalled :
    /\ task[t].status \notin Gone /\ task[t].fixed = None =>
         /\ plan.status = "pending"
         /\ task[t].rollback = None => task[t].created >= plan.requested
    /\ attempts[t] # <<>> => task[t].fixed # None \/ task[t].rollback # None

\* The marks are of what the person saw.
BasisInv ==
  \A t \in Tasks \ recalled :
    /\ task[t].status = "absent" => basis[t] = None
    /\ basis[t] # None => task[t].fixed # None \/ task[t].rollback # None
    /\ task[t].fixed # None =>
         /\ basis[t] # None
         /\ task[t].fixed = FixedAs(basis[t])
         /\ task[t].owner = basis[t].shown.owner
         /\ task[t].size = basis[t].shown.size
    /\ task[t].rollback # None =>
         /\ basis[t] # None
         /\ task[t].rollback.fixed = FixedAs(basis[t])
         /\ task[t].rollback.owner = basis[t].shown.owner
         /\ task[t].rollback.size = basis[t].shown.size

\* A revision stands for one scope, and the waiting plan's is the scope of
\* the tasks as they are.
ScopeInv ==
  /\ plan.status = "pending" => plan.scope = Scope(task, attempts, defaults)
  /\ plan.requested <= now
  /\ card.revision = plan.revision => card.scope = plan.scope
  /\ card.settled => card.read = card.scope
  /\ message.revision = plan.revision => message.scope = plan.scope

IInv == TypeOK /\ HistoryInv /\ MarkInv /\ BasisInv /\ ScopeInv

===========================================================================
