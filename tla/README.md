# Verification of octiq-flow

octiq-flow is a headless Rust server with a browser client. It drives CLI agents
(Claude Code, Codex, ...) and lets one of them coordinate others: a chat becomes
a *coordinator*, creates tasks, and workers attempt them in worktrees. This
directory holds TLA+ modules of the parts of that server whose correctness
depends on the order of things, the TLC configurations that check them, and
proofs about them for TLAPS.

## 1. Inventory

Paths are under `src-tauri/src/` unless they say otherwise.

| component | state | operations | what is hard |
|---|---|---|---|
| **Orchestration ledger** `orchestration.rs` | runs, tasks, attempts, gates, all in one `Stored` record behind a mutex, saved before it is published (`mutate`) | create a task, start a worker (reserve, activate, launch), report, open and resolve gates, stop a task or run, replace a task, recover after a restart | calls of the coordinator, the person, the workers and the host interleave between holds of the lock; a start is several holds long; a restart can come anywhere |
| **Retry budget** `orchestration/retry.rs` | counter per task, escalation gates | count, allow, start, replace | what is *shown* failed differs from what *counts* |
| **Host execution** `orchestration/execution.rs` | an attempt's execution record: retry due, retry count, error | fail, observe a worker's turn, recover due workers, monitor | a scheduled retry races stops, gates, replacements; the pass works on a snapshot |
| **Scheduler** `orchestration/automation.rs` | none | ready wave, dispatch, one pass every two seconds | starvation; the shared checkout |
| **Workspaces of tasks** `orchestration/workspaces.rs` | a task's worktree state | prepare, deliver, clean, abandon, reopen, tell reopens | crash while cleaning; dependants of reopened work |
| **Plan approval** `orchestration/{approval,auto_plan,consent,levels}.rs`, `orchestration.rs` | plan revision, approvals, rollbacks | require, approve (card, conversation), reject, revise, reassign | approving a stale revision; rollbacks |
| **Inbox** `orchestration/inbox.rs` | notifications: pending, delivering, received, ... | enqueue, claim, deliver, acknowledge, retry | two ways to the same reader, lost receipts, staleness |
| **Missions, closing, archive** `orchestration/{mission,lifecycle,archive,destination}.rs` | run closed, archived | close, archive, retain | closing what is under way |
| **Peer requests** `orchestration/{peer,peer_request,agent_work,bridge}.rs` | tasks one agent asks of another | request, accept, answer | approval and inbox together |
| **Questions** `question_store.rs`, `question.rs` | durable question records with a delivery state, waiters in memory | ask, answer, take by tool, take natively, outbox, retry, cancel | three ways to deliver one answer, unsaved answers, restarts |
| **Chats** `agent_chat.rs` | live sessions, queue of turns (memory), transcript (disk) | start, send, queue, stop, process end | the queue dies with the server, the transcript does not |
| **Auto-resume, failover** `auto_resume.rs`, `failover_policy.rs`, `provider_failover.rs`, `provider_switch.rs` | scheduled resumes on disk | schedule, claim due, settle | at most once over a crash |
| **Background jobs** `job_spool*.rs`, `job_wrapper.rs`, `chat_jobs.rs` | spool files, cursors, jobs | append, read, acknowledge, sweep | two processes and the file system |
| Permissions, access, safety blocks | pending requests in memory | ask, decide | lost on restart by design |
| Handover, transcripts, recovery of chats | files | migrate, trim, rebuild | crash in the middle |
| Git, pull requests, terminals, memory, usage, island, teams, profile lock | external programs, files, OS locks | | not modelled: I/O or single-step records |
| Web, dispatch, bus, push | routing | | only `task_create`'s three-step replace is in `Ledger` |
| Browser client `web/src`, MCP servers `scripts/mcp` | projections, forwarding | | not modelled |

`PROJECT.json` lists every component with its status, and the hazards of the
code with the properties that cover each.

How they interact: every tool call of an agent and every click of the person
goes through `dispatch.rs` to a store; the stores hold one mutex each and save
before they publish; the ledger starts workers through the chat manager, and
hears of them through reports (a tool call) and turn events (the chat manager's
callback). The scheduler thread makes recoveries, notices and dispatches.

## 2. Plan

1. `Ledger` - tasks, attempts, gates, retries, restart. **Done**, with
   `LedgerProofs`, `LedgerSlots`, `LedgerRules` and `LedgerStatus`, which prove
   every safety property the runs check, and two more.
2. `Questions` - the durable answer: tool, native reply or continuation turn;
   with the chat's process, queue and `send`. **Done**, with `QuestionsProofs`.
3. `Channel` and `Inbox` - what the inbox promises of a notice, and the inbox
   that implements it. **Done**, with `InboxProofs`, which proves the refinement.
4. `AutoResume` - the schedule of resumes and hand-overs between providers, over
   crashes. **Done**, with `AutoResumeProofs`.
5. `PlanApproval` - the plan the person approves: revisions, approvals, handoffs,
   rollback. **Done**, with `PlanApprovalProofs`.
6. `JobSpool`, the cleaning of worktrees, worker splits, missions and peers: not
   modelled (section 9).

Two properties of different components are never checked on one state space:
the modules meet only at interfaces that carry no shared state (the ledger
starts a chat and hears a report; a question waits in a chat; a notice is posted
with the report it tells of). Where a component reads another's state, its
module keeps what it reads: `Inbox` has the attempts a notice's validity depends
on, `AutoResume` the chat's process and queue, `PlanApproval` the tasks and
attempts a start reads.

## 3. Ledger

One run. A task is a record of the fields of `Task` that control reads (status,
active attempt, verdict, whether the person stopped it, retries used, its
replacement, and the two reopen flags); an attempt has its status, its task,
whether it has finished, how far its start got, whether the host owes it a
retry and how many host retries led to it; a gate has its status and what it is
on or about. An action is one hold of the store's mutex. Since `mutate` saves
the ledger before it publishes it, an action is atomic and durable, and
`Restart` may come between any two. `workspace_ops`, which `start_worker_for`
holds from the reservation until the chat is up, is `dispatch`: only one start
is under way at a time, and reopening waits for it as well.

| actions | code |
|---|---|
| `CreateTask`, `ReplaceCheck`, `ReplaceCreate`, `ReplaceCommit` | `create_task_with_effort`; the three holds of `orchestration_task_create` with `supersedes` |
| `CoordinatorStart`, `PageStart`, `Recover`, `Dispatch` | all through `Start`, which is `reserve_attempt_for`; the last two are what `recover_due_workers` and `dispatch_ready` pick |
| `Activate`, `ActivationRefused`, `ChatStarted`, `DispatchFails` | the rest of `start_worker_for` |
| `Report`, `WorkerFails`, `DropRecovery` | `report_worker` with `settle_attempt`; `fail` from a turn's end; a due retry that is refused |
| `RunGate`, `AboutGate`, `TaskGate`, `ResolveGate` | `create_gate`, `resolve_gate_and_resume` |
| `StopTask`, `StopRun` | `stop_task`, `stop_run_in` |
| `Reopen`, `TellReopen` | `reopen_task_as`, `tell_reopens` |
| `Restart` | `recover_interrupted_workers`, `correct_finished_run_statuses` |

Abstractions: no times (a retry that is owed may be due at any moment); a
worker's report and failure come at any moment; the wave's starts are made one
at a time with the wave read again before each; models, prompts, worktrees and
results are left out. The run has no plan card, is no mission, and none of its
tasks is reassigned, split or a peer request.

`autoRetries` is history: it counts, off the attempts and not off the ledger's
own counter, the starts and replacements agents and the host make after
failures, and is reset where the person decides.

### Runs

| run | checks | instance |
|---|---|---|
| `ledger` | `TypeOK`, `BudgetHolds`, `ScheduledRetry`, `StoppedStaysDown`, `BlockedIsExplained`, `OneWriter`, `DependantsNeverOutrun`, `PendingWaits`, `StatusKeepsItsWord`, `SettledStays` | 3 tasks: a check that writes in the shared checkout, work that waits for it, and a second writer; 2 attempts, 1 gate, 2 slots, budget 1 |
| `ledger_progress` | `ConcurrencyLimit`; `ReadyIsStarted`, `RecoveryIsMade` under `FairSpec` | 2 independent tasks, 3 attempts, 1 slot, no gate |
| `ledger_wave` | violates `ReadyIsStarted` | 2 independent tasks, 2 attempts, 1 gate |

The bounds are the numbers of ids (tasks, attempts, gates) of the whole run;
nothing else is cut off. Two attempts in two slots are enough for two workers to
be where one may be, for a failure to be retried by the host or by the
coordinator and for the budget of 1 to be used up, since what would break it is
a retry that is not counted. `ledger_progress` has three attempts, so that a task
fails, is retried and is started again while the other task competes for the
slot. One gate is opened on a task, about a task or on the run; longer histories
and two gates at once are covered by the proofs only. Ids are handed out in
order, which loses nothing, as the code's ids are fresh.

Deadlock is checked everywhere: in each instance a restart is always possible.

Fairness (`FairSpec`): the scheduler thread passes every two seconds for ever,
so recoveries, notices and dispatches that stay possible are made; a start
returns; a worker eventually reports or fails (`monitor_workers_with` fails one
that is silent, and a process that is gone is noticed). The host does not try a
recovery while the run is stopped, a run gate is open or no slot is free
(`RecoveryTried`), so no fairness is assumed of it then. A start that answers
"provider choice pending" or "provider quota pending" is retried for ever and is
assumed away. Nothing is assumed of the coordinator, the person or restarts.
The liveness properties end when a gate opens (the person may never decide) or
the ids run out (`Exhausted`), and are checked on an instance without gates,
where the first is never taken.

### Findings

* `ReadyIsStarted` with a gate: "Other independent ready tasks should still get
  their chance in the same wave" (automation.rs:313). `ready_wave` cuts the wave
  to the free slots without leaving out tasks that no start accepts. A replaced
  task is one: a task blocked on its gate can be replaced, the replacement leaves
  the gate open, and resolving the gate makes the replaced task ready. It takes
  the only slot in every wave.

Also met: a gate opened on a task that has no attempt yet does not stop its
start, and when its worker has reported `blocked`, resolving the gate makes that
finished attempt running again, to be reported a second time, where
docs/orchestration.md:194 has a report settle its attempt once. `SettledStays` is
of attempts that completed, failed or were cancelled.

## 4. Questions

One chat of a persistent provider (a process that keeps reading its stdin), the
cards its agent asks, and what carries an answer back: the call that asked, as
long as it waits, or a turn that the delivery pass sends in the host's name.

| actions | code |
|---|---|
| `Ask`, `Answer`, `Settle`, `Retry` | `insert` under `question_origin`, `answer`, `settle`, `question_retry` |
| `Wake`, `TakeTool`, `Disconnect`, `Detach` | `ask_request_with_timeout`: the wait, `take_tool`, and the drop guard `WaitingTool` |
| `TakeNative`, `NativeWrite`, `NativeWritten` | the task of a provider's own request: claim, write to the pipe, settle the claim |
| `PersonStarts`, `PersonSends` | `start_session`, `send_turn` with the person's words |
| `TurnEnds`, `HandOver`, `RecordHand`, `Acknowledge`, `OutputEnds` | a process's reader: the full stop with `dispatch_next_persistent_turn`, `write_user_message_locked`, `record_delivery`, a provider's receipt, the end of the output |
| `ProcessDies`, `Reap`, `EndProcess`, `StopProcess` | the process, its reaper, `end_process_when` and `stop_process` |
| `CancelBegins`, `CancelKeeps`, `CancelUnqueues`, `CancelEnds`, `StopEnds` | `cancel_questions`, `chat_interrupt_impl`, `chat_stop_impl` |
| `PassBegins`, `PassReads`, `PassJudges`, `PassSends`, `PassSettles` | `deliver_question_answers_with` with `question_receipt`, `continue_origin`, `send_turn` |
| `Restart` | the host is killed; `load` reads the file |

A step is as long as a lock is held, and no longer. The store's mutex is one
step. The delivery lock is `desk`: who holds it, and how far they are. A
session's lock, which is held from taking a turn off the queue until its fate is
on record, is `proc[l].hand`: the host can be killed between the three steps of
a hand-over, and no other holder of that lock moves meanwhile. The lock of the
session table matters only where a send holds it across a write
(`SendHoldsTable`).

`rec` is memory and `disk` the file. A change is made with `Save` (refused if it
cannot be written) or `Keep` (made anyway and owed), as the code chooses for
each. The chat's record survives a restart; it is reduced to what is read from
it: whether the turn's envelope is there (`envelope`, for
`durable_user_turn_exists`) and what `question_receipt` answers (`receipt`).

History: `handed` counts how often an answer went to an agent, and `lost` holds
the cards that a restart took back to an older state because a save was owed.

Abstractions: the chat's record can always be written; a write to a pipe is
taken whole or fails; the end of a process on purpose forgets the queue in the
step that takes it out of the table; `RecordHand` of a refused turn drops the
queue behind it in the same step; the person's own turns are never queued and
only keep the process busy. Left out: command-line providers, a Stop's grace,
handoffs, the profile folder, answered lines in the transcript.

### Runs

| run | checks | instance |
|---|---|---|
| `questions` | `TypeOK`, `AtMostOnce`, `SavedUnlessOwed`, `DeliveredWasHanded`, `QueueIsOwned`, `DoubtIsFinal`, `SentWhileOpen` | 1 card of 1 question, 2 processes, saves and pipes may fail, 1 restart |
| `questions_progress` | `ReadyMovesOn` under `FairSpec` | 1 card of 2 questions, 1 process, pipes may fail, 1 restart |
| `questions_lost_queue` | violates `LostQueueIsReplayed` | 1 card, 1 process, pipes never fail, 1 restart |

Bounds: the numbers of cards, questions on a card, processes and restarts.
Nearly everything that can go wrong with one answer takes one card and two
processes (an old reader beside a new process, a restart between the two); what
several cards do to one queue is covered by the proofs, which hold for any
number. One restart is enough, since a restart leaves nothing behind but the two
files. The processes are interchangeable, so the safety run uses symmetry; the
liveness run does not. Deadlock is checked everywhere and none is found:
whatever holds a lock lets it go.

Fairness (`FairSpec`): the host's own threads and tasks go on. A waiting task
wakes (ten minutes at most), a turn taken is written and recorded, a cancel once
begun ends. The pass asks for the delivery lock every two seconds and for the
session's lock on every send, and a native write for the session's; each is held
by others for moments only, so these get strong fairness. Nothing is assumed of
the person, the provider's receipts, the end of a turn, a process or a restart.
`ReadyMovesOn` therefore says nothing of a card that is already in the process's
queue, whose turn may never come.

### Findings

* `LostQueueIsReplayed`: "Startup recovery replays saved answers that were not
  dispatched, including a queue lost with the old server process"
  (docs/question-delivery.md:43-45). The envelope of a turn is written when the
  turn is queued, and `send_turn` takes it as proof that the turn was sent. After
  a restart, or after the process's end forgot the queue, the pass tries such an
  answer every two seconds, hears `Sent::Already`, and marks it queued again:
  the answer is never sent, and the card never says so.

## 5. Inbox

A report, a decision or an instruction becomes a *notice* in the run's ledger,
posted by the very write that changes the run; the scheduler's pass writes what
is due to the chat it is for; the provider's receipt comes back through the
reader of that chat's process. `Channel` says what that promises of each notice
and nothing of how: posted, then open until it is received or withdrawn, copies
written only of what was offered while open and would survive a crash, a receipt
never undone. `Inbox` is the code, and `ChannelHolds` says that it implements
`Channel`: the notice's abstract status is what the ledger *and the reader's
record* say of it (`Status`), `durable` the same of the ledger's file, `offered`
what the pass has found without a receipt and then claimed, `copies` the history
of writes. That mapping is the point of the design it checks: an acknowledgement
may be lost between the record and the ledger, and the record stands in for it.

| actions | code |
|---|---|
| `Tell`, `Instruct` | `record_message_as`, to the coordinator and to a worker |
| `Report`, `Confirm`, `Fail`, `AskGate`, `Resolve`, `StopRun` | what settles, blocks, resumes or stops an attempt and posts or withdraws notices with it: `report_worker`, `confirm_proposed_report`, `execution::fail`, `create_gate`, `resolve_gate_and_resume`, `stop_run_in` with `prune_run` |
| `Enqueue`, `Stale`, `Valid` | `enqueue`, `stale_reason`, `valid` |
| `PassBegins`, `PassReads`, `PassAcks`, `PassClaims`, `PassSkips`, `PassWrites`, `PassFindsBusy`, `PassFails`, `PassRetries`, `PassCannotSave` | `deliver_pending` with `due_notifications`, `claim_notifications`, `deliver_orchestration_notifications`, `retry_notification` |
| `TakeForWorker` | `take_for_working_worker`: notices in the answer to a worker's call |
| `ReadReceipt`, `ReadLate`, `KeepReceipt`, `AckReceipt`, `OutputEnds` | a process's reader: `acknowledge_user_turn`, the record first and the ledger second, and the output of a process that is gone |
| `Start`, `TurnEnds`, `PersonTurn`, `ProcessEnds`, `Lapse` | attempts, turns, processes and time |
| `Settle`, `Restart` | `settle_owed`; the host is killed, `recover_interrupted_workers` |

The ledger's mutex is one step. `workspace_ops`, which the pass holds while it
serves one chat and a Stop takes as well, is `pass.at`. A reader holds neither
between its steps, so a receipt can fall between any two steps of the pass.
`mem` is memory and `disk` the file; `Commit` is `mutate`, which refuses a change
it cannot write, and `Keep` is `mutate_regardless`, which does not.

| run | checks | instance |
|---|---|---|
| `inbox` | `TypeOK`, `SentIsCounted`, `ReceiptIsRecorded`, `ReceivedAsSent`, `ChannelHolds`, `NothingSentAfterStop`, `StatusNeverGoesBack` | a coordinator and 1 worker, 2 notices (progress, report, instruction), 1 attempt, 2 tries each, 1 restart, saves, writes and starts may fail, the person writes to the coordinator |
| `inbox_progress` | `PostedSettles` under `FairSpec` | 2 notices (status, lost worker, decision, instruction), no restart, writes may fail |

Two notices are what every property needs at most (an older and a newer update,
an update and the report that overtakes it, one for each chat); two tries let
one be sent again while the first copy is on its way; one restart, since a
restart leaves only the two files. Deadlock is not checked: with the ids of the
instance used up the system may be quiet.

Fairness: the scheduler passes for ever, a notice's time comes, what a live
process was given is received or its output ends, and a turn comes to an end.
Nothing is assumed of the agents, the person or processes that die.
`PostedSettles` ends where a notice used up the tries of the instance
(`Exhausted`), which the code does not limit.

Left out: the notices of peers' relays, services and bridges, the resume context
a notice restores, the order of notices inside one turn. Section 8 proves the
refinement and the rest of what `inbox` checks for instances of any size.

## 6. Automatic resume

One chat of the person's, of providers that keep their process, its schedule
entry in memory (`mem`) and on file, its process and queue, the scheduler's
thread, and what the person does, which begins with a cancel.

| actions | code |
|---|---|
| `ReadsLimit`, `ReadsFullStop`, `Exits` | the process's reader: `schedule`, `schedule_switch_choice`; `end_turn_locked`, which keeps the queue back while a resume waits |
| `Begins`, `Sends`, `Stops`, `Ends`, `Chooses` | the person: `cancel` before anything else, then `send_turn` or `start_session`, an interrupt, `chat_stop`; `choose_switch` |
| `BootClears`, `BootTakes` | the scheduler's start: tombstones, `take_uncertain` |
| `Claims`, `Looks`, `SendsResume`, `StartsResume` | `claim_due`, `run_scheduled_resume`, `defer_switch` |
| `SwitchTakes`, `SwitchLooks`, `SwitchSpawns` | `run_provider_switch`, `start_session` with the receipt's second look |
| `Fails`, `Drops` | `reopen_switch`, `finish` |
| `SweepsIdle`, `GraceRunsOut`, `StartsWaiting`, `Settles` | the idle sweep, a stopped turn that never ends, `start_waiting_queues`, `settle_cancelled_resumes` |
| `ComesDue`, `FolderGoes`, `FolderReturns`, `Dies` | time, the profile folder (every save fails while it is away), a kill of the server |

The schedule's mutex is one step. The session table with the session, under
which a turn is written, queued or started, is one step as well, except that a
hand-over holds it from its last look at the receipt until the new process runs
(`sched.at = "spawn"`); a cancel takes neither and can fall between any two.

| run | checks | instance |
|---|---|---|
| `resume` | `TypeOK`, `SentOnce`, `OnlyCancelsAreOwed`, `CancelledIsNotSent`, `ScheduledIsNotLost`; `ResetIsSettled` under `FairSpec` | 2 providers, all three kinds, 2 reset times, 2 entries, 3 acts of the person, 1 outage, 1 kill |
| `resume_held` | violates `ResumeIsHandedOver` | resets only, 1 entry, 2 acts, no outage, no kill |

Two entries are one and the one that takes its place, or a choice and the one
that is asked for again; three acts of the person can cancel, choose and send.
Deadlock is not checked: a chat with nothing scheduled may rest for ever.
Fairness: the threads run and time passes, a turn that an agent was given ends,
the folder comes back, and the person finishes what was begun with a cancel. No
agent has to meet a limit or exit.

`CancelledIsNotSent` counts a resume as cancelled (`off`) when the cancel came
before its process was being made: `start_session` looks at the receipt and then
starts the process under the session table, which a cancel does not take, so a
cancel that falls in between is too late. Other things met while modelling, all
of them reachable in the model and none against a word of the documentation: a
`take_uncertain` that cannot be saved at boot ends the scheduler's thread for
good (`sched.at = "off"`), so nothing scheduled is resumed until the next start;
a `finish` or `defer_switch` that cannot be saved leaves an entry that is being
dispatched by no one, and holds the chat's queue back until the next start; a
prompt that is being dispatched cannot be cancelled; the idle sweep may drop a
queue that is held back.

### Findings

* `ResumeIsHandedOver`: "a still-live persistent process receives an ordinary
  next turn" (agent_chat.rs:8500-8501). A prompt that comes due while the
  process is busy is queued; the turn's full stop keeps the queue back because a
  resume waits, and when that resume is finished, or cancelled, nobody hands the
  queue over: the prompt waits in an idle process.

## 7. Plan approval

One run of the lead's own whose plan the person approves. The lead makes,
revises, withdraws and hands on tasks and changes the defaults; the person
resizes a task or changes its access on the card; both keep moving the plan
under the card, or the message, that the person is looking at. An approval
names a revision; it fixes of each task the owner, the worker and the recovery
policy (`fixed`, which is `approved_at` with `approved`), and every later start is
held to that. A change to an approved task takes the approval away, keeps what
it was (`rollback`), and puts the plan back in front of the person.

| actions | code |
|---|---|
| `CreateTask`, `Revise`, `Withdraw`, `Reassign`, `SetSize`, `SetAccess`, `Configure` | `create_task_with_effort`, `revise_task`, `reassign_task_with_effort`, `set_task_size`, `set_task_access`, `configure_automation` |
| `OpenCard`, `RedrawCard`, `CardSettles`, `CloseCard`, `SendMessage` | the browser: `chatPlans`, `nextShown`, `settling`, `seenPlans` |
| `ApproveOnCard`, `ApproveInChat`, `RejectOnCard` | `approve_plan_from_card`, `approve_plan_in_conversation`, `reject_plan_from_card`, all through `decide_plan_in` |
| `StartByLead`, `StartFromPage`, `Recover` | `reserve_attempt_for` with `held_by_plan`, `keeps_to_handoff`, `keeps_to`; the page's retry of an attempt it shows; `recover_due_workers` |
| `Report`, `Fail`, `AskGate`, `ResolveGate` | `settle_attempt`, `fail`, `create_gate`, `resolve_gate_and_resume` |

A step is one write of the ledger. `Write` is what every write does around its
change: it gives approvals to tasks of older ledgers that have none (`Stored`),
and moves the revision of a waiting plan whose scope is no longer the one the
revision stands for (`Refreshed`). Since a start, a report or a gate changes
what the plan covers as well, they are here in full, and not only the edits.

The clock moves when an edit is made, and need not: several writes may share a
millisecond, which is where the repair of older ledgers could mistake new work
for old. A scope is the fields the card shows, without the digest. The card and
the message are copies that lag behind. `basis` is history: what the person had
in front of them of each task when they approved it, together with the defaults
on the card; `recalled` is the set of withdrawn tasks a gate was opened on.

### Runs

| run | checks | instance |
|---|---|---|
| `plan` | `TypeOK`, `NothingSlipsBy`, `StartsAsApproved`, `ApprovedWasSeen`, `RejectKeepsApproved` | 2 tasks, 2 owners each with a worker of their own, 2 policies, 2 sizes, 3 edits, 2 attempts, 2 instants |
| `plan_recalled` | violates `OnlyApprovedStarts` | 1 policy, 1 size, 1 instant |

Three edits are a task made, a second one or a change while the first is looked
at, and a change after the approval; two attempts are a start and the retry
after a handoff; two instants tell equal times from earlier ones. Starts and
decisions are not edits and are not bounded but by the attempts. The tasks are
alike, and the policies, so the safety run uses symmetry; an owner and its
settings go together. Deadlock is not checked: with the edits used up and
everything settled there is nothing left to do. No liveness is stated: nothing
has to happen until the person decides.

The four properties leave out `recalled` tasks, of which the finding is.

Abstractions: top-level tasks with a registered owner, one worker setting for
each of provider, model, effort and access together; `completed` of a dependency
stands for a release (no checks). Refusals that only take starts away (slots, the
shared checkout, spent retries, a notice not yet told) are in `Ledger`. Left out:
standing consent, which approves without the person looking; the reading of a
message's words; workspace choices; splits and peer requests; replacing,
reopening and stopping tasks; restarts, which leave nothing between two writes.

### Findings

* `OnlyApprovedStarts`: "a task you have not approved never starts; rejecting an
  amendment withdraws the new work" (docs/agents-mode.md:1650). A withdrawn task
  is kept down by its status alone, and `create_gate` does not look at it: a gate
  of the lead's takes it to blocked, its answer to ready, and with the plan
  decided nothing holds it. It starts as whatever it was when it was rejected.

Other things met while modelling, reachable in the model, and no property's:

* A task blocked on an open gate can be handed on. Resolving the gate then sets
  the old owner's attempt running again, although the task as it is now is not
  approved (docs/agents-mode.md:1359-1366 describes a handoff as waiting for the
  person). No attempt is *started*, so `StartsAsApproved` holds.
* A rejection restores the status from approval time: a task that was handed on
  while blocked on a gate, and whose old attempt was then resumed by the gate
  and reported, becomes blocked again over a finished report.
* The due retry of a task that was handed on and approved again asks for the old
  attempt's settings, `keeps_to` refuses it, and the task ends as failed although
  it was approved.
* A rejection restores approval, owner, worker and size, but not the words and
  dependencies: a task revised after a handoff starts with words the person
  rejected. So `ApprovedWasSeen` compares the words at the moment of approval
  only, and `RejectKeepsApproved` does not.
* After a rejection, the same amendment asked for again has the same scope and
  so the same revision: a message sent before the rejection can approve it.
* `seenPlans` reports a revision the moment it is drawn; the time a card has to
  hold still is asked of the buttons and not of messages.
* The repair of older ledgers goes by the clock. One that is set back makes work
  added later look older than the approval.

## 8. Proofs

Everything below holds for all values of the constants that satisfy the named
assumptions of the component's module; nothing else is assumed.

### Ledger

`LedgerProofs` proves `Inductive` (`Spec => []IInv`), and from it `TypeCorrect`,
`StatusesAgree` (a task runs exactly while its active attempt is live) and
`OneWorkerPerTask` (an attempt that holds a slot is its task's active attempt).

None of these is inductive alone. `OneLiveAttempt` is about unsettled attempts,
and a settled `blocked` attempt becomes unsettled when a gate opens on its task;
so `HoldersOwn` says it of every blocked attempt. Resolving a gate turns a
blocked attempt and its task to running together; that they agree before it
needs `BlockedTogether`. A failed attempt is retried through its task, so
`RetryIsOwn` ties a retry that is owed to the active attempt, and `ActiveIsOwn`
says that a task's active attempt exists and is at that task. `IInv` is the
conjunction. The proof
has a lemma for every group of actions that change the ledger alike (a start, a
failure, a gate opening, ...) and one case per action.

`LedgerSlots` proves `SlotsAreBounded` (`ConcurrencyLimit`) and
`WritersTakeTurns` (`OneWriter`). The argument is one fact (`SlotsKept`): no step
but a start takes an attempt that held no slot to holding one. Resolving a gate
seems to, but the blocked attempt of an unsettled task was counted already. A
start adds one attempt to a set that was smaller than the limit, and one writer
where there was none, with the finite-set theorems for the counting.

`LedgerRules` proves the rules of the tasks on top of `IInv`: `BudgetIsKept`,
`StoppedIsThePersons`, `RetriesMayBeMade`, `NothingIsStuck`
(`BlockedIsExplained`), `WorkRestsOnWork` (`DependantsNeverOutrun`) and
`NoWakeUpIsLost` (`PendingWaits`). Together they are `RInv`, which adds
`ActiveTells` (a task's status follows from its active attempt's), `GateShape`
(a gate that a task waits on is no gate about a failed one), `CountIsKept` (the ledger's counter is never
behind the history it counts) and `NewTaskExists`. They are proved together
because each leans on another: a retry may be made because the task is not
stopped, a blocked task is explained by its retry or its gate.

`LedgerStatus` proves the run's status true (`StatusIsTrue`,
`StatusKeepsItsWord`): a step either recomputes the status from the tasks
(`RecomputedWord`), which always tells the truth (`DerivedWord`), or leaves what
the word rests on alone (`WordKept`). It also proves `SettledIsFinal`
(`SettledStays`), the action property. Every safety property the ledger's runs
check is a theorem; `StatusAgrees` and `OneLiveAttempt` are theorems only.

### Questions

`QuestionsProofs` proves, for all cards, questions on them, launches and numbers
of restarts, whatever saves and pipes fail:

* `SavedOrOwed`: `Spec => []SavedUnlessOwed`, inductive as it stands: every step
  either leaves memory, file and debt alone or changes all three by `Save`,
  `Keep`, `Settle` or `Restart`;
* `Inductive`: `Spec => []IInv`, and from it
* `TypeCorrect`, `OnceOnly` (`[]AtMostOnce`), `DeliveredIsTrue`
  (`[]DeliveredWasHanded`), `NoTurnIsForgotten` (`[]QueueIsOwned`),
  `NoWaiterIsLeft` (`[]WaiterIsLive`), and the action properties
  `NothingSentBehindACancel` (`SentWhileOpen`) and `DoubtStays`
  (`DoubtIsFinal`).

`AtMostOnce` needs most of `IInv`. An answer that was given must be beyond the
reach of both ways (`Once`): a turn that is still in the queue, or taken and not
yet written, was never given, and one given through its call is past `Ready`. A
turn that is on record is in one place at most (`OneTurn`), since its envelope is
written before anything carries it; whoever has an envelope has no live call
(`CallOrTurn`). The pass goes by a snapshot and by a receipt it read earlier, so
`PassIsCurrent` says how far they may be out of date when it sends: only a claim
that was settled meanwhile can have changed a listed card, and such a card has
no envelope and ends in doubt. `CardsAreSaved` lets a restart go back to the file
without losing a card, and `CancelsAll` keeps `QueueIsOwned` while a cancel is
between its records and its turns. The assumptions used are that the sets of
ids are disjoint from `None` and that `MaxRestarts` is a number.

The proof shows the types kept by every action first, and then the rest. Three
lemmas carry most of the actions: `Less` (nothing new is begun), `CardMoves`
(one card's call, or the person) and `PassMoves` (the pass at one card).

### Automatic resume

`AutoResumeProofs` proves `Invariant` (`Spec => []IInv`), and from it
`TypeCorrect`, `NeverSentTwice` (`SentOnce`), `FileLacksOnlyCancels`
(`OnlyCancelsAreOwed`), `CancelHolds` (`CancelledIsNotSent`) and `WaitingIsKept`
(`ScheduledIsNotLost`). `SentOnce` is a statement about the queue and the
processes; what makes it inductive is where an id that was not handed over can
be. Ids are new when they are given out (`IdsBelow`); the file never holds a
newer state of an entry than memory but for a cancel (`FileBehind`); while the
scheduler is between its claim and the hand-over, both memory and file say that
the entry is being dispatched or cancelled, or that it was replaced
(`ClaimedOnce`), so a
killed server finds it dispatching and reports it; and an id that still waits in
the schedule was never queued nor handed (`Unused`). `OffIsOff` says that a
cancelled id cannot be claimed again.

### Plan approval

`PlanApprovalProofs` proves `Invariance` (`Spec => []IInv`), and from it
`TypeCorrect`, `SlipsBy` (`NothingSlipsBy`) and the action properties
`StartedAsApproved`, `ApprovedAsSeen` and `RejectedKeepsApproved`, for any number
of tasks, owners, settings, edits and attempts. `IInv` was checked by TLC on the
instance of `plan` first. Its parts:

* `HistoryInv`: what is gone never ran, what has a result did, and a rollback is
  kept only of a task nobody was on. A rejection can then not lose attempts.
* `MarkInv`: a task without approval has the plan wait, and is no older than that
  waiting unless it was approved before. This is the argument that the repair of
  older ledgers does nothing on a ledger of today (lemma `StoredIsTask`): whatever
  it looks for was created at or after the time it compares with, strictly, and
  an approved plan has none.
* `BasisInv`: an approval, and a rollback of one, are of what the person saw.
* `ScopeInv`: a revision stands for one scope. What the card or the message
  shows under the plan's revision is therefore the plan's scope, and an approval
  that names it covers what was seen.

Every action is a `Write` of one changed task, or a decision; the lemmas are
about those shapes, and one case per action puts them together.

### Inbox

`InboxProofs` proves, for any number of workers, notices, attempts and restarts,
and whatever saves, writes and starts fail, that the inbox implements `Channel`
(`InboxIsAChannel`: `Spec => ChannelHolds`), and every other safety property the
run checks: `TypeCorrect`, `SentAreCounted`, `ReceiptsAreRecorded`,
`WordsAreAsSent`, `StoppedRunIsSilent`, `StatusGoesForward`. `ReceiptIsFinal`
says what the refinement comes to: nothing turns a received notice back. The
assumption is `InboxAssumption`: finitely many workers, distinct from the
coordinator and from `None`, numbers for the bounds, and at least one try.

All of it follows from `Invariance` (`Spec => []IInv`), which TLC checked on the
instance of `inbox` first. Its parts:

* `LedgerInv`, of the ledger in memory *and* of the one in the file: the notices
  are numbered and each change has a sequence of its own (`Numbered`); what is
  due may be tried (`MayBeTried`); what was sent was posted, in the words it was
  sent in, and counts a try while it waits (`KnowsSent`); what the coordinator
  received is on record (`OnRecord`). It must hold of the file because a crash
  makes the file the ledger: a copy that went out must not meet a ledger that
  never heard of it.
* `FileBehind`: the file may lack notices and moves of memory, but a receipt it
  lacks is on record. This is why a crash undoes no receipt.
* `ReceiptsAreReal`: a receipt on its way is of a copy that was sent to that
  chat, and the ledger hears of it after the record.
* `PassIsCareful`: of what the pass lists, it looks in the record for all that
  was sent before (`tried`). A notice it then offers is therefore open.
* `ClaimIsCounted`: what the pass holds was counted and saved once more than any
  copy; putting back the count of a claim that only found the chat busy keeps a
  sent notice above zero.
* `ClaimIsNewest`: what is about to be written is of an open run, and nothing
  newer of its attempt was sent. The step that makes it true is the claim
  (`Stale`), and what keeps it true is that a Stop waits for the pass and that an
  update that was sent takes no new words.

The changes of a ledger are lemmas of their own, by what they have in common: a
notice is posted once, to wait; what is over stays over; what was tried keeps its
words (`Changes`), and its tries are not taken back (`Counts`). `EnqueuePosts`,
`AckedChanges`, `HandedChanges`, `ClaimedChanges`, `RetriedChanges`,
`LapsedPosts`, `StoppedPosts` and `RecoveredPosts` show it of each operator, and
`LedgersStay`, `ClaimStays` and `ReceiptsStay` what any such change leaves in
order (`Evolves`); one lemma per action puts them together. The refinement uses
the same facts: a step that evolves the ledger is `Channel`'s `Change`
(`ChangeRefines`), `PassReads` an `Offer`, `PassWrites` a `Send`, and a restart a
`Crash`. `MinIsLeast`, that a set of numbers has a least one, is shown by
counting, since an induction theorem cannot be used.

`Recovered` posts its notices in an order that is any bijection of the numbers
onto the interrupted workers, where the code goes by the ids of the tasks.

The proof found `Channel` weaker than it was meant: its `Crash` let a notice that
was received and whose posting was not saved come back as open. `ReceiptIsFinal`
did not follow from it. It now keeps every receipt, and the inbox implements that
too: nothing is sent or handed over before its posting is saved.

### Only model-checked

Liveness is out of the prover's reach (fairness, ENABLED): `ReadyIsStarted` and
`RecoveryIsMade` of the ledger, `ReadyMovesOn` of the questions, `PostedSettles`
of the inbox, `ResetIsSettled` of the resumes. Every safety property that a
passing run checks is a theorem. The runs that expect a violation refute what
the code's own words promise, which leaves nothing to prove.

## 9. Not modelled

* Spool of background jobs (`job_spool*.rs`, `job_wrapper.rs`): two processes
  that meet in the file system. What can go wrong is what the operating system
  does with half-written lines, renames and ages of files, which the code leaves
  to it.
* Cleaning of worktrees, worker splits, missions, closing, archives, peers:
  further operations on the ledger's record. They are sequences of holds of the
  same lock, but each brings state of its own (paths and git's answers, the
  parent's budget, retention times, a second run), and with it the ledger's
  instances grow beyond what TLC finishes.
* Handover of conversations, transcripts, trimming: long file migrations.
* Permissions and access requests: kept in memory and lost at a restart by
  design; what they decide is classification of strings.
* Git, pull requests, terminals, memory, usage and disk reports, the island,
  teams, the profile folder's lock, the browser client and the MCP servers:
  input and output, projections, or records edited one at a time.
