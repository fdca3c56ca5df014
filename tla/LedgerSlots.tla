----------------------------- MODULE LedgerSlots -----------------------------
(***************************************************************************)
(* Theorems about what an unsettled attempt holds: a slot of the run and,  *)
(* in the shared checkout, the right to write.  Both are handed out at one *)
(* door, reserve_attempt_for, so it is enough that no other step makes an  *)
(* attempt unsettled that was not: not a gate that is opened or resolved,  *)
(* not a report, a failure or a restart.                                   *)
(***************************************************************************)
EXTENDS LedgerProofs, FiniteSetTheorems

\* No attempt comes to hold a slot, and those that hold one keep their task.
SlotsKept ==
    \A b \in Attempts :
        Unsettled(b)' => Unsettled(b) /\ attempt'[b].task = attempt[b].task

-----------------------------------------------------------------------------
(* One lemma for each kind of step that is no start *)

\* Attempts end, and gates on tasks are closed.
LEMMA EndingKeeps ==
    ASSUME \A b \in Attempts : /\ attempt'[b].task = attempt[b].task
                               /\ Live(b)' => Live(b)
                               /\ attempt'[b].status = "blocked" =>
                                      attempt[b].status = "blocked" \/ Live(b),
           \A u : OpenGateOn(u)' => OpenGateOn(u)
    PROVE  SlotsKept
BY DEF SlotsKept, Unsettled

\* Cancelling gates opens none.
LEMMA CancelOpensNone ==
    ASSUME gate \in [Gates -> GateRecord], NEW S, gate' = Cancel(S), NEW u
    PROVE  OpenGateOn(u)' => OpenGateOn(u)
BY CancelType DEF OpenGateOn

\* No gate changes.
LEMMA SameGates ==
    ASSUME gate' = gate, NEW u
    PROVE  OpenGateOn(u)' => OpenGateOn(u)
BY DEF OpenGateOn

\* A step that leaves the attempts and the gates alone.
LEMMA UntouchedKeeps ==
    ASSUME UNCHANGED <<attempt, gate>>
    PROVE  SlotsKept
BY DEF SlotsKept, Unsettled, Live, OpenGateOn

\* activate_attempt: a preparing attempt runs.
LEMMA ActivateKeeps ==
    ASSUME IInv, Activate
    PROVE  SlotsKept
<1>1. \A b \in Attempts : /\ attempt'[b].task = attempt[b].task
                          /\ Live(b)' => Live(b)
                          /\ attempt'[b].status = "blocked" => attempt[b].status = "blocked"
  BY DEF IInv, TypeOK, Activate, AttemptRecord, Live
<1>2. gate' = gate
  BY DEF Activate
<1>. QED BY <1>1, <1>2, EndingKeeps, SameGates

\* finish_dispatch: only how far the start got changes.
LEMMA ChatStartedKeeps ==
    ASSUME IInv, ChatStarted
    PROVE  SlotsKept
<1>1. \A b \in Attempts : /\ attempt'[b].task = attempt[b].task
                          /\ attempt'[b].status = attempt[b].status
  BY DEF IInv, TypeOK, ChatStarted, AttemptRecord
<1>2. gate' = gate
  BY DEF ChatStarted
<1>. QED BY <1>1, <1>2, EndingKeeps, SameGates DEF Live

\* execution::fail: the attempt ends, and the gates on its task are closed.
LEMMA FailKeeps ==
    ASSUME IInv, NEW a \in Attempts, NEW retryable \in BOOLEAN, Fail(a, retryable)
    PROVE  SlotsKept
<1>1. \A b \in Attempts : /\ attempt'[b].task = attempt[b].task
                          /\ b # a => attempt'[b].status = attempt[b].status
                          /\ b = a => attempt'[b].status = "failed"
  BY ZenonT(60) DEF IInv, TypeOK, Fail, AttemptRecord
<1>2. \A u : OpenGateOn(u)' => OpenGateOn(u)
  BY CancelOpensNone DEF IInv, TypeOK, Fail
<1>. QED BY <1>1, <1>2, EndingKeeps DEF Live

\* report_worker: a live attempt is reported, perhaps blocked on a decision
\* its worker had asked for.
LEMMA ReportKeeps ==
    ASSUME IInv, NEW a \in Attempts, NEW o \in Outcomes, NEW v \in Verdicts,
           Report(a, o, v)
    PROVE  SlotsKept
<1>1. \A b \in Attempts : /\ attempt'[b].task = attempt[b].task
                          /\ b # a => attempt'[b].status = attempt[b].status
                          /\ b = a => attempt'[b].status = o
  BY ZenonT(60) DEF IInv, TypeOK, Report, AttemptRecord
<1>2. Live(a) /\ gate' = gate
  BY DEF Report, MayReport
<1>. QED BY <1>1, <1>2, EndingKeeps, SameGates DEF Live, Outcomes

\* A question about the run, or about a task that failed, is on no task.
LEMMA OpenKeeps ==
    ASSUME IInv, NEW g \in Gates, NEW about \in Tasks \cup {None},
           Open(g, None, about), UNCHANGED attempt
    PROVE  SlotsKept
<1>1. \A u : u # None /\ OpenGateOn(u)' => OpenGateOn(u)
  BY DEF IInv, TypeOK, Open, OpenGateOn, GateRecord
<1>2. \A b \in Attempts : attempt[b].status = "blocked" => attempt[b].task # None
  BY DEF IInv, HoldersOwn, Owns
<1>. QED BY <1>1, <1>2 DEF SlotsKept, Unsettled, Live

\* create_gate on a task: the only attempt that may wait on it held its slot.
LEMMA TaskGateKeeps ==
    ASSUME IInv, NEW g \in Gates, NEW t \in Tasks, TaskGate(g, t)
    PROVE  SlotsKept
<1>1. \A b \in Attempts : /\ attempt'[b].task = attempt[b].task
                          /\ b # task[t].active => attempt'[b] = attempt[b]
                          /\ b = task[t].active => Unsettled(b)
  BY AttemptsAssumption DEF IInv, TypeOK, TaskGate, AttemptRecord
<1>2. \A u : u # t /\ OpenGateOn(u)' => OpenGateOn(u)
  BY DEF IInv, TypeOK, TaskGate, Open, OpenGateOn, GateRecord
<1>3. ASSUME NEW b \in Attempts, Unsettled(b)', b # task[t].active
      PROVE  Unsettled(b)
  <2>1. attempt'[b] = attempt[b]
    BY <1>1, <1>3
  <2>2. attempt[b].status = "blocked" => attempt[b].task # t
    BY <1>3 DEF IInv, HoldersOwn, Owns
  <2>. QED BY <2>1, <2>2, <1>2, <1>3 DEF Unsettled, Live
<1>. QED BY <1>1, <1>3 DEF SlotsKept

\* resolve_gate_and_resume: what runs again had kept its slot meanwhile.
LEMMA ResolveGateKeeps ==
    ASSUME IInv, NEW g \in Gates, NEW byPerson \in BOOLEAN, ResolveGate(g, byPerson)
    PROVE  SlotsKept
<1>. DEFINE t == gate[g].on
<1>1. \A u : OpenGateOn(u)' => OpenGateOn(u)
  BY DEF IInv, TypeOK, ResolveGate, OpenGateOn, GateRecord
<1>2. \A b \in Attempts :
        /\ attempt'[b].task = attempt[b].task
        /\ attempt'[b].status # attempt[b].status =>
             t # None /\ attempt[b].status = "blocked" /\ b = task[t].active
  BY DEF IInv, TypeOK, ResolveGate, AttemptRecord
<1>3. t # None => t \in Tasks /\ OpenGateOn(t)
  BY DEF IInv, TypeOK, GateRecord, ResolveGate, OpenGateOn
<1>4. ASSUME NEW b \in Attempts, attempt'[b].status # attempt[b].status
      PROVE  Unsettled(b)
  <2>1. attempt[b].task = t
    BY <1>2, <1>3, <1>4, AttemptsAssumption DEF IInv, ActiveIsOwn
  <2>. QED BY <2>1, <1>2, <1>3, <1>4 DEF Unsettled
<1>5. ASSUME NEW b \in Attempts, Unsettled(b)'
      PROVE  Unsettled(b)
  BY <1>1, <1>2, <1>4, <1>5 DEF Unsettled, Live
<1>. QED BY <1>2, <1>5 DEF SlotsKept

\* A recovery given up.
LEMMA DropRecoveryKeeps ==
    ASSUME IInv, NEW t \in Tasks, DropRecovery(t)
    PROVE  SlotsKept
<1>1. \A b \in Attempts : /\ attempt'[b].task = attempt[b].task
                          /\ attempt'[b].status = attempt[b].status
  BY ZenonT(60) DEF IInv, TypeOK, DropRecovery, AttemptRecord, TaskRecord
<1>2. gate' = gate
  BY DEF DropRecovery
<1>. QED BY <1>1, <1>2, EndingKeeps, SameGates DEF Live

\* stop_task: the attempt ends, and the gates on its task are closed.
LEMMA StopTaskKeeps ==
    ASSUME IInv, NEW t \in Tasks, StopTask(t)
    PROVE  SlotsKept
<1>1. \A b \in Attempts : /\ attempt'[b].task = attempt[b].task
                          /\ b # task[t].active => attempt'[b].status = attempt[b].status
                          /\ b = task[t].active => attempt'[b].status = "cancelled"
  BY ZenonT(60) DEF IInv, TypeOK, StopTask, AttemptRecord, TaskRecord
<1>2. \A u : OpenGateOn(u)' => OpenGateOn(u)
  BY CancelOpensNone DEF IInv, TypeOK, StopTask
<1>. QED BY <1>1, <1>2, EndingKeeps DEF Live

\* stop_run: every unsettled attempt is cancelled.
LEMMA StopRunKeeps ==
    ASSUME IInv, StopRun
    PROVE  SlotsKept
<1>1. \A b \in Attempts : /\ attempt'[b].task = attempt[b].task
                          /\ attempt'[b].status \notin {"preparing", "running", "blocked"}
  BY DEF IInv, TypeOK, StopRun, AttemptRecord
<1>. QED BY <1>1 DEF SlotsKept, Unsettled, Live

\* reopen_task_as: no attempt changes, and only gates about the task close.
LEMMA ReopenKeeps ==
    ASSUME IInv, NEW t \in Tasks, NEW byPerson \in BOOLEAN, NEW told \in BOOLEAN,
           Reopen(t, byPerson, told)
    PROVE  SlotsKept
<1>1. \A u : OpenGateOn(u)' => OpenGateOn(u)
  BY CancelOpensNone, SameGates DEF IInv, TypeOK, Reopen
<1>2. attempt' = attempt
  BY DEF Reopen
<1>. QED BY <1>1, <1>2, EndingKeeps DEF Live

\* supersede: only a retry that was due is taken back.
LEMMA ReplaceCommitKeeps ==
    ASSUME IInv, ReplaceCommit
    PROVE  SlotsKept
<1>1. \A b \in Attempts : /\ attempt'[b].task = attempt[b].task
                          /\ attempt'[b].status = attempt[b].status
  BY DEF IInv, TypeOK, ReplaceCommit, Replace, AttemptRecord
<1>2. gate' = gate
  BY DEF ReplaceCommit
<1>. QED BY <1>1, <1>2, EndingKeeps, SameGates DEF Live

\* A restart fails every unsettled attempt.
LEMMA RestartKeeps ==
    ASSUME IInv, Restart
    PROVE  SlotsKept
<1>1. \A b \in Attempts : /\ attempt'[b].task = attempt[b].task
                          /\ Unsettled(b) => attempt'[b].status = "failed"
                          /\ ~Unsettled(b) => attempt'[b].status = attempt[b].status
  BY DEF IInv, TypeOK, Restart, UnsettledAttempts, AttemptRecord
<1>2. \A u : OpenGateOn(u)' => OpenGateOn(u)
  BY CancelOpensNone DEF IInv, TypeOK, Restart
<1>. QED BY <1>1, <1>2 DEF SlotsKept, Unsettled, Live

\* A start makes its own attempt unsettled, and no other.
LEMMA StartTakesOne ==
    ASSUME IInv, NEW t \in Tasks, NEW a \in Attempts, NEW by \in Starters,
           Start(t, a, by)
    PROVE  /\ attempt'[a].task = t
           /\ \A b \in Attempts \ {a} :
                Unsettled(b)' => Unsettled(b) /\ attempt'[b].task = attempt[b].task
<1>1. attempt'[a].task = t
  BY DEF Start, Reserved, NoAttempt
<1>2. \A b \in Attempts \ {a} :
        /\ attempt'[b].task = attempt[b].task
        /\ attempt'[b].status # attempt[b].status => attempt'[b].status = "cancelled"
  BY DEF IInv, TypeOK, Start, Superseded, AttemptRecord
<1>3. \A u : OpenGateOn(u)' => OpenGateOn(u)
  BY CancelOpensNone, SameGates DEF IInv, TypeOK, Start
<1>. QED BY <1>1, <1>2, <1>3 DEF Unsettled, Live

-----------------------------------------------------------------------------
(* The theorems *)

\* Every step hands out no slot, or is a start of one attempt.
LEMMA NextKeeps ==
    ASSUME IInv, [Next]_vars
    PROVE  \/ SlotsKept
           \/ \E t \in Tasks, a \in Attempts, by \in Starters : Start(t, a, by)
<1>1. CASE CoordinatorNext
  <2>1. ASSUME NEW t \in Tasks, CreateTask(t) \/ ReplaceCheck(t) \/ ReplaceCreate(t)
        PROVE  SlotsKept
    BY <2>1, UntouchedKeeps DEF CreateTask, ReplaceCheck, ReplaceCreate
  <2>2. ASSUME NEW g \in Gates, RunGate(g) \/ \E t \in Tasks : AboutGate(g, t)
        PROVE  SlotsKept
    BY <2>2, OpenKeeps DEF RunGate, AboutGate
  <2>. QED BY <1>1, <2>1, <2>2, TaskGateKeeps, ResolveGateKeeps, ReopenKeeps,
              ReplaceCommitKeeps
           DEF CoordinatorNext, CoordinatorStart, Starters
<1>2. CASE PersonNext
  BY <1>2, ResolveGateKeeps, ReopenKeeps, StopTaskKeeps, StopRunKeeps
     DEF PersonNext, PageStart, Starters
<1>3. CASE WorkerNext
  BY <1>3, FailKeeps, ReportKeeps DEF WorkerNext, WorkerFails
<1>4. CASE HostNext
  <2>1. ASSUME NEW retryable \in BOOLEAN, DispatchFails(retryable) PROVE SlotsKept
    <3>1. dispatch \in Attempts
      BY <2>1 DEF DispatchFails, IInv, TypeOK
    <3>2. CASE Failable(dispatch)
      BY <2>1, <3>1, <3>2, FailKeeps DEF DispatchFails
    <3>3. CASE ~Failable(dispatch)
      BY <2>1, <3>3, UntouchedKeeps DEF DispatchFails
    <3>. QED BY <3>2, <3>3
  <2>2. ASSUME ActivationRefused \/ \E t \in Tasks : TellReopen(t) PROVE SlotsKept
    BY <2>2, UntouchedKeeps DEF ActivationRefused, TellReopen
  <2>. QED BY <1>4, <2>1, <2>2, ActivateKeeps, ChatStartedKeeps, DropRecoveryKeeps
           DEF HostNext, StartReturns, Recover, Dispatch, Starters
<1>5. CASE UNCHANGED vars
  BY <1>5, UntouchedKeeps DEF vars
<1>. QED BY <1>1, <1>2, <1>3, <1>4, <1>5, RestartKeeps DEF Next

\* The slots that are held, as a set that stays finite.
SlotInv == IsFiniteSet(UnsettledAttempts) /\ ConcurrencyLimit

\* A start is let in only below the limit, and adds one.
LEMMA SlotStep ==
    ASSUME IInv, SlotInv, [Next]_vars
    PROVE  SlotInv'
<1>1. CASE SlotsKept
  <2>1. UnsettledAttempts' \in SUBSET UnsettledAttempts
    BY <1>1 DEF SlotsKept, UnsettledAttempts
  <2>2. /\ IsFiniteSet(UnsettledAttempts')
        /\ Cardinality(UnsettledAttempts') <= Cardinality(UnsettledAttempts)
    BY <2>1, FS_Subset DEF SlotInv
  <2>3. Cardinality(UnsettledAttempts) \in Nat /\ Cardinality(UnsettledAttempts') \in Nat
    BY <2>2, FS_CardinalityType DEF SlotInv
  <2>. QED BY <2>2, <2>3, LimitsAssumption DEF SlotInv, ConcurrencyLimit
<1>2. ASSUME NEW t \in Tasks, NEW a \in Attempts, NEW by \in Starters, Start(t, a, by)
      PROVE  SlotInv'
  <2>1. UnsettledAttempts' \in SUBSET (UnsettledAttempts \cup {a})
    BY <1>2, StartTakesOne DEF UnsettledAttempts
  <2>2. Cardinality(UnsettledAttempts) \in Nat /\ Cardinality(UnsettledAttempts) < MaxConcurrent
    BY <1>2, FS_CardinalityType DEF SlotInv, Start, AcceptsStart, SlotFree
  <2>3. /\ IsFiniteSet(UnsettledAttempts \cup {a})
        /\ Cardinality(UnsettledAttempts \cup {a}) <= Cardinality(UnsettledAttempts) + 1
    BY <2>2, FS_AddElement DEF SlotInv
  <2>4. /\ IsFiniteSet(UnsettledAttempts')
        /\ Cardinality(UnsettledAttempts') <= Cardinality(UnsettledAttempts \cup {a})
    BY <2>1, <2>3, FS_Subset
  <2>5. Cardinality(UnsettledAttempts') \in Nat /\ Cardinality(UnsettledAttempts \cup {a}) \in Nat
    BY <2>3, <2>4, FS_CardinalityType
  <2>. QED BY <2>2, <2>3, <2>4, <2>5, LimitsAssumption DEF SlotInv, ConcurrencyLimit
<1>. QED BY <1>1, <1>2, NextKeeps

\* The run never has more unsettled attempts than max_concurrent, whatever
\* gates are opened and resolved in between (reserve_attempt_for).
THEOREM SlotsAreBounded == Spec => []ConcurrencyLimit
<1>1. Init => SlotInv
  <2>1. Init => UnsettledAttempts = {}
    BY DEF Init, UnsettledAttempts, Unsettled, Live, NoAttempt
  <2>. QED BY <2>1, FS_EmptySet, LimitsAssumption DEF SlotInv, ConcurrencyLimit
<1>2. IInv /\ SlotInv /\ [Next]_vars => SlotInv'
  BY SlotStep
<1>3. SlotInv => ConcurrencyLimit
  BY DEF SlotInv
<1>. QED BY <1>1, <1>2, <1>3, Inductive, PTL DEF Spec

\* Two writers never work in the one shared checkout, although a writer that
\* waits on a decision comes back without asking again.
THEOREM WritersTakeTurns == Spec => []OneWriter
<1>1. Init => OneWriter
  BY DEF Init, OneWriter, UnsettledAttempts, Unsettled, Live, NoAttempt
<1>2. ASSUME IInv, OneWriter, [Next]_vars
      PROVE  OneWriter'
  <2>1. CASE SlotsKept
    BY <1>2, <2>1 DEF SlotsKept, OneWriter, UnsettledAttempts
  <2>2. ASSUME NEW t \in Tasks, NEW a \in Attempts, NEW by \in Starters, Start(t, a, by)
        PROVE  OneWriter'
    <3>1. t \in SharedWriters =>
            \A b \in UnsettledAttempts : attempt[b].task \notin SharedWriters
      BY <2>2 DEF Start, AcceptsStart, CheckoutFree
    <3>. QED BY <1>2, <2>2, <3>1, StartTakesOne DEF OneWriter, UnsettledAttempts
  <2>. QED BY <1>2, <2>1, <2>2, NextKeeps
<1>3. IInv /\ OneWriter /\ [Next]_vars => OneWriter'
  BY <1>2
<1>. QED BY <1>1, <1>3, Inductive, PTL DEF Spec

=============================================================================
