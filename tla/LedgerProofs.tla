---------------------------- MODULE LedgerProofs ----------------------------
(***************************************************************************)
(* Theorems about Ledger, for every set of tasks, attempts and gates.      *)
(***************************************************************************)
EXTENDS Ledger, TLAPS

-----------------------------------------------------------------------------
(* The operators the actions are built from *)

\* derived_run_status returns a run status, whatever the tables hold.
LEMMA DerivedType ==
    ASSUME NEW T, NEW G
    PROVE  Derived(T, G) \in RunStatuses
BY DEF Derived, RunStatuses

\* recompute_run keeps a stop, and otherwise derives.
LEMMA RecomputedType ==
    ASSUME NEW T, NEW G, runStatus \in RunStatuses
    PROVE  Recomputed(T, G) \in RunStatuses
BY DerivedType DEF Recomputed, RunStatuses

\* Cancelling gates opens none and retargets none.
LEMMA CancelType ==
    ASSUME gate \in [Gates -> GateRecord], NEW S
    PROVE  /\ Cancel(S) \in [Gates -> GateRecord]
           /\ \A g \in Gates : /\ Cancel(S)[g].on = gate[g].on
                               /\ Cancel(S)[g].status = "open" => gate[g].status = "open"
                               /\ g \in S => Cancel(S)[g].status # "open"
BY DEF Cancel, GateRecord, GateStatuses

\* make_ready turns pending tasks ready and touches nothing else of any task.
LEMMA MakeReadyType ==
    ASSUME NEW T \in [Tasks -> TaskRecord]
    PROVE  /\ MakeReady(T) \in [Tasks -> TaskRecord]
           /\ \A t \in Tasks :
                /\ MakeReady(T)[t].active = T[t].active
                /\ MakeReady(T)[t].status # T[t].status
                     => T[t].status = "pending" /\ MakeReady(T)[t].status = "ready"
BY DEF MakeReady, TaskRecord, TaskStatuses

-----------------------------------------------------------------------------
(* The inductive invariant IInv of Ledger, one lemma for each action *)

\* The sentinel is no id, which is all the proofs need of the ids.
LEMMA NoneIsNoId == None \notin Tasks /\ None \notin Attempts /\ None \notin Gates
BY TasksAssumption, AttemptsAssumption, GatesAssumption

USE NoneIsNoId

\* The empty ledger.
LEMMA InitIInv == Init => IInv
<1>. SUFFICES ASSUME Init PROVE IInv
  OBVIOUS
<1>. USE DEF Init, NoTask, NoAttempt, NoGate
<1>1. TypeOK
  BY DEF TypeOK, RunStatuses, TaskRecord, TaskStatuses, Verdicts, AttemptRecord,
         AttemptStatuses, Stages, GateRecord, GateStatuses, Replacing
<1>2. ActiveIsOwn /\ HoldersOwn /\ StatusAgrees
  BY DEF ActiveIsOwn, HoldersOwn, StatusAgrees
<1>3. BlockedTogether /\ RetryIsOwn
  BY DEF BlockedTogether, RetryIsOwn
<1>. QED BY <1>1, <1>2, <1>3 DEF IInv

\* activate_attempt: a preparing attempt runs; both are live.
LEMMA ActivateIInv ==
    ASSUME IInv, Activate
    PROVE  IInv'
<1>. USE DEF IInv, TypeOK, Activate
<1>1. TypeOK'
  BY ZenonT(60) DEF AttemptRecord, AttemptStatuses, Stages
<1>2. ActiveIsOwn'
  BY DEF ActiveIsOwn, AttemptRecord, TaskRecord
<1>3. HoldersOwn'
  BY DEF HoldersOwn, Owns, AttemptRecord, TaskRecord
<1>4. StatusAgrees'
  BY DEF StatusAgrees, Live, AttemptRecord, TaskRecord
<1>5. BlockedTogether'
  BY DEF BlockedTogether, OpenGateOn, AttemptRecord, TaskRecord, GateRecord
<1>6. RetryIsOwn'
  BY DEF RetryIsOwn, Owns, AttemptRecord, TaskRecord
<1>. QED BY <1>1, <1>2, <1>3, <1>4, <1>5, <1>6

\* activate_attempt refusing: only the lock is given back.
LEMMA ActivationRefusedIInv ==
    ASSUME IInv, ActivationRefused
    PROVE  IInv'
<1>. USE DEF IInv, TypeOK, ActivationRefused
<1>1. TypeOK'
  BY DEF AttemptRecord, AttemptStatuses, Stages
<1>2. ActiveIsOwn'
  BY DEF ActiveIsOwn, AttemptRecord, TaskRecord
<1>3. HoldersOwn'
  BY DEF HoldersOwn, Owns, AttemptRecord, TaskRecord
<1>4. StatusAgrees'
  BY DEF StatusAgrees, Live, AttemptRecord, TaskRecord
<1>5. BlockedTogether'
  BY DEF BlockedTogether, OpenGateOn, AttemptRecord, TaskRecord, GateRecord
<1>6. RetryIsOwn'
  BY DEF RetryIsOwn, Owns, AttemptRecord, TaskRecord
<1>. QED BY <1>1, <1>2, <1>3, <1>4, <1>5, <1>6

\* finish_dispatch: only how far the start got changes.
LEMMA ChatStartedIInv ==
    ASSUME IInv, ChatStarted
    PROVE  IInv'
<1>. USE DEF IInv, TypeOK, ChatStarted
<1>1. TypeOK'
  BY DEF AttemptRecord, AttemptStatuses, Stages
<1>2. ActiveIsOwn'
  BY DEF ActiveIsOwn, AttemptRecord, TaskRecord
<1>3. HoldersOwn'
  BY DEF HoldersOwn, Owns, AttemptRecord, TaskRecord
<1>4. StatusAgrees'
  BY DEF StatusAgrees, Live, AttemptRecord, TaskRecord
<1>5. BlockedTogether'
  BY DEF BlockedTogether, OpenGateOn, AttemptRecord, TaskRecord, GateRecord
<1>6. RetryIsOwn'
  BY DEF RetryIsOwn, Owns, AttemptRecord, TaskRecord
<1>. QED BY <1>1, <1>2, <1>3, <1>4, <1>5, <1>6

\* A call that replaces a task starts: nothing but the call itself changes.
LEMMA ReplaceCheckIInv ==
    ASSUME IInv, NEW t \in Tasks, ReplaceCheck(t)
    PROVE  IInv'
<1>. USE DEF IInv, TypeOK, ReplaceCheck
<1>1. TypeOK'
  BY DEF Replacing
<1>2. ActiveIsOwn' /\ HoldersOwn' /\ StatusAgrees' /\ RetryIsOwn'
  BY DEF ActiveIsOwn, HoldersOwn, StatusAgrees, RetryIsOwn, Owns, Live
<1>3. BlockedTogether'
  BY DEF BlockedTogether, OpenGateOn
<1>. QED BY <1>1, <1>2, <1>3

\* create_task, which CreateTask and ReplaceCreate share.
LEMMA CreateIInv ==
    ASSUME IInv, NEW u \in Tasks, Create(u), replacing' \in Replacing,
           UNCHANGED <<attempt, gate, dispatch, autoRetries>>
    PROVE  IInv'
<1>. USE DEF IInv, TypeOK
<1>1. task[u].status = "absent" /\ Created(u) \in TaskRecord
      /\ Created(u).active = None /\ Created(u).status \in {"ready", "pending"}
  BY DEF Create, NextTask, Exists, Created, NoTask, TaskRecord, TaskStatuses, Verdicts
<1>2. /\ task' \in [Tasks -> TaskRecord]
      /\ task'[u].active = None /\ task'[u].status \in {"ready", "pending"}
      /\ \A v \in Tasks : v # u => task'[v] = task[v]
  BY <1>1 DEF Create
<1>3. task[u].active = None
  BY <1>1 DEF ActiveIsOwn
<1>4. \A v \in Tasks : task[v].active \in Attempts \cup {None}
  BY DEF TaskRecord
<1>5. \A b \in Attempts : attempt[b].task \in Tasks \cup {None}
  BY DEF AttemptRecord
<1>6. TypeOK'
  BY <1>2 DEF Create, RunStatuses
<1>7. ActiveIsOwn' /\ StatusAgrees'
  BY <1>2, <1>4 DEF ActiveIsOwn, StatusAgrees, Live
<1>8. HoldersOwn' /\ RetryIsOwn'
  BY <1>2, <1>3, <1>5 DEF HoldersOwn, RetryIsOwn, Owns
<1>9. BlockedTogether'
  BY <1>2, <1>3, <1>4, <1>5 DEF BlockedTogether, HoldersOwn, Owns, OpenGateOn
<1>. QED BY <1>6, <1>7, <1>8, <1>9

\* create_task inside a call that replaces a task.
LEMMA ReplaceCreateIInv ==
    ASSUME IInv, NEW t \in Tasks, ReplaceCreate(t)
    PROVE  IInv'
<1>1. replacing' \in Replacing
  BY DEF IInv, TypeOK, ReplaceCreate, Replacing
<1>. QED BY <1>1, CreateIInv DEF ReplaceCreate

\* supersede: a retry that was due is taken back together with its task.
LEMMA ReplaceCommitIInv ==
    ASSUME IInv, ReplaceCommit
    PROVE  IInv'
<1>. USE DEF IInv, TypeOK
<1>1. CASE Supersedable(replacing.old)
  <2>. DEFINE old == replacing.old
              new == replacing.new
              due == {a \in Attempts : attempt[a].task = old /\ attempt[a].retryDue}
  <2>1. old \in Tasks /\ new \in Tasks /\ task[old].status \in {"blocked", "failed"}
    BY <1>1 DEF ReplaceCommit, Replacing, Supersedable
  <2>2. /\ attempt' \in [Attempts -> AttemptRecord]
        /\ \A b \in Attempts : /\ attempt'[b].task = attempt[b].task
                               /\ attempt'[b].status = attempt[b].status
                               /\ b \in due => attempt'[b].retryDue = FALSE
                               /\ b \notin due => attempt'[b] = attempt[b]
    <3>1. ASSUME NEW b \in Attempts
          PROVE  /\ attempt'[b] \in AttemptRecord
                 /\ attempt'[b].task = attempt[b].task
                 /\ attempt'[b].status = attempt[b].status
                 /\ b \in due => attempt'[b].retryDue = FALSE
                 /\ b \notin due => attempt'[b] = attempt[b]
      <4>1. attempt'[b] = IF b \in due THEN [attempt[b] EXCEPT !.retryDue = FALSE]
                          ELSE attempt[b]
        BY <1>1 DEF ReplaceCommit, Replace
      <4>2. attempt[b] \in AttemptRecord
        OBVIOUS
      <4>. HIDE DEF due
      <4>. QED BY <4>1, <4>2 DEF AttemptRecord
    <3>2. attempt' = [b \in Attempts |-> attempt'[b]]
      BY <1>1 DEF ReplaceCommit, Replace
    <3>. QED BY <3>1, <3>2
  <2>3. /\ task' \in [Tasks -> TaskRecord]
        /\ due = {} => task'[old].status = task[old].status
        /\ due # {} => task'[old].status = "failed"
        /\ \A u \in Tasks : /\ task'[u].active = task[u].active
                            /\ u # old => task'[u].status = task[u].status
    <3>. DEFINE used == task[old].retries + (IF Counted(old) THEN 1 ELSE 0)
                larger(m, n) == IF m >= n THEN m ELSE n
    <3>1. used \in Nat
      BY <2>1 DEF TaskRecord
    <3>2. larger(task[new].retries, used) \in Nat
      BY <2>1, <3>1 DEF TaskRecord
    <3>3. \E n \in Nat : task' = [task EXCEPT ![new].retries = n,
                                             ![old].replacedBy = new,
                                             ![old].status = IF due # {} THEN "failed" ELSE @]
      BY <1>1, <3>2 DEF ReplaceCommit, Replace
    <3>. HIDE DEF old, new, due, used, larger
    <3>4. PICK n \in Nat : task' = [task EXCEPT ![new].retries = n,
                                              ![old].replacedBy = new,
                                              ![old].status = IF due # {} THEN "failed" ELSE @]
      BY <3>3
    <3>. DEFINE T == [task EXCEPT ![new].retries = n]
                U == [T EXCEPT ![old].replacedBy = new]
    <3>5. /\ T \in [Tasks -> TaskRecord]
          /\ \A u \in Tasks : T[u].active = task[u].active /\ T[u].status = task[u].status
      BY <2>1 DEF TaskRecord
    <3>6. task' = [U EXCEPT ![old].status = IF due # {} THEN "failed" ELSE @]
      BY ZenonT(60), <3>4
    <3>. HIDE DEF T
    <3>7. /\ U \in [Tasks -> TaskRecord]
          /\ \A u \in Tasks : U[u].active = T[u].active /\ U[u].status = T[u].status
      BY <2>1, <3>5 DEF TaskRecord
    <3>. HIDE DEF U
    <3>8. CASE due = {}
      BY <2>1, <3>5, <3>6, <3>7, <3>8 DEF TaskRecord
    <3>9. CASE due # {}
      <4>1. task' = [U EXCEPT ![old].status = "failed"]
        BY <3>6, <3>9
      <4>2. [U[old] EXCEPT !.status = "failed"] \in TaskRecord
        BY <2>1, <3>7 DEF TaskRecord, TaskStatuses
      <4>3. /\ task' \in [Tasks -> TaskRecord]
            /\ task'[old].status = "failed"
            /\ \A u \in Tasks : /\ task'[u].active = U[u].active
                                /\ u # old => task'[u].status = U[u].status
        BY <2>1, <3>7, <4>1, <4>2 DEF TaskRecord
      <4>. QED BY <3>5, <3>7, <3>9, <4>3
    <3>. QED BY <3>8, <3>9
  <2>4. autoRetries' \in [Tasks -> Nat]
    BY <1>1, <2>1 DEF ReplaceCommit, Replace
  <2>5. runStatus' \in RunStatuses
    BY <1>1, RecomputedType DEF ReplaceCommit, Replace
  <2>6. \A u \in Tasks : task[u].active \in Attempts \cup {None}
    BY DEF TaskRecord
  <2>7. \A b \in Attempts : attempt[b].task \in Tasks \cup {None}
    BY DEF AttemptRecord
  <2>8. ASSUME NEW d \in due
        PROVE  task[old].active = d /\ attempt[d].status = "failed"
    BY <2>8 DEF RetryIsOwn, Owns
  <2>9. gate' = gate
    BY DEF ReplaceCommit
  <2>10. TypeOK'
    BY <2>2, <2>3, <2>4, <2>5 DEF ReplaceCommit, Replacing
  <2>. HIDE DEF old, new, due
  <2>11. ActiveIsOwn'
    BY <2>1, <2>2, <2>3, <2>6 DEF ActiveIsOwn
  <2>12. HoldersOwn'
    BY <2>2, <2>3, <2>7 DEF HoldersOwn, Owns
  <2>13. StatusAgrees'
    BY <2>1, <2>2, <2>3, <2>6 DEF StatusAgrees, Live
  <2>14. BlockedTogether'
    <3>1. ASSUME NEW b \in Attempts, attempt'[b].status = "blocked"
          PROVE  task'[attempt'[b].task].status = "blocked"
      <4>1. attempt[b].status = "blocked" /\ attempt[b].task \in Tasks
            /\ task[attempt[b].task].active = b
        BY <3>1, <2>2, <2>7 DEF HoldersOwn, Owns
      <4>2. attempt[b].task = old => due = {}
        BY <4>1, <2>8
      <4>. QED BY <4>1, <4>2, <2>2, <2>3 DEF BlockedTogether
    <3>2. ASSUME NEW u \in Tasks, task'[u].status = "blocked",
                 task'[u].active # None, OpenGateOn(u)'
          PROVE  attempt'[task'[u].active].status = "blocked"
      BY <3>2, <2>2, <2>3, <2>6, <2>9 DEF BlockedTogether, OpenGateOn
    <3>. QED BY <3>1, <3>2 DEF BlockedTogether
  <2>15. RetryIsOwn'
    BY <2>2, <2>3, <2>7 DEF RetryIsOwn, Owns
  <2>. QED BY <2>10, <2>11, <2>12, <2>13, <2>14, <2>15
<1>2. CASE ~Supersedable(replacing.old)
  <2>1. TypeOK'
    BY <1>2 DEF ReplaceCommit, Replacing
  <2>2. UNCHANGED <<task, attempt, gate>>
    BY <1>2 DEF ReplaceCommit
  <2>3. ActiveIsOwn' /\ HoldersOwn' /\ StatusAgrees' /\ RetryIsOwn'
    BY <2>2 DEF ActiveIsOwn, HoldersOwn, StatusAgrees, RetryIsOwn, Owns, Live
  <2>4. BlockedTogether'
    BY <2>2 DEF BlockedTogether, OpenGateOn
  <2>. QED BY <2>1, <2>3, <2>4
<1>. QED BY <1>1, <1>2

\* A restart fails every unsettled attempt together with its task.
LEMMA RestartIInv ==
    ASSUME IInv, Restart
    PROVE  IInv'
<1>. USE DEF IInv, TypeOK
<1>1. /\ gate' \in [Gates -> GateRecord]
      /\ \A u \in Tasks : OpenGateOn(u)' => OpenGateOn(u)
  BY CancelType DEF Restart, OpenGateOn
<1>2. /\ attempt' \in [Attempts -> AttemptRecord]
      /\ \A b \in Attempts :
            /\ attempt'[b].task = attempt[b].task
            /\ Unsettled(b) => attempt'[b].status = "failed" /\ attempt'[b].retryDue = FALSE
            /\ ~Unsettled(b) => /\ attempt'[b].status = attempt[b].status
                                /\ attempt'[b].retryDue = attempt[b].retryDue
  <2>1. ASSUME NEW b \in Attempts
        PROVE  /\ attempt'[b] \in AttemptRecord
               /\ attempt'[b].task = attempt[b].task
               /\ Unsettled(b) => attempt'[b].status = "failed" /\ attempt'[b].retryDue = FALSE
               /\ ~Unsettled(b) => /\ attempt'[b].status = attempt[b].status
                                   /\ attempt'[b].retryDue = attempt[b].retryDue
    <3>1. attempt[b] \in AttemptRecord
      OBVIOUS
    <3>2. CASE Unsettled(b)
      <4>1. attempt'[b] = [attempt[b] EXCEPT !.status = "failed", !.finished = TRUE,
                                             !.retryDue = FALSE]
        BY <3>2 DEF Restart, UnsettledAttempts
      <4>. QED BY <3>1, <3>2, <4>1 DEF AttemptRecord, AttemptStatuses
    <3>3. CASE ~Unsettled(b) /\ attempt[b].status # "absent"
      <4>1. attempt'[b] = [attempt[b] EXCEPT !.finished = TRUE]
        BY <3>3 DEF Restart, UnsettledAttempts
      <4>. QED BY <3>1, <3>3, <4>1 DEF AttemptRecord
    <3>4. CASE ~Unsettled(b) /\ attempt[b].status = "absent"
      <4>1. attempt'[b] = attempt[b]
        BY <3>4 DEF Restart, UnsettledAttempts
      <4>. QED BY <3>1, <3>4, <4>1
    <3>. QED BY <3>2, <3>3, <3>4
  <2>2. attempt' = [b \in Attempts |-> attempt'[b]]
    BY DEF Restart
  <2>. QED BY <2>1, <2>2
<1>3. /\ task' \in [Tasks -> TaskRecord]
      /\ \A u \in Tasks :
            /\ task'[u].active = task[u].active
            /\ IF /\ task[u].active \in UnsettledAttempts
                  /\ task[u].status \notin {"completed", "cancelled"}
               THEN task'[u].status = "failed"
               ELSE task'[u].status = task[u].status
  BY ZenonT(60) DEF Restart, TaskRecord, TaskStatuses
<1>4. runStatus' \in RunStatuses
  BY DerivedType, RecomputedType DEF Restart
<1>5. \A u \in Tasks : task[u].active \in Attempts \cup {None}
  BY DEF TaskRecord
<1>6. \A b \in Attempts : attempt[b].task \in Tasks \cup {None}
  BY DEF AttemptRecord
<1>7. \A b \in Attempts : Unsettled(b) <=> b \in UnsettledAttempts
  BY DEF UnsettledAttempts
<1>8. None \notin UnsettledAttempts
  BY DEF UnsettledAttempts
<1>9. TypeOK'
  BY <1>1, <1>2, <1>3, <1>4 DEF Restart, Replacing
<1>10. ActiveIsOwn'
  BY <1>2, <1>3, <1>5 DEF ActiveIsOwn
<1>11. HoldersOwn'
  BY <1>2, <1>3, <1>6 DEF HoldersOwn, Owns
<1>12. StatusAgrees'
  BY <1>2, <1>3, <1>5, <1>7, <1>8 DEF StatusAgrees, Live, Unsettled
<1>13. BlockedTogether'
  <2>1. ASSUME NEW b \in Attempts, attempt'[b].status = "blocked"
        PROVE  task'[attempt'[b].task].status = "blocked"
    BY <2>1, <1>2, <1>3, <1>6, <1>7 DEF BlockedTogether, HoldersOwn, Owns
  <2>2. ASSUME NEW u \in Tasks, task'[u].status = "blocked",
               task'[u].active # None, OpenGateOn(u)'
        PROVE  attempt'[task'[u].active].status = "blocked"
    <3>1. OpenGateOn(u) /\ task[u].active \in Attempts /\ task[u].active # None
          /\ task[u].status = "blocked"
      BY <2>2, <1>1, <1>3, <1>5
    <3>2. Unsettled(task[u].active)
      BY <3>1 DEF BlockedTogether, ActiveIsOwn, Unsettled
    <3>. QED BY <2>2, <3>1, <3>2, <1>3, <1>7
  <2>. QED BY <2>1, <2>2 DEF BlockedTogether
<1>14. RetryIsOwn'
  BY <1>2, <1>3, <1>6 DEF RetryIsOwn, Owns
<1>. QED BY <1>9, <1>10, <1>11, <1>12, <1>13, <1>14

\* reserve_attempt_for, which four actions share.
LEMMA StartIInv ==
    ASSUME IInv, NEW t \in Tasks, NEW a \in Attempts, NEW by \in Starters, Start(t, a, by)
    PROVE  IInv'
<1>. USE DEF IInv, TypeOK
<1>a. /\ attempt[a].status = "absent"
      /\ task[t].active \in Attempts \cup {None}
      /\ task[t].active # None => ~Unsettled(task[t].active)
  BY DEF Start, NextAttempt, AcceptsStart, TaskRecord
<1>b. RetriesAfterStart(t, by) \in Nat
  BY DEF RetriesAfterStart, TaskRecord
<1>c. /\ gate' \in [Gates -> GateRecord]
      /\ \A g \in Gates : /\ gate'[g].on = gate[g].on
                          /\ gate'[g].status = "open" => gate[g].status = "open"
  BY CancelType DEF Start
<1>d. Reserved(t, by) \in AttemptRecord /\ Reserved(t, by).status = "preparing"
      /\ Reserved(t, by).task = t /\ Reserved(t, by).retryDue = FALSE
  <2>1. by = "recovery" => task[t].active \in Attempts
    BY <1>a DEF Start, AcceptsStart
  <2>2. (IF by = "recovery" THEN attempt[task[t].active].hostRetries + 1 ELSE 0) \in Nat
    BY <2>1 DEF AttemptRecord
  <2>. QED BY <2>2 DEF Reserved, NoAttempt, AttemptRecord, AttemptStatuses, Stages
<1>e. ASSUME NEW r \in AttemptRecord
      PROVE  /\ Superseded(r) \in AttemptRecord
             /\ Superseded(r).task = r.task
             /\ Superseded(r).retryDue = FALSE
             /\ Superseded(r).status = IF r.status = "blocked" THEN "cancelled" ELSE r.status
  BY DEF Superseded, AttemptRecord, AttemptStatuses
<1>f. /\ attempt' \in [Attempts -> AttemptRecord]
      /\ attempt'[a].status = "preparing" /\ attempt'[a].task = t /\ attempt'[a].retryDue = FALSE
      /\ \A b \in Attempts : b # a => attempt'[b].task = attempt[b].task
      /\ \A b \in Attempts : b # a /\ b # task[t].active => attempt'[b] = attempt[b]
      /\ \A b \in Attempts : b # a /\ b = task[t].active =>
            /\ attempt'[b].retryDue = FALSE
            /\ attempt'[b].status \notin {"preparing", "running", "blocked"}
  <2>1. \A b \in Attempts : attempt'[b] = IF b = a THEN Reserved(t, by)
                                          ELSE IF b = task[t].active THEN Superseded(attempt[b])
                                          ELSE attempt[b]
    BY DEF Start
  <2>2. attempt' \in [Attempts -> AttemptRecord]
    BY <1>d, <1>e DEF Start
  <2>3. ASSUME NEW b \in Attempts, b # a, b = task[t].active
        PROVE  /\ attempt'[b].retryDue = FALSE
               /\ attempt'[b].task = attempt[b].task
               /\ attempt'[b].status \notin {"preparing", "running", "blocked"}
    <3>1. attempt'[b] = Superseded(attempt[b])
      BY <2>1, <2>3
    <3>2. attempt[b].status \notin {"preparing", "running"}
      BY <2>3, <1>a DEF Unsettled, Live
    <3>3. attempt[b] \in AttemptRecord
      OBVIOUS
    <3>. QED BY <3>1, <3>2, <3>3, <1>e
  <2>. QED BY <2>1, <2>2, <2>3, <1>d
<1>g. /\ task' \in [Tasks -> TaskRecord]
      /\ task'[t].active = a /\ task'[t].status = "running"
      /\ \A u \in Tasks : u # t => task'[u] = task[u]
  <2>. DEFINE n == RetriesAfterStart(t, by)
  <2>1. task' = [task EXCEPT ![t] = [@ EXCEPT !.status = "running", !.active = a,
                                              !.stopped = FALSE, !.personsReopen = FALSE,
                                              !.retries = n]]
    BY DEF Start
  <2>. HIDE DEF n
  <2>2. n \in Nat
    BY <1>b DEF n
  <2>. DEFINE r == [task[t] EXCEPT !.status = "running", !.active = a, !.stopped = FALSE,
                                   !.personsReopen = FALSE, !.retries = n]
  <2>3. r \in TaskRecord /\ r.active = a /\ r.status = "running"
    <3>1. task[t] \in TaskRecord
      OBVIOUS
    <3>. QED BY <2>2, <3>1 DEF TaskRecord, TaskStatuses
  <2>4. task' = [task EXCEPT ![t] = r]
    BY <2>1
  <2>. HIDE DEF r
  <2>. QED BY <2>3, <2>4
<1>h. autoRetries' \in [Tasks -> Nat]
  BY DEF Start
<1>i. \A u \in Tasks : u # t /\ task[u].active # None =>
         task[u].active \in Attempts /\ task[u].active # a /\ task[u].active # task[t].active
  BY <1>a DEF ActiveIsOwn, TaskRecord
<1>j. \A b \in Attempts : attempt[b].task \in Tasks \cup {None}
  BY DEF AttemptRecord
<1>1. TypeOK'
  BY <1>c, <1>f, <1>g, <1>h DEF Start, RunStatuses
<1>2. ActiveIsOwn'
  BY <1>f, <1>g, <1>i DEF ActiveIsOwn
<1>3. HoldersOwn'
  BY <1>f, <1>g, <1>j DEF HoldersOwn, Owns
<1>4. StatusAgrees'
  BY <1>f, <1>g, <1>i DEF StatusAgrees, Live
<1>5. BlockedTogether'
  <2>1. ASSUME NEW b \in Attempts, attempt'[b].status = "blocked"
        PROVE  task'[attempt'[b].task].status = "blocked"
    BY <2>1, <1>f, <1>g, <1>j DEF BlockedTogether, HoldersOwn, Owns
  <2>2. ASSUME NEW u \in Tasks, task'[u].status = "blocked",
               task'[u].active # None, OpenGateOn(u)'
        PROVE  attempt'[task'[u].active].status = "blocked"
    <3>1. u # t /\ OpenGateOn(u)
      BY <2>2, <1>c, <1>g DEF OpenGateOn
    <3>. QED BY <2>2, <3>1, <1>f, <1>g, <1>i DEF BlockedTogether
  <2>. QED BY <2>1, <2>2 DEF BlockedTogether
<1>6. RetryIsOwn'
  BY <1>f, <1>g, <1>j DEF RetryIsOwn, Owns
<1>. QED BY <1>1, <1>2, <1>3, <1>4, <1>5, <1>6

\* execution::fail, which three actions share.
LEMMA FailIInv ==
    ASSUME IInv, NEW a \in Attempts, NEW retryable \in BOOLEAN,
           Failable(a), Fail(a, retryable),
           dispatch' \in Attempts \cup {None}, UNCHANGED <<replacing, autoRetries>>
    PROVE  IInv'
<1>. USE DEF IInv, TypeOK
<1>x. HostRetries(a, retryable) \in BOOLEAN
  BY DEF HostRetries
<1>a. PICK t \in Tasks : t = attempt[a].task /\ task[t].active = a
  BY DEF Failable, Owns, AttemptRecord
<1>b. gate' = Cancel(GatesOn(t))
  BY <1>a DEF Fail
<1>c. /\ gate' \in [Gates -> GateRecord]
      /\ \A g \in Gates : /\ gate'[g].on = gate[g].on
                          /\ gate'[g].status = "open" => gate[g].status = "open"
                          /\ gate'[g].status = "open" => gate'[g].on # t
  BY <1>b, CancelType DEF GatesOn
<1>d. runStatus' \in RunStatuses
  BY RecomputedType DEF Fail
<1>e. /\ attempt' \in [Attempts -> AttemptRecord]
      /\ attempt'[a].status = "failed"
      /\ \A b \in Attempts : /\ attempt'[b].task = attempt[b].task
                             /\ b # a => attempt'[b] = attempt[b]
  BY ZenonT(60), <1>x DEF Fail, AttemptRecord, AttemptStatuses
<1>f. /\ task' \in [Tasks -> TaskRecord]
      /\ task'[t].status \in {"blocked", "failed"}
      /\ \A u \in Tasks : /\ task'[u].active = task[u].active
                          /\ u # t => task'[u] = task[u]
  BY <1>a DEF Fail, TaskRecord, TaskStatuses, AttemptRecord
<1>g. \A u \in Tasks : task[u].active \in Attempts \cup {None}
  BY DEF TaskRecord
<1>h. \A b \in Attempts : attempt[b].task \in Tasks \cup {None}
  BY DEF AttemptRecord
<1>1. TypeOK'
  BY <1>c, <1>d, <1>e, <1>f
<1>2. ActiveIsOwn'
  BY SMTT(30), <1>e, <1>f, <1>g DEF ActiveIsOwn
<1>3. HoldersOwn'
  BY <1>e, <1>f, <1>h DEF HoldersOwn, Owns
<1>4. StatusAgrees'
  BY <1>a, <1>e, <1>f, <1>g DEF StatusAgrees, ActiveIsOwn, Live
<1>5. BlockedTogether'
  <2>1. ASSUME NEW b \in Attempts, attempt'[b].status = "blocked"
        PROVE  task'[attempt'[b].task].status = "blocked"
    BY <2>1, <1>a, <1>e, <1>f, <1>h DEF BlockedTogether, HoldersOwn, Owns
  <2>2. ASSUME NEW u \in Tasks, task'[u].status = "blocked",
               task'[u].active # None, OpenGateOn(u)'
        PROVE  attempt'[task'[u].active].status = "blocked"
    <3>1. u # t /\ OpenGateOn(u)
      BY <2>2, <1>c DEF OpenGateOn
    <3>. QED BY <2>2, <3>1, <1>a, <1>e, <1>f, <1>g DEF BlockedTogether, ActiveIsOwn
  <2>. QED BY <2>1, <2>2 DEF BlockedTogether
<1>6. RetryIsOwn'
  BY <1>a, <1>e, <1>f, <1>h DEF RetryIsOwn, Owns
<1>. QED BY <1>1, <1>2, <1>3, <1>4, <1>5, <1>6

\* report_worker: the task takes the outcome of its own attempt, and tasks
\* that waited on it become ready.
LEMMA ReportIInv ==
    ASSUME IInv, NEW a \in Attempts, NEW outcome \in Outcomes, NEW verdict \in Verdicts,
           Report(a, outcome, verdict)
    PROVE  IInv'
<1>. USE DEF IInv, TypeOK
<1>a. PICK t \in Tasks : t = attempt[a].task /\ task[t].active = a
  BY DEF Report, MayReport, Owns, AttemptRecord
<1>b. /\ attempt' \in [Attempts -> AttemptRecord]
      /\ attempt'[a].status = outcome /\ attempt'[a].retryDue = FALSE
      /\ \A b \in Attempts : /\ attempt'[b].task = attempt[b].task
                             /\ b # a => attempt'[b] = attempt[b]
  BY ZenonT(60) DEF Report, AttemptRecord, AttemptStatuses, Outcomes
<1>c. PICK r \in TaskRecord : /\ r.status = outcome /\ r.active = a
                              /\ task' = MakeReady([task EXCEPT ![t] = r])
  <2>. DEFINE settled == [task[t] EXCEPT !.status = outcome, !.verdict = verdict]
              r == IF ReleasesAs(t, settled) THEN [settled EXCEPT !.retries = 0] ELSE settled
  <2>1. settled \in TaskRecord /\ settled.status = outcome /\ settled.active = a
    <3>1. task[t] \in TaskRecord
      OBVIOUS
    <3>2. outcome \in TaskStatuses
      BY DEF Outcomes, TaskStatuses
    <3>. QED BY <3>1, <3>2, <1>a DEF TaskRecord
  <2>2. task' = MakeReady([task EXCEPT ![t] = r])
    BY <1>a DEF Report
  <2>3. r \in TaskRecord /\ r.status = outcome /\ r.active = a
    <3>. HIDE DEF settled
    <3>. QED BY <2>1 DEF TaskRecord
  <2>. QED BY <2>2, <2>3
<1>d. /\ task' \in [Tasks -> TaskRecord]
      /\ task'[t].status = outcome
      /\ \A u \in Tasks : task'[u].active = task[u].active
      /\ \A u \in Tasks : u # t /\ task'[u].status # task[u].status =>
            task[u].status = "pending" /\ task'[u].status = "ready"
  <2>1. [task EXCEPT ![t] = r] \in [Tasks -> TaskRecord]
    OBVIOUS
  <2>. DEFINE T == [task EXCEPT ![t] = r]
  <2>2. T[t] = r /\ \A u \in Tasks : u # t => T[u] = task[u]
    OBVIOUS
  <2>. HIDE DEF T
  <2>3. /\ task' \in [Tasks -> TaskRecord]
        /\ \A u \in Tasks : /\ task'[u].active = T[u].active
                            /\ task'[u].status # T[u].status
                                 => T[u].status = "pending" /\ task'[u].status = "ready"
    BY <1>c, <2>1, MakeReadyType DEF T
  <2>. QED BY ZenonT(60), <1>a, <1>c, <2>2, <2>3 DEF Outcomes
<1>e. runStatus' \in RunStatuses
  BY RecomputedType DEF Report
<1>f. autoRetries' \in [Tasks -> Nat]
  BY <1>a DEF Report
<1>g. \A u \in Tasks : task[u].active \in Attempts \cup {None}
  BY DEF TaskRecord
<1>h. \A b \in Attempts : attempt[b].task \in Tasks \cup {None}
  BY DEF AttemptRecord
<1>1. TypeOK'
  BY <1>b, <1>d, <1>e, <1>f DEF Report
<1>2. ActiveIsOwn'
  BY <1>a, <1>b, <1>d, <1>g DEF ActiveIsOwn, Outcomes
<1>3. HoldersOwn'
  BY <1>a, <1>b, <1>d, <1>h DEF HoldersOwn, Owns
<1>4. StatusAgrees'
  BY <1>a, <1>b, <1>d, <1>g DEF StatusAgrees, ActiveIsOwn, Live, Outcomes
<1>5. BlockedTogether'
  <2>1. ASSUME NEW b \in Attempts, attempt'[b].status = "blocked"
        PROVE  task'[attempt'[b].task].status = "blocked"
    BY <2>1, <1>a, <1>b, <1>d, <1>h DEF BlockedTogether, HoldersOwn, Owns
  <2>2. ASSUME NEW u \in Tasks, task'[u].status = "blocked",
               task'[u].active # None, OpenGateOn(u)'
        PROVE  attempt'[task'[u].active].status = "blocked"
    <3>1. OpenGateOn(u)
      BY <2>2 DEF OpenGateOn, Report
    <3>. QED BY SMTT(30), <2>2, <3>1, <1>a, <1>b, <1>d, <1>g DEF BlockedTogether, ActiveIsOwn
  <2>. QED BY <2>1, <2>2 DEF BlockedTogether
<1>6. RetryIsOwn'
  BY <1>a, <1>b, <1>d, <1>h DEF RetryIsOwn, Owns
<1>. QED BY <1>1, <1>2, <1>3, <1>4, <1>5, <1>6

\* create_gate about the run touches no task.
LEMMA RunGateIInv ==
    ASSUME IInv, NEW g \in Gates, RunGate(g)
    PROVE  IInv'
<1>. USE DEF IInv, TypeOK, RunGate, Open
<1>1. TypeOK'
  BY DEF GateRecord, GateStatuses, RunStatuses
<1>2. ASSUME NEW u \in Tasks, OpenGateOn(u)'
      PROVE  OpenGateOn(u)
  BY <1>2 DEF OpenGateOn
<1>3. ActiveIsOwn' /\ HoldersOwn' /\ StatusAgrees' /\ RetryIsOwn'
  BY DEF ActiveIsOwn, HoldersOwn, StatusAgrees, RetryIsOwn, Owns, Live
<1>4. BlockedTogether'
  BY <1>2 DEF BlockedTogether
<1>. QED BY <1>1, <1>3, <1>4

\* create_gate about a failed task touches no task.
LEMMA AboutGateIInv ==
    ASSUME IInv, NEW g \in Gates, NEW t \in Tasks, AboutGate(g, t)
    PROVE  IInv'
<1>. USE DEF IInv, TypeOK, AboutGate, Open
<1>1. TypeOK'
  BY DEF GateRecord, GateStatuses, RunStatuses
<1>2. ASSUME NEW u \in Tasks, OpenGateOn(u)'
      PROVE  OpenGateOn(u)
  BY <1>2 DEF OpenGateOn
<1>3. ActiveIsOwn' /\ HoldersOwn' /\ StatusAgrees' /\ RetryIsOwn'
  BY DEF ActiveIsOwn, HoldersOwn, StatusAgrees, RetryIsOwn, Owns, Live
<1>4. BlockedTogether'
  BY <1>2 DEF BlockedTogether
<1>. QED BY <1>1, <1>3, <1>4

\* The task and its live attempt are blocked together.
LEMMA TaskGateIInv ==
    ASSUME IInv, NEW g \in Gates, NEW t \in Tasks, TaskGate(g, t)
    PROVE  IInv'
<1>. USE DEF IInv, TypeOK
<1>a. /\ gate' \in [Gates -> GateRecord]
      /\ runStatus' \in RunStatuses
      /\ \A u \in Tasks : OpenGateOn(u)' => OpenGateOn(u) \/ u = t
  BY DEF TaskGate, Open, OpenGateOn, GateRecord, GateStatuses, RunStatuses
<1>b. /\ task[t].active \in Attempts \cup {None}
      /\ task[t].active # None => attempt[task[t].active].task = t
      /\ task[t].active # None => Unsettled(task[t].active)
      /\ task[t].status # "absent"
  BY DEF TaskGate, Exists, ActiveIsOwn, TaskRecord
<1>c. /\ attempt' \in [Attempts -> AttemptRecord]
      /\ \A b \in Attempts : /\ attempt'[b].task = attempt[b].task
                             /\ attempt'[b].retryDue = attempt[b].retryDue
                             /\ b # task[t].active => attempt'[b] = attempt[b]
                             /\ b = task[t].active => attempt'[b].status = "blocked"
  BY DEF TaskGate, AttemptRecord, AttemptStatuses
<1>d. /\ task' \in [Tasks -> TaskRecord]
      /\ task'[t].status = "blocked"
      /\ \A u \in Tasks : /\ task'[u].active = task[u].active
                          /\ u # t => task'[u] = task[u]
  BY DEF TaskGate, TaskRecord, TaskStatuses
<1>e. \A u \in Tasks : task[u].active \in Attempts \cup {None}
  BY DEF TaskRecord
<1>f. \A b \in Attempts : attempt[b].task \in Tasks \cup {None}
  BY DEF AttemptRecord
<1>1. TypeOK'
  BY <1>a, <1>c, <1>d DEF TaskGate
<1>2. ActiveIsOwn'
  BY <1>b, <1>c, <1>d, <1>e DEF ActiveIsOwn
<1>3. HoldersOwn'
  BY <1>b, <1>c, <1>d, <1>f DEF HoldersOwn, Owns
<1>4. StatusAgrees'
  BY <1>b, <1>c, <1>d, <1>e DEF StatusAgrees, ActiveIsOwn, Live
<1>5. BlockedTogether'
  <2>1. ASSUME NEW b \in Attempts, attempt'[b].status = "blocked"
        PROVE  task'[attempt'[b].task].status = "blocked"
    BY <2>1, <1>b, <1>c, <1>d, <1>f DEF BlockedTogether, HoldersOwn, Owns
  <2>2. ASSUME NEW u \in Tasks, task'[u].status = "blocked",
               task'[u].active # None, OpenGateOn(u)'
        PROVE  attempt'[task'[u].active].status = "blocked"
    BY <2>2, <1>a, <1>b, <1>c, <1>d, <1>e DEF BlockedTogether, ActiveIsOwn
  <2>. QED BY <2>1, <2>2 DEF BlockedTogether
<1>6. RetryIsOwn'
  <2>1. ASSUME NEW b \in Attempts, attempt[b].retryDue PROVE b # task[t].active
    BY <2>1, <1>b DEF RetryIsOwn, Unsettled, Live
  <2>. QED BY <2>1, <1>c, <1>d, <1>f DEF RetryIsOwn, Owns
<1>. QED BY <1>1, <1>2, <1>3, <1>4, <1>5, <1>6

\* A gate's task and its blocked attempt go on together.
LEMMA ResolveGateIInv ==
    ASSUME IInv, NEW g \in Gates, NEW byPerson \in BOOLEAN, ResolveGate(g, byPerson)
    PROVE  IInv'
<1>. USE DEF IInv, TypeOK
<1>. DEFINE t == gate[g].on
<1>a. /\ gate' \in [Gates -> GateRecord]
      /\ gate[g].status = "open"
      /\ \A u \in Tasks : OpenGateOn(u)' => OpenGateOn(u)
  BY DEF ResolveGate, OpenGateOn, GateRecord, GateStatuses
<1>b. t \in Tasks \cup {None} /\ (t # None => OpenGateOn(t))
  BY <1>a DEF OpenGateOn, GateRecord
<1>c. /\ attempt' \in [Attempts -> AttemptRecord]
      /\ \A b \in Attempts :
            /\ attempt'[b].task = attempt[b].task
            /\ attempt'[b].retryDue = attempt[b].retryDue
            /\ IF t # None /\ b = task[t].active /\ attempt[b].status = "blocked"
               THEN attempt'[b].status = "running"
               ELSE attempt'[b] = attempt[b]
  BY DEF ResolveGate, AttemptRecord, AttemptStatuses
<1>d. /\ task' \in [Tasks -> TaskRecord]
      /\ \A u \in Tasks :
            /\ task'[u].active = task[u].active
            /\ IF u = t /\ task[u].status = "blocked"
               THEN task'[u].status = IF task[u].active # None THEN "running" ELSE "ready"
               ELSE task'[u].status = task[u].status
  BY DEF ResolveGate, TaskRecord, TaskStatuses
<1>e. runStatus' \in RunStatuses /\ autoRetries' \in [Tasks -> Nat]
  BY RecomputedType DEF ResolveGate
<1>f. \A u \in Tasks : task[u].active \in Attempts \cup {None}
  BY DEF TaskRecord
<1>h. \A b \in Attempts : attempt[b].task \in Tasks \cup {None}
  BY DEF AttemptRecord
<1>. HIDE DEF t
<1>1. TypeOK'
  BY <1>a, <1>c, <1>d, <1>e DEF ResolveGate
<1>2. ActiveIsOwn'
  BY <1>b, <1>c, <1>d, <1>f DEF ActiveIsOwn
<1>3. HoldersOwn'
  BY <1>b, <1>c, <1>d, <1>h DEF HoldersOwn, Owns
<1>4. StatusAgrees'
  <2>. SUFFICES ASSUME NEW u \in Tasks
                PROVE  (task[u].status = "running"
                         <=> task[u].active # None /\ Live(task[u].active))'
    BY DEF StatusAgrees
  <2>1. CASE u = t
    <3>1. OpenGateOn(u)
      BY <2>1, <1>b
    <3>. QED BY <2>1, <3>1, <1>c, <1>d, <1>f DEF BlockedTogether, ActiveIsOwn, StatusAgrees, Live
  <2>2. CASE u # t
    BY <2>2, <1>b, <1>c, <1>d, <1>f DEF ActiveIsOwn, StatusAgrees, Live
  <2>. QED BY <2>1, <2>2
<1>5. BlockedTogether'
  <2>1. ASSUME NEW b \in Attempts, attempt'[b].status = "blocked"
        PROVE  task'[attempt'[b].task].status = "blocked"
    BY <2>1, <1>b, <1>c, <1>d, <1>h DEF BlockedTogether, HoldersOwn, Owns
  <2>2. ASSUME NEW u \in Tasks, task'[u].status = "blocked",
               task'[u].active # None, OpenGateOn(u)'
        PROVE  attempt'[task'[u].active].status = "blocked"
    BY <2>2, <1>a, <1>b, <1>c, <1>d, <1>f DEF BlockedTogether, ActiveIsOwn
  <2>. QED BY <2>1, <2>2 DEF BlockedTogether
<1>6. RetryIsOwn'
  BY <1>c, <1>d, <1>h DEF RetryIsOwn, Owns
<1>. QED BY <1>1, <1>2, <1>3, <1>4, <1>5, <1>6

\* A recovery given up fails the task of an attempt that had failed.
LEMMA DropRecoveryIInv ==
    ASSUME IInv, NEW t \in Tasks, DropRecovery(t)
    PROVE  IInv'
<1>. USE DEF IInv, TypeOK
<1>a. PICK a \in Attempts : /\ a = task[t].active /\ attempt[a].task = t
                            /\ attempt[a].status = "failed"
  BY DEF DropRecovery, ActiveIsOwn, TaskRecord
<1>b. /\ attempt' \in [Attempts -> AttemptRecord]
      /\ \A b \in Attempts : /\ attempt'[b].task = attempt[b].task
                             /\ attempt'[b].status = attempt[b].status
                             /\ b # a => attempt'[b] = attempt[b]
                             /\ b = a => attempt'[b].retryDue = FALSE
  BY ZenonT(60), <1>a DEF DropRecovery, AttemptRecord
<1>c. /\ task' \in [Tasks -> TaskRecord]
      /\ task'[t].status = "failed"
      /\ \A u \in Tasks : /\ task'[u].active = task[u].active
                          /\ u # t => task'[u] = task[u]
  BY DEF DropRecovery, TaskRecord, TaskStatuses
<1>d. runStatus' \in RunStatuses
  BY RecomputedType DEF DropRecovery
<1>e. \A u \in Tasks : task[u].active \in Attempts \cup {None}
  BY DEF TaskRecord
<1>f. \A b \in Attempts : attempt[b].task \in Tasks \cup {None}
  BY DEF AttemptRecord
<1>1. TypeOK'
  BY <1>b, <1>c, <1>d DEF DropRecovery
<1>2. ActiveIsOwn'
  BY <1>b, <1>c, <1>e DEF ActiveIsOwn
<1>3. HoldersOwn'
  BY <1>b, <1>c, <1>f DEF HoldersOwn, Owns
<1>4. StatusAgrees'
  BY <1>a, <1>b, <1>c, <1>e DEF StatusAgrees, ActiveIsOwn, Live
<1>5. BlockedTogether'
  <2>1. ASSUME NEW b \in Attempts, attempt'[b].status = "blocked"
        PROVE  task'[attempt'[b].task].status = "blocked"
    BY <2>1, <1>a, <1>b, <1>c, <1>f DEF BlockedTogether, HoldersOwn, Owns
  <2>2. ASSUME NEW u \in Tasks, task'[u].status = "blocked",
               task'[u].active # None, OpenGateOn(u)'
        PROVE  attempt'[task'[u].active].status = "blocked"
    <3>1. OpenGateOn(u)
      BY <2>2 DEF OpenGateOn, DropRecovery
    <3>. QED BY <2>2, <3>1, <1>b, <1>c, <1>e DEF BlockedTogether
  <2>. QED BY <2>1, <2>2 DEF BlockedTogether
<1>6. RetryIsOwn'
  BY <1>a, <1>b, <1>c, <1>f DEF RetryIsOwn, Owns
<1>. QED BY <1>1, <1>2, <1>3, <1>4, <1>5, <1>6

\* stop_task: the attempt is cancelled and its task fails.
LEMMA StopTaskIInv ==
    ASSUME IInv, NEW t \in Tasks, StopTask(t)
    PROVE  IInv'
<1>. USE DEF IInv, TypeOK
<1>a. PICK a \in Attempts : /\ a = task[t].active /\ attempt[a].task = t
  BY DEF StopTask, ActiveIsOwn, TaskRecord
<1>b. /\ attempt' \in [Attempts -> AttemptRecord]
      /\ attempt'[a].status = "cancelled" /\ attempt'[a].retryDue = FALSE
      /\ \A b \in Attempts : /\ attempt'[b].task = attempt[b].task
                             /\ b # a => attempt'[b] = attempt[b]
  <2>1. attempt' = [attempt EXCEPT ![a] = [@ EXCEPT !.status = "cancelled",
                                                   !.finished = TRUE, !.retryDue = FALSE]]
    BY <1>a DEF StopTask
  <2>. QED BY ZenonT(60), <2>1 DEF AttemptRecord, AttemptStatuses
<1>c. /\ task' \in [Tasks -> TaskRecord]
      /\ task'[t].status = "failed"
      /\ \A u \in Tasks : /\ task'[u].active = task[u].active
                          /\ u # t => task'[u] = task[u]
  BY ZenonT(60) DEF StopTask, TaskRecord, TaskStatuses
<1>d. /\ gate' \in [Gates -> GateRecord]
      /\ \A u \in Tasks : OpenGateOn(u)' => OpenGateOn(u)
  BY CancelType DEF StopTask, OpenGateOn
<1>e. \A u \in Tasks : task[u].active \in Attempts \cup {None}
  BY DEF TaskRecord
<1>f. \A b \in Attempts : attempt[b].task \in Tasks \cup {None}
  BY DEF AttemptRecord
<1>g. runStatus' \in RunStatuses
  BY RecomputedType DEF StopTask
<1>1. TypeOK'
  BY <1>b, <1>c, <1>d, <1>g DEF StopTask
<1>2. ActiveIsOwn'
  BY <1>a, <1>b, <1>c, <1>e DEF ActiveIsOwn
<1>3. HoldersOwn'
  BY <1>b, <1>c, <1>f DEF HoldersOwn, Owns
<1>4. StatusAgrees'
  BY <1>a, <1>b, <1>c, <1>e DEF StatusAgrees, ActiveIsOwn, Live
<1>5. BlockedTogether'
  <2>1. ASSUME NEW b \in Attempts, attempt'[b].status = "blocked"
        PROVE  task'[attempt'[b].task].status = "blocked"
    BY <2>1, <1>a, <1>b, <1>c, <1>f DEF BlockedTogether, HoldersOwn, Owns
  <2>2. ASSUME NEW u \in Tasks, task'[u].status = "blocked",
               task'[u].active # None, OpenGateOn(u)'
        PROVE  attempt'[task'[u].active].status = "blocked"
    BY SMTT(30), <2>2, <1>a, <1>b, <1>c, <1>d, <1>e DEF BlockedTogether, ActiveIsOwn
  <2>. QED BY <2>1, <2>2 DEF BlockedTogether
<1>6. RetryIsOwn'
  BY <1>a, <1>b, <1>c, <1>f DEF RetryIsOwn, Owns
<1>. QED BY <1>1, <1>2, <1>3, <1>4, <1>5, <1>6

\* stop_run: no attempt is left live, blocked or due, and no task either.
LEMMA StopRunIInv ==
    ASSUME IInv, StopRun
    PROVE  IInv'
<1>. USE DEF IInv, TypeOK
<1>a. /\ attempt' \in [Attempts -> AttemptRecord]
      /\ \A b \in Attempts :
            /\ attempt'[b].task = attempt[b].task
            /\ attempt'[b].status \notin {"preparing", "running", "blocked"}
            /\ attempt'[b].status = "absent" => attempt[b].status = "absent"
            /\ attempt'[b].retryDue = FALSE
  <2>1. ASSUME NEW b \in Attempts
        PROVE  /\ attempt'[b] \in AttemptRecord
               /\ attempt'[b].task = attempt[b].task
               /\ attempt'[b].status \notin {"preparing", "running", "blocked"}
               /\ attempt'[b].status = "absent" => attempt[b].status = "absent"
               /\ attempt'[b].retryDue = FALSE
    <3>1. attempt[b] \in AttemptRecord
      OBVIOUS
    <3>2. CASE attempt[b].status \in {"preparing", "running", "blocked"}
      <4>1. attempt'[b] = [attempt[b] EXCEPT !.status = "cancelled", !.finished = TRUE,
                                             !.retryDue = FALSE]
        BY <3>2 DEF StopRun
      <4>. QED BY <3>1, <3>2, <4>1 DEF AttemptRecord, AttemptStatuses
    <3>3. CASE attempt[b].status \notin {"preparing", "running", "blocked"}
      <4>1. attempt'[b] = [attempt[b] EXCEPT !.retryDue = FALSE]
        BY <3>3 DEF StopRun
      <4>. QED BY <3>1, <3>3, <4>1 DEF AttemptRecord
    <3>. QED BY <3>2, <3>3
  <2>2. attempt' = [b \in Attempts |-> attempt'[b]]
    BY DEF StopRun
  <2>. QED BY <2>1, <2>2
<1>b. /\ task' \in [Tasks -> TaskRecord]
      /\ \A u \in Tasks : /\ task'[u].active = task[u].active
                          /\ task'[u].status \notin {"running", "blocked"}
                          /\ task'[u].status = "absent" => task[u].status = "absent"
  <2>1. ASSUME NEW u \in Tasks
        PROVE  /\ task'[u] \in TaskRecord
               /\ task'[u].active = task[u].active
               /\ task'[u].status \notin {"running", "blocked"}
               /\ task'[u].status = "absent" => task[u].status = "absent"
    <3>1. task[u] \in TaskRecord
      OBVIOUS
    <3>2. CASE task[u].status \in {"absent", "completed", "failed"}
      BY <3>1, <3>2 DEF StopRun
    <3>3. CASE task[u].status \notin {"absent", "completed", "failed"}
      <4>1. task'[u] = [task[u] EXCEPT !.status = "cancelled"]
        BY <3>3 DEF StopRun
      <4>. QED BY <3>1, <4>1 DEF TaskRecord, TaskStatuses
    <3>. QED BY <3>2, <3>3
  <2>2. task' = [u \in Tasks |-> task'[u]]
    BY DEF StopRun
  <2>. QED BY <2>1, <2>2
<1>c. gate' \in [Gates -> GateRecord]
  BY CancelType DEF StopRun
<1>e. \A u \in Tasks : task[u].active \in Attempts \cup {None}
  BY DEF TaskRecord
<1>1. TypeOK'
  BY <1>a, <1>b, <1>c DEF StopRun, RunStatuses
<1>2. ActiveIsOwn'
  BY <1>a, <1>b, <1>e DEF ActiveIsOwn
<1>3. HoldersOwn' /\ RetryIsOwn'
  BY <1>a DEF HoldersOwn, RetryIsOwn
<1>4. StatusAgrees'
  BY <1>a, <1>b, <1>e DEF StatusAgrees, Live
<1>5. BlockedTogether'
  BY <1>a, <1>b DEF BlockedTogether
<1>. QED BY <1>1, <1>2, <1>3, <1>4, <1>5

\* reopen_task_as: a completed task is ready again, and tasks waiting on it
\* are pending.
LEMMA ReopenIInv ==
    ASSUME IInv, NEW t \in Tasks, NEW byPerson \in BOOLEAN, NEW told \in BOOLEAN,
           Reopen(t, byPerson, told)
    PROVE  IInv'
<1>. USE DEF IInv, TypeOK
<1>a. /\ gate' \in [Gates -> GateRecord]
      /\ \A u \in Tasks : OpenGateOn(u)' => OpenGateOn(u)
  BY CancelType DEF Reopen, OpenGateOn
<1>b. /\ task' \in [Tasks -> TaskRecord]
      /\ \A u \in Tasks : task'[u].active = task[u].active
      /\ \A u \in Tasks : task'[u].status # task[u].status =>
            /\ task[u].status \in {"completed", "ready"}
            /\ task'[u].status \in {"ready", "pending"}
  <2>1. task[t].status = "completed"
    BY DEF Reopen
  <2>2. ASSUME NEW u \in Tasks
        PROVE  /\ task'[u] \in TaskRecord
               /\ task'[u].active = task[u].active
               /\ task'[u].status # task[u].status =>
                     /\ task[u].status \in {"completed", "ready"}
                     /\ task'[u].status \in {"ready", "pending"}
    <3>1. CASE u = t
      BY ZenonT(60), <2>1, <3>1 DEF Reopen, TaskRecord, TaskStatuses
    <3>2. CASE u # t
      BY <3>2 DEF Reopen, TaskRecord, TaskStatuses
    <3>. QED BY <3>1, <3>2
  <2>3. task' = [u \in Tasks |-> task'[u]]
    BY DEF Reopen
  <2>. QED BY <2>2, <2>3
<1>c. runStatus' \in RunStatuses /\ autoRetries' \in [Tasks -> Nat]
  BY RecomputedType DEF Reopen
<1>d. attempt' = attempt
  BY DEF Reopen
<1>e. \A u \in Tasks : task[u].active \in Attempts \cup {None}
  BY DEF TaskRecord
<1>f. \A b \in Attempts : attempt[b].task \in Tasks \cup {None}
  BY DEF AttemptRecord
<1>1. TypeOK'
  BY <1>a, <1>b, <1>c DEF Reopen
<1>2. ActiveIsOwn'
  BY <1>b, <1>d, <1>e DEF ActiveIsOwn
<1>3. HoldersOwn'
  BY <1>b, <1>d, <1>f DEF HoldersOwn, Owns
<1>4. StatusAgrees'
  BY <1>b, <1>d, <1>e DEF StatusAgrees, Live
<1>5. BlockedTogether'
  BY <1>a, <1>b, <1>d, <1>e, <1>f DEF BlockedTogether, HoldersOwn, Owns
<1>6. RetryIsOwn'
  BY <1>b, <1>d, <1>f DEF RetryIsOwn, Owns
<1>. QED BY <1>1, <1>2, <1>3, <1>4, <1>5, <1>6

\* tell_reopens: only the notice is recorded.
LEMMA TellReopenIInv ==
    ASSUME IInv, NEW t \in Tasks, TellReopen(t)
    PROVE  IInv'
<1>. USE DEF IInv, TypeOK
<1>1. TypeOK'
  BY ZenonT(60) DEF TellReopen, TaskRecord
<1>2. /\ \A u \in Tasks : task'[u].active = task[u].active /\ task'[u].status = task[u].status
      /\ UNCHANGED <<attempt, gate>>
  BY DEF TellReopen, TaskRecord
<1>3. \A b \in Attempts : attempt[b].task \in Tasks \cup {None}
  BY DEF AttemptRecord
<1>4. ActiveIsOwn' /\ StatusAgrees'
  BY <1>2 DEF ActiveIsOwn, StatusAgrees, Live
<1>5. HoldersOwn' /\ RetryIsOwn'
  BY <1>2, <1>3 DEF HoldersOwn, RetryIsOwn, Owns
<1>6. BlockedTogether'
  BY <1>2, <1>3 DEF BlockedTogether, OpenGateOn, HoldersOwn, Owns
<1>. QED BY <1>1, <1>4, <1>5, <1>6

-----------------------------------------------------------------------------
(* Every step keeps the invariant *)

\* One case for each actor, and one for a step that changes nothing.
LEMMA NextIInv ==
    ASSUME IInv, [Next]_vars
    PROVE  IInv'
<1>1. ASSUME NEW t \in Tasks, CreateTask(t) PROVE IInv'
  <2>1. replacing' \in Replacing
    BY <1>1 DEF CreateTask, IInv, TypeOK
  <2>. QED BY <1>1, <2>1, CreateIInv DEF CreateTask
<1>2. ASSUME NEW t \in Tasks, NEW a \in Attempts, NEW by \in Starters, Start(t, a, by)
      PROVE  IInv'
  BY <1>2, StartIInv
<1>3. CASE CoordinatorNext
  <2>1. ASSUME NEW t \in Tasks, NEW a \in Attempts, CoordinatorStart(t, a) PROVE IInv'
    BY <2>1, <1>2 DEF CoordinatorStart, Starters
  <2>. QED BY <1>3, <1>1, <2>1, ReplaceCheckIInv, ReplaceCreateIInv, ReplaceCommitIInv,
              RunGateIInv, AboutGateIInv, TaskGateIInv, ResolveGateIInv, ReopenIInv
           DEF CoordinatorNext
<1>4. CASE PersonNext
  <2>1. ASSUME NEW t \in Tasks, NEW a \in Attempts, PageStart(t, a) PROVE IInv'
    BY <2>1, <1>2 DEF PageStart, Starters
  <2>. QED BY <1>4, <2>1, ResolveGateIInv, ReopenIInv, StopTaskIInv, StopRunIInv
           DEF PersonNext
<1>5. CASE WorkerNext
  <2>1. ASSUME NEW a \in Attempts, NEW retryable \in BOOLEAN, WorkerFails(a, retryable)
        PROVE  IInv'
    <3>1. dispatch' \in Attempts \cup {None}
      BY <2>1 DEF WorkerFails, IInv, TypeOK
    <3>. QED BY <2>1, <3>1, FailIInv DEF WorkerFails
  <2>. QED BY <1>5, <2>1, ReportIInv DEF WorkerNext
<1>6. CASE HostNext
  <2>1. ASSUME NEW t \in Tasks, NEW a \in Attempts, Recover(t, a) \/ Dispatch(t, a)
        PROVE  IInv'
    BY <2>1, <1>2 DEF Recover, Dispatch, Starters
  <2>2. ASSUME NEW retryable \in BOOLEAN, DispatchFails(retryable) PROVE IInv'
    <3>1. dispatch \in Attempts /\ dispatch' = None
      BY <2>2 DEF DispatchFails, IInv, TypeOK
    <3>2. CASE Failable(dispatch)
      BY <2>2, <3>1, <3>2, FailIInv DEF DispatchFails
    <3>3. CASE ~Failable(dispatch)
      <4>1. UNCHANGED <<runStatus, task, attempt, gate, replacing, autoRetries>>
        BY <2>2, <3>3 DEF DispatchFails
      <4>2. TypeOK'
        BY <3>1, <4>1 DEF IInv, TypeOK
      <4>3. ActiveIsOwn' /\ HoldersOwn' /\ StatusAgrees' /\ RetryIsOwn'
        BY <4>1 DEF IInv, ActiveIsOwn, HoldersOwn, StatusAgrees, RetryIsOwn, Owns, Live
      <4>4. BlockedTogether'
        BY <4>1 DEF IInv, BlockedTogether, OpenGateOn
      <4>. QED BY <4>2, <4>3, <4>4 DEF IInv
    <3>. QED BY <3>2, <3>3
  <2>. QED BY <1>6, <2>1, <2>2, ActivateIInv, ActivationRefusedIInv, ChatStartedIInv,
              DropRecoveryIInv, TellReopenIInv
           DEF HostNext, StartReturns
<1>7. CASE UNCHANGED vars
  <2>1. TypeOK' /\ ActiveIsOwn' /\ HoldersOwn' /\ StatusAgrees' /\ RetryIsOwn'
    BY <1>7 DEF vars, IInv, TypeOK, ActiveIsOwn, HoldersOwn, StatusAgrees, RetryIsOwn, Owns, Live
  <2>2. BlockedTogether'
    BY <1>7 DEF vars, IInv, BlockedTogether, OpenGateOn
  <2>. QED BY <2>1, <2>2 DEF IInv
<1>. QED BY <1>3, <1>4, <1>5, <1>6, <1>7, RestartIInv DEF Next

\* IInv is an invariant of the ledger, whatever its constants.
THEOREM Inductive == Spec => []IInv
<1>1. Init => IInv
  BY InitIInv
<1>2. IInv /\ [Next]_vars => IInv'
  BY NextIInv
<1>. QED BY <1>1, <1>2, PTL DEF Spec

\* Every record of the ledger has its type in every reachable state.
THEOREM TypeCorrect == Spec => []TypeOK
<1>1. IInv => TypeOK
  BY DEF IInv
<1>. QED BY <1>1, Inductive, PTL

\* A task runs exactly while its active attempt is live: the two statuses the
\* page shows can never tell different stories.
THEOREM StatusesAgree == Spec => []StatusAgrees
<1>1. IInv => StatusAgrees
  BY DEF IInv
<1>. QED BY <1>1, Inductive, PTL

\* An attempt that holds a slot is its task's active one, so a task never has
\* two workers (reserve_attempt_for).
THEOREM OneWorkerPerTask == Spec => []OneLiveAttempt
<1>1. IInv => OneLiveAttempt
  BY DEF IInv, HoldersOwn, OneLiveAttempt, UnsettledAttempts, Unsettled, Live
<1>. QED BY <1>1, Inductive, PTL

=============================================================================
