------------------------- MODULE PlanApprovalProofs -------------------------
(***************************************************************************)
(* Proofs about the plan's approval (PlanApproval).  The invariant says    *)
(* what the marks of a task stand for: an approval is of what the person   *)
(* had seen, one that was taken is kept for a rejection to restore, and a  *)
(* task with neither has the plan wait; and a revision of the plan stands  *)
(* for one scope.  The bounds are arbitrary.                               *)
(***************************************************************************)
EXTENDS PlanApproval, SequenceTheorems, TLAPS

---------------------------------------------------------------------------
(* A write of the ledger *)

\* Fields that a change of status leaves alone.
Same(r, s) ==
  /\ r.owner = s.owner /\ r.size = s.size /\ r.created = s.created
  /\ r.fixed = s.fixed /\ r.rollback = s.rollback

\* What the writers write: tasks that are what they must be.
Tables(T, A) ==
  /\ T \in [Tasks -> Task] /\ \A t \in Tasks : Named(T[t])
  /\ A \in [Tasks -> Seq(Attempt)]

\* The repair of older ledgers writes tasks like those it found.
LEMMA StoredTypes ==
  ASSUME TypeOK
  PROVE  /\ Stored \in [Tasks -> Task]
         /\ \A t \in Tasks : Named(Stored[t])
         /\ \A t \in Tasks :
              /\ Stored[t].status = task[t].status
              /\ Stored[t].owner = task[t].owner
              /\ Stored[t].worker = task[t].worker
              /\ Stored[t].words = task[t].words
              /\ Stored[t].size = task[t].size
              /\ Stored[t].deps = task[t].deps
              /\ Stored[t].rollback = task[t].rollback
              /\ Stored[t].handoffs = task[t].handoffs
              /\ Stored[t].created = task[t].created
              /\ Stored[t].fixed # task[t].fixed =>
                   task[t].fixed = None /\ task[t].rollback = None
              /\ task[t].fixed # None => Stored[t].fixed = task[t].fixed
<1>1. \A t \in Tasks : task[t] \in Task /\ Named(task[t])
  BY DEF TypeOK
<1>2. ASSUME NEW t \in Tasks, LegacyApproved(task[t])
      PROVE  InEffect(task[t]) \in Fixed
  <2>1. task[t].status # "absent"
    BY <1>2 DEF LegacyApproved, Gone
  <2>2. task[t].owner \in Owners /\ task[t].worker \in Workers
    BY <1>1, <2>1 DEF Named, Task
  <2>3. defaults \in Policies
    BY DEF TypeOK
  <2> QED
    BY <2>2, <2>3 DEF InEffect, Fixed
<1>3. ASSUME NEW t \in Tasks
      PROVE  /\ Stored[t] = IF LegacyApproved(task[t])
                            THEN [task[t] EXCEPT !.fixed = InEffect(task[t])]
                            ELSE task[t]
             /\ Stored[t] \in Task /\ Named(Stored[t])
  <2>1. Stored[t] = IF LegacyApproved(task[t])
                    THEN [task[t] EXCEPT !.fixed = InEffect(task[t])]
                    ELSE task[t]
    BY DEF Stored
  <2> QED
    BY <1>1, <1>2, <2>1 DEF Task, Named
<1>4. Stored = [t \in Tasks |-> Stored[t]]
  BY DEF Stored
<1>5. ASSUME NEW t \in Tasks
      PROVE  /\ Stored[t].status = task[t].status
             /\ Stored[t].owner = task[t].owner
             /\ Stored[t].worker = task[t].worker
             /\ Stored[t].words = task[t].words
             /\ Stored[t].size = task[t].size
             /\ Stored[t].deps = task[t].deps
             /\ Stored[t].rollback = task[t].rollback
             /\ Stored[t].handoffs = task[t].handoffs
             /\ Stored[t].created = task[t].created
             /\ Stored[t].fixed # task[t].fixed =>
                  task[t].fixed = None /\ task[t].rollback = None
             /\ task[t].fixed # None => Stored[t].fixed = task[t].fixed
  <2>1. CASE LegacyApproved(task[t])
    <3>1. task[t].fixed = None /\ task[t].rollback = None
      BY <2>1 DEF LegacyApproved
    <3> QED
      BY <1>1, <1>3, <2>1, <3>1 DEF Task
  <2>2. CASE ~LegacyApproved(task[t])
    BY <1>3, <2>2
  <2> QED
    BY <2>1, <2>2
<1> QED
  BY <1>3, <1>4, <1>5

\* It approves nothing that the person has not: work that waits for its first
\* approval is no older than that waiting.
LEMMA StoredIsTask ==
  ASSUME IInv, NEW t \in Tasks \ recalled
  PROVE  Stored[t] = task[t]
<1>1. ~LegacyApproved(task[t])
  <2>1. SUFFICES ASSUME LegacyApproved(task[t]) PROVE FALSE
    OBVIOUS
  <2>2. /\ task[t].status \notin Gone /\ task[t].fixed = None
        /\ task[t].rollback = None /\ MadeBefore(task[t])
    BY <2>1 DEF LegacyApproved
  <2>3. plan.status = "pending" /\ task[t].created >= plan.requested
    BY <2>2 DEF IInv, MarkInv
  <2>4. task[t].created < plan.requested
    BY <2>2, <2>3 DEF MadeBefore
  <2>5. task[t].created \in Nat /\ plan.requested \in Nat
    BY PlanAssumption DEF IInv, TypeOK, Task, Plans
  <2> QED
    BY <2>3, <2>4, <2>5
<1> QED
  BY <1>1 DEF Stored

\* One task is written over.
LEMMA WithTypes ==
  ASSUME TypeOK, NEW t \in Tasks, NEW r, r \in Task, Named(r)
  PROVE  /\ With(t, r) \in [Tasks -> Task]
         /\ \A u \in Tasks : Named(With(t, r)[u])
         /\ With(t, r)[t] = r
         /\ \A u \in Tasks : u # t => With(t, r)[u] = Stored[u]
BY StoredTypes DEF With

\* A plan that waits has its revision moved when its scope has changed.
LEMMA RefreshedPlan ==
  ASSUME NEW p, p \in Plans, NEW T, NEW A, NEW d, Scope(T, A, d) \in Scopes
  PROVE  /\ Refreshed(p, T, A, d) \in Plans
         /\ Refreshed(p, T, A, d).status = p.status
         /\ Refreshed(p, T, A, d).requested = p.requested
         /\ Refreshed(p, T, A, d).consent = p.consent
         /\ Refreshed(p, T, A, d).revision >= p.revision
         /\ Refreshed(p, T, A, d).revision = p.revision =>
              Refreshed(p, T, A, d).scope = p.scope
         /\ p.status = "pending" =>
              Refreshed(p, T, A, d).scope = Scope(T, A, d)
<1>1. CASE p.status = "pending" /\ p.scope # Scope(T, A, d)
  <2> DEFINE scope == Scope(T, A, d)
             n == p.revision + 1
             q == [p EXCEPT !.scope = scope, !.revision = n]
  <2>1. Refreshed(p, T, A, d) = q
    BY <1>1 DEF Refreshed
  <2>2. n \in Nat \ {0} /\ n > p.revision /\ n >= p.revision /\ n # p.revision
    <3>1. p.revision \in Nat \ {0}
      BY DEF Plans
    <3> QED
      BY <3>1
  <2>3. scope \in Scopes
    OBVIOUS
  <2> HIDE DEF scope, n
  <2>4. /\ q \in Plans
        /\ q.status = p.status /\ q.requested = p.requested
        /\ q.consent = p.consent /\ q.revision = n /\ q.scope = scope
    BY <2>2, <2>3 DEF Plans
  <2> HIDE DEF q
  <2>5. scope = Scope(T, A, d)
    BY DEF scope
  <2> QED
    BY <2>1, <2>2, <2>4, <2>5
<1>2. CASE ~(p.status = "pending" /\ p.scope # Scope(T, A, d))
  <2>1. Refreshed(p, T, A, d) = p
    BY <1>2 DEF Refreshed
  <2>2. p.revision \in Nat
    BY DEF Plans
  <2> QED
    BY <1>2, <2>1, <2>2
<1> QED
  BY <1>1, <1>2

LEMMA ScopeTypes ==
  ASSUME NEW T, NEW A, Tables(T, A), NEW d \in Policies
  PROVE  Scope(T, A, d) \in Scopes
<1>1. Awaiting(T, A) \in SUBSET Tasks
  BY DEF Awaiting
<1>2. ASSUME NEW t \in Awaiting(T, A)
      PROVE  Shown(T[t]) \in Shape
  <2>1. t \in Tasks /\ T[t].status # "absent"
    BY <1>2 DEF Awaiting, Gone
  <2>2. T[t] \in Task /\ Named(T[t])
    BY <2>1 DEF Tables
  <2>3. /\ T[t].owner \in Owners /\ T[t].worker \in Workers
        /\ T[t].words \in Words /\ T[t].size \in Sizes
        /\ T[t].deps \in SUBSET Tasks
    BY <2>1, <2>2 DEF Task, Named
  <2> QED
    BY <2>3 DEF Shown, Shape
<1>3. [t \in Awaiting(T, A) |-> Shown(T[t])] \in [Awaiting(T, A) -> Shape]
  BY <1>2
<1>4. [t \in Awaiting(T, A) |-> Shown(T[t])]
        \in UNION {[S -> Shape] : S \in SUBSET Tasks}
  BY <1>1, <1>3
<1> QED
  BY <1>4 DEF Scope, Scopes

\* What a write makes of the plan.
LEMMA WriteEffect ==
  ASSUME NEW T, NEW A, Tables(T, A), NEW d \in Policies, NEW p, p \in Plans,
         Write(T, A, p, d)
  PROVE  /\ task' = T /\ attempts' = A /\ defaults' = d
         /\ plan' \in Plans
         /\ plan'.status = p.status /\ plan'.requested = p.requested
         /\ plan'.revision >= p.revision
         /\ plan'.revision = p.revision => plan'.scope = p.scope
         /\ plan'.status = "pending" =>
              plan'.scope = Scope(task', attempts', defaults')
<1>1. /\ task' = T /\ attempts' = A /\ defaults' = d
      /\ plan' = Refreshed(p, T, A, d)
  BY DEF Write
<1>2. Scope(T, A, d) \in Scopes
  BY ScopeTypes
<1>3. Scope(task', attempts', defaults') = Scope(T, A, d)
  BY <1>1
<1> QED
  BY <1>1, <1>2, <1>3, RefreshedPlan

\* Card and message keep to a revision that stays or is passed.
LEMMA WriteKeepsScope ==
  ASSUME IInv, NEW T, NEW A, Tables(T, A), NEW d \in Policies,
         NEW p, p \in Plans, p.revision = plan.revision, p.scope = plan.scope,
         Write(T, A, p, d), now' \in 1..MaxTime, p.requested <= now',
         card' = card, message'.revision = message.revision,
         message'.scope = message.scope
  PROVE  ScopeInv' /\ plan'.revision >= plan.revision
<1>1. /\ plan'.requested = p.requested
      /\ plan'.revision >= plan.revision
      /\ plan'.revision = plan.revision => plan'.scope = plan.scope
      /\ plan'.status = "pending" =>
           plan'.scope = Scope(task', attempts', defaults')
  BY WriteEffect
<1>2. plan.revision \in Nat /\ plan'.revision \in Nat
  <2>1. plan' \in Plans
    BY WriteEffect
  <2> QED
    BY <2>1 DEF IInv, TypeOK, Plans
<1>3. /\ card = NoCard \/ card.revision \in 1..plan.revision
      /\ message = NoMessage \/ message.revision \in 1..plan.revision
  BY DEF IInv, TypeOK
<1>4. card.revision <= plan.revision /\ card.revision \in Nat
  BY <1>2, <1>3 DEF NoCard
<1>5. message.revision <= plan.revision /\ message.revision \in Nat
  BY <1>2, <1>3 DEF NoMessage
<1>6. (card'.revision = plan'.revision => card'.scope = plan'.scope)
  BY <1>1, <1>2, <1>4 DEF IInv, ScopeInv
<1>7. (message'.revision = plan'.revision => message'.scope = plan'.scope)
  BY <1>1, <1>2, <1>5 DEF IInv, ScopeInv
<1>8. card'.settled => card'.read = card'.scope
  BY DEF IInv, ScopeInv
<1> QED
  BY <1>1, <1>6, <1>7, <1>8 DEF ScopeInv

\* The types of everything a write of the ledger touches.
LEMMA WriteTypes ==
  ASSUME TypeOK, NEW T, NEW A, Tables(T, A), NEW d \in Policies,
         NEW p, p \in Plans, p.revision = plan.revision,
         Write(T, A, p, d),
         run' \in {"planning", "running", "waiting", "completed", "failed",
                   "stopped"},
         basis' \in [Tasks -> Seen \cup {None}],
         gates' \subseteq Tasks, recalled' \subseteq Tasks,
         now' \in 1..MaxTime, edits' \in 0..MaxEdits,
         card' = card,
         message' = message \/
           (message # NoMessage /\ message' = [message EXCEPT !.spent = TRUE])
  PROVE  TypeOK'
<1>1. /\ task' = T /\ attempts' = A /\ defaults' = d /\ plan' \in Plans
      /\ plan'.revision >= plan.revision
  BY WriteEffect
<1>2. plan.revision \in Nat /\ plan'.revision \in Nat
  BY <1>1 DEF TypeOK, Plans
<1>3. 1..plan.revision \subseteq 1..plan'.revision
  BY <1>1, <1>2
<1>4. card' = NoCard \/
        card' \in [revision : 1..plan'.revision, scope : Scopes,
                  settled : BOOLEAN, read : Scopes]
  BY <1>3 DEF TypeOK
<1>5. message = NoMessage \/
        message \in [revision : 1..plan'.revision, scope : Scopes,
                    spent : BOOLEAN]
  BY <1>3 DEF TypeOK
<1>6. message' = NoMessage \/
        message' \in [revision : 1..plan'.revision, scope : Scopes,
                     spent : BOOLEAN]
  BY <1>5
<1> QED
  BY <1>1, <1>4, <1>6 DEF TypeOK, Tables, Scopes, Plans, NoCard, NoMessage

---------------------------------------------------------------------------
(* Writes that approve nothing and take no approval *)

\* The task r that was q.
Quiet(r, q) ==
  /\ r.fixed = q.fixed /\ r.rollback = q.rollback /\ r.created = q.created
  /\ r.handoffs = q.handoffs
  /\ r.fixed # None => r.owner = q.owner /\ r.size = q.size

\* The attempts a of r, which is task t.
Lived(t, r, a) ==
  /\ r.status = "absent" => task[t].status = "absent"
  /\ r.status \in Gone => a = <<>>
  /\ r.status \in {"completed", "failed", "running"} => a # <<>>
  /\ attempts[t] # <<>> => a # <<>>

\* Nothing comes back, and nothing unapproved starts.
Marked(t, r, a) ==
  /\ r.status \notin Gone => task[t].status \notin Gone
  /\ a # <<>> => attempts[t] # <<>> \/ task[t].fixed # None

QuietWrite(T, A) ==
  \A t \in Tasks :
    /\ Quiet(T[t], Stored[t])
    /\ Lived(t, T[t], A[t])
    /\ t \notin recalled' => Marked(t, T[t], A[t])

LEMMA QuietKeeps ==
  ASSUME IInv, NEW T, NEW A, Tables(T, A), QuietWrite(T, A),
         NEW d \in Policies, Write(T, A, plan, d),
         basis' = basis, recalled \subseteq recalled'
  PROVE  HistoryInv' /\ MarkInv' /\ BasisInv'
<1>1. task' = T /\ attempts' = A
  BY DEF Write
<1>2. plan'.status = plan.status /\ plan'.requested = plan.requested
  <2>1. plan \in Plans
    BY DEF IInv, TypeOK
  <2> QED
    BY <2>1, WriteEffect
<1>3. HistoryInv'
  <2>1. SUFFICES ASSUME NEW t \in Tasks
                 PROVE  /\ T[t].status \in Gone => A[t] = <<>>
                        /\ T[t].status \in {"completed", "failed", "running"} =>
                             A[t] # <<>>
                        /\ T[t].rollback # None =>
                             /\ T[t].fixed = None
                             /\ T[t].rollback.status
                                  \in {"pending", "ready", "failed", "blocked"}
                             /\ T[t].rollback.status = "failed" => A[t] # <<>>
                             /\ T[t].rollback.handoffs <= Len(T[t].handoffs)
    BY <1>1 DEF HistoryInv, Gone
  <2>2. Quiet(T[t], Stored[t]) /\ Lived(t, T[t], A[t])
    BY DEF QuietWrite
  <2>3. ASSUME T[t].rollback # None
        PROVE  /\ T[t].fixed = None
               /\ T[t].rollback.status
                    \in {"pending", "ready", "failed", "blocked"}
               /\ T[t].rollback.status = "failed" => A[t] # <<>>
               /\ T[t].rollback.handoffs <= Len(T[t].handoffs)
    <3>1. /\ T[t].rollback = task[t].rollback
          /\ T[t].handoffs = task[t].handoffs
          /\ Stored[t].fixed = task[t].fixed
      BY <2>2, <2>3, StoredTypes DEF Quiet, IInv
    <3>2. /\ task[t].fixed = None
          /\ task[t].rollback.status
               \in {"pending", "ready", "failed", "blocked"}
          /\ task[t].rollback.status = "failed" => attempts[t] # <<>>
          /\ task[t].rollback.handoffs <= Len(task[t].handoffs)
      BY <2>3, <3>1 DEF IInv, HistoryInv
    <3> QED
      BY <2>2, <3>1, <3>2 DEF Quiet, Lived
  <2> QED
    BY <2>2, <2>3 DEF Lived
<1>4. ASSUME NEW t \in Tasks \ recalled'
      PROVE  /\ t \in Tasks \ recalled
             /\ T[t].fixed = task[t].fixed /\ T[t].rollback = task[t].rollback
             /\ T[t].created = task[t].created
             /\ T[t].fixed # None =>
                  T[t].owner = task[t].owner /\ T[t].size = task[t].size
             /\ T[t].status = "absent" => task[t].status = "absent"
             /\ T[t].status \notin Gone => task[t].status \notin Gone
             /\ A[t] # <<>> => attempts[t] # <<>> \/ task[t].fixed # None
  <2>1. t \in Tasks \ recalled
    BY <1>4
  <2>2. Stored[t] = task[t]
    BY <2>1, StoredIsTask
  <2>3. /\ Quiet(T[t], Stored[t]) /\ Lived(t, T[t], A[t])
        /\ Marked(t, T[t], A[t])
    BY <1>4 DEF QuietWrite
  <2> QED
    BY <2>1, <2>2, <2>3 DEF Quiet, Lived, Marked
<1>5. MarkInv'
  <2>1. SUFFICES ASSUME NEW t \in Tasks \ recalled'
                 PROVE  /\ T[t].status \notin Gone /\ T[t].fixed = None =>
                             /\ plan'.status = "pending"
                             /\ T[t].rollback = None =>
                                  T[t].created >= plan'.requested
                        /\ A[t] # <<>> =>
                             T[t].fixed # None \/ T[t].rollback # None
    BY <1>1 DEF MarkInv, Gone
  <2> QED
    BY <1>2, <1>4 DEF IInv, MarkInv
<1>6. BasisInv'
  <2>1. SUFFICES ASSUME NEW t \in Tasks \ recalled'
                 PROVE  /\ T[t].status = "absent" => basis[t] = None
                        /\ basis[t] # None =>
                             T[t].fixed # None \/ T[t].rollback # None
                        /\ T[t].fixed # None =>
                             /\ basis[t] # None
                             /\ T[t].fixed = FixedAs(basis[t])
                             /\ T[t].owner = basis[t].shown.owner
                             /\ T[t].size = basis[t].shown.size
                        /\ T[t].rollback # None =>
                             /\ basis[t] # None
                             /\ T[t].rollback.fixed = FixedAs(basis[t])
                             /\ T[t].rollback.owner = basis[t].shown.owner
                             /\ T[t].rollback.size = basis[t].shown.size
    BY <1>1 DEF BasisInv, FixedAs
  <2> QED
    BY <1>4 DEF IInv, BasisInv
<1> QED
  BY <1>3, <1>5, <1>6

RunStatuses == {"planning", "running", "waiting", "completed", "failed",
                "stopped"}

LEMMA QuietStep ==
  ASSUME IInv, NEW T, NEW A, Tables(T, A), QuietWrite(T, A),
         NEW d \in Policies, Write(T, A, plan, d),
         run' \in RunStatuses, gates' \subseteq Tasks,
         recalled \subseteq recalled', recalled' \subseteq Tasks,
         now' \in now..MaxTime, edits' \in 0..MaxEdits,
         card' = card, message' = message, basis' = basis
  PROVE  IInv'
<1>1. plan \in Plans /\ now \in 1..MaxTime /\ plan.requested <= now
  BY DEF IInv, TypeOK, ScopeInv
<1>2. now' \in 1..MaxTime /\ plan.requested <= now'
  <2>1. /\ now \in Nat /\ MaxTime \in Nat /\ now >= 1
        /\ plan.requested \in Nat
    BY <1>1, PlanAssumption DEF Plans
  <2> QED
    BY <1>1, <2>1
<1>3. HistoryInv' /\ MarkInv' /\ BasisInv'
  BY QuietKeeps
<1>4. ScopeInv'
  BY <1>1, <1>2, WriteKeepsScope
<1>5. TypeOK'
  <2>1. basis' \in [Tasks -> Seen \cup {None}]
    BY DEF IInv, TypeOK
  <2>2. TypeOK
    BY DEF IInv
  <2> QED
    BY <1>1, <1>2, <2>1, <2>2, WriteTypes DEF RunStatuses
<1> QED
  BY <1>3, <1>4, <1>5 DEF IInv

\* One task is written over, with its attempts.
LEMMA OneQuiet ==
  ASSUME IInv, NEW t \in Tasks, NEW r, r \in Task, Named(r),
         NEW A, A \in [Tasks -> Seq(Attempt)],
         \A u \in Tasks : u # t => A[u] = attempts[u],
         Quiet(r, Stored[t]), Lived(t, r, A[t]),
         t \notin recalled' => Marked(t, r, A[t])
  PROVE  Tables(With(t, r), A) /\ QuietWrite(With(t, r), A)
<1>1. TypeOK
  BY DEF IInv
<1>2. /\ With(t, r) \in [Tasks -> Task]
      /\ \A u \in Tasks : Named(With(t, r)[u])
      /\ With(t, r)[t] = r
      /\ \A u \in Tasks : u # t => With(t, r)[u] = Stored[u]
  BY <1>1, WithTypes
<1>3. Tables(With(t, r), A)
  BY <1>2 DEF Tables
<1>4. ASSUME NEW u \in Tasks, u # t
      PROVE  /\ Quiet(Stored[u], Stored[u])
             /\ Lived(u, Stored[u], attempts[u])
             /\ Marked(u, Stored[u], attempts[u])
  <2>1. Stored[u].status = task[u].status
    BY <1>1, StoredTypes
  <2>2. Lived(u, Stored[u], attempts[u])
    BY <2>1 DEF IInv, HistoryInv, Lived
  <2> QED
    BY <2>1, <2>2 DEF Quiet, Marked
<1>5. QuietWrite(With(t, r), A)
  BY <1>2, <1>4 DEF QuietWrite
<1> QED
  BY <1>3, <1>5

\* Tasks that are made ready are what they were.
LEMMA MakeReadyQuiet ==
  ASSUME NEW T, NEW A, Tables(T, A), QuietWrite(T, A)
  PROVE  Tables(MakeReady(T), A) /\ QuietWrite(MakeReady(T), A)
<1>1. ASSUME NEW t \in Tasks
      PROVE  /\ MakeReady(T)[t] \in Task /\ Named(MakeReady(T)[t])
             /\ Quiet(MakeReady(T)[t], Stored[t])
             /\ Lived(t, MakeReady(T)[t], A[t])
             /\ t \notin recalled' => Marked(t, MakeReady(T)[t], A[t])
  <2>1. /\ T[t] \in Task /\ Named(T[t]) /\ Quiet(T[t], Stored[t])
        /\ Lived(t, T[t], A[t])
        /\ t \notin recalled' => Marked(t, T[t], A[t])
    BY DEF Tables, QuietWrite
  <2>2. CASE MakeReady(T)[t] = T[t]
    BY <2>1, <2>2
  <2>3. CASE /\ T[t].status = "pending"
             /\ MakeReady(T)[t] = [T[t] EXCEPT !.status = "ready"]
    <3> DEFINE r == [T[t] EXCEPT !.status = "ready"]
    <3>1. /\ r \in Task /\ r.status = "ready" /\ r.owner = T[t].owner
          /\ r.worker = T[t].worker /\ r.words = T[t].words
          /\ r.size = T[t].size /\ r.fixed = T[t].fixed
          /\ r.rollback = T[t].rollback /\ r.created = T[t].created
          /\ r.handoffs = T[t].handoffs
      BY <2>1 DEF Task, Statuses
    <3> HIDE DEF r
    <3>2. MakeReady(T)[t] = r
      BY <2>3 DEF r
    <3>3. Named(r) /\ Quiet(r, Stored[t])
      BY <2>1, <2>3, <3>1 DEF Named, Quiet
    <3>4. Lived(t, r, A[t]) /\ (t \notin recalled' => Marked(t, r, A[t]))
      BY <2>1, <2>3, <3>1 DEF Lived, Marked, Gone
    <3> QED
      BY <3>1, <3>2, <3>3, <3>4
  <2>4. \/ MakeReady(T)[t] = T[t]
        \/ /\ T[t].status = "pending"
           /\ MakeReady(T)[t] = [T[t] EXCEPT !.status = "ready"]
    BY DEF MakeReady
  <2> QED
    BY <2>2, <2>3, <2>4
<1>2. MakeReady(T) = [t \in Tasks |-> MakeReady(T)[t]]
  BY DEF MakeReady
<1>3. MakeReady(T) \in [Tasks -> Task]
  BY <1>1, <1>2
<1> QED
  BY <1>1, <1>3 DEF Tables, QuietWrite

LEMMA RecomputedRun ==
  ASSUME NEW T, NEW G
  PROVE  Recomputed(T, G) \in RunStatuses
BY DEF Recomputed, RunStatuses

\* Another status for the last attempt.
LEMMA LatestTypes ==
  ASSUME TypeOK, NEW t \in Tasks, attempts[t] # <<>>,
         NEW status, NEW due \in BOOLEAN,
         status \in {"running", "blocked", "failed", "completed", "cancelled"}
  PROVE  /\ Latest(t, status, due) \in [Tasks -> Seq(Attempt)]
         /\ Len(Latest(t, status, due)[t]) = Len(attempts[t])
         /\ Latest(t, status, due)[t] # <<>>
         /\ \A u \in Tasks : u # t => Latest(t, status, due)[u] = attempts[u]
<1> DEFINE s == attempts[t]
           n == Len(s)
           e == [s[n] EXCEPT !.status = status, !.due = due]
<1>1. s \in Seq(Attempt) /\ n \in Nat /\ n > 0 /\ n \in 1..Len(s)
  <2>1. s \in Seq(Attempt)
    BY DEF TypeOK
  <2>2. n \in Nat
    BY <2>1, LenProperties
  <2>3. n # 0
    BY <2>1, EmptySeq
  <2> QED
    BY <2>1, <2>2, <2>3
<1>2. s[n] \in Attempt
  BY <1>1, ElementOfSeq
<1>3. e \in Attempt
  BY <1>2 DEF Attempt
<1>4. Latest(t, status, due) = [attempts EXCEPT ![t] = [s EXCEPT ![n] = e]]
  BY DEF Latest
<1> HIDE DEF n, e
<1>5. [s EXCEPT ![n] = e] \in Seq(Attempt) /\ Len([s EXCEPT ![n] = e]) = Len(s)
  BY <1>1, <1>3, ExceptSeq
<1>6. [s EXCEPT ![n] = e] # <<>>
  BY <1>1, <1>5 DEF n
<1>7. attempts \in [Tasks -> Seq(Attempt)]
  BY DEF TypeOK
<1> QED
  BY <1>4, <1>5, <1>6, <1>7

---------------------------------------------------------------------------
(* The changes that approve nothing and take no approval *)

\* A change that keeps the plan, of one task.
LEMMA OneQuietStep ==
  ASSUME IInv, NEW t \in Tasks, NEW r, r \in Task, Named(r),
         NEW A, A \in [Tasks -> Seq(Attempt)],
         \A u \in Tasks : u # t => A[u] = attempts[u],
         Quiet(r, Stored[t]), Lived(t, r, A[t]),
         t \notin recalled' => Marked(t, r, A[t]),
         Write(With(t, r), A, plan, defaults),
         run' \in RunStatuses, gates' \subseteq Tasks,
         recalled \subseteq recalled', recalled' \subseteq Tasks,
         now' \in now..MaxTime, edits' \in 0..MaxEdits,
         card' = card, message' = message, basis' = basis
  PROVE  IInv'
<1>1. Tables(With(t, r), A) /\ QuietWrite(With(t, r), A)
  BY OneQuiet
<1>2. defaults \in Policies
  BY DEF IInv, TypeOK
<1> QED
  BY <1>1, <1>2, QuietStep

LEMMA EditTypes ==
  ASSUME TypeOK, Edit
  PROVE  now' \in now..MaxTime /\ edits' \in 0..MaxEdits
<1>1. edits \in 0..MaxEdits /\ edits < MaxEdits /\ edits' = edits + 1
  BY DEF TypeOK, Edit
<1>2. edits' \in 0..MaxEdits
  BY <1>1, PlanAssumption
<1> QED
  BY <1>2 DEF Edit

LEMMA StillTypes ==
  ASSUME TypeOK
  PROVE  /\ run \in RunStatuses /\ gates \subseteq Tasks
         /\ recalled \subseteq Tasks /\ now \in now..MaxTime
         /\ edits \in 0..MaxEdits
<1>1. now \in 1..MaxTime
  BY DEF TypeOK
<1>2. now \in now..MaxTime
  BY <1>1, PlanAssumption
<1> QED
  BY <1>2 DEF TypeOK, RunStatuses

\* A task that has no attempts and has not been approved is given new terms.
LEMMA RevisedKeeps ==
  ASSUME IInv, NEW t \in Tasks, Revisable(t), Edit,
         NEW r, r \in Task, Named(r),
         r.fixed = Stored[t].fixed, r.rollback = Stored[t].rollback,
         r.created = Stored[t].created, r.handoffs = Stored[t].handoffs,
         r.status \in {"pending", "ready", "cancelled"},
         Write(With(t, r), attempts, plan, defaults),
         UNCHANGED <<run, gates, recalled, seenVars>>
  PROVE  IInv'
<1>1. Stored[t].fixed = None /\ attempts[t] = <<>>
      /\ task[t].status \in {"pending", "ready"}
  BY DEF Revisable, NotStarted
<1>2. Quiet(r, Stored[t])
  BY <1>1 DEF Quiet
<1>3. Lived(t, r, attempts[t]) /\ Marked(t, r, attempts[t])
  BY <1>1 DEF Lived, Marked, Gone
<1>4. attempts \in [Tasks -> Seq(Attempt)] /\ TypeOK
  BY DEF IInv, TypeOK
<1>5. /\ run' \in RunStatuses /\ gates' \subseteq Tasks
      /\ recalled \subseteq recalled' /\ recalled' \subseteq Tasks
      /\ card' = card /\ message' = message /\ basis' = basis
  BY <1>4, StillTypes DEF seenVars
<1>6. now' \in now..MaxTime /\ edits' \in 0..MaxEdits
  BY <1>4, EditTypes
<1> QED
  BY <1>2, <1>3, <1>4, <1>5, <1>6, OneQuietStep

\* What a made task has, and what the routes and proposals give it.
LEMMA GivenTypes ==
  ASSUME TypeOK, NEW t \in Tasks, task[t].status # "absent",
         NEW route \in Routes \cup {<<task[t].owner, task[t].worker>>},
         NEW brief \in Proposals \cup {<<task[t].words, task[t].size>>}
  PROVE  /\ route[1] \in Owners /\ route[2] \in Workers
         /\ brief[1] \in Words /\ brief[2] \in Sizes
<1>1. task[t] \in Task /\ Named(task[t])
  BY DEF TypeOK
<1>2. /\ task[t].owner \in Owners /\ task[t].worker \in Workers
      /\ task[t].words \in Words /\ task[t].size \in Sizes
  BY <1>1 DEF Task, Named
<1>3. route \in Owners \X Workers /\ brief \in Words \X Sizes
  BY <1>2, PlanAssumption
<1> QED
  BY <1>3

LEMMA RouteTypes ==
  ASSUME NEW route \in Routes, NEW brief \in Proposals
  PROVE  /\ route[1] \in Owners /\ route[2] \in Workers
         /\ brief[1] \in Words /\ brief[2] \in Sizes
BY PlanAssumption

LEMMA RevisesKeep ==
  ASSUME IInv, NEW t \in Tasks,
         NEW route \in Routes \cup {<<task[t].owner, task[t].worker>>},
         NEW brief \in Proposals \cup {<<task[t].words, task[t].size>>},
         NEW deps \in SUBSET Tasks, Revise(t, route, brief, deps)
  PROVE  IInv'
<1> DEFINE status == ReadyOrPending(Stored, deps)
           r == [Stored[t] EXCEPT
                  !.owner = route[1], !.worker = route[2], !.words = brief[1],
                  !.size = brief[2], !.deps = deps, !.status = status]
<1>1. /\ Edit /\ Revisable(t)
      /\ Write(With(t, r), attempts, plan, defaults)
      /\ UNCHANGED <<run, gates, recalled, seenVars>>
  BY DEF Revise
<1>2. TypeOK /\ task[t].status # "absent"
  BY <1>1 DEF IInv, Revisable, NotStarted
<1>3. /\ route[1] \in Owners /\ route[2] \in Workers
      /\ brief[1] \in Words /\ brief[2] \in Sizes
  BY <1>2, GivenTypes
<1>4. status \in {"pending", "ready"}
  BY DEF ReadyOrPending
<1>5. Stored[t] \in Task
  BY <1>2, StoredTypes
<1> HIDE DEF status
<1>6. /\ r \in Task /\ r.status = status /\ r.owner = route[1]
      /\ r.worker = route[2] /\ r.words = brief[1] /\ r.size = brief[2]
      /\ r.fixed = Stored[t].fixed /\ r.rollback = Stored[t].rollback
      /\ r.created = Stored[t].created
      /\ r.handoffs = Stored[t].handoffs
  BY <1>3, <1>4, <1>5 DEF Task, Statuses
<1> HIDE DEF r
<1>7. Named(r)
  BY <1>3, <1>6, PlanAssumption DEF Named
<1> QED
  BY <1>1, <1>4, <1>6, <1>7, RevisedKeeps

LEMMA WithdrawKeeps ==
  ASSUME IInv, NEW t \in Tasks, Withdraw(t)
  PROVE  IInv'
<1> DEFINE r == [Stored[t] EXCEPT !.status = "cancelled"]
<1>1. /\ Edit /\ Revisable(t)
      /\ Write(With(t, r), attempts, plan, defaults)
      /\ UNCHANGED <<run, gates, recalled, seenVars>>
  BY DEF Withdraw
<1>2. Stored[t] \in Task /\ Named(Stored[t]) /\ Stored[t].status # "absent"
  BY <1>1, StoredTypes DEF IInv, Revisable, NotStarted
<1>3. /\ r \in Task /\ r.status = "cancelled" /\ r.owner = Stored[t].owner
      /\ r.worker = Stored[t].worker /\ r.words = Stored[t].words
      /\ r.size = Stored[t].size /\ r.fixed = Stored[t].fixed
      /\ r.rollback = Stored[t].rollback /\ r.created = Stored[t].created
      /\ r.handoffs = Stored[t].handoffs
  BY <1>2 DEF Task, Statuses
<1> HIDE DEF r
<1>4. Named(r)
  BY <1>2, <1>3 DEF Named
<1> QED
  BY <1>1, <1>3, <1>4, RevisedKeeps

LEMMA SetAccessKeeps ==
  ASSUME IInv, NEW t \in Tasks, NEW worker \in Workers, SetAccess(t, worker)
  PROVE  IInv'
<1> DEFINE r == [Stored[t] EXCEPT !.worker = worker]
<1>1. /\ Edit /\ Revisable(t)
      /\ Write(With(t, r), attempts, plan, defaults)
      /\ UNCHANGED <<run, gates, recalled, seenVars>>
  BY DEF SetAccess
<1>2. /\ Stored[t] \in Task /\ Named(Stored[t])
      /\ Stored[t].status \in {"pending", "ready"}
  BY <1>1, StoredTypes DEF IInv, Revisable, NotStarted
<1>3. /\ r \in Task /\ r.status = Stored[t].status /\ r.owner = Stored[t].owner
      /\ r.worker = worker /\ r.words = Stored[t].words
      /\ r.size = Stored[t].size /\ r.fixed = Stored[t].fixed
      /\ r.rollback = Stored[t].rollback /\ r.created = Stored[t].created
      /\ r.handoffs = Stored[t].handoffs
  BY <1>2 DEF Task
<1> HIDE DEF r
<1>4. Named(r)
  BY <1>2, <1>3, PlanAssumption DEF Named
<1>5. r.status \in {"pending", "ready", "cancelled"}
  BY <1>2, <1>3
<1> QED
  BY <1>1, <1>3, <1>4, <1>5, RevisedKeeps

LEMMA ConfigureKeeps ==
  ASSUME IInv, NEW policy \in Policies, Configure(policy)
  PROVE  IInv'
<1>1. Edit /\ Write(Stored, attempts, plan, policy)
      /\ UNCHANGED <<run, gates, recalled, seenVars>>
  BY DEF Configure
<1>2. TypeOK
  BY DEF IInv
<1>3. Tables(Stored, attempts)
  BY <1>2, StoredTypes DEF Tables, TypeOK
<1>4. QuietWrite(Stored, attempts)
  <2>1. ASSUME NEW t \in Tasks
        PROVE  /\ Quiet(Stored[t], Stored[t])
               /\ Lived(t, Stored[t], attempts[t])
               /\ Marked(t, Stored[t], attempts[t])
    <3>1. Stored[t].status = task[t].status
      BY <1>2, StoredTypes
    <3> QED
      BY <3>1 DEF Quiet, Lived, Marked, IInv, HistoryInv
  <2> QED
    BY <2>1 DEF QuietWrite
<1>5. /\ run' \in RunStatuses /\ gates' \subseteq Tasks
      /\ recalled \subseteq recalled' /\ recalled' \subseteq Tasks
      /\ card' = card /\ message' = message /\ basis' = basis
  BY <1>1, <1>2, StillTypes DEF seenVars
<1>6. now' \in now..MaxTime /\ edits' \in 0..MaxEdits
  BY <1>1, <1>2, EditTypes
<1> QED
  BY <1>1, <1>3, <1>4, <1>5, <1>6, QuietStep

---------------------------------------------------------------------------
(* Starts *)

\* What is accepted of a task that was never withdrawn is approved.
LEMMA AcceptedIsApproved ==
  ASSUME IInv, NEW t \in Tasks \ recalled, NEW worker, Accepted(t, worker)
  PROVE  /\ Stored[t] = task[t]
         /\ task[t].fixed # None
         /\ task[t].fixed.worker = worker
         /\ task[t].fixed.owner = task[t].owner
<1>1. Stored[t] = task[t]
  BY StoredIsTask
<1>2. task[t].status \notin Gone
  BY DEF Accepted
<1>3. task[t].fixed # None
  <2>1. SUFFICES ASSUME task[t].fixed = None PROVE FALSE
    OBVIOUS
  <2>2. plan.status = "pending"
    BY <1>2, <2>1 DEF IInv, MarkInv
  <2>3. Below(t, t)
    BY DEF Below
  <2>4. HeldByPlan(t)
    BY <1>1, <2>1, <2>2, <2>3 DEF HeldByPlan
  <2> QED
    BY <2>4 DEF Accepted
<1> QED
  BY <1>1, <1>3 DEF Accepted, KeepsTo

LEMMA BegunTypes ==
  ASSUME IInv, NEW t \in Tasks, NEW worker \in Workers,
         task[t].status \notin Gone
  PROVE  /\ Begun(t, worker) \in Seq(Attempt)
         /\ Begun(t, worker) # <<>>
         /\ Len(Begun(t, worker)) = Len(attempts[t]) + 1
         /\ Last(Begun(t, worker)).owner = task[t].owner
         /\ Last(Begun(t, worker)).worker = worker
         /\ Stored[t].fixed # None =>
              Last(Begun(t, worker)).policy = Stored[t].fixed.policy
<1> DEFINE before == attempts[t]
           status == IF Last(before).status = "blocked" THEN "cancelled"
                     ELSE Last(before).status
           past == IF before = <<>> THEN <<>> ELSE Latest(t, status, FALSE)[t]
           policy == IF Stored[t].fixed # None THEN Stored[t].fixed.policy
                     ELSE defaults
           e == [owner |-> task[t].owner, worker |-> worker, policy |-> policy,
                 at |-> now, due |-> FALSE, status |-> "running"]
<1>1. TypeOK /\ before \in Seq(Attempt)
  BY DEF IInv, TypeOK
<1>2. past \in Seq(Attempt) /\ Len(past) = Len(before)
  <2>1. CASE before = <<>>
    BY <1>1, <2>1, EmptySeq
  <2>2. CASE before # <<>>
    <3>1. Last(before) \in Attempt
      <4>1. Len(before) \in Nat \ {0}
        BY <1>1, <2>2, EmptySeq
      <4>2. before[Len(before)] \in Attempt
        BY <1>1, <4>1, ElementOfSeq
      <4> QED
        BY <4>2 DEF Last
    <3>2. status \in {"running", "blocked", "failed", "completed", "cancelled"}
      BY <3>1 DEF Attempt
    <3> HIDE DEF status
    <3>3. /\ Latest(t, status, FALSE) \in [Tasks -> Seq(Attempt)]
          /\ Len(Latest(t, status, FALSE)[t]) = Len(attempts[t])
      BY <1>1, <2>2, <3>2, LatestTypes
    <3> QED
      BY <2>2, <3>3
  <2> QED
    BY <2>1, <2>2
<1>3. e \in Attempt
  <2>1. task[t].owner \in Owners
    <3>1. task[t] \in Task /\ Named(task[t]) /\ task[t].status # "absent"
      BY <1>1 DEF TypeOK, Gone
    <3> QED
      BY <3>1 DEF Task, Named
  <2>2. policy \in Policies
    <3>1. Stored[t] \in Task
      BY <1>1, StoredTypes
    <3>2. defaults \in Policies
      BY <1>1 DEF TypeOK
    <3> QED
      BY <3>1, <3>2 DEF Task, Fixed
  <2>3. now \in 1..MaxTime
    BY <1>1 DEF TypeOK
  <2> QED
    BY <2>1, <2>2, <2>3 DEF Attempt
<1>4. Begun(t, worker) = Append(past, e)
  BY DEF Begun
<1> HIDE DEF past, before
<1>5. /\ Append(past, e) \in Seq(Attempt)
      /\ Len(Append(past, e)) = Len(before) + 1
      /\ Append(past, e)[Len(before) + 1] = e
  <2> HIDE DEF e
  <2> QED
    BY <1>2, <1>3, AppendProperties
<1>6. Append(past, e) # <<>> /\ Last(Append(past, e)) = e
  <2>1. Len(before) \in Nat
    BY <1>1, LenProperties
  <2>2. Len(Append(past, e)) # 0
    BY <1>5, <2>1
  <2>3. Append(past, e) # <<>>
    BY <2>2, EmptySeq
  <2> HIDE DEF e
  <2> QED
    BY <1>5, <2>3 DEF Last
<1>7. /\ e.owner = task[t].owner /\ e.worker = worker
      /\ Stored[t].fixed # None => e.policy = Stored[t].fixed.policy
  OBVIOUS
<1> HIDE DEF e
<1> QED
  BY <1>4, <1>5, <1>6, <1>7 DEF before

LEMMA StartKeeps ==
  ASSUME IInv, NEW t \in Tasks, NEW worker \in Workers, Start(t, worker)
  PROVE  IInv'
<1> DEFINE r == [Stored[t] EXCEPT !.status = "running", !.worker = worker]
           A == [attempts EXCEPT ![t] = Begun(t, worker)]
<1>1. /\ Accepted(t, worker)
      /\ Write(With(t, r), A, plan, defaults)
      /\ run' = "running"
      /\ UNCHANGED <<gates, now, edits, recalled, seenVars>>
  BY DEF Start
<1>2. TypeOK /\ task[t].status \notin Gone
  BY <1>1 DEF IInv, Accepted
<1>3. Begun(t, worker) \in Seq(Attempt) /\ Begun(t, worker) # <<>>
  BY <1>2, BegunTypes
<1>4. /\ A \in [Tasks -> Seq(Attempt)] /\ A[t] # <<>>
      /\ \A u \in Tasks : u # t => A[u] = attempts[u]
  <2>1. attempts \in [Tasks -> Seq(Attempt)]
    BY <1>2 DEF TypeOK
  <2> QED
    BY <1>3, <2>1
<1>5. /\ Stored[t] \in Task /\ Named(Stored[t])
      /\ Stored[t].status = task[t].status
  BY <1>2, StoredTypes
<1>6. /\ r \in Task /\ r.status = "running" /\ r.owner = Stored[t].owner
      /\ r.worker = worker /\ r.words = Stored[t].words
      /\ r.size = Stored[t].size /\ r.fixed = Stored[t].fixed
      /\ r.rollback = Stored[t].rollback /\ r.created = Stored[t].created
      /\ r.handoffs = Stored[t].handoffs
  BY <1>5 DEF Task, Statuses
<1> HIDE DEF r, A
<1>7. Named(r) /\ Quiet(r, Stored[t])
  <2>1. Stored[t].status # "absent"
    BY <1>2, <1>5 DEF Gone
  <2> QED
    BY <1>5, <1>6, <2>1, PlanAssumption DEF Named, Quiet
<1>8. Lived(t, r, A[t])
  BY <1>4, <1>6 DEF Lived, Gone
<1>9. t \notin recalled' => Marked(t, r, A[t])
  BY <1>1, <1>2, AcceptedIsApproved DEF Marked
<1>10. /\ run' \in RunStatuses /\ gates' \subseteq Tasks
       /\ recalled \subseteq recalled' /\ recalled' \subseteq Tasks
       /\ now' \in now..MaxTime /\ edits' \in 0..MaxEdits
       /\ card' = card /\ message' = message /\ basis' = basis
  BY <1>1, <1>2, StillTypes DEF seenVars, RunStatuses
<1> QED
  BY <1>1, <1>4, <1>6, <1>7, <1>8, <1>9, <1>10, OneQuietStep

\* The settings of an attempt that was made.
LEMMA AttemptWorker ==
  ASSUME IInv, NEW t \in Tasks, NEW i \in DOMAIN attempts[t]
  PROVE  attempts[t][i].worker \in Workers
<1>1. attempts[t] \in Seq(Attempt)
  BY DEF IInv, TypeOK
<1>2. i \in 1..Len(attempts[t])
  BY <1>1, LenProperties
<1>3. attempts[t][i] \in Attempt
  BY <1>1, <1>2, ElementOfSeq
<1> QED
  BY <1>3 DEF Attempt

LEMMA StartFromPageKeeps ==
  ASSUME IInv, NEW t \in Tasks, NEW i, StartFromPage(t, i)
  PROVE  IInv'
<1>1. i \in DOMAIN attempts[t] /\ Start(t, attempts[t][i].worker)
  BY DEF StartFromPage
<1> QED
  BY <1>1, AttemptWorker, StartKeeps

\* Changes of the status of a task with attempts, by its worker or its host.
LEMMA RunningKeeps ==
  ASSUME IInv, NEW t \in Tasks, attempts[t] # <<>>, NEW status \in Statuses,
         status \notin Gone,
         NEW A, A \in [Tasks -> Seq(Attempt)], A[t] # <<>>,
         \A u \in Tasks : u # t => A[u] = attempts[u],
         NEW r, r = [Stored[t] EXCEPT !.status = status]
  PROVE  Tables(With(t, r), A) /\ QuietWrite(With(t, r), A)
<1>1. TypeOK /\ task[t].status \notin Gone
  BY DEF IInv, HistoryInv
<1>2. /\ Stored[t] \in Task /\ Named(Stored[t])
      /\ Stored[t].status = task[t].status
  BY <1>1, StoredTypes
<1>3. /\ r \in Task /\ r.status = status /\ r.owner = Stored[t].owner
      /\ r.worker = Stored[t].worker /\ r.words = Stored[t].words
      /\ r.size = Stored[t].size /\ r.fixed = Stored[t].fixed
      /\ r.rollback = Stored[t].rollback /\ r.created = Stored[t].created
      /\ r.handoffs = Stored[t].handoffs
  BY <1>2 DEF Task
<1>4. Named(r) /\ Quiet(r, Stored[t])
  <2>1. Stored[t].status # "absent"
    BY <1>1, <1>2 DEF Gone
  <2> QED
    BY <1>2, <1>3, <2>1 DEF Named, Quiet
<1>5. Lived(t, r, A[t]) /\ Marked(t, r, A[t])
  BY <1>1, <1>3 DEF Lived, Marked, Gone
<1> QED
  BY <1>3, <1>4, <1>5, OneQuiet

LEMMA RecoverKeeps ==
  ASSUME IInv, NEW t \in Tasks, NEW quota \in BOOLEAN, Recover(t, quota)
  PROVE  IInv'
<1> DEFINE worker == IF quota THEN Canonical(t) ELSE Last(attempts[t]).worker
           r == [Stored[t] EXCEPT !.status = "failed"]
           A == Latest(t, "failed", FALSE)
<1>1. TypeOK /\ attempts[t] # <<>>
  BY DEF IInv, Recover
<1>2. CASE Accepted(t, worker)
  <2>1. Start(t, worker)
    BY <1>2 DEF Recover
  <2>2. worker \in Workers
    <3>1. task[t].status # "absent"
      BY <1>2 DEF Accepted, Gone
    <3>2. Canonical(t) \in Workers
      <4>1. Stored[t] \in Task /\ task[t] \in Task /\ Named(task[t])
        BY <1>1, StoredTypes DEF TypeOK
      <4>2. Stored[t].fixed # None => Stored[t].fixed.worker \in Workers
        BY <4>1 DEF Task, Fixed
      <4>3. task[t].worker \in Workers
        BY <3>1, <4>1 DEF Task, Named
      <4> QED
        BY <4>2, <4>3 DEF Canonical
    <3>3. Last(attempts[t]).worker \in Workers
      <4>1. attempts[t] \in Seq(Attempt)
        BY <1>1 DEF TypeOK
      <4>2. Len(attempts[t]) \in Nat \ {0}
        BY <1>1, <4>1, EmptySeq
      <4>3. attempts[t][Len(attempts[t])] \in Attempt
        BY <4>1, <4>2, ElementOfSeq
      <4> QED
        BY <4>3 DEF Last, Attempt
    <3> QED
      BY <3>2, <3>3
  <2> HIDE DEF worker
  <2> QED
    BY <2>1, <2>2, StartKeeps
<1>3. CASE ~Accepted(t, worker)
  <2>1. /\ Write(With(t, r), A, plan, defaults)
        /\ run' = Recomputed(task', gates)
        /\ UNCHANGED <<gates, now, edits, recalled, seenVars>>
    BY <1>3 DEF Recover
  <2> HIDE DEF A
  <2>2. /\ A \in [Tasks -> Seq(Attempt)] /\ A[t] # <<>>
        /\ \A u \in Tasks : u # t => A[u] = attempts[u]
    BY <1>1, LatestTypes DEF A
  <2>3. Tables(With(t, r), A) /\ QuietWrite(With(t, r), A)
    <3>1. "failed" \in Statuses /\ "failed" \notin Gone
      BY DEF Statuses, Gone
    <3> QED
      BY <1>1, <2>2, <3>1, RunningKeeps
  <2> HIDE DEF r
  <2>4. /\ run' \in RunStatuses /\ gates' \subseteq Tasks
        /\ recalled \subseteq recalled' /\ recalled' \subseteq Tasks
        /\ now' \in now..MaxTime /\ edits' \in 0..MaxEdits
        /\ card' = card /\ message' = message /\ basis' = basis
    BY <1>1, <2>1, StillTypes, RecomputedRun DEF seenVars
  <2>5. defaults \in Policies
    BY <1>1 DEF TypeOK
  <2> QED
    BY <2>1, <2>3, <2>4, <2>5, QuietStep
<1> QED
  BY <1>2, <1>3

LEMMA ReportKeeps ==
  ASSUME IInv, NEW t \in Tasks, NEW outcome \in {"completed", "failed", "blocked"},
         Report(t, outcome)
  PROVE  IInv'
<1> DEFINE r == [Stored[t] EXCEPT !.status = outcome]
           A == Latest(t, outcome, FALSE)
           T == With(t, r)
<1>1. TypeOK /\ attempts[t] # <<>>
  BY DEF IInv, Report, Working
<1>2. /\ Write(MakeReady(T), A, plan, defaults)
      /\ run' = Recomputed(task', gates)
      /\ UNCHANGED <<gates, now, edits, recalled, seenVars>>
  BY DEF Report
<1> HIDE DEF A
<1>3. /\ A \in [Tasks -> Seq(Attempt)] /\ A[t] # <<>>
      /\ \A u \in Tasks : u # t => A[u] = attempts[u]
  BY <1>1, LatestTypes DEF A
<1>4. Tables(T, A) /\ QuietWrite(T, A)
  <2>1. outcome \in Statuses /\ outcome \notin Gone
    BY DEF Statuses, Gone
  <2> QED
    BY <1>1, <1>3, <2>1, RunningKeeps
<1> HIDE DEF T
<1>5. Tables(MakeReady(T), A) /\ QuietWrite(MakeReady(T), A)
  BY <1>4, MakeReadyQuiet
<1>6. /\ run' \in RunStatuses /\ gates' \subseteq Tasks
      /\ recalled \subseteq recalled' /\ recalled' \subseteq Tasks
      /\ now' \in now..MaxTime /\ edits' \in 0..MaxEdits
      /\ card' = card /\ message' = message /\ basis' = basis
  BY <1>1, <1>2, StillTypes, RecomputedRun DEF seenVars
<1>7. defaults \in Policies
  BY <1>1 DEF TypeOK
<1> QED
  BY <1>2, <1>5, <1>6, <1>7, QuietStep

LEMMA FailKeeps ==
  ASSUME IInv, NEW t \in Tasks, NEW retryable \in BOOLEAN, Fail(t, retryable)
  PROVE  IInv'
<1> DEFINE due == retryable /\ t \notin gates
           status == IF due THEN "blocked" ELSE "failed"
           r == [Stored[t] EXCEPT !.status = status]
           A == Latest(t, "failed", due)
<1>1. TypeOK /\ attempts[t] # <<>>
  BY DEF IInv, Fail, Unsettled
<1>2. /\ Write(With(t, r), A, plan, defaults)
      /\ gates' = gates \ {t}
      /\ run' = Recomputed(task', gates')
      /\ UNCHANGED <<now, edits, recalled, seenVars>>
  BY DEF Fail
<1>3. due \in BOOLEAN /\ status \in Statuses /\ status \notin Gone
  BY DEF Statuses, Gone
<1> HIDE DEF due, status, A
<1>4. /\ A \in [Tasks -> Seq(Attempt)] /\ A[t] # <<>>
      /\ \A u \in Tasks : u # t => A[u] = attempts[u]
  BY <1>1, <1>3, LatestTypes DEF A
<1>5. Tables(With(t, r), A) /\ QuietWrite(With(t, r), A)
  BY <1>1, <1>3, <1>4, RunningKeeps
<1> HIDE DEF r
<1>6. /\ run' \in RunStatuses /\ gates' \subseteq Tasks
      /\ recalled \subseteq recalled' /\ recalled' \subseteq Tasks
      /\ now' \in now..MaxTime /\ edits' \in 0..MaxEdits
      /\ card' = card /\ message' = message /\ basis' = basis
  BY <1>1, <1>2, StillTypes, RecomputedRun DEF seenVars
<1>7. defaults \in Policies
  BY <1>1 DEF TypeOK
<1> QED
  BY <1>2, <1>5, <1>6, <1>7, QuietStep

\* A gate keeps the task apart when it was withdrawn.
LEMMA AskGateKeeps ==
  ASSUME IInv, NEW t \in Tasks, AskGate(t)
  PROVE  IInv'
<1> DEFINE r == [Stored[t] EXCEPT !.status = "blocked"]
           A == IF attempts[t] = <<>> THEN attempts
                ELSE Latest(t, "blocked", FALSE)
<1>1. TypeOK /\ task[t].status # "absent"
  BY DEF IInv, AskGate, Exists
<1>2. /\ Edit
      /\ Write(With(t, r), A, plan, defaults)
      /\ gates' = gates \cup {t}
      /\ run' = "waiting"
      /\ recalled' = IF task[t].status = "cancelled" THEN recalled \cup {t}
                     ELSE recalled
      /\ UNCHANGED seenVars
  BY DEF AskGate
<1>3. /\ A \in [Tasks -> Seq(Attempt)] /\ (A[t] = <<>> <=> attempts[t] = <<>>)
      /\ \A u \in Tasks : u # t => A[u] = attempts[u]
  <2>1. CASE attempts[t] = <<>>
    BY <1>1, <2>1 DEF TypeOK
  <2>2. CASE attempts[t] # <<>>
    BY <1>1, <2>2, LatestTypes
  <2> QED
    BY <2>1, <2>2
<1>4. /\ Stored[t] \in Task /\ Named(Stored[t])
      /\ Stored[t].status = task[t].status
  BY <1>1, StoredTypes
<1>5. /\ r \in Task /\ r.status = "blocked" /\ r.owner = Stored[t].owner
      /\ r.worker = Stored[t].worker /\ r.words = Stored[t].words
      /\ r.size = Stored[t].size /\ r.fixed = Stored[t].fixed
      /\ r.rollback = Stored[t].rollback /\ r.created = Stored[t].created
      /\ r.handoffs = Stored[t].handoffs
  BY <1>4 DEF Task, Statuses
<1> HIDE DEF r, A
<1>6. Named(r) /\ Quiet(r, Stored[t])
  BY <1>1, <1>4, <1>5 DEF Named, Quiet
<1>7. Lived(t, r, A[t])
  BY <1>3, <1>5 DEF Lived, Gone
<1>8. t \notin recalled' => Marked(t, r, A[t])
  BY <1>1, <1>2, <1>3 DEF Marked, Gone
<1>9. /\ run' \in RunStatuses /\ gates' \subseteq Tasks
      /\ recalled \subseteq recalled' /\ recalled' \subseteq Tasks
      /\ now' \in now..MaxTime /\ edits' \in 0..MaxEdits
      /\ card' = card /\ message' = message /\ basis' = basis
  BY <1>1, <1>2, StillTypes, EditTypes DEF seenVars, RunStatuses
<1> QED
  BY <1>2, <1>3, <1>5, <1>6, <1>7, <1>8, <1>9, OneQuietStep

LEMMA ResolveGateKeeps ==
  ASSUME IInv, NEW t \in Tasks, ResolveGate(t)
  PROVE  IInv'
<1> DEFINE resumed == attempts[t] # <<>> /\ Last(attempts[t]).status = "blocked"
           status == IF Stored[t].status # "blocked" THEN Stored[t].status
                     ELSE IF attempts[t] # <<>> THEN "running" ELSE "ready"
           r == [Stored[t] EXCEPT !.status = status]
           A == IF resumed THEN Latest(t, "running", FALSE) ELSE attempts
<1>1. TypeOK
  BY DEF IInv
<1>2. /\ Write(With(t, r), A, plan, defaults)
      /\ gates' = gates \ {t}
      /\ run' = Recomputed(task', gates')
      /\ UNCHANGED <<now, edits, recalled, seenVars>>
  BY DEF ResolveGate
<1>3. /\ A \in [Tasks -> Seq(Attempt)] /\ (A[t] = <<>> <=> attempts[t] = <<>>)
      /\ \A u \in Tasks : u # t => A[u] = attempts[u]
  <2>1. CASE ~resumed
    BY <1>1, <2>1 DEF TypeOK
  <2>2. CASE resumed
    <3>1. attempts[t] # <<>>
      BY <2>2
    <3> QED
      BY <1>1, <2>2, <3>1, LatestTypes
  <2> QED
    BY <2>1, <2>2
<1>4. /\ Stored[t] \in Task /\ Named(Stored[t])
      /\ Stored[t].status = task[t].status
  BY <1>1, StoredTypes
<1>5. /\ status \in Statuses
      /\ status = "running" => attempts[t] # <<>> \/ Stored[t].status = "running"
      /\ status \in Gone \cup {"completed", "failed"} => status = Stored[t].status
      /\ status = "absent" <=> Stored[t].status = "absent"
      /\ Stored[t].status \in Gone => status = Stored[t].status
  BY <1>4 DEF Task, Statuses, Gone
<1> HIDE DEF status, A, resumed
<1>6. /\ r \in Task /\ r.status = status /\ r.owner = Stored[t].owner
      /\ r.worker = Stored[t].worker /\ r.words = Stored[t].words
      /\ r.size = Stored[t].size /\ r.fixed = Stored[t].fixed
      /\ r.rollback = Stored[t].rollback /\ r.created = Stored[t].created
      /\ r.handoffs = Stored[t].handoffs
  BY <1>4, <1>5 DEF Task
<1> HIDE DEF r
<1>7. Named(r) /\ Quiet(r, Stored[t])
  BY <1>4, <1>5, <1>6 DEF Named, Quiet
<1>8. Lived(t, r, A[t])
  <2>1. /\ Stored[t].status \in Gone => attempts[t] = <<>>
        /\ Stored[t].status \in {"completed", "failed", "running"} =>
             attempts[t] # <<>>
    BY <1>4 DEF IInv, HistoryInv
  <2> QED
    BY <1>3, <1>4, <1>5, <1>6, <2>1 DEF Lived
<1>9. Marked(t, r, A[t])
  BY <1>3, <1>4, <1>5, <1>6 DEF Marked
<1>10. /\ run' \in RunStatuses /\ gates' \subseteq Tasks
       /\ recalled \subseteq recalled' /\ recalled' \subseteq Tasks
       /\ now' \in now..MaxTime /\ edits' \in 0..MaxEdits
       /\ card' = card /\ message' = message /\ basis' = basis
  BY <1>1, <1>2, StillTypes, RecomputedRun DEF seenVars
<1> QED
  BY <1>2, <1>3, <1>6, <1>7, <1>8, <1>9, <1>10, OneQuietStep

---------------------------------------------------------------------------
(* Changes that put the plan back before the person *)

\* What the invariant says of a task r with attempts a, of which the person
\* had seen b, under plan p.
GoodHistory(r, a) ==
  /\ r.status \in Gone => a = <<>>
  /\ r.status \in {"completed", "failed", "running"} => a # <<>>
  /\ r.rollback # None =>
       /\ r.fixed = None
       /\ r.rollback.status \in {"pending", "ready", "failed", "blocked"}
       /\ r.rollback.status = "failed" => a # <<>>
       /\ r.rollback.handoffs <= Len(r.handoffs)
GoodMarks(r, a, p) ==
  /\ r.status \notin Gone /\ r.fixed = None =>
       /\ p.status = "pending"
       /\ r.rollback = None => r.created >= p.requested
  /\ a # <<>> => r.fixed # None \/ r.rollback # None
GoodBasis(r, b) ==
  /\ r.status = "absent" => b = None
  /\ b # None => r.fixed # None \/ r.rollback # None
  /\ r.fixed # None =>
       /\ b # None
       /\ r.fixed = FixedAs(b)
       /\ r.owner = b.shown.owner /\ r.size = b.shown.size
  /\ r.rollback # None =>
       /\ b # None
       /\ r.rollback.fixed = FixedAs(b)
       /\ r.rollback.owner = b.shown.owner /\ r.rollback.size = b.shown.size

LEMMA GoodTasks ==
  ASSUME IInv
  PROVE  /\ \A t \in Tasks : GoodHistory(task[t], attempts[t])
         /\ \A t \in Tasks \ recalled :
              GoodMarks(task[t], attempts[t], plan) /\ GoodBasis(task[t], basis[t])
BY DEF IInv, HistoryInv, MarkInv, BasisInv, GoodHistory, GoodMarks, GoodBasis

LEMMA GoodStored ==
  ASSUME IInv, NEW t \in Tasks
  PROVE  /\ GoodHistory(Stored[t], attempts[t])
         /\ t \notin recalled =>
              /\ GoodMarks(Stored[t], attempts[t], plan)
              /\ GoodBasis(Stored[t], basis[t])
<1>1. GoodHistory(Stored[t], attempts[t])
  <2>1. GoodHistory(task[t], attempts[t])
    BY GoodTasks
  <2>2. TypeOK
    BY DEF IInv
  <2> QED
    BY <2>1, <2>2, StoredTypes DEF GoodHistory
<1>2. ASSUME t \notin recalled PROVE Stored[t] = task[t]
  BY <1>2, StoredIsTask
<1> QED
  BY <1>1, <1>2, GoodTasks

LEMMA GoodStep ==
  ASSUME IInv, NEW T, NEW A, Tables(T, A), NEW d \in Policies,
         NEW p, p \in Plans, p.revision = plan.revision, p.scope = plan.scope,
         Write(T, A, p, d),
         \A t \in Tasks : GoodHistory(T[t], A[t]),
         \A t \in Tasks \ recalled :
           GoodMarks(T[t], A[t], p) /\ GoodBasis(T[t], basis'[t]),
         run' \in RunStatuses, basis' \in [Tasks -> Seen \cup {None}],
         gates' \subseteq Tasks, recalled' = recalled,
         now' \in 1..MaxTime, p.requested <= now', edits' \in 0..MaxEdits,
         card' = card,
         message' = message \/
           (message # NoMessage /\ message' = [message EXCEPT !.spent = TRUE])
  PROVE  IInv'
<1>1. /\ task' = T /\ attempts' = A /\ plan'.status = p.status
      /\ plan'.requested = p.requested
  BY WriteEffect
<1>2. HistoryInv'
  BY <1>1 DEF HistoryInv, GoodHistory, Gone
<1>3. MarkInv'
  BY <1>1 DEF MarkInv, GoodMarks, Gone
<1>4. BasisInv'
  BY <1>1 DEF BasisInv, GoodBasis, FixedAs
<1>5. TypeOK'
  <2>1. TypeOK /\ recalled' \subseteq Tasks
    BY DEF IInv, TypeOK
  <2> QED
    BY <2>1, WriteTypes DEF RunStatuses
<1>6. ScopeInv'
  <2>1. message'.revision = message.revision /\ message'.scope = message.scope
    <3>1. message # NoMessage =>
            message \in [revision : 1..plan.revision, scope : Scopes,
                        spent : BOOLEAN]
      BY DEF IInv, TypeOK
    <3> QED
      BY <3>1
  <2> QED
    BY <2>1, WriteKeepsScope
<1> QED
  BY <1>2, <1>3, <1>4, <1>5, <1>6 DEF IInv

LEMMA ReopenedPlan ==
  ASSUME IInv, Edit
  PROVE  /\ Reopened(plan) \in Plans
         /\ Reopened(plan).status = "pending"
         /\ Reopened(plan).revision = plan.revision
         /\ Reopened(plan).scope = plan.scope
         /\ Reopened(plan).requested <= now'
         /\ plan.status = "pending" => Reopened(plan).requested = plan.requested
         /\ now' \in 1..MaxTime
<1>1. /\ plan \in Plans /\ now \in 1..MaxTime /\ plan.requested <= now
      /\ now' \in now..MaxTime
  BY DEF IInv, TypeOK, ScopeInv, Edit
<1>2. now' \in 1..MaxTime /\ now <= now'
  <2>1. MaxTime \in Nat
    BY PlanAssumption
  <2> QED
    BY <1>1, <2>1
<1>3. CASE plan.status = "pending"
  <2>1. Reopened(plan) = plan
    BY <1>3 DEF Reopened
  <2>2. plan.requested \in 1..MaxTime /\ MaxTime \in Nat
    BY <1>1, PlanAssumption DEF Plans
  <2> QED
    BY <1>1, <1>2, <1>3, <2>1, <2>2
<1>4. CASE plan.status # "pending"
  <2> DEFINE n == now'
             q == [plan EXCEPT !.status = "pending", !.requested = n]
  <2>1. Reopened(plan) = q
    BY <1>4 DEF Reopened
  <2>2. n \in 1..MaxTime /\ n <= n
    BY <1>2, PlanAssumption
  <2> HIDE DEF n
  <2>3. /\ q \in Plans /\ q.status = "pending"
        /\ q.revision = plan.revision /\ q.scope = plan.scope
        /\ q.requested = n
    BY <1>1, <2>2 DEF Plans
  <2> HIDE DEF q
  <2> QED
    BY <1>2, <1>4, <2>1, <2>2, <2>3 DEF n
<1> QED
  BY <1>3, <1>4

\* Of the tasks a change does not touch, none goes unapproved under a plan
\* that is reopened.
LEMMA ReopenKeeps ==
  ASSUME IInv, Edit, NEW t \in Tasks, NEW r, r \in Task, Named(r),
         Write(With(t, r), attempts, Reopened(plan), defaults),
         GoodHistory(r, attempts[t]),
         t \notin recalled =>
           /\ GoodMarks(r, attempts[t], Reopened(plan))
           /\ GoodBasis(r, basis[t]),
         run' \in RunStatuses,
         UNCHANGED <<gates, recalled, seenVars>>
  PROVE  IInv'
<1>1. TypeOK /\ basis' = basis
  BY DEF IInv, seenVars
<1>2. /\ With(t, r) \in [Tasks -> Task]
      /\ \A u \in Tasks : Named(With(t, r)[u])
      /\ With(t, r)[t] = r
      /\ \A u \in Tasks : u # t => With(t, r)[u] = Stored[u]
  BY <1>1, WithTypes
<1>3. Tables(With(t, r), attempts) /\ defaults \in Policies
  BY <1>1, <1>2 DEF Tables, TypeOK
<1>4. /\ Reopened(plan) \in Plans /\ Reopened(plan).status = "pending"
      /\ Reopened(plan).revision = plan.revision
      /\ Reopened(plan).scope = plan.scope
      /\ Reopened(plan).requested <= now' /\ now' \in 1..MaxTime
      /\ plan.status = "pending" => Reopened(plan).requested = plan.requested
  BY ReopenedPlan
<1>5. ASSUME NEW u \in Tasks, u # t
      PROVE  /\ GoodHistory(Stored[u], attempts[u])
             /\ u \notin recalled =>
                  /\ GoodMarks(Stored[u], attempts[u], Reopened(plan))
                  /\ GoodBasis(Stored[u], basis'[u])
  <2>1. /\ GoodHistory(Stored[u], attempts[u])
        /\ u \notin recalled => GoodMarks(Stored[u], attempts[u], plan)
                              /\ GoodBasis(Stored[u], basis[u])
    BY GoodStored
  <2>2. GoodMarks(Stored[u], attempts[u], plan) =>
          GoodMarks(Stored[u], attempts[u], Reopened(plan))
    BY <1>4 DEF GoodMarks
  <2> QED
    BY <1>1, <2>1, <2>2
<1>6. \A u \in Tasks : GoodHistory(With(t, r)[u], attempts[u])
  BY <1>2, <1>5
<1>7. \A u \in Tasks \ recalled :
        /\ GoodMarks(With(t, r)[u], attempts[u], Reopened(plan))
        /\ GoodBasis(With(t, r)[u], basis'[u])
  BY <1>1, <1>2, <1>5
<1>8. /\ gates' \subseteq Tasks /\ recalled' = recalled
      /\ basis' \in [Tasks -> Seen \cup {None}]
      /\ edits' \in 0..MaxEdits /\ card' = card /\ message' = message
  BY <1>1, StillTypes, EditTypes DEF TypeOK, seenVars
<1> QED
  BY <1>3, <1>4, <1>6, <1>7, <1>8, GoodStep

LEMMA CreateTaskKeeps ==
  ASSUME IInv, NEW t \in Tasks, NEW deps \in SUBSET Tasks,
         NEW route, NEW brief, CreateTask(t, route, brief, deps)
  PROVE  IInv'
<1> DEFINE status == ReadyOrPending(Stored, deps)
           made == now'
           r == [NoTask EXCEPT
                  !.status = status, !.owner = route[1], !.worker = route[2],
                  !.words = brief[1], !.size = brief[2], !.deps = deps,
                  !.created = made]
<1>1. /\ Edit /\ ~Exists(t) /\ route \in Routes /\ brief \in Proposals
      /\ Write(With(t, r), attempts, Reopened(plan), defaults)
      /\ run' = "running"
      /\ UNCHANGED <<gates, recalled, seenVars>>
  BY DEF CreateTask
<1>2. /\ route[1] \in Owners /\ route[2] \in Workers
      /\ brief[1] \in Words /\ brief[2] \in Sizes
  BY <1>1, RouteTypes
<1>3. status \in {"pending", "ready"}
  BY DEF ReadyOrPending
<1>4. made \in 1..MaxTime /\ Reopened(plan).requested <= made
  BY <1>1, ReopenedPlan
<1>5. Reopened(plan).requested \in Nat /\ Reopened(plan).status = "pending"
  <2>1. Reopened(plan) \in Plans /\ Reopened(plan).status = "pending"
    BY <1>1, ReopenedPlan
  <2> QED
    BY <2>1, PlanAssumption DEF Plans
<1> HIDE DEF status, made
<1>6. made \in 0..MaxTime /\ made \in Nat
  BY <1>4, PlanAssumption
<1>7. /\ NoTask \in Task /\ NoTask.fixed = None /\ NoTask.rollback = None
  <2>1. <<>> \in Seq([to : Owners, at : 1..MaxTime])
    BY EmptySeq
  <2>2. 0 \in 0..MaxTime
    BY PlanAssumption
  <2> QED
    BY <2>1, <2>2 DEF NoTask, Task, Statuses
<1>8. /\ r \in Task /\ r.status = status /\ r.owner = route[1]
      /\ r.worker = route[2] /\ r.words = brief[1] /\ r.size = brief[2]
      /\ r.fixed = NoTask.fixed /\ r.rollback = NoTask.rollback
      /\ r.created = made
  BY <1>2, <1>3, <1>6, <1>7 DEF Task, Statuses
<1> HIDE DEF r
<1>9. Named(r)
  BY <1>2, <1>8, PlanAssumption DEF Named
<1>10. task[t].status = "absent" /\ attempts[t] = <<>>
  BY <1>1 DEF Exists, IInv, HistoryInv, Gone
<1>11. GoodHistory(r, attempts[t])
  BY <1>3, <1>7, <1>8, <1>10 DEF GoodHistory, Gone
<1>12. GoodMarks(r, attempts[t], Reopened(plan))
  BY <1>4, <1>5, <1>6, <1>7, <1>8, <1>10 DEF GoodMarks
<1>13. t \notin recalled => GoodBasis(r, basis[t])
  <2>1. t \notin recalled => basis[t] = None
    BY <1>10 DEF IInv, BasisInv
  <2> QED
    BY <1>3, <1>7, <1>8, <2>1 DEF GoodBasis
<1>14. run' \in RunStatuses
  BY <1>1 DEF RunStatuses
<1> QED
  BY <1>1, <1>8, <1>9, <1>11, <1>12, <1>13, <1>14, ReopenKeeps

\* What is kept of an approval that is taken.
LEMMA KeptTypes ==
  ASSUME IInv, NEW t \in Tasks,
         task[t].status \in {"pending", "ready", "failed", "blocked"}
  PROVE  /\ Kept(Stored[t]) \in Rollback \cup {None}
         /\ Kept(Stored[t]) # None =>
              /\ Kept(Stored[t]).status
                   \in {"pending", "ready", "failed", "blocked"}
              /\ Kept(Stored[t]).status = "failed" => attempts[t] # <<>>
              /\ Kept(Stored[t]).handoffs <= Len(Stored[t].handoffs)
         /\ Kept(Stored[t]) = None <=>
              Stored[t].fixed = None /\ Stored[t].rollback = None
         /\ t \notin recalled /\ Kept(Stored[t]) # None =>
              /\ basis[t] # None
              /\ Kept(Stored[t]).fixed = FixedAs(basis[t])
              /\ Kept(Stored[t]).owner = basis[t].shown.owner
              /\ Kept(Stored[t]).size = basis[t].shown.size
<1> DEFINE q == Stored[t]
           n == Len(q.handoffs)
           k == [fixed |-> q.fixed, owner |-> q.owner, worker |-> q.worker,
                 size |-> q.size, status |-> q.status, handoffs |-> n]
<1>1. /\ q \in Task /\ Named(q)
      /\ q.status \in {"pending", "ready", "failed", "blocked"}
  BY StoredTypes DEF IInv
<1>2. /\ GoodHistory(q, attempts[t])
      /\ t \notin recalled => GoodBasis(q, basis[t])
  BY GoodStored
<1>3. n \in Nat
  <2>1. q.handoffs \in Seq([to : Owners, at : 1..MaxTime])
    BY <1>1 DEF Task
  <2> QED
    BY <2>1, LenProperties
<1>4. Kept(q) = IF q.rollback # None \/ q.fixed = None THEN q.rollback ELSE k
  BY DEF Kept
<1> HIDE DEF q
<1>5. CASE q.rollback # None \/ q.fixed = None
  <2>1. Kept(q) = q.rollback
    BY <1>4, <1>5
  <2>2. q.rollback # None => q.fixed = None
    BY <1>2 DEF GoodHistory
  <2> QED
    BY <1>1, <1>2, <1>5, <2>1, <2>2 DEF q, GoodHistory, GoodBasis, Task
<1>6. CASE q.rollback = None /\ q.fixed # None
  <2>1. Kept(q) = k
    BY <1>4, <1>6
  <2> HIDE DEF n
  <2>2. /\ q.owner \in Owners /\ q.worker \in Workers /\ q.size \in Sizes
        /\ q.fixed \in Fixed /\ q.status \in Statuses
    BY <1>1, <1>6 DEF Task, Named
  <2>3. k \in Rollback
    BY <1>3, <2>2 DEF Rollback
  <2>4. k # None
    BY <2>3, NoneAssumption
  <2>5. /\ k.status = q.status /\ k.handoffs = n /\ k.fixed = q.fixed
        /\ k.owner = q.owner /\ k.size = q.size
    OBVIOUS
  <2> HIDE DEF k
  <2>6. k.status = "failed" => attempts[t] # <<>>
    BY <1>2, <2>5 DEF GoodHistory
  <2>7. k.handoffs <= Len(q.handoffs)
    BY <1>3, <2>5 DEF n
  <2>8. t \notin recalled =>
          /\ basis[t] # None
          /\ k.fixed = FixedAs(basis[t])
          /\ k.owner = basis[t].shown.owner
          /\ k.size = basis[t].shown.size
    BY <1>2, <1>6, <2>5 DEF GoodBasis
  <2> QED
    BY <1>1, <1>6, <2>1, <2>3, <2>4, <2>5, <2>6, <2>7, <2>8 DEF q
<1> QED
  BY <1>5, <1>6

\* A task's approval is taken, with what it was kept.
LEMMA TakenKeeps ==
  ASSUME IInv, NEW t \in Tasks, Edit,
         task[t].status \in {"pending", "ready", "failed", "blocked"},
         NEW r, r \in Task, Named(r), r.status \in {"pending", "ready"},
         r.fixed = None, r.rollback = Kept(Stored[t]),
         r.created = Stored[t].created,
         Len(r.handoffs) >= Len(Stored[t].handoffs),
         Write(With(t, r), attempts, Reopened(plan), defaults),
         UNCHANGED <<run, gates, recalled, seenVars>>
  PROVE  IInv'
<1> DEFINE k == Kept(Stored[t])
<1>1. /\ k \in Rollback \cup {None}
      /\ k # None =>
           /\ k.status \in {"pending", "ready", "failed", "blocked"}
           /\ k.status = "failed" => attempts[t] # <<>>
           /\ k.handoffs <= Len(Stored[t].handoffs)
      /\ k = None <=> Stored[t].fixed = None /\ Stored[t].rollback = None
      /\ t \notin recalled /\ k # None =>
           /\ basis[t] # None
           /\ k.fixed = FixedAs(basis[t])
           /\ k.owner = basis[t].shown.owner
           /\ k.size = basis[t].shown.size
  BY KeptTypes
<1>2. /\ GoodHistory(Stored[t], attempts[t])
      /\ t \notin recalled => /\ GoodMarks(Stored[t], attempts[t], plan)
                            /\ GoodBasis(Stored[t], basis[t])
  BY GoodStored
<1>3. r.rollback = k
  OBVIOUS
<1> HIDE DEF k
<1>4. GoodHistory(r, attempts[t])
  <2>1. k # None => k.handoffs <= Len(r.handoffs)
    <3>1. /\ Len(r.handoffs) \in Nat /\ Len(Stored[t].handoffs) \in Nat
          /\ k # None => k.handoffs \in Nat
      <4>1. Stored[t] \in Task
        BY StoredTypes DEF IInv
      <4>2. /\ r.handoffs \in Seq([to : Owners, at : 1..MaxTime])
            /\ Stored[t].handoffs \in Seq([to : Owners, at : 1..MaxTime])
        BY <4>1 DEF Task
      <4>3. k # None => k.handoffs \in Nat
        BY <1>1 DEF Rollback
      <4> QED
        BY <4>2, <4>3, LenProperties
    <3> QED
      BY <1>1, <3>1
  <2> QED
    BY <1>1, <1>3, <2>1 DEF GoodHistory, Gone
<1>5. t \notin recalled => GoodMarks(r, attempts[t], Reopened(plan))
  <2>1. SUFFICES ASSUME t \notin recalled
                 PROVE  GoodMarks(r, attempts[t], Reopened(plan))
    OBVIOUS
  <2>2. GoodMarks(Stored[t], attempts[t], plan)
    BY <1>2, <2>1
  <2>3. /\ Reopened(plan).status = "pending"
        /\ plan.status = "pending" => Reopened(plan).requested = plan.requested
    BY ReopenedPlan
  <2>4. Stored[t].status \notin Gone
    BY StoredTypes DEF IInv, Gone
  <2>5. k = None => plan.status = "pending" /\ r.created >= plan.requested
    BY <1>1, <2>2, <2>4 DEF GoodMarks
  <2>6. attempts[t] # <<>> => k # None
    BY <1>1, <2>2 DEF GoodMarks
  <2> QED
    BY <1>3, <2>3, <2>5, <2>6 DEF GoodMarks
<1>6. t \notin recalled => GoodBasis(r, basis[t])
  <2>1. SUFFICES ASSUME t \notin recalled PROVE GoodBasis(r, basis[t])
    OBVIOUS
  <2>2. basis[t] # None => k # None
    BY <1>1, <1>2, <2>1 DEF GoodBasis
  <2> QED
    BY <1>1, <1>3, <2>1, <2>2 DEF GoodBasis
<1>7. run' \in RunStatuses
  BY StillTypes DEF IInv
<1> QED
  BY <1>4, <1>5, <1>6, <1>7, ReopenKeeps

LEMMA ReassignKeeps ==
  ASSUME IInv, NEW t \in Tasks, NEW route \in Routes, Reassign(t, route)
  PROVE  IInv'
<1> DEFINE q == Stored[t]
           k == Kept(q)
           status == ReadyOrPending(Stored, q.deps)
           h == Append(q.handoffs, [to |-> route[1], at |-> now'])
           r == [q EXCEPT !.rollback = k, !.owner = route[1], !.worker = route[2],
                          !.handoffs = h, !.fixed = None, !.status = status]
<1>1. /\ Edit /\ task[t].status \in {"pending", "ready", "failed", "blocked"}
      /\ Write(With(t, r), attempts, Reopened(plan), defaults)
      /\ UNCHANGED <<run, gates, recalled, seenVars>>
  BY DEF Reassign, Reassigned
<1>2. q \in Task /\ Named(q) /\ q.status = task[t].status
  BY StoredTypes DEF IInv
<1>3. route[1] \in Owners /\ route[2] \in Workers
  BY PlanAssumption
<1>4. status \in {"pending", "ready"}
  BY DEF ReadyOrPending
<1>5. k \in Rollback \cup {None}
  BY <1>1, KeptTypes
<1>6. /\ h \in Seq([to : Owners, at : 1..MaxTime])
      /\ Len(h) >= Len(q.handoffs)
  <2>1. now' \in 1..MaxTime
    BY <1>1, ReopenedPlan
  <2>2. [to |-> route[1], at |-> now'] \in [to : Owners, at : 1..MaxTime]
    BY <1>3, <2>1
  <2>3. q.handoffs \in Seq([to : Owners, at : 1..MaxTime])
    BY <1>2 DEF Task
  <2>4. /\ h \in Seq([to : Owners, at : 1..MaxTime])
        /\ Len(h) = Len(q.handoffs) + 1
    BY <2>2, <2>3, AppendProperties
  <2>5. Len(q.handoffs) \in Nat
    BY <2>3, LenProperties
  <2> QED
    BY <2>4, <2>5
<1> HIDE DEF k, status, h
<1>7. /\ r \in Task /\ r.status = status /\ r.owner = route[1]
      /\ r.worker = route[2] /\ r.words = q.words /\ r.size = q.size
      /\ r.fixed = None /\ r.rollback = k /\ r.created = q.created
      /\ r.handoffs = h
  BY <1>2, <1>3, <1>4, <1>5, <1>6 DEF Task, Statuses
<1> HIDE DEF r
<1>8. Named(r)
  BY <1>1, <1>2, <1>3, <1>7, PlanAssumption DEF Named
<1>9. /\ r.rollback = Kept(Stored[t]) /\ r.created = Stored[t].created
      /\ Len(r.handoffs) >= Len(Stored[t].handoffs)
  BY <1>6, <1>7 DEF k
<1> QED
  BY <1>1, <1>4, <1>7, <1>8, <1>9, TakenKeeps

LEMMA SetSizeKeeps ==
  ASSUME IInv, NEW t \in Tasks, NEW size \in Sizes, SetSize(t, size)
  PROVE  IInv'
<1> DEFINE q == Stored[t]
<1>1. /\ Edit /\ NotStarted(t)
      /\ UNCHANGED <<run, gates, recalled, seenVars>>
  BY DEF SetSize
<1>2. /\ q \in Task /\ Named(q) /\ q.status = task[t].status
      /\ task[t].status \in {"pending", "ready"} /\ attempts[t] = <<>>
  BY <1>1, StoredTypes DEF IInv, NotStarted
<1>3. CASE q.fixed = None
  <2> DEFINE r == [q EXCEPT !.size = size]
  <2>1. Write(With(t, r), attempts, plan, defaults)
    BY <1>3 DEF SetSize
  <2>2. /\ r \in Task /\ r.status = q.status /\ r.owner = q.owner
        /\ r.worker = q.worker /\ r.words = q.words /\ r.size = size
        /\ r.fixed = q.fixed /\ r.rollback = q.rollback
        /\ r.created = q.created /\ r.handoffs = q.handoffs
    BY <1>2 DEF Task
  <2> HIDE DEF r
  <2>3. Named(r) /\ Quiet(r, q)
    BY <1>2, <1>3, <2>2, PlanAssumption DEF Named, Quiet
  <2>4. Lived(t, r, attempts[t]) /\ Marked(t, r, attempts[t])
    BY <1>2, <2>2 DEF Lived, Marked, Gone
  <2>5. TypeOK /\ attempts \in [Tasks -> Seq(Attempt)]
    BY DEF IInv, TypeOK
  <2>6. /\ run' \in RunStatuses /\ gates' \subseteq Tasks
        /\ recalled \subseteq recalled' /\ recalled' \subseteq Tasks
        /\ now' \in now..MaxTime /\ edits' \in 0..MaxEdits
        /\ card' = card /\ message' = message /\ basis' = basis
    BY <1>1, <2>5, StillTypes, EditTypes DEF seenVars
  <2> QED
    BY <2>1, <2>2, <2>3, <2>4, <2>5, <2>6, OneQuietStep
<1>4. CASE q.fixed # None
  <2> DEFINE k == Kept(q)
             r == [q EXCEPT !.rollback = k, !.size = size, !.fixed = None]
  <2>1. Write(With(t, r), attempts, Reopened(plan), defaults)
    BY <1>4 DEF SetSize
  <2>2. k \in Rollback \cup {None}
    BY <1>2, KeptTypes
  <2>3. Len(q.handoffs) \in Nat
    <3>1. q.handoffs \in Seq([to : Owners, at : 1..MaxTime])
      BY <1>2 DEF Task
    <3> QED
      BY <3>1, LenProperties
  <2> HIDE DEF k
  <2>4. /\ r \in Task /\ r.status = q.status /\ r.owner = q.owner
        /\ r.worker = q.worker /\ r.words = q.words /\ r.size = size
        /\ r.fixed = None /\ r.rollback = k
        /\ r.created = q.created /\ r.handoffs = q.handoffs
    BY <1>2, <2>2 DEF Task
  <2> HIDE DEF r
  <2>5. Named(r)
    BY <1>2, <2>4, PlanAssumption DEF Named
  <2>6. /\ r.rollback = Kept(Stored[t]) /\ r.created = Stored[t].created
        /\ r.status \in {"pending", "ready"}
        /\ Len(r.handoffs) >= Len(Stored[t].handoffs)
    BY <1>2, <2>3, <2>4 DEF k
  <2> QED
    BY <1>1, <1>2, <2>1, <2>4, <2>5, <2>6, TakenKeeps
<1> QED
  BY <1>3, <1>4

---------------------------------------------------------------------------
(* Decisions *)

\* The tasks a decision is about are those the waiting plan's scope has.
LEMMA AskedIsScope ==
  ASSUME IInv, plan.status = "pending", NEW t \in Tasks \ recalled, t \in Asked
  PROVE  /\ t \in DOMAIN plan.scope.tasks
         /\ plan.scope.tasks[t] = Shown(task[t])
         /\ plan.scope.defaults = defaults
<1>1. Stored[t] = task[t]
  BY StoredIsTask
<1>2. t \in Awaiting(task, attempts)
  BY <1>1 DEF Asked, Awaiting
<1>3. plan.scope = Scope(task, attempts, defaults)
  BY DEF IInv, ScopeInv
<1> QED
  BY <1>2, <1>3 DEF Scope

\* A task that is not asked about has been approved, or is gone.
LEMMA NotAsked ==
  ASSUME IInv, NEW t \in Tasks \ recalled, t \notin Asked,
         task[t].status \notin Gone
  PROVE  task[t].fixed # None
<1>1. Stored[t] = task[t]
  BY StoredIsTask
<1>2. SUFFICES ASSUME task[t].fixed = None PROVE FALSE
  OBVIOUS
<1>3. /\ task[t].rollback = None
      /\ task[t].status \in {"completed", "failed", "running"}
           \/ attempts[t] # <<>>
  BY <1>1, <1>2 DEF Asked, Awaiting
<1>4. attempts[t] # <<>>
  BY <1>3 DEF IInv, HistoryInv
<1> QED
  BY <1>2, <1>3, <1>4 DEF IInv, MarkInv

\* An approval by someone who saw the scope of the plan.
LEMMA ApproveKeeps ==
  ASSUME IInv, plan.status = "pending", NEW seen, seen = plan.scope,
         Approve(seen), card' = card,
         message' = message \/
           (message # NoMessage /\ message' = [message EXCEPT !.spent = TRUE])
  PROVE  IInv'
<1> DEFINE approved(t) == [Stored[t] EXCEPT !.fixed = InEffect(Stored[t]),
                                            !.rollback = None]
           T == [t \in Tasks |-> IF t \in Asked THEN approved(t) ELSE Stored[t]]
           n == now
           p == [plan EXCEPT !.status = "approved", !.consent = n]
<1>1. /\ Write(T, attempts, p, defaults)
      /\ basis' = [t \in Tasks |->
           IF t \notin Asked THEN basis[t]
           ELSE IF t \in DOMAIN seen.tasks
                THEN [shown |-> seen.tasks[t], policy |-> seen.defaults]
           ELSE None]
      /\ UNCHANGED <<run, gates, now, edits, recalled>>
  BY DEF Approve
<1>2. /\ TypeOK /\ plan \in Plans /\ defaults \in Policies
      /\ now \in 1..MaxTime /\ plan.requested <= now
  BY DEF IInv, TypeOK, ScopeInv
<1>3. /\ p \in Plans /\ p.status = "approved" /\ p.revision = plan.revision
      /\ p.scope = plan.scope /\ p.requested = plan.requested
  <2>1. n \in 0..MaxTime
    BY <1>2, PlanAssumption
  <2> HIDE DEF n
  <2> QED
    BY <1>2, <2>1 DEF Plans
<1> HIDE DEF p
<1>4. ASSUME NEW t \in Tasks, t \in Asked
      PROVE  /\ approved(t) \in Task /\ Named(approved(t))
             /\ InEffect(Stored[t]) \in Fixed
             /\ InEffect(Stored[t]) =
                  [owner |-> task[t].owner, worker |-> task[t].worker,
                   policy |-> defaults]
             /\ approved(t).fixed = InEffect(Stored[t])
             /\ approved(t).rollback = None
             /\ approved(t).status = task[t].status
             /\ approved(t).owner = task[t].owner
             /\ approved(t).size = task[t].size
  <2>1. /\ Stored[t] \in Task /\ Named(Stored[t])
        /\ Stored[t].status = task[t].status /\ Stored[t].owner = task[t].owner
        /\ Stored[t].size = task[t].size /\ Stored[t].worker = task[t].worker
    BY <1>2, StoredTypes
  <2>2. Stored[t].status # "absent"
    BY <1>4 DEF Asked, Awaiting, Gone
  <2> DEFINE f == InEffect(Stored[t])
  <2>3. /\ f \in Fixed
        /\ f = [owner |-> task[t].owner, worker |-> task[t].worker,
                policy |-> defaults]
    <3>1. Stored[t].owner \in Owners /\ Stored[t].worker \in Workers
      BY <2>1, <2>2 DEF Named, Task
    <3> QED
      BY <1>2, <2>1, <3>1 DEF InEffect, Fixed
  <2> HIDE DEF f
  <2>4. /\ [Stored[t] EXCEPT !.fixed = f, !.rollback = None] \in Task
        /\ [Stored[t] EXCEPT !.fixed = f, !.rollback = None].fixed = f
        /\ [Stored[t] EXCEPT !.fixed = f, !.rollback = None].rollback = None
        /\ [Stored[t] EXCEPT !.fixed = f, !.rollback = None].status
             = task[t].status
        /\ [Stored[t] EXCEPT !.fixed = f, !.rollback = None].owner
             = task[t].owner
        /\ [Stored[t] EXCEPT !.fixed = f, !.rollback = None].size
             = task[t].size
        /\ Named([Stored[t] EXCEPT !.fixed = f, !.rollback = None])
    BY <2>1, <2>3 DEF Task, Named
  <2> QED
    BY <2>3, <2>4 DEF f
<1>5. ASSUME NEW t \in Tasks
      PROVE  T[t] = IF t \in Asked THEN approved(t) ELSE Stored[t]
  OBVIOUS
<1>6. T \in [Tasks -> Task] /\ \A t \in Tasks : Named(T[t])
  <2> HIDE DEF approved
  <2>1. ASSUME NEW t \in Tasks PROVE T[t] \in Task /\ Named(T[t])
    BY <1>2, <1>4, <1>5, StoredTypes
  <2> QED
    BY <2>1
<1>7. Tables(T, attempts)
  BY <1>2, <1>6 DEF Tables, TypeOK
<1>8. ASSUME NEW t \in Tasks
      PROVE  GoodHistory(T[t], attempts[t])
  <2> HIDE DEF approved, T
  <2>1. CASE t \in Asked
    BY <1>4, <1>5, <2>1 DEF IInv, HistoryInv, GoodHistory
  <2>2. CASE t \notin Asked
    BY <1>5, <2>2, GoodStored
  <2> QED
    BY <2>1, <2>2
<1>9. ASSUME NEW t \in Tasks \ recalled
      PROVE  GoodMarks(T[t], attempts[t], p) /\ GoodBasis(T[t], basis'[t])
  <2> HIDE DEF approved, T
  <2>1. CASE t \in Asked
    <3>1. /\ t \in DOMAIN plan.scope.tasks
          /\ plan.scope.tasks[t] = Shown(task[t])
          /\ plan.scope.defaults = defaults
      BY <2>1, AskedIsScope
    <3>2. basis'[t] = [shown |-> Shown(task[t]), policy |-> defaults]
      BY <1>1, <2>1, <3>1
    <3>3. basis'[t] # None
      <4>1. Shown(task[t]) \in Shape
        <5>1. task[t] \in Task /\ Named(task[t]) /\ task[t].status # "absent"
          BY <1>2, <2>1, StoredTypes DEF TypeOK, Asked, Awaiting, Gone
        <5> QED
          BY <5>1 DEF Shown, Shape, Task, Named
      <4>2. basis'[t] \in Seen
        BY <1>2, <3>2, <4>1 DEF Seen
      <4> QED
        BY <4>2, NoneAssumption
    <3>4. /\ T[t].fixed = FixedAs(basis'[t]) /\ T[t].fixed # None
          /\ T[t].rollback = None
          /\ T[t].owner = basis'[t].shown.owner
          /\ T[t].size = basis'[t].shown.size
      BY <1>4, <1>5, <2>1, <3>2, NoneAssumption DEF FixedAs, Shown
    <3>5. T[t].status # "absent"
      BY <1>4, <1>5, <2>1, <1>2, StoredTypes DEF Asked, Awaiting, Gone
    <3> QED
      BY <3>3, <3>4, <3>5 DEF GoodMarks, GoodBasis
  <2>2. CASE t \notin Asked
    <3>1. T[t] = task[t] /\ basis'[t] = basis[t]
      BY <1>1, <1>5, <2>2, StoredIsTask
    <3>2. task[t].status \notin Gone => task[t].fixed # None
      BY <2>2, NotAsked
    <3> QED
      BY <3>1, <3>2, GoodTasks DEF GoodMarks
  <2> QED
    BY <2>1, <2>2
<1>10. basis' \in [Tasks -> Seen \cup {None}]
  <2>1. ASSUME NEW t \in Tasks, t \in DOMAIN seen.tasks
        PROVE  [shown |-> seen.tasks[t], policy |-> seen.defaults] \in Seen
    <3>1. seen \in Scopes
      BY <1>2 DEF Plans
    <3>2. PICK S \in SUBSET Tasks : seen.tasks \in [S -> Shape]
      BY <3>1 DEF Scopes
    <3>3. seen.tasks[t] \in Shape
      BY <2>1, <3>2
    <3>4. seen.defaults \in Policies
      BY <3>1 DEF Scopes
    <3> QED
      BY <3>3, <3>4 DEF Seen
  <2>2. \A t \in Tasks : basis[t] \in Seen \cup {None}
    BY <1>2 DEF TypeOK
  <2> QED
    BY <1>1, <2>1, <2>2
<1>11. /\ run' \in RunStatuses /\ gates' \subseteq Tasks /\ recalled' = recalled
       /\ now' \in 1..MaxTime /\ p.requested <= now' /\ edits' \in 0..MaxEdits
  BY <1>1, <1>2, <1>3, StillTypes
<1> HIDE DEF T
<1> QED
  BY <1>1, <1>2, <1>3, <1>7, <1>8, <1>9, <1>10, <1>11, GoodStep

\* The card that may be pressed, and the message that may be handed on, are of
\* the scope that is decided about.
LEMMA PressedSaw ==
  ASSUME IInv, Pressed
  PROVE  plan.status = "pending" /\ card.read = plan.scope
BY DEF IInv, ScopeInv, Pressed, Decidable

LEMMA MessageSaw ==
  ASSUME IInv, Decidable(message.revision)
  PROVE  /\ plan.status = "pending" /\ message.scope = plan.scope
         /\ message # NoMessage
<1>1. plan.status = "pending" /\ message.revision = plan.revision
  BY DEF Decidable
<1>2. plan.revision # 0
  BY DEF IInv, TypeOK, Plans
<1> QED
  BY <1>1, <1>2 DEF IInv, ScopeInv, NoMessage

LEMMA ApproveOnCardKeeps ==
  ASSUME IInv, ApproveOnCard
  PROVE  IInv'
<1>1. Pressed /\ Approve(card.read) /\ card' = card /\ message' = message
  BY DEF ApproveOnCard
<1>2. plan.status = "pending" /\ card.read = plan.scope
  BY <1>1, PressedSaw
<1> QED
  BY <1>1, <1>2, ApproveKeeps

LEMMA ApproveInChatKeeps ==
  ASSUME IInv, ApproveInChat
  PROVE  IInv'
<1>1. /\ Decidable(message.revision) /\ Approve(message.scope)
      /\ message' = [message EXCEPT !.spent = TRUE] /\ card' = card
  BY DEF ApproveInChat
<1>2. /\ plan.status = "pending" /\ message.scope = plan.scope
      /\ message # NoMessage
  BY <1>1, MessageSaw
<1> QED
  BY <1>1, <1>2, ApproveKeeps

\* A task whose approval is restored.
LEMMA RestoredTypes ==
  ASSUME IInv, NEW t \in Tasks, Stored[t].rollback # None,
         Stored[t].status # "absent"
  PROVE  /\ Restored(Stored[t]) \in Task /\ Named(Restored(Stored[t]))
         /\ Restored(Stored[t]).status = Stored[t].rollback.status
         /\ Restored(Stored[t]).owner = Stored[t].rollback.owner
         /\ Restored(Stored[t]).size = Stored[t].rollback.size
         /\ Restored(Stored[t]).fixed = Stored[t].rollback.fixed
         /\ Restored(Stored[t]).fixed # None
         /\ Restored(Stored[t]).rollback = None
<1> DEFINE q == Stored[t]
           b == q.rollback
           h == SubSeq(q.handoffs, 1, b.handoffs)
           r == [q EXCEPT !.fixed = b.fixed, !.owner = b.owner,
                          !.worker = b.worker, !.size = b.size,
                          !.status = b.status, !.handoffs = h,
                          !.rollback = None]
<1>1. q \in Task /\ Named(q) /\ q.status # "absent"
  BY StoredTypes DEF IInv
<1>2. b \in Rollback /\ b.handoffs <= Len(q.handoffs)
  <2>1. GoodHistory(q, attempts[t])
    BY GoodStored
  <2> QED
    BY <1>1, <2>1 DEF Task, GoodHistory
<1>3. b.status \in {"pending", "ready", "failed", "blocked"}
  <2>1. GoodHistory(q, attempts[t])
    BY GoodStored
  <2> QED
    BY <2>1 DEF GoodHistory
<1>4. h \in Seq([to : Owners, at : 1..MaxTime])
  <2>1. /\ q.handoffs \in Seq([to : Owners, at : 1..MaxTime])
        /\ b.handoffs \in Nat
    BY <1>1, <1>2 DEF Task, Rollback
  <2>2. Len(q.handoffs) \in Nat
    BY <2>1, LenProperties
  <2>3. ASSUME NEW i \in 1..b.handoffs
        PROVE  q.handoffs[i] \in [to : Owners, at : 1..MaxTime]
    <3>1. i \in 1..Len(q.handoffs)
      BY <1>2, <2>1, <2>2
    <3> QED
      BY <2>1, <3>1, ElementOfSeq
  <2> QED
    BY <2>1, <2>3, SubSeqProperties
<1>5. /\ b.fixed \in Fixed /\ b.owner \in Owners /\ b.worker \in Workers
      /\ b.size \in Sizes /\ b.status \in Statuses
  BY <1>2 DEF Rollback
<1>6. Restored(q) = r
  BY DEF Restored
<1> HIDE DEF b, h, q
<1>7. /\ r \in Task /\ r.status = b.status /\ r.owner = b.owner
      /\ r.worker = b.worker /\ r.words = q.words /\ r.size = b.size
      /\ r.fixed = b.fixed /\ r.rollback = None
  BY <1>1, <1>4, <1>5 DEF Task
<1> HIDE DEF r
<1>8. Named(r)
  BY <1>1, <1>5, <1>7, PlanAssumption DEF Named
<1>9. r.fixed # None
  BY <1>5, <1>7, NoneAssumption
<1> QED
  BY <1>6, <1>7, <1>8, <1>9 DEF q, b

\* Each task as a rejection leaves it.
RejectedTasks == [t \in Tasks |-> IF t \in Asked THEN Rejected(t) ELSE Stored[t]]

LEMMA RejectedGood ==
  ASSUME IInv, plan.status = "pending", NEW t \in Tasks,
         NEW p, p.status = "rejected"
  PROVE  /\ RejectedTasks[t] \in Task /\ Named(RejectedTasks[t])
         /\ GoodHistory(RejectedTasks[t], attempts[t])
         /\ t \notin recalled =>
              /\ GoodMarks(RejectedTasks[t], attempts[t], p)
              /\ GoodBasis(RejectedTasks[t], basis[t])
         /\ RejectedTasks[t].status = "absent" <=> Stored[t].status = "absent"
<1> DEFINE q == Stored[t]
           r == RejectedTasks[t]
<1>1. /\ q \in Task /\ Named(q)
      /\ GoodHistory(q, attempts[t])
      /\ t \notin recalled => /\ GoodMarks(q, attempts[t], plan)
                            /\ GoodBasis(q, basis[t])
  BY StoredTypes, GoodStored DEF IInv
<1>2. r = IF t \in Asked THEN Rejected(t) ELSE q
  BY DEF RejectedTasks
<1>3. CASE t \notin Asked
  <2>1. r = q
    BY <1>2, <1>3
  <2>2. t \notin recalled => GoodMarks(q, attempts[t], p)
    <3>1. SUFFICES ASSUME t \notin recalled PROVE GoodMarks(q, attempts[t], p)
      OBVIOUS
    <3>2. q = task[t]
      BY <3>1, StoredIsTask
    <3>3. q.status \notin Gone => q.fixed # None
      BY <1>3, <3>1, <3>2, NotAsked
    <3> QED
      BY <1>1, <3>1, <3>3 DEF GoodMarks
  <2> QED
    BY <1>1, <2>1, <2>2
<1>4. CASE t \in Asked /\ q.rollback # None
  <2>1. r = Restored(q)
    BY <1>2, <1>4 DEF Rejected
  <2>2. q.status # "absent"
    BY <1>4 DEF Asked, Awaiting, Gone
  <2>3. /\ r \in Task /\ Named(r) /\ r.status = q.rollback.status
        /\ r.owner = q.rollback.owner /\ r.size = q.rollback.size
        /\ r.fixed = q.rollback.fixed /\ r.fixed # None /\ r.rollback = None
    BY <1>4, <2>1, <2>2, RestoredTypes
  <2>4. /\ r.status \in {"pending", "ready", "failed", "blocked"}
        /\ r.status = "failed" => attempts[t] # <<>>
    BY <1>1, <1>4, <2>3 DEF GoodHistory
  <2>5. GoodHistory(r, attempts[t])
    BY <2>3, <2>4 DEF GoodHistory, Gone
  <2>6. GoodMarks(r, attempts[t], p)
    BY <2>3 DEF GoodMarks
  <2>7. t \notin recalled => GoodBasis(r, basis[t])
    BY <1>1, <1>4, <2>3, <2>4 DEF GoodBasis
  <2> HIDE DEF r
  <2> QED
    BY <2>2, <2>3, <2>4, <2>5, <2>6, <2>7 DEF r
<1>5. CASE t \in Asked /\ q.rollback = None
  <2> DEFINE c == [q EXCEPT !.status = "cancelled"]
  <2>1. q.status \notin Gone /\ q.fixed = None
    BY <1>5 DEF Asked, Awaiting
  <2>2. /\ q.status \notin {"completed", "failed", "running"}
        /\ attempts[t] = <<>>
    BY <1>5, <2>1 DEF Asked, Awaiting
  <2>3. r = c
    BY <1>2, <1>5, <2>2 DEF Rejected
  <2>4. /\ c \in Task /\ c.status = "cancelled" /\ c.fixed = None
        /\ c.rollback = None /\ c.owner = q.owner /\ c.worker = q.worker
        /\ c.words = q.words /\ c.size = q.size
    BY <1>1, <1>5, <2>1 DEF Task, Statuses
  <2> HIDE DEF c
  <2>5. Named(c)
    BY <1>1, <2>1, <2>4 DEF Named, Gone
  <2>6. GoodHistory(c, attempts[t])
    BY <2>2, <2>4 DEF GoodHistory, Gone
  <2>7. GoodMarks(c, attempts[t], p)
    BY <2>2, <2>4 DEF GoodMarks, Gone
  <2>8. t \notin recalled => GoodBasis(c, basis[t])
    BY <1>1, <1>5, <2>1, <2>4 DEF GoodBasis
  <2> HIDE DEF r
  <2> QED
    BY <2>1, <2>3, <2>4, <2>5, <2>6, <2>7, <2>8 DEF r, Gone
<1> QED
  BY <1>3, <1>4, <1>5

LEMMA MakeReadyGood ==
  ASSUME NEW T, NEW A, Tables(T, A), NEW t \in Tasks, NEW b, NEW p
  PROVE  /\ MakeReady(T)[t] \in Task /\ Named(MakeReady(T)[t])
         /\ GoodHistory(T[t], A[t]) => GoodHistory(MakeReady(T)[t], A[t])
         /\ GoodMarks(T[t], A[t], p) => GoodMarks(MakeReady(T)[t], A[t], p)
         /\ GoodBasis(T[t], b) => GoodBasis(MakeReady(T)[t], b)
<1>1. T[t] \in Task /\ Named(T[t])
  BY DEF Tables
<1>2. CASE MakeReady(T)[t] = T[t]
  BY <1>1, <1>2
<1>3. CASE /\ T[t].status = "pending"
           /\ MakeReady(T)[t] = [T[t] EXCEPT !.status = "ready"]
  <2> DEFINE r == [T[t] EXCEPT !.status = "ready"]
  <2>1. /\ r \in Task /\ r.status = "ready" /\ r.owner = T[t].owner
        /\ r.worker = T[t].worker /\ r.words = T[t].words
        /\ r.size = T[t].size /\ r.fixed = T[t].fixed
        /\ r.rollback = T[t].rollback /\ r.created = T[t].created
        /\ r.handoffs = T[t].handoffs
    BY <1>1 DEF Task, Statuses
  <2> HIDE DEF r
  <2>2. MakeReady(T)[t] = r
    BY <1>3 DEF r
  <2>3. Named(r)
    BY <1>1, <1>3, <2>1 DEF Named
  <2>4. GoodHistory(T[t], A[t]) => GoodHistory(r, A[t])
    BY <1>3, <2>1 DEF GoodHistory, Gone
  <2>5. GoodMarks(T[t], A[t], p) => GoodMarks(r, A[t], p)
    BY <1>3, <2>1 DEF GoodMarks, Gone
  <2>6. GoodBasis(T[t], b) => GoodBasis(r, b)
    BY <1>3, <2>1 DEF GoodBasis
  <2> QED
    BY <2>1, <2>2, <2>3, <2>4, <2>5, <2>6
<1>4. \/ MakeReady(T)[t] = T[t]
      \/ /\ T[t].status = "pending"
         /\ MakeReady(T)[t] = [T[t] EXCEPT !.status = "ready"]
  BY DEF MakeReady
<1> QED
  BY <1>2, <1>3, <1>4

\* A task nothing was begun of, as the end of the run leaves it.
LEMMA StoppedGood ==
  ASSUME NEW T, NEW A, Tables(T, A), NEW t \in Tasks, A[t] = <<>>,
         GoodHistory(T[t], A[t]), NEW b, NEW p
  PROVE  /\ StopTasks(T)[t] \in Task /\ Named(StopTasks(T)[t])
         /\ StopTasks(T)[t].status \in Gone
         /\ GoodHistory(StopTasks(T)[t], A[t])
         /\ GoodMarks(StopTasks(T)[t], A[t], p)
         /\ GoodBasis(T[t], b) => GoodBasis(StopTasks(T)[t], b)
<1>1. /\ T[t] \in Task /\ Named(T[t])
      /\ T[t].status \notin {"completed", "failed", "running"}
  BY DEF Tables, GoodHistory
<1>2. CASE T[t].status = "absent"
  <2>1. StopTasks(T)[t] = T[t]
    BY <1>2 DEF StopTasks
  <2> QED
    BY <1>1, <1>2, <2>1 DEF GoodMarks, Gone
<1>3. CASE T[t].status # "absent"
  <2> DEFINE r == [T[t] EXCEPT !.status = "cancelled"]
  <2>1. StopTasks(T)[t] = r
    BY <1>1, <1>3 DEF StopTasks
  <2>2. /\ r \in Task /\ r.status = "cancelled" /\ r.owner = T[t].owner
        /\ r.worker = T[t].worker /\ r.words = T[t].words
        /\ r.size = T[t].size /\ r.fixed = T[t].fixed
        /\ r.rollback = T[t].rollback /\ r.created = T[t].created
        /\ r.handoffs = T[t].handoffs
    BY <1>1 DEF Task, Statuses
  <2> HIDE DEF r
  <2>3. Named(r) /\ r.status \in Gone
    BY <1>1, <1>3, <2>2 DEF Named, Gone
  <2>4. GoodHistory(r, A[t])
    BY <2>2 DEF GoodHistory, Gone
  <2>5. GoodMarks(r, A[t], p)
    BY <2>2 DEF GoodMarks, Gone
  <2>6. GoodBasis(T[t], b) => GoodBasis(r, b)
    BY <2>2 DEF GoodBasis
  <2> QED
    BY <2>1, <2>2, <2>3, <2>4, <2>5, <2>6
<1> QED
  BY <1>2, <1>3

LEMMA StopAttemptsNone ==
  ASSUME TypeOK, \A t \in Tasks : attempts[t] = <<>>
  PROVE  StopAttempts = attempts
<1>1. ASSUME NEW t \in Tasks PROVE StopAttempts[t] = attempts[t]
  <2>1. DOMAIN attempts[t] = {}
    OBVIOUS
  <2>2. StopAttempts[t] = [i \in {} |-> [attempts[t][i] EXCEPT
          !.status = IF @ \in {"running", "blocked"} THEN "cancelled" ELSE @,
          !.due = FALSE]]
    BY <2>1 DEF StopAttempts
  <2>3. StopAttempts[t] = <<>>
    BY <2>2
  <2> QED
    BY <2>3
<1>2. attempts \in [Tasks -> Seq(Attempt)]
  BY DEF TypeOK
<1> QED
  BY <1>1, <1>2 DEF StopAttempts

LEMMA RejectKeeps ==
  ASSUME IInv, RejectOnCard
  PROVE  IInv'
<1> DEFINE p == [plan EXCEPT !.status = "rejected"]
           T == RejectedTasks
<1>1. /\ Pressed
      /\ IF FirstPlan
         THEN /\ Write(StopTasks(T), StopAttempts, p, defaults)
              /\ gates' = {}
              /\ run' = "stopped"
         ELSE /\ Write(MakeReady(T), attempts, p, defaults)
              /\ run' = Recomputed(task', gates)
              /\ UNCHANGED gates
      /\ UNCHANGED <<now, edits, recalled, seenVars>>
  BY DEF RejectOnCard, RejectedTasks
<1>2. /\ TypeOK /\ plan \in Plans /\ defaults \in Policies
      /\ now \in 1..MaxTime /\ plan.requested <= now
      /\ plan.status = "pending"
  BY <1>1, PressedSaw DEF IInv, TypeOK, ScopeInv
<1>3. /\ p \in Plans /\ p.status = "rejected" /\ p.revision = plan.revision
      /\ p.scope = plan.scope /\ p.requested = plan.requested
  BY <1>2 DEF Plans
<1> HIDE DEF p
<1>4. ASSUME NEW t \in Tasks
      PROVE  /\ T[t] \in Task /\ Named(T[t])
             /\ GoodHistory(T[t], attempts[t])
             /\ t \notin recalled =>
                  GoodMarks(T[t], attempts[t], p) /\ GoodBasis(T[t], basis[t])
  BY <1>2, <1>3, RejectedGood
<1>5. Tables(T, attempts)
  <2>1. T = [t \in Tasks |-> T[t]]
    BY DEF RejectedTasks
  <2> HIDE DEF T
  <2>2. T \in [Tasks -> Task]
    BY <1>4, <2>1
  <2> QED
    BY <1>2, <1>4, <2>2 DEF Tables, TypeOK
<1>6. /\ recalled' = recalled /\ basis' = basis
      /\ basis' \in [Tasks -> Seen \cup {None}]
      /\ now' \in 1..MaxTime /\ p.requested <= now' /\ edits' \in 0..MaxEdits
      /\ card' = card /\ message' = message
  BY <1>1, <1>2, <1>3, StillTypes DEF seenVars, TypeOK
<1> HIDE DEF T
<1>7. CASE FirstPlan
  <2>1. /\ Write(StopTasks(T), StopAttempts, p, defaults)
        /\ gates' = {} /\ run' = "stopped"
    BY <1>1, <1>7
  <2>2. \A t \in Tasks : attempts[t] = <<>>
    BY <1>7 DEF FirstPlan
  <2>3. StopAttempts = attempts
    BY <1>2, <2>2, StopAttemptsNone
  <2>4. ASSUME NEW t \in Tasks
        PROVE  /\ StopTasks(T)[t] \in Task /\ Named(StopTasks(T)[t])
               /\ GoodHistory(StopTasks(T)[t], attempts[t])
               /\ t \notin recalled =>
                    /\ GoodMarks(StopTasks(T)[t], attempts[t], p)
                    /\ GoodBasis(StopTasks(T)[t], basis[t])
    BY <1>4, <1>5, <2>2, StoppedGood
  <2>5. Tables(StopTasks(T), attempts)
    <3>1. StopTasks(T) = [t \in Tasks |-> StopTasks(T)[t]]
      BY DEF StopTasks
    <3>2. StopTasks(T) \in [Tasks -> Task]
      BY <2>4, <3>1
    <3> QED
      BY <1>5, <2>4, <3>2 DEF Tables
  <2>6. run' \in RunStatuses /\ gates' \subseteq Tasks
    BY <2>1 DEF RunStatuses
  <2> QED
    BY <1>2, <1>3, <1>6, <2>1, <2>3, <2>4, <2>5, <2>6, GoodStep
<1>8. CASE ~FirstPlan
  <2>1. /\ Write(MakeReady(T), attempts, p, defaults)
        /\ run' = Recomputed(task', gates) /\ gates' = gates
    BY <1>1, <1>8
  <2>2. ASSUME NEW t \in Tasks
        PROVE  /\ MakeReady(T)[t] \in Task /\ Named(MakeReady(T)[t])
               /\ GoodHistory(MakeReady(T)[t], attempts[t])
               /\ t \notin recalled =>
                    /\ GoodMarks(MakeReady(T)[t], attempts[t], p)
                    /\ GoodBasis(MakeReady(T)[t], basis[t])
    BY <1>4, <1>5, MakeReadyGood
  <2>3. Tables(MakeReady(T), attempts)
    <3>1. MakeReady(T) = [t \in Tasks |-> MakeReady(T)[t]]
      BY DEF MakeReady
    <3>2. MakeReady(T) \in [Tasks -> Task]
      BY <2>2, <3>1
    <3> QED
      BY <1>5, <2>2, <3>2 DEF Tables
  <2>4. run' \in RunStatuses /\ gates' \subseteq Tasks
    BY <1>2, <2>1, RecomputedRun DEF TypeOK
  <2> QED
    BY <1>2, <1>3, <1>6, <2>1, <2>2, <2>3, <2>4, GoodStep
<1> QED
  BY <1>7, <1>8

---------------------------------------------------------------------------
(* What is on screen *)

LEMMA ScreenKeeps ==
  ASSUME IInv, OpenCard \/ RedrawCard \/ CardSettles \/ CloseCard \/ SendMessage
  PROVE  IInv'
<1>1. UNCHANGED ledgerVars
  BY DEF OpenCard, RedrawCard, CardSettles, CloseCard, SendMessage
<1>2. HistoryInv' /\ MarkInv' /\ BasisInv'
  BY <1>1 DEF ledgerVars, IInv, HistoryInv, MarkInv, BasisInv
<1>3. /\ plan' = plan /\ task' = task /\ attempts' = attempts
      /\ defaults' = defaults /\ now' = now
  BY <1>1 DEF ledgerVars
<1>4. plan'.status = "pending" => plan'.scope = Scope(task', attempts', defaults')
  BY <1>3 DEF IInv, ScopeInv
<1>5. plan'.requested <= now'
  BY <1>3 DEF IInv, ScopeInv
<1>6. /\ plan.revision \in 1..plan.revision /\ plan.scope \in Scopes
      /\ plan.revision # 0
  BY DEF IInv, TypeOK, Plans
<1>7. /\ card' = NoCard \/ card' \in [revision : 1..plan.revision,
           scope : Scopes, settled : BOOLEAN, read : Scopes]
      /\ message' = NoMessage \/ message' \in [revision : 1..plan.revision,
           scope : Scopes, spent : BOOLEAN]
      /\ card'.revision = plan.revision => card'.scope = plan.scope
      /\ card'.settled => card'.read = card'.scope
      /\ message'.revision = plan.revision => message'.scope = plan.scope
  <2>0. /\ card = NoCard \/ card \in [revision : 1..plan.revision,
             scope : Scopes, settled : BOOLEAN, read : Scopes]
        /\ message = NoMessage \/ message \in [revision : 1..plan.revision,
             scope : Scopes, spent : BOOLEAN]
        /\ card.revision = plan.revision => card.scope = plan.scope
        /\ card.settled => card.read = card.scope
        /\ message.revision = plan.revision => message.scope = plan.scope
    BY DEF IInv, TypeOK, ScopeInv
  <2>1. CASE OpenCard
    BY <1>6, <2>0, <2>1 DEF OpenCard
  <2>2. CASE RedrawCard
    BY <1>6, <2>0, <2>2 DEF RedrawCard
  <2>3. CASE CardSettles
    BY <2>0, <2>3 DEF CardSettles
  <2>4. CASE CloseCard
    BY <1>6, <2>0, <2>4 DEF CloseCard, NoCard
  <2>5. CASE SendMessage
    BY <2>0, <2>5 DEF SendMessage
  <2> QED
    BY <2>1, <2>2, <2>3, <2>4, <2>5
<1>8. ScopeInv'
  BY <1>3, <1>4, <1>5, <1>7 DEF ScopeInv
<1>9. TypeOK'
  BY <1>1, <1>7 DEF ledgerVars, IInv, TypeOK, NoCard, NoMessage, Scopes, Plans,
     Task, Attempt, Seen, Named
<1> QED
  BY <1>2, <1>8, <1>9 DEF IInv

---------------------------------------------------------------------------
(* The invariant *)

LEMMA InitInv == Init => IInv
<1> SUFFICES ASSUME Init PROVE IInv
  OBVIOUS
<1> DEFINE none == [t \in {} |-> None]
<1>1. /\ run = "planning" /\ defaults \in Policies
      /\ plan = [status |-> "pending", revision |-> 1, requested |-> 1,
                 consent |-> 0, scope |-> [tasks |-> none, defaults |-> defaults]]
      /\ task = [t \in Tasks |-> NoTask] /\ attempts = [t \in Tasks |-> <<>>]
      /\ gates = {} /\ now = 1 /\ card = NoCard /\ message = NoMessage
      /\ edits = 0 /\ basis = [t \in Tasks |-> None] /\ recalled = {}
  BY DEF Init
<1>2. /\ NoTask \in Task /\ Named(NoTask) /\ NoTask.fixed = None
      /\ NoTask.rollback = None /\ NoTask.status = "absent"
  <2>1. <<>> \in Seq([to : Owners, at : 1..MaxTime])
    BY EmptySeq
  <2>2. 0 \in 0..MaxTime
    BY PlanAssumption
  <2> QED
    BY <2>1, <2>2 DEF NoTask, Task, Statuses, Named
<1>3. Awaiting(task, attempts) = {}
  BY <1>1, <1>2 DEF Awaiting, Gone
<1>4. none = [t \in Awaiting(task, attempts) |-> Shown(task[t])]
  BY <1>3
<1>5. plan.scope = Scope(task, attempts, defaults)
  BY <1>1, <1>4 DEF Scope
<1>6. plan \in Plans
  <2>1. Tables(task, attempts)
    <3>1. attempts \in [Tasks -> Seq(Attempt)]
      BY <1>1, EmptySeq
    <3> QED
      BY <1>1, <1>2, <3>1 DEF Tables
  <2>2. plan.scope \in Scopes
    BY <1>1, <1>5, <2>1, ScopeTypes
  <2> HIDE DEF none
  <2>3. [tasks |-> none, defaults |-> defaults] \in Scopes
    BY <1>1, <2>2
  <2>4. 1 \in 1..MaxTime /\ 0 \in 0..MaxTime /\ 1 \in Nat \ {0}
    BY PlanAssumption
  <2> QED
    BY <1>1, <2>3, <2>4 DEF Plans
<1>7. TypeOK
  <2>1. task \in [Tasks -> Task] /\ \A t \in Tasks : Named(task[t])
    BY <1>1, <1>2
  <2>2. attempts \in [Tasks -> Seq(Attempt)]
    BY <1>1, EmptySeq
  <2>3. now \in 1..MaxTime /\ edits \in 0..MaxEdits
    BY <1>1, PlanAssumption
  <2> QED
    BY <1>1, <1>6, <2>1, <2>2, <2>3 DEF TypeOK
<1>8. HistoryInv /\ MarkInv /\ BasisInv
  BY <1>1, <1>2 DEF HistoryInv, MarkInv, BasisInv, Gone
<1>9. ScopeInv
  BY <1>1, <1>5 DEF ScopeInv, NoCard, NoMessage
<1> QED
  BY <1>7, <1>8, <1>9 DEF IInv

LEMMA NextInv == IInv /\ [Next]_vars => IInv'
<1> SUFFICES ASSUME IInv, [Next]_vars PROVE IInv'
  OBVIOUS
<1>1. CASE UNCHANGED vars
  BY <1>1 DEF vars, IInv, TypeOK, HistoryInv, MarkInv, BasisInv, ScopeInv,
     Scope, Awaiting, Shown
<1>2. ASSUME NEW t \in Tasks, Changes(t) PROVE IInv'
  BY <1>2, CreateTaskKeeps, RevisesKeep, ReassignKeeps, WithdrawKeeps,
     SetSizeKeeps, SetAccessKeeps DEF Changes
<1>3. ASSUME NEW t \in Tasks, Runs(t) PROVE IInv'
  BY <1>3, StartKeeps, StartFromPageKeeps, RecoverKeeps, ReportKeeps,
     FailKeeps, AskGateKeeps, ResolveGateKeeps DEF Runs, StartByLead
<1>4. ASSUME NEW policy \in Policies, Configure(policy) PROVE IInv'
  BY <1>4, ConfigureKeeps
<1>5. CASE Decides
  BY <1>5, ApproveOnCardKeeps, ApproveInChatKeeps, RejectKeeps DEF Decides
<1>6. CASE Looks
  BY <1>6, ScreenKeeps DEF Looks
<1> QED
  BY <1>1, <1>2, <1>3, <1>4, <1>5, <1>6 DEF Next

\* The invariant that the properties of the approval rest on.
THEOREM Invariance == Spec => []IInv
BY InitInv, NextInv, PTL DEF Spec

\* Every write of the ledger keeps its tasks, attempts and plan well-formed,
\* and the card and the message show revisions that were there.
THEOREM TypeCorrect == Spec => []TypeOK
<1>1. IInv => TypeOK
  BY DEF IInv
<1> QED
  BY <1>1, Invariance, PTL

\* While nothing is asked of the person, nothing that could still start is
\* without their approval.
THEOREM SlipsBy == Spec => []NothingSlipsBy
<1>1. IInv => NothingSlipsBy
  BY DEF IInv, MarkInv, NothingSlipsBy
<1> QED
  BY <1>1, Invariance, PTL

---------------------------------------------------------------------------
(* What a step may do *)

LEMMA LatestLength ==
  ASSUME TypeOK, NEW t \in Tasks, NEW u \in Tasks, attempts[t] # <<>>,
         NEW status, NEW due \in BOOLEAN,
         status \in {"running", "blocked", "failed", "completed", "cancelled"}
  PROVE  Len(Latest(t, status, due)[u]) = Len(attempts[u])
<1>1. CASE u = t
  BY <1>1, LatestTypes
<1>2. CASE u # t
  BY <1>2, LatestTypes
<1> QED
  BY <1>1, <1>2

\* A task gets another attempt by a start only.
LEMMA LongerIsStarted ==
  ASSUME IInv, Next, NEW t \in Tasks, Len(attempts'[t]) > Len(attempts[t])
  PROVE  \E worker \in Workers : Start(t, worker)
<1>1. /\ TypeOK
      /\ Len(attempts[t]) \in Nat
  <2>1. attempts[t] \in Seq(Attempt)
    BY DEF IInv, TypeOK
  <2> QED
    BY <2>1, LenProperties DEF IInv
<1>2. attempts' # attempts
  BY <1>1
<1>3. ASSUME NEW u \in Tasks, NEW worker \in Workers, Start(u, worker)
      PROVE  \E w \in Workers : Start(t, w)
  <2>1. CASE u = t
    BY <1>3, <2>1
  <2>2. CASE u # t
    <3>1. attempts' = [attempts EXCEPT ![u] = Begun(u, worker)]
      BY <1>3 DEF Start, Write
    <3>2. attempts'[t] = attempts[t]
      BY <1>1, <2>2, <3>1 DEF TypeOK
    <3> QED
      BY <1>1, <3>2
  <2> QED
    BY <2>1, <2>2
<1>4. ASSUME NEW u \in Tasks, Changes(u) PROVE FALSE
  BY <1>2, <1>4 DEF Changes, CreateTask, Revise, Reassign, Withdraw, SetSize,
     SetAccess, Write
<1>5. ASSUME NEW u \in Tasks, NEW quota \in BOOLEAN, Recover(u, quota)
      PROVE  \E w \in Workers : Start(t, w)
  <2> DEFINE worker == IF quota THEN Canonical(u) ELSE Last(attempts[u]).worker
  <2>1. CASE Accepted(u, worker)
    <3>1. Start(u, worker)
      BY <1>5, <2>1 DEF Recover
    <3>2. CASE u = t
      <4>1. task[u].status # "absent"
        BY <2>1 DEF Accepted, Gone
      <4>2. Canonical(u) \in Workers
        <5>1. Stored[u] \in Task /\ task[u] \in Task /\ Named(task[u])
          BY <1>1, StoredTypes DEF TypeOK
        <5>2. Stored[u].fixed # None => Stored[u].fixed.worker \in Workers
          BY <5>1 DEF Task, Fixed
        <5>3. task[u].worker \in Workers
          BY <4>1, <5>1 DEF Task, Named
        <5> QED
          BY <5>2, <5>3 DEF Canonical
      <4>3. Last(attempts[u]).worker \in Workers
        <5>1. attempts[u] \in Seq(Attempt) /\ attempts[u] # <<>>
          BY <1>1, <1>5 DEF TypeOK, Recover
        <5>2. Len(attempts[u]) \in Nat \ {0}
          BY <5>1, EmptySeq
        <5>3. attempts[u][Len(attempts[u])] \in Attempt
          BY <5>1, <5>2, ElementOfSeq
        <5> QED
          BY <5>3 DEF Last, Attempt
      <4> QED
        BY <3>1, <3>2, <4>2, <4>3
    <3>3. CASE u # t
      <4>1. attempts' = [attempts EXCEPT ![u] = Begun(u, worker)]
        BY <3>1 DEF Start, Write
      <4>2. attempts'[t] = attempts[t]
        BY <1>1, <3>3, <4>1 DEF TypeOK
      <4> QED
        BY <1>1, <4>2
    <3> QED
      BY <3>2, <3>3
  <2>2. CASE ~Accepted(u, worker)
    <3>1. attempts' = Latest(u, "failed", FALSE) /\ attempts[u] # <<>>
      BY <1>5, <2>2 DEF Recover, Write
    <3>2. Len(attempts'[t]) = Len(attempts[t])
      BY <1>1, <3>1, LatestLength
    <3> QED
      BY <1>1, <3>2
  <2> QED
    BY <2>1, <2>2
<1>6. ASSUME NEW u \in Tasks, Runs(u)
      PROVE  \E w \in Workers : Start(t, w)
  <2>1. ASSUME NEW worker \in Workers, StartByLead(u, worker)
        PROVE  \E w \in Workers : Start(t, w)
    BY <1>3, <2>1 DEF StartByLead
  <2>2. ASSUME NEW i, StartFromPage(u, i)
        PROVE  \E w \in Workers : Start(t, w)
    BY <1>3, <2>2, AttemptWorker DEF StartFromPage
  <2>3. ASSUME NEW outcome \in {"completed", "failed", "blocked"},
               Report(u, outcome)
        PROVE  FALSE
    <3>1. attempts' = Latest(u, outcome, FALSE) /\ attempts[u] # <<>>
      BY <2>3 DEF Report, Working, Write
    <3>2. Len(attempts'[t]) = Len(attempts[t])
      BY <1>1, <3>1, LatestLength
    <3> QED
      BY <1>1, <3>2
  <2>4. ASSUME NEW retryable \in BOOLEAN, Fail(u, retryable)
        PROVE  FALSE
    <3> DEFINE due == retryable /\ u \notin gates
    <3>1. attempts' = Latest(u, "failed", due) /\ attempts[u] # <<>>
      BY <2>4 DEF Fail, Unsettled, Write
    <3>2. due \in BOOLEAN
      OBVIOUS
    <3> HIDE DEF due
    <3>3. Len(attempts'[t]) = Len(attempts[t])
      BY <1>1, <3>1, <3>2, LatestLength
    <3> QED
      BY <1>1, <3>3
  <2>5. ASSUME AskGate(u) PROVE FALSE
    <3>1. attempts' = Latest(u, "blocked", FALSE) /\ attempts[u] # <<>>
      BY <1>2, <2>5 DEF AskGate, Write
    <3>2. Len(attempts'[t]) = Len(attempts[t])
      BY <1>1, <3>1, LatestLength
    <3> QED
      BY <1>1, <3>2
  <2>6. ASSUME ResolveGate(u) PROVE FALSE
    <3>1. attempts' = Latest(u, "running", FALSE) /\ attempts[u] # <<>>
      BY <1>2, <2>6 DEF ResolveGate, Write
    <3>2. Len(attempts'[t]) = Len(attempts[t])
      BY <1>1, <3>1, LatestLength
    <3> QED
      BY <1>1, <3>2
  <2> QED
    BY <1>5, <1>6, <2>1, <2>2, <2>3, <2>4, <2>5, <2>6 DEF Runs
<1>7. ASSUME NEW policy \in Policies, Configure(policy) PROVE FALSE
  BY <1>2, <1>7 DEF Configure, Write
<1>8. ASSUME Decides PROVE FALSE
  <2>1. CASE RejectOnCard
    <3>1. FirstPlan /\ attempts' = StopAttempts
      BY <1>2, <2>1 DEF RejectOnCard, Write
    <3>2. StopAttempts = attempts
      BY <1>1, <3>1, StopAttemptsNone DEF FirstPlan
    <3> QED
      BY <1>2, <3>1, <3>2
  <2>2. CASE ApproveOnCard \/ ApproveInChat
    BY <1>2, <2>2 DEF ApproveOnCard, ApproveInChat, Approve, Write
  <2> QED
    BY <1>8, <2>1, <2>2 DEF Decides
<1>9. ASSUME Looks PROVE FALSE
  BY <1>2, <1>9 DEF Looks, OpenCard, RedrawCard, CardSettles, CloseCard,
     SendMessage, ledgerVars
<1> QED
  BY <1>4, <1>6, <1>7, <1>8, <1>9 DEF Next

\* A task starts only as what the person had seen of it when they approved it.
THEOREM StartedAsApproved == Spec => StartsAsApproved
<1>1. ASSUME IInv, Next, NEW t \in Tasks \ recalled,
             Len(attempts'[t]) > Len(attempts[t])
      PROVE  /\ basis[t] # None
             /\ FixedAs(basis[t]) = [owner |-> Last(attempts'[t]).owner,
                                    worker |-> Last(attempts'[t]).worker,
                                    policy |-> Last(attempts'[t]).policy]
  <2>1. PICK worker \in Workers : Start(t, worker)
    BY <1>1, LongerIsStarted
  <2>2. Accepted(t, worker) /\ task[t].status \notin Gone
    BY <2>1 DEF Start, Accepted
  <2>3. /\ Stored[t] = task[t] /\ task[t].fixed # None
        /\ task[t].fixed.worker = worker
        /\ task[t].fixed.owner = task[t].owner
    BY <1>1, <2>2, AcceptedIsApproved
  <2>4. basis[t] # None /\ task[t].fixed = FixedAs(basis[t])
    BY <1>1, <2>3 DEF IInv, BasisInv
  <2>5. attempts'[t] = Begun(t, worker)
    <3>1. attempts' = [attempts EXCEPT ![t] = Begun(t, worker)]
      BY <2>1 DEF Start, Write
    <3>2. t \in DOMAIN attempts
      BY <1>1 DEF IInv, TypeOK
    <3> QED
      BY <3>1, <3>2
  <2>6. /\ Last(Begun(t, worker)).owner = task[t].owner
        /\ Last(Begun(t, worker)).worker = worker
        /\ Last(Begun(t, worker)).policy = task[t].fixed.policy
    BY <1>1, <2>2, <2>3, BegunTypes
  <2>7. task[t].fixed = [owner |-> task[t].fixed.owner,
                         worker |-> task[t].fixed.worker,
                         policy |-> task[t].fixed.policy]
    BY <2>4 DEF FixedAs
  <2> QED
    BY <2>3, <2>4, <2>5, <2>6, <2>7
<1>2. IInv /\ [Next]_vars =>
        [\A t \in Tasks \ recalled :
           Len(attempts'[t]) > Len(attempts[t]) =>
             LET start == Last(attempts'[t])
             IN  /\ basis[t] # None
                 /\ FixedAs(basis[t]) = [owner |-> start.owner,
                                        worker |-> start.worker,
                                        policy |-> start.policy]]_vars
  BY <1>1
<1> QED
  BY <1>2, Invariance, PTL DEF Spec, StartsAsApproved

\* A write over one task that gives it no approval gives none.
LEMMA WithFixed ==
  ASSUME IInv, NEW u \in Tasks, NEW r, r.fixed \in {Stored[u].fixed, None},
         NEW t \in Tasks \ recalled, task[t].fixed = None
  PROVE  With(u, r)[t].fixed = None
<1>1. Stored[t] = task[t]
  BY StoredIsTask
<1>2. Stored \in [Tasks -> Task]
  BY StoredTypes DEF IInv
<1> QED
  BY <1>1, <1>2 DEF With

\* A task is approved by a decision only.
LEMMA FixedIsDecided ==
  ASSUME IInv, Next, NEW t \in Tasks \ recalled,
         task[t].fixed = None, task'[t].fixed # None
  PROVE  Decides
<1>1. /\ Stored \in [Tasks -> Task] /\ Stored[t] = task[t]
      /\ \A u \in Tasks : Stored[u] \in Task
  BY StoredTypes, StoredIsTask DEF IInv
<1>2. ASSUME NEW u \in Tasks, Changes(u) PROVE FALSE
  <2>1. ASSUME NEW route, NEW brief, NEW deps, CreateTask(u, route, brief, deps)
        PROVE  FALSE
    <3> DEFINE r == [NoTask EXCEPT
              !.status = ReadyOrPending(Stored, deps),
              !.owner = route[1], !.worker = route[2], !.words = brief[1],
              !.size = brief[2], !.deps = deps, !.created = now']
    <3>1. task' = With(u, r)
      BY <2>1 DEF CreateTask, Write
    <3>2. r.fixed = None
      BY DEF NoTask
    <3> HIDE DEF r
    <3> QED
      BY <3>1, <3>2, WithFixed
  <2>2. ASSUME NEW route, NEW brief, NEW deps, Revise(u, route, brief, deps)
        PROVE  FALSE
    <3> DEFINE r == [Stored[u] EXCEPT
              !.owner = route[1], !.worker = route[2], !.words = brief[1],
              !.size = brief[2], !.deps = deps,
              !.status = ReadyOrPending(Stored, deps)]
    <3>1. task' = With(u, r)
      BY <2>2 DEF Revise, Write
    <3>2. r.fixed = Stored[u].fixed
      BY <1>1 DEF Task
    <3> HIDE DEF r
    <3> QED
      BY <3>1, <3>2, WithFixed
  <2>3. ASSUME NEW route, Reassign(u, route) PROVE FALSE
    <3>1. task' = With(u, Reassigned(Stored[u], route))
      BY <2>3 DEF Reassign, Write
    <3>2. Reassigned(Stored[u], route).fixed = None
      BY <1>1 DEF Reassigned, Task
    <3> QED
      BY <3>1, <3>2, WithFixed
  <2>4. ASSUME Withdraw(u) PROVE FALSE
    <3> DEFINE r == [Stored[u] EXCEPT !.status = "cancelled"]
    <3>1. task' = With(u, r)
      BY <2>4 DEF Withdraw, Write
    <3>2. r.fixed = Stored[u].fixed
      BY <1>1 DEF Task
    <3> HIDE DEF r
    <3> QED
      BY <3>1, <3>2, WithFixed
  <2>5. ASSUME NEW size, SetSize(u, size) PROVE FALSE
    <3>1. CASE Stored[u].fixed = None
      <4> DEFINE r == [Stored[u] EXCEPT !.size = size]
      <4>1. task' = With(u, r)
        BY <2>5, <3>1 DEF SetSize, Write
      <4>2. r.fixed = Stored[u].fixed
        BY <1>1 DEF Task
      <4> HIDE DEF r
      <4> QED
        BY <4>1, <4>2, WithFixed
    <3>2. CASE Stored[u].fixed # None
      <4> DEFINE r == [Stored[u] EXCEPT !.rollback = Kept(Stored[u]),
                                        !.size = size, !.fixed = None]
      <4>1. task' = With(u, r)
        BY <2>5, <3>2 DEF SetSize, Write
      <4>2. r.fixed = None
        BY <1>1 DEF Task
      <4> HIDE DEF r
      <4> QED
        BY <4>1, <4>2, WithFixed
    <3> QED
      BY <3>1, <3>2
  <2>6. ASSUME NEW worker, SetAccess(u, worker) PROVE FALSE
    <3> DEFINE r == [Stored[u] EXCEPT !.worker = worker]
    <3>1. task' = With(u, r)
      BY <2>6 DEF SetAccess, Write
    <3>2. r.fixed = Stored[u].fixed
      BY <1>1 DEF Task
    <3> HIDE DEF r
    <3> QED
      BY <3>1, <3>2, WithFixed
  <2> QED
    BY <1>2, <2>1, <2>2, <2>3, <2>4, <2>5, <2>6 DEF Changes
<1>3. ASSUME NEW u \in Tasks, NEW status, task' = With(u, [Stored[u] EXCEPT !.status = status])
      PROVE  FALSE
  <2> DEFINE r == [Stored[u] EXCEPT !.status = status]
  <2>1. r.fixed = Stored[u].fixed
    BY <1>1 DEF Task
  <2>2. task' = With(u, r)
    BY <1>3
  <2> HIDE DEF r
  <2> QED
    BY <2>1, <2>2, WithFixed
<1>4. ASSUME NEW u \in Tasks, NEW worker, Start(u, worker) PROVE FALSE
  <2> DEFINE r == [Stored[u] EXCEPT !.status = "running", !.worker = worker]
  <2>1. r.fixed = Stored[u].fixed
    BY <1>1 DEF Task
  <2>2. task' = With(u, r)
    BY <1>4 DEF Start, Write
  <2> HIDE DEF r
  <2> QED
    BY <2>1, <2>2, WithFixed
<1>5. ASSUME NEW u \in Tasks, NEW quota, Recover(u, quota) PROVE FALSE
  <2> DEFINE worker == IF quota THEN Canonical(u) ELSE Last(attempts[u]).worker
  <2>1. CASE Accepted(u, worker)
    <3>1. Start(u, worker)
      BY <1>5, <2>1 DEF Recover
    <3> HIDE DEF worker
    <3> QED
      BY <1>4, <3>1
  <2>2. CASE ~Accepted(u, worker)
    <3>1. task' = With(u, [Stored[u] EXCEPT !.status = "failed"])
      BY <1>5, <2>2 DEF Recover, Write
    <3> QED
      BY <1>3, <3>1
  <2> QED
    BY <2>1, <2>2
<1>6. ASSUME NEW u \in Tasks, NEW outcome \in Statuses, Report(u, outcome)
      PROVE  FALSE
  <2> DEFINE r == [Stored[u] EXCEPT !.status = outcome]
             T == With(u, r)
  <2>1. task' = MakeReady(T)
    BY <1>6 DEF Report, Write
  <2>2. r \in Task /\ r.fixed = Stored[u].fixed
    <3>1. Stored[u] \in Task /\ outcome \in Statuses
      BY <1>1, <1>6
    <3> QED
      BY <3>1 DEF Task
  <2> HIDE DEF r
  <2>3. T[t].fixed = None
    BY <2>2, WithFixed
  <2>4. T[t] \in Task
    BY <1>1, <2>2 DEF With
  <2> HIDE DEF T
  <2>5. task'[t].fixed = T[t].fixed
    BY <2>1, <2>4 DEF MakeReady, Task
  <2> QED
    BY <2>3, <2>5
<1>7. ASSUME NEW u \in Tasks, Runs(u) PROVE FALSE
  <2>1. ASSUME NEW outcome \in {"completed", "failed", "blocked"},
               Report(u, outcome)
        PROVE  FALSE
    BY <1>6, <2>1 DEF Statuses
  <2>2. ASSUME NEW retryable, Fail(u, retryable) PROVE FALSE
    <3> DEFINE status == IF retryable /\ u \notin gates
                         THEN "blocked" ELSE "failed"
    <3>1. task' = With(u, [Stored[u] EXCEPT !.status = status])
      BY <2>2 DEF Fail, Write
    <3> HIDE DEF status
    <3> QED
      BY <1>3, <3>1
  <2>3. ASSUME AskGate(u) PROVE FALSE
    <3>1. task' = With(u, [Stored[u] EXCEPT !.status = "blocked"])
      BY <2>3 DEF AskGate, Write
    <3> QED
      BY <1>3, <3>1
  <2>4. ASSUME ResolveGate(u) PROVE FALSE
    <3> DEFINE status == IF Stored[u].status # "blocked" THEN Stored[u].status
                         ELSE IF attempts[u] # <<>> THEN "running" ELSE "ready"
    <3>1. task' = With(u, [Stored[u] EXCEPT !.status = status])
      BY <2>4 DEF ResolveGate, Write
    <3> HIDE DEF status
    <3> QED
      BY <1>3, <3>1
  <2>5. ASSUME NEW worker, StartByLead(u, worker) PROVE FALSE
    BY <1>4, <2>5 DEF StartByLead
  <2>6. ASSUME NEW i, StartFromPage(u, i) PROVE FALSE
    BY <1>4, <2>6 DEF StartFromPage
  <2> QED
    BY <1>5, <1>7, <2>1, <2>2, <2>3, <2>4, <2>5, <2>6 DEF Runs
<1>8. ASSUME NEW policy, Configure(policy) PROVE FALSE
  BY <1>1, <1>8 DEF Configure, Write
<1>9. ASSUME Looks PROVE FALSE
  BY <1>9 DEF Looks, OpenCard, RedrawCard, CardSettles, CloseCard,
     SendMessage, ledgerVars
<1> QED
  BY <1>2, <1>7, <1>8, <1>9 DEF Next

\* What becomes approved is what the person had in front of them.
THEOREM ApprovedAsSeen == Spec => ApprovedWasSeen
<1>1. ASSUME IInv, IInv', Next, NEW t \in Tasks \ recalled,
             task[t].fixed = None, task'[t].fixed # None
      PROVE  /\ basis'[t] # None
             /\ task'[t].fixed = FixedAs(basis'[t])
             /\ plan'.status = "approved" => Shown(task'[t]) = basis'[t].shown
  <2>1. Decides
    BY <1>1, FixedIsDecided
  <2>2. recalled' = recalled
    BY <2>1 DEF Decides, ApproveOnCard, ApproveInChat, Approve, RejectOnCard
  <2>3. basis'[t] # None /\ task'[t].fixed = FixedAs(basis'[t])
    BY <1>1, <2>2 DEF IInv, BasisInv, FixedAs
  <2>4. ASSUME NEW seen, plan.status = "pending", seen = plan.scope, Approve(seen)
        PROVE  Shown(task'[t]) = basis'[t].shown
    <3> DEFINE r == [Stored[t] EXCEPT !.fixed = InEffect(Stored[t]),
                                      !.rollback = None]
    <3>1. /\ task'[t] = IF t \in Asked THEN r ELSE Stored[t]
          /\ basis' = [u \in Tasks |->
               IF u \notin Asked THEN basis[u]
               ELSE IF u \in DOMAIN seen.tasks
                    THEN [shown |-> seen.tasks[u], policy |-> seen.defaults]
               ELSE None]
      BY <2>4 DEF Approve, Write
    <3>2. Stored[t] = task[t] /\ task[t] \in Task
      BY <1>1, StoredIsTask DEF IInv, TypeOK
    <3>3. t \in Asked
      BY <1>1, <3>1, <3>2
    <3>4. /\ r.owner = task[t].owner /\ r.worker = task[t].worker
          /\ r.words = task[t].words /\ r.size = task[t].size
          /\ r.deps = task[t].deps
      BY <3>2 DEF Task
    <3> HIDE DEF r
    <3>5. Shown(task'[t]) = Shown(task[t])
      BY <3>1, <3>3, <3>4 DEF Shown
    <3>6. t \in DOMAIN seen.tasks /\ seen.tasks[t] = Shown(task[t])
      BY <1>1, <2>4, <3>3, AskedIsScope
    <3>7. basis'[t] = [shown |-> Shown(task[t]), policy |-> seen.defaults]
      BY <3>1, <3>3, <3>6
    <3> QED
      BY <3>5, <3>7
  <2>5. ASSUME plan'.status = "approved" PROVE Shown(task'[t]) = basis'[t].shown
    <3>1. CASE ApproveOnCard
      BY <1>1, <2>4, <3>1, PressedSaw DEF ApproveOnCard
    <3>2. CASE ApproveInChat
      BY <1>1, <2>4, <3>2, MessageSaw DEF ApproveInChat
    <3>3. CASE RejectOnCard
      <4> DEFINE p == [plan EXCEPT !.status = "rejected"]
      <4>1. p.status = "rejected"
        BY <1>1 DEF IInv, TypeOK, Plans
      <4>2. \E T, A : plan' = Refreshed(p, T, A, defaults)
        BY <3>3 DEF RejectOnCard, Write
      <4> HIDE DEF p
      <4>3. plan' = p
        BY <4>1, <4>2 DEF Refreshed
      <4> QED
        BY <2>5, <4>1, <4>3
    <3> QED
      BY <2>1, <3>1, <3>2, <3>3 DEF Decides
  <2> QED
    BY <2>3, <2>5
<1>2. IInv /\ IInv' /\ [Next]_vars =>
        [\A t \in Tasks \ recalled :
           task[t].fixed = None /\ task'[t].fixed # None =>
             /\ basis'[t] # None
             /\ task'[t].fixed = FixedAs(basis'[t])
             /\ plan'.status = "approved" =>
                  Shown(task'[t]) = basis'[t].shown]_vars
  BY <1>1
<1> QED
  BY <1>2, Invariance, PTL DEF Spec, ApprovedWasSeen

\* A waiting plan is rejected by a rejection only.
LEMMA RejectedByPerson ==
  ASSUME IInv, Next, plan.status = "pending", plan'.status = "rejected"
  PROVE  RejectOnCard
<1>1. plan \in Plans
  BY DEF IInv, TypeOK
<1>2. ASSUME NEW T, NEW A, NEW d, Write(T, A, plan, d) PROVE FALSE
  <2>1. plan' = Refreshed(plan, T, A, d)
    BY <1>2 DEF Write
  <2>2. Refreshed(plan, T, A, d).status = plan.status
    BY <1>1 DEF Refreshed, Plans
  <2> QED
    BY <2>1, <2>2
<1>3. ASSUME NEW T, NEW A, NEW d, Write(T, A, Reopened(plan), d) PROVE FALSE
  <2>1. Reopened(plan) = plan
    BY DEF Reopened
  <2> QED
    BY <1>2, <1>3, <2>1
<1>4. ASSUME NEW u, Changes(u) PROVE FALSE
  BY <1>2, <1>3, <1>4 DEF Changes, CreateTask, Revise, Reassign, Withdraw,
     SetSize, SetAccess
<1>5. ASSUME NEW u, NEW worker, Start(u, worker) PROVE FALSE
  BY <1>2, <1>5 DEF Start
<1>6. ASSUME NEW u, Runs(u) PROVE FALSE
  <2>1. ASSUME NEW quota, Recover(u, quota) PROVE FALSE
    BY <1>2, <1>5, <2>1 DEF Recover
  <2> QED
    BY <1>2, <1>5, <1>6, <2>1 DEF Runs, StartByLead, StartFromPage, Report,
       Fail, AskGate, ResolveGate
<1>7. ASSUME NEW policy, Configure(policy) PROVE FALSE
  BY <1>2, <1>7 DEF Configure
<1>8. ASSUME NEW seen, Approve(seen) PROVE FALSE
  <2> DEFINE n == now
             p == [plan EXCEPT !.status = "approved", !.consent = n]
  <2>1. p.status = "approved"
    BY <1>1 DEF Plans
  <2>2. \E T : plan' = Refreshed(p, T, attempts, defaults)
    BY <1>8 DEF Approve, Write
  <2> HIDE DEF p
  <2>3. plan' = p
    BY <2>1, <2>2 DEF Refreshed
  <2> QED
    BY <2>1, <2>3
<1>9. ASSUME Looks PROVE FALSE
  BY <1>9 DEF Looks, OpenCard, RedrawCard, CardSettles, CloseCard,
     SendMessage, ledgerVars
<1> QED
  BY <1>4, <1>6, <1>7, <1>8, <1>9 DEF Next, Decides, ApproveOnCard,
     ApproveInChat

\* A rejection takes nothing back that the person had approved before.
THEOREM RejectedKeepsApproved == Spec => RejectKeepsApproved
<1>1. ASSUME IInv, IInv', Next, plan.status = "pending",
             plan'.status = "rejected", NEW t \in Tasks \ recalled,
             task[t].status \notin Gone, basis[t] # None
      PROVE  /\ task'[t].status # "cancelled"
             /\ task'[t].fixed = FixedAs(basis[t])
             /\ task'[t].owner = basis[t].shown.owner
             /\ task'[t].size = basis[t].shown.size
             /\ attempts'[t] = attempts[t]
  <2>1. RejectOnCard
    BY <1>1, RejectedByPerson
  <2>2. recalled' = recalled /\ basis' = basis
    BY <2>1 DEF RejectOnCard, seenVars
  <2>3. Stored[t] = task[t] /\ task[t] \in Task /\ Named(task[t])
    BY <1>1, StoredIsTask DEF IInv, TypeOK
  <2>4. task[t].fixed # None \/ task[t].rollback # None
    BY <1>1 DEF IInv, BasisInv
  <2>5. t \in Asked => task[t].rollback # None
    BY <2>3, <2>4 DEF Asked, Awaiting
  <2>6. t \notin Asked => task[t].fixed # None
    BY <1>1, NotAsked
  <2>7. ~FirstPlan
    <3>1. t \in Asked => ~FirstPlan
      BY <2>3, <2>5 DEF FirstPlan
    <3>2. t \notin Asked => ~FirstPlan
      BY <1>1, <2>3, <2>6 DEF FirstPlan, Gone
    <3> QED
      BY <3>1, <3>2
  <2>8. task' = MakeReady(RejectedTasks) /\ attempts' = attempts
    BY <2>1, <2>7 DEF RejectOnCard, Write, RejectedTasks
  <2>9. RejectedTasks[t] \in Task /\ RejectedTasks[t].status \notin Gone
    <3>1. RejectedTasks[t] \in Task
      BY <1>1, RejectedGood
    <3>2. CASE t \in Asked
      <4>1. RejectedTasks[t] = Restored(task[t])
        BY <2>3, <2>5, <3>2 DEF RejectedTasks, Rejected
      <4>2. Restored(task[t]).status = task[t].rollback.status
        BY <1>1, <2>3, <2>5, <3>2, RestoredTypes DEF Gone
      <4>3. task[t].rollback.status
              \in {"pending", "ready", "failed", "blocked"}
        BY <1>1, <2>5, <3>2 DEF IInv, HistoryInv
      <4> QED
        BY <3>1, <4>1, <4>2, <4>3 DEF Gone
    <3>3. CASE t \notin Asked
      BY <1>1, <2>3, <3>1, <3>3 DEF RejectedTasks
    <3> QED
      BY <3>2, <3>3
  <2>10. task'[t].status \notin Gone
    <3>1. task'[t].status \in {RejectedTasks[t].status, "ready"}
      BY <2>8, <2>9 DEF MakeReady, Task
    <3> QED
      BY <2>9, <3>1 DEF Gone
  <2>11. task'[t].fixed # None
    BY <1>1, <2>2, <2>10 DEF IInv, MarkInv, Gone
  <2>12. /\ task'[t].fixed = FixedAs(basis[t])
         /\ task'[t].owner = basis[t].shown.owner
         /\ task'[t].size = basis[t].shown.size
    BY <1>1, <2>2, <2>11 DEF IInv, BasisInv, FixedAs
  <2> QED
    BY <2>8, <2>10, <2>12 DEF Gone
<1>2. IInv /\ IInv' /\ [Next]_vars =>
        [plan.status = "pending" /\ plan'.status = "rejected" =>
           \A t \in Tasks \ recalled :
             task[t].status \notin Gone /\ basis[t] # None =>
               /\ task'[t].status # "cancelled"
               /\ task'[t].fixed = FixedAs(basis[t])
               /\ task'[t].owner = basis[t].shown.owner
               /\ task'[t].size = basis[t].shown.size
               /\ attempts'[t] = attempts[t]]_vars
  BY <1>1
<1> QED
  BY <1>2, Invariance, PTL DEF Spec, RejectKeepsApproved

===========================================================================
